---------------------------- MODULE VerifyProofs ----------------------------
(***************************************************************************)
(* Theorems about Verify, for any number of policies, any budget, any      *)
(* clock and any set of errors: what reaches sshd and the audit log; and   *)
(* why and when a run stops, that an interruption is real, that it comes   *)
(* at once, and that the denial of a complete evaluation is the one its    *)
(* verdicts call for.                                                      *)
(***************************************************************************)
EXTENDS Verify, TLAPS

-----------------------------------------------------------------------------
(* Types.  VerifyCarrier leaves a verdict on the policy it examined, and   *)
(* the loop examines none past trusted_issuers.size(); a line is only built *)
(* for one policy.                                                         *)

LoopInBounds ==
    /\ stage \in {"policy", "carrier"} => index <= policies
    /\ stage = "carrier" => verdict[index] \in Verdicts
    /\ stage \in {"line", "output"} => \E p \in Policies : successes = {p}

\* An exception that escapes run_main's own handler ends the process.
HandlersInBounds ==
    /\ stage # "exit" => handler \in 0 .. 2
    /\ handler # 0 => stage \in {"report", "exit"}
    /\ phase # "run" => stage \in Guarded

TypeInv == TypeOK /\ LoopInBounds /\ HandlersInBounds

LEMMA TypeInit == Init => TypeInv
  <1> SUFFICES ASSUME Init PROVE TypeInv
    OBVIOUS
  <1>1. Unknown \in Verdicts \cup {Unknown}
    OBVIOUS
  <1>2. verdict \in [Policies -> Verdicts \cup {Unknown}]
    BY <1>1 DEF Init
  <1>3. NoEvent \in Events
    BY BoundsAssumption DEF NoEvent, Events
  <1>4. stage \in Stages /\ phase \in {"clock", "flag", "run"}
    BY DEF Init, Stages, Guarded
  <1>5. log \in Seq(Events)
    BY DEF Init
  <1>6. /\ clock \in Nat /\ started \in Nat /\ budget \in 1 .. MaxBudget
        /\ policies \in 0 .. MaxPolicies /\ index \in 1 .. MaxPolicies + 1
        /\ handler \in 0 .. 3 /\ written \in Extent /\ delivered \in Extent
        /\ overrun \in Nat
    BY BoundsAssumption DEF Init, Extent
  <1>7. TypeOK
    BY <1>2, <1>3, <1>4, <1>5, <1>6 DEF Init, TypeOK
  <1> QED
    BY <1>7 DEF TypeInv, LoopInBounds, HandlersInBounds, Init

LEMMA EnterType ==
    ASSUME TypeInv, NEW s \in Guarded, Enter(s)
    PROVE  /\ stage' \in Stages /\ phase' \in {"clock", "flag", "run"}
           /\ event' \in Events
  BY DEF Enter, Stages, TypeInv, TypeOK

LEMMA FinishType ==
    ASSUME NEW e \in Events, Finish(e)
    PROVE  /\ stage' = "report" /\ stage' \in Stages
           /\ phase' = "run" /\ event' \in Events
  BY DEF Finish, Stages

LEMMA DenyType ==
    ASSUME TypeInv, NEW reason \in ErrorKinds, NEW policy \in 0 .. MaxPolicies,
           Deny(reason, policy)
    PROVE  /\ stage' = "report" /\ stage' \in Stages
           /\ phase' = "run" /\ event' \in Events
  <1>1. Denial(reason, policy) \in Events
    BY DEF Denial, Events, TypeInv, TypeOK
  <1> QED
    BY <1>1, FinishType DEF Deny

LEMMA AttributedPolicyType ==
    ASSUME TypeInv PROVE AttributedPolicy \in 0 .. MaxPolicies
  <1>1. ASSUME stage \in {"line", "output"}
        PROVE  Sole(successes) \in 0 .. MaxPolicies
    BY <1>1, BoundsAssumption DEF TypeInv, LoopInBounds, Sole, Policies
  <1>2. ASSUME stage = "carrier" PROVE index \in 0 .. MaxPolicies
    BY <1>2, BoundsAssumption DEF TypeInv, TypeOK, LoopInBounds
  <1> QED
    BY <1>1, <1>2, BoundsAssumption DEF AttributedPolicy

LEMMA ErrorKindsHold ==
    /\ ConfigErrors \subseteq ErrorKinds /\ KeyErrors \subseteq ErrorKinds
    /\ CarrierErrors \subseteq ErrorKinds
    /\ {"deadline_exceeded", "operation_cancelled", "internal_error",
        "malformed_input", "resource_limit", "issuer_untrusted"}
         \subseteq ErrorKinds
  BY DEF ErrorKinds

\* What every body needs to know of the two ways a stage may end.
LEMMA SelectionType ==
    ASSUME TypeInv
    PROVE  SelectionReason \in ErrorKinds /\ SelectionPolicy \in 0 .. MaxPolicies
  <1>1. SelectionReason \in ErrorKinds
    BY DEF SelectionReason, ErrorKinds, TypeInv, TypeOK
  <1>2. SelectionPolicy \in 0 .. MaxPolicies
    BY BoundsAssumption DEF SelectionPolicy, Sole, Policies
  <1> QED
    BY <1>1, <1>2

LEMMA TypeStep == TypeInv /\ [Next]_vars => TypeInv'
  <1> SUFFICES ASSUME TypeInv, [Next]_vars PROVE TypeInv'
    OBVIOUS
  <1> USE BoundsAssumption
  <1>1. CASE Tick
    BY <1>1 DEF Tick, TypeInv, TypeOK, LoopInBounds, HandlersInBounds, settings, findings,
                output, audit
  <1>2. CASE RequestCancellation
    BY <1>2 DEF RequestCancellation, TypeInv, TypeOK, LoopInBounds, HandlersInBounds,
                settings, findings, output, audit
  <1>3. CASE Kill
    BY <1>3 DEF Kill, TypeInv, TypeOK, LoopInBounds, HandlersInBounds, environment, settings,
                findings, output, audit
  <1>4. CASE Start
    <2>1. "arguments" \in Guarded
      BY DEF Guarded
    <2> QED
      BY <1>4, <2>1, EnterType
         DEF Start, Enter, At, TypeInv, TypeOK, LoopInBounds,
             HandlersInBounds, environment, findings, output, audit
  <1>5. CASE InstallFails \/ Throw
    <2>1. ExceptionEvent \in Events
      BY DEF ExceptionEvent, Events, ErrorKinds
    <2>2. stage' \in {"report", "exit"} /\ stage' \in Stages
      BY <1>5, <2>1, FinishType DEF InstallFails, Throw, Stages
    <2>3. phase' \in {"clock", "flag", "run"} /\ event' \in Events
      BY <1>5, <2>1, FinishType DEF InstallFails, Throw, TypeInv, TypeOK
    <2>4. handler' \in 0 .. 3 /\ HandlersInBounds'
      BY <1>5, <2>1, FinishType
         DEF InstallFails, Throw, TypeInv, TypeOK,
             HandlersInBounds, Guarded
    <2> QED
      BY <1>5, <2>2, <2>3, <2>4
         DEF InstallFails, Throw, TypeInv, TypeOK, LoopInBounds, HandlersInBounds, environment,
             settings, findings, output, audit
  <1>6. CASE ReadClock
    <2>1. ClockReason # "none" => ClockReason \in ErrorKinds
      BY DEF ClockReason, ErrorKinds
    <2>2. stage' \in Stages /\ phase' \in {"clock", "flag", "run"}
             /\ event' \in Events /\ stage' \in {stage, "report"}
      BY <1>6, <2>1, DenyType, AttributedPolicyType
         DEF ReadClock, TypeInv, TypeOK
    <2>3. stage \in Guarded /\ stage # "exit"
      BY <1>6 DEF ReadClock, TypeInv, HandlersInBounds, Guarded
    <2>4. phase' # "run" => stage' = stage
      BY <1>6 DEF ReadClock, Deny, Finish
    <2> QED
      BY <1>6, <2>2, <2>3, <2>4
         DEF ReadClock, TypeInv, TypeOK, LoopInBounds, HandlersInBounds,
             environment, settings, findings, output, audit
  <1>7. CASE ReadFlag
    <2>1. stage' \in Stages /\ phase' \in {"clock", "flag", "run"}
             /\ event' \in Events /\ stage' \in {stage, "report"}
      BY <1>7, DenyType, AttributedPolicyType, ErrorKindsHold
         DEF ReadFlag, TypeInv, TypeOK
    <2>2. stage \in Guarded /\ stage # "exit"
      BY <1>7 DEF ReadFlag, TypeInv, HandlersInBounds, Guarded
    <2>3. phase' = "run"
      BY <1>7 DEF ReadFlag, Deny, Finish
    <2> QED
      BY <1>7, <2>1, <2>2, <2>3
         DEF ReadFlag, TypeInv, TypeOK, LoopInBounds, HandlersInBounds,
             environment, settings, findings, output, audit
  <1>8. CASE ParseArguments \/ LoadConfiguration \/ DecodeOffered
    <2>1. stage' \in Stages /\ phase' \in {"clock", "flag", "run"}
             /\ event' \in Events
             /\ \/ stage' \in {"configuration", "offered", "decoded"}
                \/ stage' = "report" /\ phase' = "run"
      <3>1. {"configuration", "offered", "decoded"} \subseteq Guarded
        BY DEF Guarded
      <3> QED
        BY <1>8, <3>1, DenyType, EnterType, ErrorKindsHold
           DEF ParseArguments, LoadConfiguration, DecodeOffered, Enter
    <2>2. budget' \in 1 .. MaxBudget /\ policies' \in 0 .. MaxPolicies
             /\ facility' \in {"authpriv", "configured"}
      BY <1>8 DEF ParseArguments, LoadConfiguration, DecodeOffered, Budgets,
                  settings, TypeInv, TypeOK
    <2>3. overrun' \in Nat
      BY <1>8 DEF ParseArguments, LoadConfiguration, DecodeOffered, Count,
                  TypeInv, TypeOK
    <2>4. HandlersInBounds'
      BY <1>8, <2>1
         DEF ParseArguments, LoadConfiguration, DecodeOffered, At, Guarded,
             TypeInv, HandlersInBounds
    <2> QED
      BY <1>8, <2>1, <2>2, <2>3, <2>4
         DEF ParseArguments, LoadConfiguration, DecodeOffered, TypeInv,
             TypeOK, LoopInBounds, environment, settings, findings, output,
             audit
  <1>9. CASE BeginLoop \/ RecordResult
    <2>1. index' \in 1 .. MaxPolicies + 1
      BY <1>9 DEF BeginLoop, RecordResult, NextIndex, At, findings, TypeInv, TypeOK,
                  LoopInBounds
    <2>2. /\ stage' = IF index' <= policies' THEN "policy" ELSE "selection"
          /\ phase' = "clock" /\ event' = event
      BY <1>9 DEF BeginLoop, RecordResult, Loop, Enter, findings, settings
    <2>3. overrun' \in Nat
      BY <1>9 DEF BeginLoop, RecordResult, Count, TypeInv, TypeOK
    <2>4. successes' \in SUBSET Policies /\ authenticated' \in SUBSET Policies
      <3>1. CASE BeginLoop
        BY <3>1 DEF BeginLoop, findings, TypeInv, TypeOK
      <3>2. CASE RecordResult
        <4>1. index \in Policies
          BY <3>2 DEF RecordResult, At, TypeInv, TypeOK, LoopInBounds, Policies
        <4> QED
          BY <3>2, <4>1 DEF RecordResult, TypeInv, TypeOK
      <3> QED
        BY <1>9, <3>1, <3>2
    <2>5. firstError' \in CarrierErrors \cup {"none"}
      <3>1. CASE BeginLoop
        BY <3>1 DEF BeginLoop, findings, TypeInv, TypeOK
      <3>2. CASE RecordResult
        <4>1. verdict[index] \in Verdicts
          BY <3>2 DEF RecordResult, At, TypeInv, LoopInBounds
        <4> QED
          BY <3>2, <4>1 DEF RecordResult, KeepFirstError, Verdicts, TypeInv,
                            TypeOK
      <3> QED
        BY <1>9, <3>1, <3>2
    <2>6. stage' \in Stages /\ HandlersInBounds'
      BY <1>9, <2>2
         DEF BeginLoop, RecordResult, At, Stages, Guarded, TypeInv,
             HandlersInBounds
    <2> QED
      BY <1>9, <2>1, <2>2, <2>3, <2>4, <2>5, <2>6
         DEF BeginLoop, RecordResult, TypeInv, TypeOK, LoopInBounds,
             environment, settings, findings, output, audit
  <1>10. CASE VerifyCarrier
    <2>1. index \in Policies
      BY <1>10 DEF VerifyCarrier, At, TypeInv, TypeOK, LoopInBounds, Policies
    <2>2. /\ verdict' \in [Policies -> Verdicts \cup {Unknown}]
          /\ verdict'[index] \in Verdicts
      BY <1>10, <2>1 DEF VerifyCarrier, TypeInv, TypeOK
    <2>3. stage' = "carrier" /\ stage' \in Stages /\ phase' = "clock"
      BY <1>10 DEF VerifyCarrier, Enter, Stages, Guarded
    <2>4. overrun' \in Nat
      BY <1>10 DEF VerifyCarrier, Count, TypeInv, TypeOK
    <2>5. HandlersInBounds'
      BY <1>10, <2>3 DEF VerifyCarrier, At, Guarded, TypeInv,
                             HandlersInBounds
    <2> QED
      BY <1>10, <2>2, <2>3, <2>4, <2>5
         DEF VerifyCarrier, Enter, At, TypeInv, TypeOK, LoopInBounds,
             environment, settings, output, audit
  <1>11. CASE SelectPolicy
    <2>1. \/ /\ stage' = "line" /\ phase' = "clock" /\ event' = event
             /\ \E p \in Policies : successes = {p}
          \/ stage' = "report" /\ phase' = "run" /\ event' \in Events
      <3>1. ASSUME Deny(SelectionReason, SelectionPolicy)
            PROVE  stage' = "report" /\ phase' = "run" /\ event' \in Events
        BY <3>1, SelectionType, DenyType DEF Deny, Finish
      <3> QED
        BY <1>11, <3>1 DEF SelectPolicy, Selected, Enter
    <2>2. overrun' \in Nat
      BY <1>11 DEF SelectPolicy, Count, TypeInv, TypeOK
    <2> QED
      BY <1>11, <2>1, <2>2
         DEF SelectPolicy, At, TypeInv, TypeOK, LoopInBounds, Stages, Guarded,
             HandlersInBounds, environment, settings, findings, output, audit
  <1>12. CASE BoundLine \/ WriteLine
    <2>1. PICK p \in Policies : successes = {p}
      BY <1>12 DEF BoundLine, WriteLine, At, TypeInv, LoopInBounds
    <2>2. Sole(successes) = p /\ p \in 0 .. MaxPolicies
      BY <2>1 DEF Sole, Policies
    <2>3. Allowance(p) \in Events
      BY <2>2 DEF Allowance, Events, TypeInv, TypeOK
    <2>4. \/ stage' = "output" /\ phase' = "clock" /\ event' = event
          \/ stage' = "report" /\ phase' = "run" /\ event' \in Events
      <3>1. ASSUME NEW reason \in ErrorKinds, Deny(reason, Sole(successes))
            PROVE  stage' = "report" /\ phase' = "run" /\ event' \in Events
        BY <3>1, <2>2, DenyType DEF Deny, Finish
      <3>2. CASE BoundLine
        BY <3>1, <3>2, ErrorKindsHold DEF BoundLine, Enter
      <3>3. CASE WriteLine
        BY <2>2, <2>3, <3>1, <3>3, ErrorKindsHold
           DEF WriteLine, ReportWrite, Finish
      <3> QED
        BY <1>12, <3>2, <3>3
    <2>5. overrun' \in Nat /\ written' \in Extent /\ delivered' \in Extent
      BY <1>12 DEF BoundLine, WriteLine, Count, output, Extent, TypeInv, TypeOK
    <2>6. stage' \in Stages /\ HandlersInBounds'
      BY <1>12, <2>4
         DEF BoundLine, WriteLine, At, Stages, Guarded, TypeInv,
             HandlersInBounds
    <2>7. UNCHANGED <<status, handler, clock, cancelled, started, budget,
                      facility, policies, index, verdict, successes,
                      authenticated, firstError, log, lost>>
      BY <1>12 DEF BoundLine, WriteLine, environment, settings, findings, audit
    <2>8. LoopInBounds'
      <3>1. successes' = {p} /\ stage' \in {"output", "report"}
        BY <2>1, <2>4, <2>7
      <3> QED
        BY <3>1 DEF LoopInBounds
    <2>9. phase' \in {"clock", "flag", "run"} /\ event' \in Events
      BY <2>4 DEF TypeInv, TypeOK
    <2>10. TypeOK'
      BY <2>5, <2>6, <2>7, <2>9 DEF TypeInv, TypeOK
    <2> QED
      BY <2>6, <2>8, <2>10 DEF TypeInv
  <1>13. CASE Emit
    <2>1. log' \in Seq(Events) /\ lost' \in BOOLEAN
      <3>1. Append(log, event) \in Seq(Events)
        BY DEF TypeInv, TypeOK
      <3> QED
        BY <1>13, <3>1 DEF Emit, audit, TypeInv, TypeOK
    <2> QED
      BY <1>13, <2>1
         DEF Emit, At, Stages, TypeInv, TypeOK, LoopInBounds,
             HandlersInBounds, environment, settings, findings, output
  <1>14. CASE Exit
    <2>1. delivered' \in Extent
      BY <1>14 DEF Exit, Extent, TypeInv, TypeOK
    <2> QED
      BY <1>14, <2>1
         DEF Exit, TypeInv, TypeOK, LoopInBounds, HandlersInBounds,
             environment, settings, findings, audit
  <1>15. CASE UNCHANGED vars
    BY <1>15 DEF vars, TypeInv, TypeOK, LoopInBounds, HandlersInBounds,
                 environment, settings, findings, output, audit
  <1> QED
    BY <1>1, <1>2, <1>3, <1>4, <1>5, <1>6, <1>7, <1>8, <1>9, <1>10, <1>11,
       <1>12, <1>13, <1>14, <1>15 DEF Next, Environment, Program, Computation, Call

\* Every variable keeps its type, for any number of policies and any clock.
THEOREM TypeCorrect == Spec => []TypeOK
  <1>1. Spec => []TypeInv
    BY TypeInit, TypeStep, PTL DEF Spec
  <1>2. TypeInv => TypeOK
    BY DEF TypeInv
  <1> QED
    BY <1>1, <1>2, PTL

-----------------------------------------------------------------------------
(* The decision and its report.  LineIsUnambiguous is not inductive: it    *)
(* needs to know what the loop has gathered when the line is written, and  *)
(* AuditIsTruthful what the event says while it waits to be emitted.       *)

BeforeLoop == {"start", "arguments", "configuration", "offered", "decoded"}

\* successes and authenticated are exactly what the verdicts so far justify.
LoopGathers ==
    /\ stage \in BeforeLoop => index = 1
    /\ stage \in Guarded =>
           /\ \A p \in Policies : p < index => verdict[p] \in Verdicts
           /\ \A p \in Policies : p > index => verdict[p] = Unknown
           /\ stage # "carrier" =>
                 \A p \in Policies : p = index => verdict[p] = Unknown
           /\ successes = {p \in Policies : p < index /\ verdict[p].ok}
           /\ authenticated = {p \in Policies :
                 p < index /\ ~verdict[p].ok /\ verdict[p].core}
    /\ stage = "start" => verdict = [p \in Policies |-> Unknown]
                            /\ successes = {} /\ authenticated = {}
    /\ stage \in {"selection", "line", "output"} => index = policies + 1

\* Nothing is written before the report, and an event is logged at its end.
ReportLast ==
    /\ stage \notin {"report", "exit"} => written = 0
    /\ stage # "exit" => log = <<>> /\ ~lost
    /\ stage = "exit" => log = <<>> \/ log = <<event>>
    /\ stage = "exit" => log # <<>> \/ lost \/ handler = 3
    /\ status = "exited" => stage = "exit"

\* The event that waits to be emitted says what happened.
EventTruthful ==
    stage \in {"report", "exit"} =>
        /\ event.outcome = "allow" => written = Whole /\ Acceptors = {event.policy}
        /\ event.outcome = "deny" => written = 0
        /\ event.policy # 0 => event.policy \in CoreVerified
        /\ Serializable(event)

SafetyInv ==
    /\ TypeInv /\ LoopGathers /\ ReportLast /\ EventTruthful
    /\ LineIsUnambiguous

LEMMA SafetyInit == Init => SafetyInv
  <1> SUFFICES ASSUME Init PROVE SafetyInv
    OBVIOUS
  <1>1. TypeInv
    BY TypeInit
  <1>2. LoopGathers
    BY DEF Init, LoopGathers, Guarded, BeforeLoop
  <1>3. ReportLast /\ EventTruthful /\ LineIsUnambiguous
    BY DEF Init, ReportLast, EventTruthful, LineIsUnambiguous
  <1> QED
    BY <1>1, <1>2, <1>3 DEF SafetyInv

\* A step of the environment, of a check or of a handler leaves alone what
\* the loop gathered.
LEMMA LoopFrame ==
    ASSUME LoopGathers,
           UNCHANGED <<index, verdict, successes, authenticated, policies>>,
           stage' \in {stage, "report", "exit"}
    PROVE  LoopGathers'
  BY DEF LoopGathers, Guarded, BeforeLoop

LEMMA LoopStep == SafetyInv /\ [Next]_vars => LoopGathers'
  <1> SUFFICES ASSUME SafetyInv, [Next]_vars PROVE LoopGathers'
    OBVIOUS
  <1> USE BoundsAssumption DEF SafetyInv
  <1>1. CASE Tick \/ RequestCancellation \/ Kill \/ InstallFails \/ ReadClock
             \/ ReadFlag \/ Throw \/ Emit \/ Exit \/ UNCHANGED vars
    <2>1. /\ UNCHANGED <<index, verdict, successes, authenticated, policies>>
          /\ stage' \in {stage, "report", "exit"}
      BY <1>1 DEF Tick, RequestCancellation, Kill, InstallFails, ReadClock,
                  ReadFlag, Throw, Emit, Exit, Deny, Finish, findings,
                  settings, vars
    <2> QED
      BY <2>1, LoopFrame
  <1>2. CASE Start
    <2>1. /\ UNCHANGED <<index, verdict, successes, authenticated>>
          /\ stage' = "arguments" /\ index = 1
          /\ successes = {} /\ authenticated = {}
          /\ \A p \in Policies : verdict[p] = Unknown
      BY <1>2 DEF Start, Enter, At, LoopGathers, BeforeLoop, findings
    <2>2. \A p \in Policies : ~(p < index)
      BY <2>1 DEF Policies
    <2> QED
      BY <2>1, <2>2 DEF LoopGathers, Guarded, BeforeLoop
  <1>3. CASE ParseArguments \/ LoadConfiguration \/ DecodeOffered
    <2>1. /\ UNCHANGED <<index, verdict, successes, authenticated>>
          /\ stage \in BeforeLoop \cap Guarded
          /\ stage' \in {"configuration", "offered", "decoded", "report"}
      BY <1>3 DEF ParseArguments, LoadConfiguration, DecodeOffered, At, Enter,
                  Deny, Finish, findings, BeforeLoop, Guarded
    <2> QED
      BY <2>1 DEF LoopGathers, Guarded, BeforeLoop
  <1>4. CASE BeginLoop
    <2>1. /\ UNCHANGED <<index, verdict, successes, authenticated, policies>>
          /\ stage = "decoded" /\ index = 1
          /\ stage' = IF index <= policies THEN "policy" ELSE "selection"
      BY <1>4 DEF BeginLoop, Loop, Enter, At, findings, settings, LoopGathers,
                  BeforeLoop
    <2>2. stage' = "selection" => index' = policies' + 1
      BY <2>1 DEF TypeInv, TypeOK
    <2> QED
      BY <2>1, <2>2 DEF LoopGathers, Guarded, BeforeLoop
  <1>5. CASE VerifyCarrier
    <2>1. index \in Policies /\ stage = "policy" /\ stage' = "carrier"
      BY <1>5 DEF VerifyCarrier, At, Enter, TypeInv, TypeOK, LoopInBounds,
                  Policies
    <2>2. /\ UNCHANGED <<index, successes, authenticated>>
          /\ \A p \in Policies : p # index => verdict'[p] = verdict[p]
      BY <1>5 DEF VerifyCarrier, TypeInv, TypeOK
    <2> QED
      BY <2>1, <2>2 DEF LoopGathers, Guarded, BeforeLoop, Policies
  <1>6. CASE RecordResult
    <2>1. /\ index \in Policies /\ index <= policies /\ stage = "carrier"
          /\ verdict[index] \in Verdicts /\ index' = index + 1
          /\ verdict' = verdict /\ policies' = policies
          /\ stage' = IF index' <= policies THEN "policy" ELSE "selection"
      BY <1>6 DEF RecordResult, NextIndex, At, Loop, Enter, settings, TypeInv, TypeOK,
                  LoopInBounds, Policies
    <2>2. /\ successes' = IF verdict[index].ok THEN successes \cup {index}
                          ELSE successes
          /\ authenticated' = IF ~verdict[index].ok /\ verdict[index].core
                              THEN authenticated \cup {index} ELSE authenticated
      BY <1>6 DEF RecordResult
    <2>3. \A p \in Policies : p < index' <=> p < index \/ p = index
      BY <2>1 DEF Policies
    <2>4. \A p \in Policies : p >= index' <=> p > index
      BY <2>1 DEF Policies
    <2>5. index' = policies' + 1 \/ stage' # "selection"
      BY <2>1 DEF TypeInv, TypeOK
    <2>6. successes' = {p \in Policies : p < index' /\ verdict[p].ok}
      BY <2>1, <2>2, <2>3 DEF LoopGathers, Guarded
    <2>7. authenticated' = {p \in Policies :
                              p < index' /\ ~verdict[p].ok /\ verdict[p].core}
      BY <2>1, <2>2, <2>3 DEF LoopGathers, Guarded
    <2>8. /\ \A p \in Policies : p < index' => verdict[p] \in Verdicts
          /\ \A p \in Policies : p >= index' => verdict[p] = Unknown
      BY <2>1, <2>3, <2>4 DEF LoopGathers, Guarded
    <2>9. stage' \in {"policy", "selection"}
      BY <2>1
    <2>10. \A p \in Policies : (p > index' \/ p = index') => p >= index'
      BY <2>1 DEF Policies
    <2> QED
      BY <2>1, <2>5, <2>6, <2>7, <2>8, <2>9, <2>10
         DEF LoopGathers, BeforeLoop, Guarded
  <1>7. CASE SelectPolicy \/ BoundLine \/ WriteLine
    <2>1. /\ UNCHANGED <<index, verdict, successes, authenticated, policies>>
          /\ stage \in {"selection", "line", "output"}
          /\ stage' \in {"line", "output", "report"}
      BY <1>7 DEF SelectPolicy, BoundLine, WriteLine, ReportWrite, At, Enter,
                  Deny, Finish, findings, settings
    <2> QED
      BY <2>1 DEF LoopGathers, Guarded, BeforeLoop
  <1> QED
    BY <1>1, <1>2, <1>3, <1>4, <1>5, <1>6, <1>7 DEF Next, Environment, Program, Computation, Call

\* What an interruption or the selection names was authenticated.
LEMMA AttributionAuthenticated ==
    ASSUME SafetyInv
    PROVE  /\ stage \in Guarded /\ AttributedPolicy # 0 =>
                 AttributedPolicy \in CoreVerified
           /\ stage \in {"line", "output"} =>
                 Sole(successes) \in CoreVerified /\ Acceptors = {Sole(successes)}
           /\ stage = "selection" /\ SelectionPolicy # 0 =>
                 SelectionPolicy \in CoreVerified
  <1> USE BoundsAssumption DEF SafetyInv
  <1>1. ASSUME stage \in {"line", "output"}
        PROVE  /\ Sole(successes) \in CoreVerified
               /\ Acceptors = {Sole(successes)}
    <2>1. PICK p \in Policies : successes = {p}
      BY <1>1 DEF TypeInv, LoopInBounds
    <2>2. Sole(successes) = p
      BY <2>1 DEF Sole
    <2>3. p < index /\ verdict[p].ok /\ verdict[p] \in Verdicts
      BY <1>1, <2>1 DEF LoopGathers, Guarded
    <2>4. p \in CoreVerified
      BY <2>3, <2>1 DEF Verdicts, CoreVerified
    <2>5. \A q \in Policies : verdict[q].ok => q < index
      <3> SUFFICES ASSUME NEW q \in Policies, ~(q < index)
                   PROVE  ~verdict[q].ok
        OBVIOUS
      <3>1. q > index \/ q = index
        BY DEF TypeInv, TypeOK, Policies
      <3>2. verdict[q] = Unknown
        BY <1>1, <3>1 DEF LoopGathers, Guarded
      <3> QED
        BY <3>2 DEF Unknown
    <2>6. Acceptors = successes
      BY <1>1, <2>5 DEF Acceptors, LoopGathers, Guarded
    <2> QED
      BY <2>1, <2>2, <2>4, <2>6
  <1>2. ASSUME stage = "selection", SelectionPolicy # 0
        PROVE  SelectionPolicy \in CoreVerified
    <2>1. PICK p \in Policies : authenticated = {p}
      BY <1>2 DEF SelectionPolicy
    <2>2. SelectionPolicy = p
      BY <1>2, <2>1 DEF SelectionPolicy, Sole
    <2>3. verdict[p].core
      BY <1>2, <2>1 DEF LoopGathers, Guarded
    <2> QED
      BY <2>2, <2>3 DEF CoreVerified
  <1>3. ASSUME stage \in Guarded, AttributedPolicy # 0
        PROVE  AttributedPolicy \in CoreVerified
    <2>1. stage = "carrier" => index \in Policies
      BY DEF TypeInv, TypeOK, LoopInBounds, Policies
    <2> QED
      BY <1>1, <1>3, <2>1 DEF AttributedPolicy, CoreVerified
  <1> QED
    BY <1>1, <1>2, <1>3

LEMMA DenialSerializable ==
    ASSUME NEW reason \in ErrorKinds, NEW policy
    PROVE  Serializable(Denial(reason, policy))
  BY ErrorsAssumption DEF Serializable, Denial, ErrorKinds

\* deny_verify, with nothing written, or for an internal error.
LEMMA DenyTruthful ==
    ASSUME NEW reason \in ErrorKinds, NEW policy, Deny(reason, policy),
           verdict' = verdict, written' = 0 \/ reason = "internal_error",
           policy # 0 => policy \in CoreVerified
    PROVE  /\ event'.outcome # "allow"
           /\ event'.outcome = "deny" => written' = 0
           /\ event'.policy # 0 => event'.policy \in CoreVerified'
           /\ Serializable(event')
  <1>1. event' = Denial(reason, policy) /\ event'.policy = policy
    BY DEF Deny, Finish, Denial
  <1>2. event'.outcome = IF reason = "internal_error" THEN "error" ELSE "deny"
    BY <1>1 DEF Denial
  <1>3. CoreVerified' = CoreVerified
    BY DEF CoreVerified
  <1> QED
    BY <1>1, <1>2, <1>3, DenialSerializable

LEMMA TruthStep == SafetyInv /\ [Next]_vars => EventTruthful'
  <1> SUFFICES ASSUME SafetyInv, [Next]_vars PROVE EventTruthful'
    OBVIOUS
  <1> USE BoundsAssumption DEF SafetyInv
  <1>1. CASE Tick \/ RequestCancellation \/ Kill \/ Exit \/ Emit
             \/ UNCHANGED vars
    <2>1. /\ UNCHANGED <<event, written, verdict>>
          /\ stage' \in {"report", "exit"} => stage \in {"report", "exit"}
      BY <1>1 DEF Tick, RequestCancellation, Kill, Exit, Emit, At, findings,
                  output, vars
    <2> QED
      BY <2>1 DEF EventTruthful, Acceptors, CoreVerified
  <1>2. CASE InstallFails \/ Throw
    <2>1. \/ event' = ExceptionEvent
          \/ UNCHANGED <<event, written, verdict>> /\ stage \in {"report", "exit"}
      BY <1>2 DEF InstallFails, Throw, Finish, TypeInv, TypeOK,
                  HandlersInBounds, findings, output
    <2> QED
      BY <2>1 DEF EventTruthful, ExceptionEvent, Serializable, Acceptors,
                  CoreVerified
  <1>3. CASE Start \/ BeginLoop \/ VerifyCarrier \/ RecordResult
    <2>1. stage' \in Guarded
      BY <1>3 DEF Start, BeginLoop, VerifyCarrier, RecordResult, Loop, Enter,
                  Guarded
    <2> QED
      BY <2>1 DEF EventTruthful, Guarded
  <1>4. CASE ReadClock \/ ReadFlag
    <2>1. verdict' = verdict /\ written' = written /\ stage \in Guarded
      BY <1>4 DEF ReadClock, ReadFlag, findings, output, TypeInv,
                  HandlersInBounds
    <2>2. written' = 0
      BY <2>1 DEF ReportLast, Guarded
    <2>3. CASE stage' \in {"report", "exit"}
      <3>1. PICK reason \in ErrorKinds : Deny(reason, AttributedPolicy)
        BY <1>4, <2>1, <2>3, ErrorKindsHold
           DEF ReadClock, ReadFlag, ClockReason, Guarded
      <3> QED
        BY <2>1, <2>2, <3>1, DenyTruthful, AttributionAuthenticated
           DEF EventTruthful
    <2> QED
      BY <2>3 DEF EventTruthful
  <1>5. CASE ParseArguments \/ LoadConfiguration \/ DecodeOffered
    <2>1. verdict' = verdict /\ written' = 0
      BY <1>5 DEF ParseArguments, LoadConfiguration, DecodeOffered, At,
                  findings, output, ReportLast
    <2>2. CASE stage' \in {"report", "exit"}
      <3>1. PICK reason \in ErrorKinds : Deny(reason, 0)
        BY <1>5, <2>2, ErrorKindsHold
           DEF ParseArguments, LoadConfiguration, DecodeOffered, Enter
      <3> QED
        BY <2>1, <3>1, DenyTruthful DEF EventTruthful
    <2> QED
      BY <2>2 DEF EventTruthful
  <1>6. CASE SelectPolicy
    <2>1. verdict' = verdict /\ written' = 0 /\ stage = "selection"
      BY <1>6 DEF SelectPolicy, At, findings, output, ReportLast
    <2>2. CASE stage' \in {"report", "exit"}
      <3>1. Deny(SelectionReason, SelectionPolicy)
        BY <1>6, <2>2 DEF SelectPolicy, Enter
      <3> QED
        BY <2>1, <3>1, DenyTruthful, AttributionAuthenticated, SelectionType
           DEF EventTruthful
    <2> QED
      BY <2>2 DEF EventTruthful
  <1>7. CASE BoundLine
    <2>1. verdict' = verdict /\ written' = 0 /\ stage = "line"
      BY <1>7 DEF BoundLine, At, findings, output, ReportLast
    <2>2. CASE stage' \in {"report", "exit"}
      <3>1. Deny("resource_limit", Sole(successes))
        BY <1>7, <2>2 DEF BoundLine, Enter
      <3> QED
        BY <2>1, <3>1, DenyTruthful, AttributionAuthenticated, ErrorKindsHold
           DEF EventTruthful
    <2> QED
      BY <2>2 DEF EventTruthful
  <1>8. CASE WriteLine
    <2>1. verdict' = verdict /\ stage = "output"
      BY <1>8 DEF WriteLine, At, findings
    <2>2. \/ Deny("internal_error", Sole(successes))
          \/ written' = Whole /\ event' = Allowance(Sole(successes))
      BY <1>8 DEF WriteLine, ReportWrite, Finish
    <2>3. CASE Deny("internal_error", Sole(successes))
      BY <2>1, <2>3, DenyTruthful, AttributionAuthenticated, ErrorKindsHold
         DEF EventTruthful
    <2>4. CASE written' = Whole /\ event' = Allowance(Sole(successes))
      BY <2>1, <2>4, AttributionAuthenticated
         DEF EventTruthful, Allowance, Serializable, Acceptors, CoreVerified
    <2> QED
      BY <2>2, <2>3, <2>4
  <1> QED
    BY <1>1, <1>2, <1>3, <1>4, <1>5, <1>6, <1>7, <1>8
       DEF Next, Environment, Program, Computation, Call

LEMMA ReportStep == SafetyInv /\ [Next]_vars => ReportLast'
  <1> SUFFICES ASSUME SafetyInv, [Next]_vars PROVE ReportLast'
    OBVIOUS
  <1> USE BoundsAssumption DEF SafetyInv
  <1>1. CASE Tick \/ RequestCancellation \/ Kill \/ Exit \/ UNCHANGED vars
    BY <1>1 DEF Tick, RequestCancellation, Kill, Exit, At, output, audit,
                vars, ReportLast
  <1>2. CASE InstallFails \/ Throw
    <2>1. UNCHANGED <<written, log, lost, status>> /\ status # "exited"
      BY <1>2 DEF InstallFails, Throw, At, output, audit
    <2>2. \/ stage' = "report" /\ stage # "exit"
          \/ stage' = "exit" /\ stage # "exit" /\ handler' = 3
      BY <1>2 DEF InstallFails, Throw, At, Finish, TypeInv,
                  TypeOK, HandlersInBounds
    <2> QED
      BY <2>1, <2>2 DEF ReportLast
  <1>3. CASE Emit
    <2>1. /\ stage = "report" /\ stage' = "exit" /\ status' = "running"
          /\ event' = event /\ log = <<>>
      BY <1>3 DEF Emit, At, ReportLast
    <2>2. Serializable(event)
      BY <2>1 DEF EventTruthful
    <2>3. \/ log' = Append(log, event) /\ lost' = lost
          \/ lost' = TRUE /\ log' = log
      BY <1>3, <2>2 DEF Emit
    <2>4. Append(log, event) = <<event>>
      BY <2>1
    <2>5. <<event>> # <<>>
      OBVIOUS
    <2> QED
      BY <2>1, <2>3, <2>4, <2>5 DEF ReportLast
  <1>4. CASE WriteLine
    <2>1. /\ stage = "output" /\ stage' = "report" /\ status' = "running"
          /\ UNCHANGED <<log, lost>>
      BY <1>4 DEF WriteLine, ReportWrite, Deny, Finish, At, audit
    <2> QED
      BY <2>1 DEF ReportLast
  <1>5. CASE ReadClock \/ ReadFlag \/ Start \/ ParseArguments
             \/ LoadConfiguration \/ DecodeOffered \/ BeginLoop
             \/ VerifyCarrier \/ RecordResult \/ SelectPolicy \/ BoundLine
    <2>1. /\ UNCHANGED <<written, log, lost, status>> /\ status # "exited"
          /\ stage \in Guarded \cup {"start"}
      BY <1>5 DEF ReadClock, ReadFlag, Start, ParseArguments,
                  LoadConfiguration, DecodeOffered, BeginLoop, VerifyCarrier,
                  RecordResult, SelectPolicy, BoundLine, At, output, audit,
                  Guarded, TypeInv, HandlersInBounds
    <2>2. stage' \in Guarded \cup {"report"}
      <3>1. CASE ReadClock \/ ReadFlag
        BY <3>1 DEF ReadClock, ReadFlag, Deny, Finish, TypeInv,
                    HandlersInBounds
      <3>2. CASE Start \/ ParseArguments \/ LoadConfiguration
                 \/ DecodeOffered \/ BeginLoop
        BY <3>2 DEF Start, ParseArguments, LoadConfiguration, DecodeOffered,
                    BeginLoop, Loop, Deny, Finish, Enter, Guarded
      <3>3. CASE VerifyCarrier \/ RecordResult \/ SelectPolicy \/ BoundLine
        BY <3>3 DEF VerifyCarrier, RecordResult, SelectPolicy, BoundLine,
                    Loop, Deny, Finish, Enter, Guarded
      <3> QED
        BY <1>5, <3>1, <3>2, <3>3
    <2> QED
      BY <2>1, <2>2 DEF ReportLast, Guarded
  <1> QED
    BY <1>1, <1>2, <1>3, <1>4, <1>5 DEF Next, Environment, Program, Computation, Call

\* The line is written once every policy is judged, and nothing is judged or
\* configured afterwards.
LEMMA LineStep == SafetyInv /\ [Next]_vars => LineIsUnambiguous'
  <1> SUFFICES ASSUME SafetyInv, [Next]_vars PROVE LineIsUnambiguous'
    OBVIOUS
  <1> USE BoundsAssumption DEF SafetyInv
  <1>1. CASE WriteLine
    <2>1. stage = "output" /\ verdict' = verdict /\ policies' = policies
      BY <1>1 DEF WriteLine, At, findings, settings
    <2>2. index = policies + 1
      BY <2>1 DEF LoopGathers
    <2>3. \A p \in 1 .. policies : verdict[p] # Unknown
      <3> SUFFICES ASSUME NEW p \in 1 .. policies PROVE verdict[p] # Unknown
        OBVIOUS
      <3>1. p \in Policies /\ p < index
        BY <2>2 DEF Policies, TypeInv, TypeOK
      <3>2. verdict[p] \in Verdicts
        BY <2>1, <3>1 DEF LoopGathers, Guarded
      <3> QED
        <4>1. verdict[p].error \in CarrierErrors \cup {"none"}
          BY <3>2 DEF Verdicts
        <4> QED
          BY <4>1, ErrorsAssumption DEF Unknown
    <2>4. \E p \in Policies : Acceptors = {p}
      BY <2>1, AttributionAuthenticated DEF TypeInv, LoopInBounds, Sole
    <2> QED
      BY <2>1, <2>3, <2>4 DEF LineIsUnambiguous, AllJudged, Acceptors
  <1>2. CASE ~WriteLine
    <2>1. written' = written
      BY <1>2 DEF Next, Environment, Program, Computation, Call, Tick, RequestCancellation, Kill,
                  Start, InstallFails, ReadClock, ReadFlag, ParseArguments,
                  LoadConfiguration, DecodeOffered, BeginLoop, VerifyCarrier,
                  RecordResult, SelectPolicy, BoundLine, Emit, Throw, Exit,
                  output, vars
    <2>2. CASE written = 0
      BY <2>1, <2>2 DEF LineIsUnambiguous
    <2>3. CASE written # 0
      <3>1. stage \in {"report", "exit"}
        BY <2>3 DEF ReportLast
      <3>2. verdict' = verdict /\ policies' = policies
        BY <1>2, <3>1
           DEF Next, Environment, Program, Computation, Call, Tick, RequestCancellation, Kill,
               Start, InstallFails, ReadClock, ReadFlag, ParseArguments,
               LoadConfiguration, DecodeOffered, BeginLoop, VerifyCarrier,
               RecordResult, SelectPolicy, BoundLine, Emit, Throw, Exit, At,
               findings, settings, vars
      <3>3. written > 0
        BY <2>3 DEF TypeInv, TypeOK, Extent
      <3> QED
        BY <3>2, <3>3 DEF LineIsUnambiguous, AllJudged, Acceptors
    <2> QED
      BY <2>2, <2>3
  <1> QED
    BY <1>1, <1>2

LEMMA SafetyInductive == Spec => []SafetyInv
  <1>1. SafetyInv /\ [Next]_vars => SafetyInv'
    BY TypeStep, LoopStep, ReportStep, TruthStep, LineStep DEF SafetyInv
  <1> QED
    BY SafetyInit, <1>1, PTL DEF Spec

\* Whatever signals, deadlines, exceptions and short writes intervene, the
\* authorized-keys line is written only after every configured policy was
\* tried and exactly one accepted.
THEOREM LineUnambiguous == Spec => []LineIsUnambiguous
  <1>1. SafetyInv => LineIsUnambiguous
    BY DEF SafetyInv
  <1> QED
    BY SafetyInductive, <1>1, PTL

\* The audit log never contradicts the answer given to sshd, and names only
\* identities whose token core was verified.
THEOREM AuditTruthful == Spec => []AuditIsTruthful
  <1>1. SafetyInv => AuditIsTruthful
    <2> SUFFICES ASSUME SafetyInv, NEW i \in DOMAIN log
                 PROVE  /\ log[i].outcome = "allow" =>
                              written = Whole /\ Acceptors = {log[i].policy}
                        /\ log[i].outcome = "deny" => written = 0
                        /\ log[i].policy # 0 => log[i].policy \in CoreVerified
      BY DEF AuditIsTruthful
    <2>1. log # <<>>
      OBVIOUS
    <2>2. stage = "exit" /\ log = <<event>>
      BY <2>1 DEF SafetyInv, ReportLast
    <2>3. log[i] = event
      BY <2>2
    <2> QED
      BY <2>2, <2>3 DEF SafetyInv, EventTruthful
  <1> QED
    BY SafetyInductive, <1>1, PTL

\* One event per run and never two; none only when it was dropped after the
\* serializer accepted it, or when run_main's last handler failed too.
THEOREM OneAudit == Spec => []OneAuditEvent
  <1>1. SafetyInv => OneAuditEvent
    <2> SUFFICES ASSUME SafetyInv PROVE OneAuditEvent
      OBVIOUS
    <2>1. log = <<>> \/ log = <<event>>
      BY DEF SafetyInv, ReportLast
    <2>2. Len(log) <= 1
      <3>1. log = <<>> => Len(log) = 0
        OBVIOUS
      <3>2. log = <<event>> => Len(log) = 1
        OBVIOUS
      <3>3. Len(log) = 0 \/ Len(log) = 1
        BY <2>1, <3>1, <3>2, Zenon
      <3>4. 0 <= 1 /\ 1 <= 1
        OBVIOUS
      <3> QED
        BY <3>3, <3>4, Zenon
    <2>3. log # <<>> => Len(log) = 1
      BY <2>1
    <2>4. status = "exited" => log # <<>> \/ lost \/ handler = 3
      BY DEF SafetyInv, ReportLast
    <2> QED
      BY <2>2, <2>3, <2>4 DEF OneAuditEvent
  <1> QED
    BY SafetyInductive, <1>1, PTL

-----------------------------------------------------------------------------
(* Interruptions.  The event waits while the clock runs on: what interrupted *)
(* saw must still be so, which is why the clock has to be steady.          *)

Interruption(e) ==
    /\ e.reason = "operation_cancelled" => cancelled
    /\ Steady /\ e.reason = "deadline_exceeded" => clock - started >= budget

ReasonReal == stage \in {"report", "exit"} => Interruption(event)

\* The reasons of every other denial.
OwnReasons == ErrorKinds \ {"deadline_exceeded", "operation_cancelled"}

LEMMA OwnErrors ==
    /\ ConfigErrors \cup KeyErrors \cup CarrierErrors \subseteq OwnReasons
    /\ {"internal_error", "malformed_input", "resource_limit",
        "issuer_untrusted"} \subseteq OwnReasons
  BY ErrorsAssumption DEF OwnReasons, ErrorKinds

LEMMA SelectionOwn ==
    ASSUME TypeInv PROVE SelectionReason \in OwnReasons
  <1>1. SelectionReason \in CarrierErrors \cup {"issuer_untrusted"}
    BY DEF SelectionReason, TypeInv, TypeOK
  <1> QED
    BY <1>1, OwnErrors

\* A body of run_verify ends its stage, or denies for a reason of its own, or
\* allows.
LEMMA BodyReasons ==
    ASSUME TypeInv,
           ParseArguments \/ LoadConfiguration \/ DecodeOffered \/ BeginLoop
             \/ VerifyCarrier \/ RecordResult \/ SelectPolicy \/ BoundLine
             \/ WriteLine
    PROVE  \/ stage' \in Guarded /\ phase' = "clock"
           \/ /\ stage' = "report" /\ phase' = "run"
              /\ event'.reason \in OwnReasons \cup {"none"}
  <1>1. ASSUME NEW reason \in OwnReasons, NEW policy, Deny(reason, policy)
        PROVE  /\ stage' = "report" /\ phase' = "run"
               /\ event'.reason \in OwnReasons \cup {"none"}
    BY <1>1 DEF Deny, Finish, Denial
  <1>2. CASE ParseArguments \/ LoadConfiguration \/ DecodeOffered
    BY <1>1, <1>2, OwnErrors
       DEF ParseArguments, LoadConfiguration, DecodeOffered, Enter, Guarded
  <1>3. CASE BeginLoop \/ VerifyCarrier \/ RecordResult
    BY <1>3 DEF BeginLoop, VerifyCarrier, RecordResult, Loop, Enter, Guarded
  <1>4. CASE SelectPolicy
    BY <1>1, <1>4, SelectionOwn DEF SelectPolicy, Enter, Guarded
  <1>5. CASE BoundLine \/ WriteLine
    BY <1>1, <1>5, OwnErrors
       DEF BoundLine, WriteLine, ReportWrite, Finish, Allowance, Enter, Guarded
  <1> QED
    BY <1>2, <1>3, <1>4, <1>5

\* A deadline that has passed stays passed.
LEMMA Later ==
    ASSUME NEW now \in Nat, NEW later \in Nat, NEW since \in Nat, NEW d \in Int,
           later >= now, now - since >= d
    PROVE  later - since >= d
  OBVIOUS

LEMMA ReasonStep ==
    SafetyInv /\ ReasonReal /\ [Next]_vars => ReasonReal'
  <1> SUFFICES ASSUME SafetyInv, ReasonReal, [Next]_vars,
                      stage' \in {"report", "exit"}
               PROVE  Interruption(event)'
    BY DEF ReasonReal
  <1> USE DEF SafetyInv
  <1>1. CASE Tick \/ RequestCancellation \/ Kill \/ Exit \/ Emit
             \/ UNCHANGED vars
    <2>1. /\ UNCHANGED <<event, started, budget>>
          /\ stage \in {"report", "exit"}
          /\ cancelled => cancelled'
          /\ Steady => clock' >= clock
      BY <1>1 DEF Tick, RequestCancellation, Kill, Exit, Emit, At, settings,
                  environment, vars, TypeInv, TypeOK
    <2>2. clock' \in Nat
      BY TypeStep DEF TypeInv, TypeOK
    <2>3. /\ event'.reason = "operation_cancelled" => cancelled'
          /\ Steady /\ event'.reason = "deadline_exceeded" =>
                 clock - started >= budget
      BY <2>1 DEF ReasonReal, Interruption
    <2>4. ASSUME Steady, event'.reason = "deadline_exceeded"
          PROVE  clock' - started' >= budget'
      <3>1. clock' >= clock /\ clock - started >= budget
        BY <2>1, <2>3, <2>4
      <3>2. clock \in Nat /\ started \in Nat /\ budget \in Int
        BY DEF TypeInv, TypeOK
      <3>3. clock' - started >= budget
        BY <2>2, <3>1, <3>2, Later
      <3> QED
        BY <2>1, <3>3
    <2> QED
      BY <2>3, <2>4, Zenon DEF Interruption
  <1>2. CASE InstallFails \/ Throw
    <2>1. \/ event' = ExceptionEvent
          \/ /\ stage = "report"
             /\ UNCHANGED <<event, environment, settings>>
      BY <1>2 DEF InstallFails, Throw, Finish, TypeInv, TypeOK,
                  HandlersInBounds
    <2> QED
      BY <2>1 DEF ReasonReal, Interruption, ExceptionEvent, environment,
                  settings
  <1>3. CASE ReadClock
    <2>1. /\ stage # "report" /\ stage # "exit"
          /\ UNCHANGED <<clock, started, budget>>
      BY <1>3 DEF ReadClock, environment, settings, TypeInv, HandlersInBounds,
                  Guarded
    <2>2. event'.reason = ClockReason
      BY <1>3, <2>1 DEF ReadClock, Deny, Finish, Denial
    <2> QED
      BY <2>1, <2>2 DEF ClockReason, Interruption
  <1>4. CASE ReadFlag
    <2>1. stage # "report" /\ stage # "exit"
      BY <1>4 DEF ReadFlag, TypeInv, HandlersInBounds, Guarded
    <2>2. event'.reason = "operation_cancelled" /\ cancelled'
      BY <1>4, <2>1 DEF ReadFlag, environment, Deny, Finish, Denial
    <2> QED
      BY <2>2 DEF Interruption
  <1>5. CASE Start
    BY <1>5 DEF Start, Enter
  <1>6. CASE ParseArguments \/ LoadConfiguration \/ DecodeOffered \/ BeginLoop
             \/ VerifyCarrier \/ RecordResult \/ SelectPolicy \/ BoundLine
             \/ WriteLine
    <2>1. event'.reason \in OwnReasons \cup {"none"}
      BY <1>6, BodyReasons DEF Guarded
    <2> QED
      BY <2>1 DEF OwnReasons, Interruption
  <1> QED
    BY <1>1, <1>2, <1>3, <1>4, <1>5, <1>6 DEF Next, Environment, Program, Computation, Call

\* A run that reports a signal got one, and under a clock that never steps
\* back one that reports its deadline is past it: interrupted never blames
\* what did not happen.
THEOREM InterruptionReal == Spec => []InterruptionIsReal
  <1>1. Init => ReasonReal
    BY DEF Init, ReasonReal
  <1>2. Spec => []ReasonReal
    BY <1>1, ReasonStep, SafetyInductive, PTL DEF Spec
  <1>3. SafetyInv /\ ReasonReal => InterruptionIsReal
    <2> SUFFICES ASSUME SafetyInv, ReasonReal, NEW i \in DOMAIN log
                 PROVE  Interruption(log[i])
      BY DEF InterruptionIsReal, Interruption
    <2>1. log # <<>>
      OBVIOUS
    <2>2. stage = "exit" /\ log = <<event>>
      BY <2>1 DEF SafetyInv, ReportLast
    <2>3. log[i] = event
      BY <2>2
    <2> QED
      BY <2>2, <2>3 DEF ReasonReal
  <1> QED
    BY <1>2, <1>3, SafetyInductive, PTL

-----------------------------------------------------------------------------
(* Promptness.  overrun <= 1 is not inductive: once a body has begun late   *)
(* the next check must stop the run, so it has to be known that the body    *)
(* leaves the run before a check (phase # "run"), that what was spent stays *)
(* spent (the budget only ever shrinks, and from MaxBudget), and that a     *)
(* check which found the clock in time will find the flag raised.           *)

Spent == clock - started >= budget \/ cancelled

PromptInv ==
    /\ stage \in {"start", "arguments", "configuration"} => budget = MaxBudget
    /\ stage \in Guarded => started <= clock
    /\ overrun <= 1
    /\ stage = "start" => overrun = 0
    /\ stage \in Guarded /\ overrun = 1 =>
           phase # "run" /\ Spent /\ (phase = "flag" => cancelled)

\* A body begins at its stage's phase "run" and takes no time; the only
\* budget it may set is no larger than the one before.
LEMMA BodyFrame ==
    ASSUME TypeInv, PromptInv,
           ParseArguments \/ LoadConfiguration \/ DecodeOffered \/ BeginLoop
             \/ VerifyCarrier \/ RecordResult \/ SelectPolicy \/ BoundLine
             \/ WriteLine
    PROVE  /\ stage \in Guarded /\ phase = "run"
           /\ UNCHANGED <<clock, started, cancelled>>
           /\ budget' \in Nat /\ budget' <= budget
           /\ stage' = "configuration" => stage = "arguments" /\ budget' = budget
           /\ overrun' = overrun + (IF Overdue THEN 1 ELSE 0)
  <1> USE BoundsAssumption
  <1>1. CASE LoadConfiguration
    <2>1. budget = MaxBudget /\ budget' \in Nat /\ budget' <= budget
      BY <1>1 DEF LoadConfiguration, At, PromptInv, Budgets, TypeInv, TypeOK
    <2> QED
      BY <1>1, <2>1 DEF LoadConfiguration, At, Count, Enter, Deny, Finish,
                        Guarded, environment
  <1>2. CASE ParseArguments \/ DecodeOffered \/ BeginLoop \/ VerifyCarrier
             \/ RecordResult \/ SelectPolicy \/ BoundLine \/ WriteLine
    <2>1. budget' = budget /\ budget \in Nat
      BY <1>2 DEF ParseArguments, DecodeOffered, BeginLoop, VerifyCarrier,
                  RecordResult, SelectPolicy, BoundLine, WriteLine, settings,
                  TypeInv, TypeOK
    <2>2. /\ stage \in Guarded /\ phase = "run"
          /\ UNCHANGED <<clock, started, cancelled>>
          /\ overrun' = overrun + (IF Overdue THEN 1 ELSE 0)
      BY <1>2 DEF ParseArguments, DecodeOffered, BeginLoop, VerifyCarrier,
                  RecordResult, SelectPolicy, BoundLine, WriteLine, At, Count,
                  Guarded, environment, settings
    <2>3. stage' = "configuration" => stage = "arguments"
      BY <1>2 DEF ParseArguments, DecodeOffered, BeginLoop, VerifyCarrier,
                  RecordResult, SelectPolicy, BoundLine, WriteLine,
                  ReportWrite, At, Loop, Enter, Deny, Finish
    <2> QED
      BY <2>1, <2>2, <2>3
  <1> QED
    BY <1>1, <1>2

LEMMA PromptStep ==
    ASSUME Steady, SafetyInv, PromptInv, [Next]_vars
    PROVE  PromptInv'
  <1> USE BoundsAssumption DEF SafetyInv
  <1>1. TypeInv'
    BY TypeStep
  <1>2. CASE Tick
    <2>1. /\ UNCHANGED <<stage, phase, budget, started, cancelled, overrun>>
          /\ clock' >= clock
      BY <1>2 DEF Tick, settings, TypeInv, TypeOK
    <2>2. ASSUME clock - started >= budget PROVE clock' - started >= budget
      <3>1. /\ clock \in Nat /\ clock' \in Nat
            /\ started \in Nat /\ budget \in Int
        BY <1>1 DEF TypeInv, TypeOK
      <3> QED
        BY <2>1, <2>2, <3>1, Later
    <2>3. started <= clock => started <= clock'
      BY <1>1, <2>1 DEF TypeInv, TypeOK
    <2> QED
      BY <2>1, <2>2, <2>3 DEF PromptInv, Spent
  <1>3. CASE RequestCancellation
    BY <1>3 DEF RequestCancellation, settings, PromptInv, Spent
  <1>4. CASE Kill \/ Exit \/ UNCHANGED vars
    BY <1>4 DEF Kill, Exit, vars, environment, settings, PromptInv, Spent
  <1>5. CASE InstallFails \/ Throw \/ Emit
    <2>1. stage' \in {"report", "exit"} /\ overrun' = overrun
      BY <1>5 DEF InstallFails, Throw, Emit, Finish
    <2> QED
      BY <2>1 DEF PromptInv, Guarded
  <1>6. CASE Start
    <2>1. /\ stage = "start" /\ stage' = "arguments" /\ started' = clock
          /\ UNCHANGED <<clock, budget, overrun>>
      BY <1>6 DEF Start, At, Enter, environment
    <2> QED
      BY <2>1 DEF PromptInv, TypeInv, TypeOK
  <1>7. CASE ReadClock
    <2>1. /\ UNCHANGED <<clock, started, budget, cancelled, overrun>>
          /\ stage \in Guarded
      BY <1>7 DEF ReadClock, environment, settings, TypeInv, HandlersInBounds
    <2>2. CASE ClockReason = "none" /\ phase' = "flag" /\ stage' = stage
      <3>1. ~(clock - started >= budget)
        BY <2>2 DEF ClockReason
      <3>2. overrun = 1 => cancelled
        BY <2>1, <3>1, Zenon DEF PromptInv, Spent
      <3> QED
        BY <2>1, <2>2, <3>2 DEF PromptInv, Spent
    <2>3. CASE stage' = "report"
      BY <2>1, <2>3 DEF PromptInv, Guarded
    <2> QED
      BY <1>7, <2>2, <2>3 DEF ReadClock, Deny, Finish
  <1>8. CASE ReadFlag
    <2>1. /\ UNCHANGED <<clock, started, budget, cancelled, overrun>>
          /\ stage \in Guarded /\ phase = "flag"
      BY <1>8 DEF ReadFlag, environment, settings, TypeInv, HandlersInBounds
    <2>2. CASE ~cancelled /\ stage' = stage
      BY <2>1, <2>2 DEF PromptInv, Spent
    <2>3. CASE stage' = "report"
      BY <2>1, <2>3 DEF PromptInv, Guarded
    <2> QED
      BY <1>8, <2>2, <2>3 DEF ReadFlag, Deny, Finish
  <1>9. CASE ParseArguments \/ LoadConfiguration \/ DecodeOffered \/ BeginLoop
             \/ VerifyCarrier \/ RecordResult \/ SelectPolicy \/ BoundLine
             \/ WriteLine
    <2>1. /\ stage \in Guarded /\ phase = "run"
          /\ UNCHANGED <<clock, started, cancelled>>
          /\ budget' \in Nat /\ budget' <= budget
          /\ stage' = "configuration" => stage = "arguments" /\ budget' = budget
          /\ overrun' = overrun + (IF Overdue THEN 1 ELSE 0)
      BY <1>9, BodyFrame
    <2>2. \/ stage' \in Guarded /\ phase' = "clock"
          \/ stage' = "report"
      BY <1>9, BodyReasons
    <2>3. overrun = 0
      BY <2>1 DEF PromptInv, TypeInv, TypeOK
    <2>4. overrun' <= 1 /\ (overrun' = 1 => Overdue)
      BY <2>1, <2>3
    <2>5. started <= clock /\ clock \in Nat /\ started \in Nat /\ budget \in Nat
      BY <2>1 DEF PromptInv, TypeInv, TypeOK
    <2>6. clock - started >= budget => clock' - started' >= budget'
      BY <2>1, <2>5
    <2>7. Overdue => Spent'
      <3>1. ~(clock < started)
        BY <2>5
      <3> QED
        BY <2>1, <2>6, <3>1, Zenon DEF Overdue, Spent
    <2>8. /\ stage' \notin {"start", "arguments"}
          /\ stage' = "configuration" => budget' = MaxBudget
      <3>1. stage' = "configuration" => budget' = MaxBudget
        BY <2>1 DEF PromptInv
      <3>2. stage' \notin {"start", "arguments"}
        BY <1>9 DEF ParseArguments, LoadConfiguration, DecodeOffered,
                    BeginLoop, VerifyCarrier, RecordResult, SelectPolicy,
                    BoundLine, WriteLine, ReportWrite, Loop, Enter, Deny,
                    Finish
      <3> QED
        BY <3>1, <3>2
    <2>9. started' <= clock'
      BY <2>1, <2>5
    <2>10. stage' \in Guarded /\ overrun' = 1 =>
               phase' # "run" /\ Spent' /\ phase' # "flag"
      BY <2>2, <2>4, <2>7 DEF Guarded
    <2> QED
      BY <2>4, <2>8, <2>9, <2>10 DEF PromptInv
  <1> QED
    BY <1>2, <1>3, <1>4, <1>5, <1>6, <1>7, <1>8, <1>9
       DEF Next, Environment, Program, Computation, Call

\* README, "every verification stage checks the same absolute budget": when
\* the clock never steps back, at most one body begins after the budget is
\* spent or a signal has come, whatever the stages and however the checks
\* and the environment interleave.
THEOREM StopPrompt == Spec => []StopsPromptly
  <1>1. Init => PromptInv
    BY BoundsAssumption DEF Init, PromptInv, Guarded
  <1>2. SafetyInv /\ (Steady => PromptInv) /\ [Next]_vars
          => (Steady => PromptInv)'
    BY PromptStep, Zenon
  <1>3. Spec => [](Steady => PromptInv)
    BY <1>1, <1>2, SafetyInductive, PTL DEF Spec
  <1>4. (Steady => PromptInv) => StopsPromptly
    BY DEF PromptInv, StopsPromptly
  <1> QED
    BY <1>3, <1>4, PTL

-----------------------------------------------------------------------------
(* Selection.  The denial of a complete evaluation, stated from the        *)
(* verdicts alone, rests on what have_error and first_error hold while the *)
(* loop runs, and on no other stage having a reason the selection may give. *)

FirstErrorKept ==
    /\ stage \in Guarded /\ index = 1 => firstError = "none"
    /\ stage = "start" => firstError = "none"
    /\ stage \in Guarded /\ index > 1 /\ successes = {} =>
           firstError = verdict[1].error

\* What SelectionMatchesVerdicts says of one event.
Matches(e) ==
    e.outcome = "deny" /\ e.reason \in SelectionErrors =>
        /\ AllJudged
        /\ ~ \E p \in Policies : Acceptors = {p}
        /\ e.reason = IF Acceptors # {} \/ policies = 0
                      THEN "issuer_untrusted" ELSE verdict[1].error
        /\ IF Acceptors = {} /\ \E p \in Policies : CoreVerified = {p}
           THEN CoreVerified = {e.policy} ELSE e.policy = 0

SelectionInv ==
    FirstErrorKept /\ (stage \in {"report", "exit"} => Matches(event))

LEMMA FirstErrorStep ==
    SafetyInv /\ FirstErrorKept /\ [Next]_vars => FirstErrorKept'
  <1> SUFFICES ASSUME SafetyInv, FirstErrorKept, [Next]_vars
               PROVE  FirstErrorKept'
    OBVIOUS
  <1> USE BoundsAssumption DEF SafetyInv
  <1>1. CASE ~VerifyCarrier /\ ~RecordResult
    <2>1. UNCHANGED <<index, successes, firstError, verdict>>
      BY <1>1 DEF Next, Environment, Program, Computation, Call, Tick, RequestCancellation, Kill,
                  Start, InstallFails, ReadClock, ReadFlag, ParseArguments,
                  LoadConfiguration, DecodeOffered, BeginLoop, SelectPolicy,
                  BoundLine, WriteLine, Emit, Throw, Exit, findings, vars
    <2>2. /\ stage' \in Guarded => stage \in Guarded \cup {"start"}
          /\ stage' = "start" => stage = "start"
      BY <1>1 DEF Next, Environment, Program, Computation, Call, Tick, RequestCancellation, Kill,
                  Start, InstallFails, ReadClock, ReadFlag, ParseArguments,
                  LoadConfiguration, DecodeOffered, BeginLoop, SelectPolicy,
                  BoundLine, WriteLine, ReportWrite, Emit, Throw, Exit, Deny,
                  Finish, Loop, Enter, At, Guarded,
                  TypeInv, HandlersInBounds, vars
    <2>3. stage = "start" => index = 1
      BY DEF LoopGathers, BeforeLoop
    <2>4. stage' = "start" => firstError = "none"
      BY <2>2 DEF FirstErrorKept
    <2> QED
      BY <2>1, <2>2, <2>3, <2>4 DEF FirstErrorKept
  <1>2. CASE VerifyCarrier
    <2>1. /\ stage = "policy" /\ stage' = "carrier" /\ stage \in Guarded
          /\ UNCHANGED <<index, successes, firstError>>
          /\ \A p \in Policies : p # index => verdict'[p] = verdict[p]
      BY <1>2 DEF VerifyCarrier, At, Enter, Guarded, TypeInv, TypeOK
    <2>2. index > 1 => 1 \in Policies /\ 1 # index
      BY <2>1 DEF TypeInv, TypeOK, LoopInBounds, Policies
    <2> QED
      BY <2>1, <2>2 DEF FirstErrorKept
  <1>3. CASE RecordResult
    <2>1. /\ stage = "carrier" /\ stage \in Guarded /\ index' = index + 1
          /\ verdict' = verdict /\ index \in Policies
          /\ verdict[index] \in Verdicts /\ stage' # "start"
      BY <1>3 DEF RecordResult, At, Guarded, NextIndex, Loop, Enter, TypeInv,
                  TypeOK, LoopInBounds, Policies
    <2>2. index' # 1
      BY <2>1 DEF Policies
    <2>3. ASSUME successes' = {} PROVE firstError' = verdict[1].error
      <3>1. /\ ~verdict[index].ok /\ successes = {}
            /\ firstError' = KeepFirstError(verdict[index])
        BY <1>3, <2>3 DEF RecordResult
      <3>2. CASE index = 1
        BY <2>1, <3>1, <3>2 DEF FirstErrorKept, KeepFirstError
      <3>3. CASE index # 1
        <4>1. index > 1 /\ 1 \in Policies /\ 1 < index
          BY <2>1, <3>3 DEF Policies
        <4>2. firstError = verdict[1].error
          BY <2>1, <3>1, <4>1 DEF FirstErrorKept
        <4>3. verdict[1] \in Verdicts /\ ~verdict[1].ok
          BY <2>1, <3>1, <4>1 DEF LoopGathers
        <4>4. firstError # "none"
          BY <4>2, <4>3, ErrorsAssumption DEF Verdicts
        <4> QED
          BY <3>1, <4>2, <4>4 DEF KeepFirstError
      <3> QED
        BY <3>2, <3>3
    <2> QED
      BY <2>1, <2>2, <2>3 DEF FirstErrorKept
  <1> QED
    BY <1>1, <1>2, <1>3

\* After the loop every policy of the configuration is judged, and what was
\* gathered is what the verdicts say.
LEMMA LoopDone ==
    ASSUME SafetyInv, stage = "selection"
    PROVE  /\ AllJudged /\ Acceptors = successes
           /\ successes = {} => CoreVerified = authenticated
  <1> USE BoundsAssumption DEF SafetyInv
  <1>1. index = policies + 1 /\ stage \in Guarded
    BY DEF LoopGathers, Guarded
  <1>2. ASSUME NEW p \in Policies PROVE \/ p < index /\ verdict[p] \in Verdicts
                                        \/ ~(p < index) /\ verdict[p] = Unknown
    <2>1. p < index \/ p = index \/ p > index
      BY DEF TypeInv, TypeOK, Policies
    <2>2. ~(p < index /\ p > index) /\ ~(p < index /\ p = index)
      BY DEF TypeInv, TypeOK, Policies
    <2> QED
      BY <1>1, <2>1, <2>2 DEF LoopGathers, Guarded
  <1>3. \A p \in Policies : verdict[p].ok => p < index
    BY <1>2 DEF Unknown
  <1>4. \A p \in Policies : verdict[p].core => p < index
    BY <1>2 DEF Unknown
  <1>5. Acceptors = successes
    BY <1>1, <1>3 DEF Acceptors, LoopGathers
  <1>6. successes = {} => CoreVerified = authenticated
    BY <1>1, <1>3, <1>4 DEF CoreVerified, LoopGathers
  <1>7. AllJudged
    <2> SUFFICES ASSUME NEW p \in 1 .. policies PROVE verdict[p] # Unknown
      BY DEF AllJudged
    <2>1. p \in Policies /\ p < index
      BY <1>1 DEF Policies, TypeInv, TypeOK
    <2>2. verdict[p] \in Verdicts
      BY <1>2, <2>1
    <2>3. verdict[p].error \in CarrierErrors \cup {"none"}
      BY <2>2 DEF Verdicts
    <2> QED
      BY <2>3, ErrorsAssumption DEF Unknown
  <1> QED
    BY <1>5, <1>6, <1>7

LEMMA SelectionStep ==
    SafetyInv /\ SelectionInv /\ [Next]_vars =>
        (stage \in {"report", "exit"} => Matches(event))'
  <1> SUFFICES ASSUME SafetyInv, SelectionInv, [Next]_vars,
                      stage' \in {"report", "exit"}
               PROVE  Matches(event)'
    OBVIOUS
  <1> USE BoundsAssumption DEF SafetyInv
  <1>1. CASE Tick \/ RequestCancellation \/ Kill \/ Exit \/ Emit
             \/ UNCHANGED vars
    <2>1. /\ UNCHANGED <<event, verdict, policies>>
          /\ stage \in {"report", "exit"}
      BY <1>1 DEF Tick, RequestCancellation, Kill, Exit, Emit, At, findings,
                  settings, vars
    <2> QED
      BY <2>1 DEF SelectionInv, Matches, AllJudged, Acceptors, CoreVerified
  <1>2. CASE InstallFails \/ Throw
    <2>1. \/ event' = ExceptionEvent
          \/ /\ UNCHANGED <<event, verdict, policies>>
             /\ stage \in {"report", "exit"}
      BY <1>2 DEF InstallFails, Throw, Finish, TypeInv, TypeOK,
                  HandlersInBounds, findings, settings
    <2> QED
      BY <2>1 DEF SelectionInv, Matches, ExceptionEvent, AllJudged, Acceptors,
                  CoreVerified
  <1>3. CASE SelectPolicy
    <2>1. /\ stage = "selection" /\ UNCHANGED <<verdict, policies>>
          /\ ~ \E p \in Policies : Selected(p)
          /\ Deny(SelectionReason, SelectionPolicy)
      BY <1>3 DEF SelectPolicy, At, Enter, findings, settings
    <2>2. /\ event'.reason = SelectionReason
          /\ event'.policy = SelectionPolicy
      BY <2>1 DEF Deny, Finish, Denial
    <2>3. /\ AllJudged /\ Acceptors = successes
          /\ successes = {} => CoreVerified = authenticated
      BY <2>1, LoopDone
    <2>4. ~ \E p \in Policies : Acceptors = {p}
      BY <2>1, <2>3 DEF Selected
    <2>5. SelectionReason = IF Acceptors # {} \/ policies = 0
                            THEN "issuer_untrusted" ELSE verdict[1].error
      <3>1. index = policies + 1 /\ stage \in Guarded
        BY <2>1 DEF LoopGathers, Guarded
      <3>2. CASE successes # {}
        BY <2>3, <3>2 DEF SelectionReason
      <3>3. CASE successes = {} /\ policies = 0
        <4>1. index = 1
          BY <3>1, <3>3
        <4>2. firstError = "none"
          BY <3>1, <4>1 DEF SelectionInv, FirstErrorKept
        <4> QED
          BY <3>3, <4>2 DEF SelectionReason
      <3>4. CASE successes = {} /\ policies # 0
        <4>1. index > 1 /\ 1 < index /\ 1 \in Policies
          BY <3>1, <3>4 DEF TypeInv, TypeOK, Policies
        <4>2. firstError = verdict[1].error
          BY <3>1, <3>4, <4>1 DEF SelectionInv, FirstErrorKept
        <4>3. verdict[1] \in Verdicts /\ ~verdict[1].ok
          BY <3>1, <3>4, <4>1 DEF LoopGathers
        <4>4. firstError # "none"
          BY <4>2, <4>3, ErrorsAssumption DEF Verdicts
        <4> QED
          BY <2>3, <3>4, <4>2, <4>4 DEF SelectionReason
      <3> QED
        BY <3>2, <3>3, <3>4
    <2>6. IF Acceptors = {} /\ \E p \in Policies : CoreVerified = {p}
          THEN CoreVerified = {SelectionPolicy} ELSE SelectionPolicy = 0
      BY <2>3 DEF SelectionPolicy, Sole
    <2>7. AllJudged' /\ Acceptors' = Acceptors /\ CoreVerified' = CoreVerified
      BY <2>1, <2>3 DEF AllJudged, Acceptors, CoreVerified
    <2> QED
      BY <2>1, <2>2, <2>4, <2>5, <2>6, <2>7 DEF Matches
  <1>4. CASE ReadClock \/ ReadFlag \/ ParseArguments \/ LoadConfiguration
             \/ DecodeOffered \/ BoundLine
    <2>1. PICK reason \in ConfigErrors \cup KeyErrors \cup
                  {"deadline_exceeded", "operation_cancelled",
                   "internal_error", "malformed_input", "resource_limit"} :
              \E policy : Deny(reason, policy)
      BY <1>4 DEF ReadClock, ReadFlag, ClockReason, ParseArguments,
                  LoadConfiguration, DecodeOffered, BoundLine, Enter, Guarded,
                  TypeInv, HandlersInBounds
    <2>2. event'.reason = reason
      BY <2>1 DEF Deny, Finish, Denial
    <2>3. reason \notin SelectionErrors
      BY <2>1, ErrorsAssumption DEF SelectionErrors
    <2> QED
      BY <2>2, <2>3 DEF Matches
  <1>5. CASE WriteLine
    <2>1. \/ event'.outcome = "allow"
          \/ event'.reason = "internal_error"
      BY <1>5 DEF WriteLine, ReportWrite, Allowance, Deny, Finish, Denial
    <2> QED
      BY <2>1 DEF Matches, SelectionErrors
  <1>6. CASE Start \/ BeginLoop \/ VerifyCarrier \/ RecordResult
    BY <1>6 DEF Start, BeginLoop, VerifyCarrier, RecordResult, Loop, Enter
  <1> QED
    BY <1>1, <1>2, <1>3, <1>4, <1>5, <1>6 DEF Next, Environment, Program, Computation, Call

\* The denial that closes a complete evaluation names the first policy's
\* error, or an untrusted issuer when none or several accepted, and an
\* identity only when a single policy authenticated one; no other stage of
\* run_verify can log such a denial.
THEOREM SelectionMatches == Spec => []SelectionMatchesVerdicts
  <1>1. Init => SelectionInv
    BY DEF Init, SelectionInv, FirstErrorKept, Guarded
  <1>2. SafetyInv /\ SelectionInv /\ [Next]_vars => SelectionInv'
    BY FirstErrorStep, SelectionStep DEF SelectionInv
  <1>3. Spec => []SelectionInv
    BY <1>1, <1>2, SafetyInductive, PTL DEF Spec
  <1>4. SafetyInv /\ SelectionInv => SelectionMatchesVerdicts
    <2> SUFFICES ASSUME SafetyInv, SelectionInv, NEW i \in DOMAIN log
                 PROVE  Matches(log[i])
      BY DEF SelectionMatchesVerdicts, Matches
    <2>1. log # <<>>
      OBVIOUS
    <2>2. stage = "exit" /\ log = <<event>>
      BY <2>1 DEF SafetyInv, ReportLast
    <2>3. log[i] = event
      BY <2>2
    <2> QED
      BY <2>2, <2>3 DEF SelectionInv
  <1> QED
    BY <1>3, <1>4, SafetyInductive, PTL
=============================================================================
