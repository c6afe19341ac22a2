---------------------------- MODULE DecisionProofs ----------------------------
(***************************************************************************)
(* Verify implements Decision, under the mapping of MCVerify: what sshd    *)
(* and the audit log see of run_verify is one evaluation, at most one      *)
(* answer and at most one report that agrees with it.                      *)
(***************************************************************************)
EXTENDS MCVerify, VerifyProofs

\* What the mapping needs beyond SafetyInv: a configuration is loaded once,
\* nothing is delivered that was not written, and once something is written
\* the successes stand still, so that Sole keeps naming the same policy.
DecisionInv ==
    /\ stage \in {"start", "arguments", "configuration"} => policies = 0
    /\ delivered <= written
    /\ written > 0 => \E p \in Policies : successes = {p} /\ Acceptors = {p}

\* The variables of Decision, as Verify gives them.
Answer == IF written > 0 THEN Sole(successes) ELSE 0
Report == IF log = <<>> THEN NoEvent ELSE log[Len(log)]

-----------------------------------------------------------------------------
(* Only three actions touch what the mapping reads of the output and the   *)
(* log, and two what it reads of the evaluation.                           *)

LEMMA OutputFrame ==
    ASSUME [Next]_vars, ~WriteLine, ~Exit
    PROVE  UNCHANGED <<written, delivered>>
  BY DEF Next, Environment, Program, Computation, Call, Tick, RequestCancellation, Kill, Start,
         InstallFails, ReadClock, ReadFlag, ParseArguments, LoadConfiguration,
         DecodeOffered, BeginLoop, VerifyCarrier, RecordResult, SelectPolicy,
         BoundLine, Emit, Throw, output, vars

LEMMA LogFrame ==
    ASSUME [Next]_vars, ~Emit
    PROVE  log' = log
  BY DEF Next, Environment, Program, Computation, Call, Tick, RequestCancellation, Kill, Start,
         InstallFails, ReadClock, ReadFlag, ParseArguments, LoadConfiguration,
         DecodeOffered, BeginLoop, VerifyCarrier, RecordResult, SelectPolicy,
         BoundLine, WriteLine, Throw, Exit, audit, vars

LEMMA EvaluationFrame ==
    ASSUME [Next]_vars, ~VerifyCarrier
    PROVE  /\ verdict' = verdict
           /\ ~RecordResult => successes' = successes
           /\ ~LoadConfiguration => policies' = policies
  BY DEF Next, Environment, Program, Computation, Call, Tick, RequestCancellation, Kill, Start,
         InstallFails, ReadClock, ReadFlag, ParseArguments, LoadConfiguration,
         DecodeOffered, BeginLoop, RecordResult, SelectPolicy, BoundLine,
         WriteLine, Emit, Throw, Exit, findings, settings, vars

\* The stages before the configuration is loaded are not come back to.
LEMMA StageFrame ==
    ASSUME [Next]_vars, stage' \in {"start", "arguments", "configuration"}
    PROVE  /\ stage \in {"start", "arguments", "configuration"}
           /\ policies' = policies
  BY DEF Next, Environment, Program, Computation, Call, Tick, RequestCancellation, Kill, Start,
         InstallFails, ReadClock, ReadFlag, ParseArguments, LoadConfiguration,
         DecodeOffered, BeginLoop, VerifyCarrier, RecordResult, SelectPolicy,
         BoundLine, WriteLine, ReportWrite, Emit, Throw, Exit, At, Loop, Enter,
         Deny, Finish, settings, vars

LEMMA DecisionStep ==
    SafetyInv /\ DecisionInv /\ [Next]_vars => DecisionInv'
  <1> SUFFICES ASSUME SafetyInv, DecisionInv, [Next]_vars PROVE DecisionInv'
    OBVIOUS
  <1> USE BoundsAssumption DEF SafetyInv
  <1>1. stage' \in {"start", "arguments", "configuration"} => policies' = 0
    BY StageFrame DEF DecisionInv
  <1>2. delivered' <= written'
    <2>1. CASE WriteLine
      BY <2>1 DEF WriteLine, Extent
    <2>2. CASE Exit
      BY <2>2 DEF Exit, TypeInv, TypeOK, Extent
    <2>3. CASE ~WriteLine /\ ~Exit
      BY <2>3, OutputFrame DEF DecisionInv
    <2> QED
      BY <2>1, <2>2, <2>3
  <1>3. ASSUME written' > 0
        PROVE  \E p \in Policies : successes' = {p} /\ Acceptors' = {p}
    <2>1. CASE WriteLine
      <3>1. stage = "output" /\ UNCHANGED <<successes, verdict>>
        BY <2>1 DEF WriteLine, At, findings
      <3>2. PICK p \in Policies : successes = {p}
        BY <3>1 DEF TypeInv, LoopInBounds
      <3>3. Sole(successes) = p
        BY <3>2 DEF Sole
      <3>4. Acceptors = {p}
        BY <3>1, <3>3, AttributionAuthenticated
      <3>5. Acceptors' = Acceptors
        BY <3>1 DEF Acceptors
      <3> QED
        BY <3>1, <3>2, <3>4, <3>5
    <2>2. CASE ~WriteLine
      <3>1. written' = written
        <4>1. CASE Exit
          BY <4>1 DEF Exit
        <4> QED
          BY <2>2, <4>1, OutputFrame
      <3>2. stage \in {"report", "exit"}
        BY <1>3, <3>1 DEF ReportLast
      <3>3. ~VerifyCarrier /\ ~RecordResult
        BY <3>2 DEF VerifyCarrier, RecordResult, At
      <3>4. UNCHANGED <<verdict, successes>>
        BY <3>3, EvaluationFrame
      <3> QED
        BY <1>3, <3>1, <3>4 DEF DecisionInv, Acceptors
    <2> QED
      BY <2>1, <2>2
  <1> QED
    BY <1>1, <1>2, <1>3 DEF DecisionInv

LEMMA DecisionInductive == Spec => []DecisionInv
  <1>1. Init => DecisionInv
    BY DEF Init, DecisionInv
  <1> QED
    BY <1>1, DecisionStep, SafetyInductive, PTL DEF Spec

-----------------------------------------------------------------------------
(* The refinement. *)

LEMMA DecisionInit == Init => D!Init
  BY DEF Init, D!Init, Policies, D!Policies

\* Nobody answers before the report, and nobody reports twice.
LEMMA Unanswered ==
    ASSUME SafetyInv, stage # "exit"
    PROVE  /\ Report = NoEvent
           /\ stage # "report" => Answer = 0 /\ written = 0
  BY DEF SafetyInv, ReportLast, Report, Answer

LEMMA RefinementStep ==
    ASSUME SafetyInv, DecisionInv, [Next]_vars
    PROVE  [D!Next]_(D!vars)
  <1> USE BoundsAssumption DEF SafetyInv
  <1> DEFINE Stutter ==
        UNCHANGED <<policies, verdict, Answer, delivered, Report>>
  <1>1. Stutter => UNCHANGED D!vars
    BY DEF D!vars, Answer, Report
  <1>2. CASE LoadConfiguration
    <2>1. stage = "configuration" /\ policies = 0 /\ policies' \in 0 .. MaxPolicies
      BY <1>2 DEF LoadConfiguration, At, DecisionInv, TypeInv, TypeOK
    <2>2. Report = NoEvent /\ log' = log /\ UNCHANGED <<written, delivered>>
      BY <1>2, <2>1, Unanswered, LogFrame, OutputFrame
         DEF LoadConfiguration, WriteLine, Exit, Emit, At
    <2>3. UNCHANGED <<verdict, successes>>
      BY <1>2 DEF LoadConfiguration, findings
    <2>4. UNCHANGED <<verdict, Answer, delivered, Report>>
      BY <2>2, <2>3 DEF Answer, Report
    <2>5. CASE policies' = 0
      BY <1>1, <2>1, <2>4, <2>5
    <2>6. CASE policies' # 0
      <3>1. D!Configure
        BY <2>1, <2>2, <2>4, <2>6 DEF D!Configure, Answer, Report
      <3> QED
        BY <3>1 DEF D!Next
    <2> QED
      BY <2>5, <2>6
  <1>3. CASE VerifyCarrier
    <2>1. /\ stage = "policy" /\ stage \in Guarded /\ index \in Policies
          /\ index <= policies
      BY <1>3 DEF VerifyCarrier, At, Guarded, TypeInv, TypeOK, LoopInBounds,
                  Policies
    <2>2. Report = NoEvent /\ Answer = 0 /\ written = 0
      BY <2>1, Unanswered
    <2>3. /\ UNCHANGED <<log, written, delivered, policies, successes>>
          /\ \E v \in Verdicts : verdict' = [verdict EXCEPT ![index] = v]
      BY <1>3 DEF VerifyCarrier, audit, output, settings
    <2>4. verdict[index] = Unknown
      BY <2>1 DEF LoopGathers
    <2>5. ASSUME NEW q \in 1 .. index - 1 PROVE verdict[q] # Unknown
      <3>1. q \in Policies /\ q < index
        BY <2>1 DEF Policies
      <3>2. verdict[q] \in Verdicts
        BY <2>1, <3>1 DEF LoopGathers
      <3>3. verdict[q].error \in CarrierErrors \cup {"none"}
        BY <3>2 DEF Verdicts
      <3> QED
        BY <3>3, ErrorsAssumption DEF Unknown
    <2>6. UNCHANGED <<policies, Answer, delivered, Report>>
      BY <2>3 DEF Answer, Report
    <2>7. D!Judge(index)
      BY <2>1, <2>2, <2>3, <2>4, <2>5, <2>6 DEF D!Judge, Answer, Report
    <2> QED
      BY <2>1, <2>7 DEF D!Next, Policies, D!Policies
  <1>4. CASE WriteLine
    <2>1. stage = "output" /\ UNCHANGED <<policies, verdict, successes, log>>
      BY <1>4 DEF WriteLine, At, settings, findings, audit
    <2>2. Report = NoEvent /\ Answer = 0 /\ written = 0
      BY <2>1, Unanswered
    <2>3. delivered = 0 /\ delivered' \in 0 .. written' /\ written' \in Extent
      BY <1>4, <2>2 DEF WriteLine, DecisionInv, TypeInv, TypeOK, Extent
    <2>4. Report' = Report
      BY <2>1 DEF Report
    <2>5. CASE written' = 0
      <3>1. Answer' = 0 /\ delivered' = 0
        BY <2>3, <2>5 DEF Answer
      <3> QED
        BY <1>1, <2>1, <2>2, <2>3, <2>4, <3>1
    <2>6. CASE written' # 0
      <3>1. written' > 0 /\ delivered' \in 0 .. 2
        BY <2>3, <2>6 DEF Extent
      <3>2. LineIsUnambiguous' /\ DecisionInv'
        BY LineStep, DecisionStep
      <3>3. PICK p \in Policies : successes' = {p} /\ Acceptors' = {p}
        BY <3>1, <3>2 DEF DecisionInv
      <3>4. Answer' = p
        BY <3>1, <3>3 DEF Answer, Sole
      <3>5. Acceptors = {p} /\ AllJudged
        BY <2>1, <3>1, <3>2, <3>3 DEF LineIsUnambiguous, AllJudged, Acceptors
      <3>6. D!Acceptors = {p} /\ D!AllJudged
        BY <3>5 DEF D!Acceptors, D!Policies, D!AllJudged, Acceptors, Policies,
                    AllJudged
      <3>7. D!Answer(p)
        BY <2>1, <2>2, <2>4, <3>1, <3>4, <3>6 DEF D!Answer, Answer, Report
      <3> QED
        BY <3>7 DEF D!Next, Policies, D!Policies
    <2> QED
      BY <2>5, <2>6
  <1>5. CASE Exit
    <2>1. /\ UNCHANGED <<policies, verdict, successes, log, written>>
          /\ delivered' \in delivered .. written
      BY <1>5 DEF Exit, settings, findings, audit
    <2>2. UNCHANGED <<policies, verdict, Answer, Report>>
      BY <2>1 DEF Answer, Report
    <2>3. CASE delivered' = delivered
      BY <1>1, <2>2, <2>3
    <2>4. CASE delivered' # delivered
      <3>1. written > 0 /\ delivered' \in delivered + 1 .. 2
        BY <2>1, <2>4 DEF TypeInv, TypeOK, Extent
      <3>2. Answer # 0
        BY <3>1 DEF DecisionInv, Answer, Sole, Policies
      <3>3. D!Deliver
        BY <2>2, <3>1, <3>2 DEF D!Deliver, Answer, Report
      <3> QED
        BY <3>3 DEF D!Next
    <2> QED
      BY <2>3, <2>4
  <1>6. CASE Emit
    <2>1. /\ stage = "report" /\ log = <<>>
          /\ UNCHANGED <<policies, verdict, successes, written, delivered>>
          /\ log' = log \/ log' = Append(log, event)
      BY <1>6 DEF Emit, At, settings, findings, output, audit, ReportLast
    <2>2. UNCHANGED <<policies, verdict, Answer, delivered>>
      BY <2>1 DEF Answer
    <2>3. CASE log' = log
      <3>1. Report' = Report
        BY <2>3 DEF Report
      <3> QED
        BY <1>1, <2>2, <3>1
    <2>4. CASE log' = Append(log, event)
      <3>1. log' = <<event>> /\ log' # <<>>
        BY <2>1, <2>4
      <3>2. Report = NoEvent /\ Report' = event
        BY <2>1, <3>1 DEF Report
      <3>3. ASSUME event.outcome = "allow"
            PROVE  Answer # 0 /\ event.policy = Answer
        <4>1. written > 0 /\ Acceptors = {event.policy}
          BY <2>1, <3>3 DEF EventTruthful, Whole
        <4>2. PICK p \in Policies : successes = {p} /\ Acceptors = {p}
          BY <4>1 DEF DecisionInv
        <4> QED
          BY <4>1, <4>2 DEF Answer, Sole, Policies
      <3>4. event.outcome = "deny" => Answer = 0
        BY <2>1 DEF EventTruthful, Answer
      <3>5. event.policy # 0 => verdict[event.policy].core
        BY <2>1 DEF EventTruthful, CoreVerified
      <3>6. event.outcome \in {"allow", "deny", "error"} /\ event \in Events
        BY <2>1 DEF EventTruthful, Serializable, TypeInv, TypeOK
      <3>7. D!Report(event)
        BY <2>2, <3>2, <3>3, <3>4, <3>5, <3>6 DEF D!Report, Answer, Report
      <3> QED
        BY <3>6, <3>7 DEF D!Next
    <2> QED
      BY <2>1, <2>3, <2>4
  <1>7. CASE RecordResult
    <2>1. /\ stage = "carrier"
          /\ UNCHANGED <<policies, verdict, log, written, delivered>>
      BY <1>7 DEF RecordResult, At, settings, output, audit
    <2>2. written = 0
      BY <2>1, Unanswered
    <2> QED
      BY <1>1, <2>1, <2>2 DEF Answer, Report
  <1>8. CASE ~LoadConfiguration /\ ~VerifyCarrier /\ ~WriteLine /\ ~Exit
             /\ ~Emit /\ ~RecordResult
    BY <1>1, <1>8, OutputFrame, LogFrame, EvaluationFrame DEF Answer, Report
  <1> QED
    BY <1>2, <1>3, <1>4, <1>5, <1>6, <1>7, <1>8

\* Every execution of verify, with its signals, deadlines, short writes and
\* exceptions, is one of Decision: every policy is judged once and in order,
\* the line of the sole acceptor is handed over at most once, and the one
\* report names what happened.
THEOREM VerifyDecides == Spec => Decides
  <1>1. [][Next]_vars /\ []SafetyInv /\ []DecisionInv
           => [][D!Next]_(D!vars)
    BY RefinementStep, PTL
  <1> QED
    BY <1>1, DecisionInit, SafetyInductive, DecisionInductive, PTL
       DEF Spec, D!Spec, Decides
=============================================================================
