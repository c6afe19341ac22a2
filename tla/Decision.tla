------------------------------ MODULE Decision ------------------------------
(***************************************************************************)
(* What one verification promises sshd and the audit log, without stages,  *)
(* deadlines or handlers: policies are judged in order, the key line of a  *)
(* policy is handed over only when all are judged and it alone accepted,   *)
(* and one report closes the run and cannot contradict the answer.         *)
(***************************************************************************)
EXTENDS Integers

CONSTANTS
    MaxPolicies,    \* largest number of policies of a configuration
    Verdicts,       \* what a judged policy may be given
    Unknown,        \* the verdict of a policy not judged yet
    Reports,        \* the audit events
    NoReport        \* no event yet

VARIABLES
    policies,       \* how many policies the configuration has
    verdict,        \* the verdict on each
    answer,         \* the policy whose line was handed over, 0 if none
    extent,         \* how much of that line has reached sshd
    report          \* the audit event, or NoReport

vars == <<policies, verdict, answer, extent, report>>

Policies == 1 .. MaxPolicies

Acceptors == {p \in Policies : verdict[p].ok}

AllJudged == \A p \in 1 .. policies : verdict[p] # Unknown

Init ==
    /\ policies = 0 /\ verdict = [p \in Policies |-> Unknown]
    /\ answer = 0 /\ extent = 0 /\ report = NoReport

Configure ==
    /\ policies = 0 /\ report = NoReport
    /\ policies' \in 1 .. MaxPolicies
    /\ UNCHANGED <<verdict, answer, extent, report>>

Judge(p) ==
    /\ report = NoReport /\ answer = 0 /\ p <= policies
    /\ verdict[p] = Unknown
    /\ \A q \in 1 .. p - 1 : verdict[q] # Unknown
    /\ \E v \in Verdicts : verdict' = [verdict EXCEPT ![p] = v]
    /\ UNCHANGED <<policies, answer, extent, report>>

Answer(p) ==
    /\ report = NoReport /\ answer = 0
    /\ AllJudged /\ Acceptors = {p}
    /\ answer' = p
    /\ extent' \in 0 .. 2
    /\ UNCHANGED <<policies, verdict, report>>

\* Output that was held back reaches sshd later, even after the report.
Deliver ==
    /\ answer # 0
    /\ extent' \in extent + 1 .. 2
    /\ UNCHANGED <<policies, verdict, answer, report>>

Report(e) ==
    /\ report = NoReport
    /\ \/ e.outcome = "allow" /\ answer # 0 /\ e.policy = answer
       \/ e.outcome = "deny" /\ answer = 0
       \/ e.outcome = "error"
    /\ e.policy # 0 => verdict[e.policy].core
    /\ report' = e
    /\ UNCHANGED <<policies, verdict, answer, extent>>

Next ==
    \/ Configure \/ Deliver
    \/ \E p \in Policies : Judge(p) \/ Answer(p)
    \/ \E e \in Reports : Report(e)

Spec == Init /\ [][Next]_vars
=============================================================================
