------------------------------ MODULE MCVerify ------------------------------
(* Verify for TLC, with the refinement of Decision.                        *)
EXTENDS Verify

D == INSTANCE Decision WITH
    Reports  <- Events,
    NoReport <- NoEvent,
    answer   <- IF written > 0 THEN Sole(successes) ELSE 0,
    extent   <- delivered,
    report   <- IF log = <<>> THEN NoEvent ELSE log[Len(log)]

\* Every execution, with its signals, deadlines, short writes and
\* exceptions, is one of Decision: run_verify answers for the sole acceptor
\* of a complete evaluation, once, and its one report agrees with the answer.
Decides == D!Spec
=============================================================================
