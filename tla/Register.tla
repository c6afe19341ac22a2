------------------------------ MODULE Register ------------------------------
(***************************************************************************)
(* What publish promises about PATH: one value, replaced as a whole, which *)
(* settles on the disk some time later and falls back to what had settled  *)
(* when the machine stops.  A process whose value was acknowledged is one  *)
(* of those that cannot fall back any more.                                *)
(***************************************************************************)
CONSTANTS Procs, None

VARIABLES
    value,      \* the entry at PATH
    durable,    \* the entry a stop of the machine would leave
    forced,     \* the processes that may replace an entry
    pending,    \* the processes whose value has not settled
    acked       \* the processes told that theirs has

vars == <<value, durable, forced, pending, acked>>

Init ==
    /\ value \notin Procs /\ durable = value
    /\ forced = {} /\ pending = {} /\ acked = {}

Ask(p) ==
    /\ forced' = forced \cup {p}
    /\ UNCHANGED <<value, durable, pending, acked>>

Put(p) ==
    /\ p \notin acked
    /\ value = None \/ p \in forced
    /\ value' = p /\ pending' = pending \cup {p}
    /\ UNCHANGED <<durable, forced, acked>>

Settle ==
    /\ durable' = value /\ pending' = {}
    /\ UNCHANGED <<value, forced, acked>>

Acknowledge(p) ==
    /\ durable' = value /\ pending' = {}
    /\ acked' = acked \cup {p}
    /\ UNCHANGED <<value, forced>>

FallBack ==
    /\ pending' = {}
    /\ value' = durable
    /\ UNCHANGED <<durable, forced, acked>>

Tamper ==
    /\ value' \notin Procs
    /\ UNCHANGED <<durable, forced, pending, acked>>

Next ==
    \/ \E p \in Procs : Ask(p) \/ Put(p) \/ Acknowledge(p)
    \/ Settle \/ FallBack \/ Tamper

Spec == Init /\ [][Next]_vars
=============================================================================
