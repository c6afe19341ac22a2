------------------------- MODULE PublishRefinement --------------------------
(* Publish as an implementation of Register.                               *)
EXTENDS Publish

Whole(file, extent) ==
    IF file \in Procs /\ extent[file] # Full THEN "torn" ELSE file

R == INSTANCE Register WITH
    value   <- Whole(dir[Target], size),
    durable <- Whole(disk[Target], synced),
    forced  <- {p \in Procs : force[p]},
    pending <- unsettled,
    acked   <- {p \in Procs : result[p] = "ok"}

\* PATH behaves as one register that is replaced as a whole, settles, and
\* falls back only to what had settled, whatever the processes, the machine
\* and somebody else do between two system calls.
PublishesAtomically == R!Spec
=============================================================================
