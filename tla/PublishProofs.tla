--------------------------- MODULE PublishProofs ----------------------------
(***************************************************************************)
(* Theorems about Publish, for any number of processes, any identifiers,   *)
(* temporary names and file sizes, and any number of deaths, stops and     *)
(* foreign changes.                                                        *)
(***************************************************************************)
EXTENDS PublishRefinement, TLAPS

-----------------------------------------------------------------------------
(* The inductive invariant.  What a process relies on at each system call  *)
(* is the state of its own file: where it is named and what of it is       *)
(* written.                                                                *)

HasName ==
    \A p \in Procs : pc[p] \in Owning \cup {"create"} => temp[p] \in Temporaries

\* A process that has not created its file is named nowhere.
Unmade ==
    \A p \in Procs, n \in Names :
        pc[p] \in {"begin", "inspect", "create"} => dir[n] # p /\ disk[n] # p

\* While it works on the file, no other temporary name leads there.
OneName ==
    \A p \in Procs, n \in Temporaries :
        pc[p] \in Owning /\ dir[n] = p => n = temp[p]

Unnamed ==
    \A p \in Procs, n \in Temporaries : pc[p] = "syncdir" => dir[n] # p

Written ==
    \A p \in Procs :
        /\ pc[p] = "sync" => size[p] = Full
        /\ pc[p] = "place" => size[p] = Full /\ synced[p] = Full

\* What PATH leads to is complete in memory and on the disk, and so is what
\* PATH would lead to after a stop.
WholeTwice ==
    \A p \in Procs :
        p \in {dir[Target], disk[Target]} => size[p] = Full /\ synced[p] = Full

Settling ==
    \A p \in Procs :
        /\ p \in unsettled =>
               pc[p] \in {"unlink", "syncdir", "cleanup", "returned", "dead"}
        /\ p \in undone => pc[p] \in {"returned", "dead"}
        /\ result[p] # "none" => pc[p] = "returned"
        /\ pc[p] = "begin" => ~force[p]

Inv ==
    /\ TypeOK /\ OwnTemporary /\ HasName /\ Unmade /\ OneName /\ Unnamed
    /\ Written /\ WholeTwice /\ Settling /\ SuccessIsDurable /\ NoLeftover

-----------------------------------------------------------------------------
(* Names: the target is no temporary name, and the names tried after one   *)
(* another stay within the temporary names.                                *)

LEMMA NameFacts ==
    /\ Target \in Names /\ Temporaries \subseteq Names
    /\ Target \notin Temporaries
  BY PublishAssumption DEF Target, Temporaries, Names

LEMMA FirstName == ASSUME NEW pid \in Pids PROVE <<pid, 0>> \in Temporaries
  BY PublishAssumption DEF Temporaries

LEMMA NextName ==
    ASSUME NEW t \in Temporaries, t[2] + 1 < MaxAttempts
    PROVE  <<t[1], t[2] + 1>> \in Temporaries
  BY PublishAssumption DEF Temporaries

LEMMA EntryFacts ==
    /\ Procs \subseteq Entries /\ Foreign \cup {None} \subseteq Entries
    /\ Procs \cap (Foreign \cup {None}) = {}
  BY PublishAssumption, ForeignAssumption DEF Entries

LEMMA InvInit == Init => Inv
  <1> SUFFICES ASSUME Init PROVE Inv
    OBVIOUS
  <1>1. TypeOK
    BY PublishAssumption, NameFacts, EntryFacts
    DEF Init, TypeOK, Entries, Foreign
  <1>2. \A p \in Procs, n \in Names : dir[n] # p /\ disk[n] # p
    BY NameFacts, EntryFacts DEF Init, Foreign
  <1> QED
    BY <1>1, <1>2, NameFacts
    DEF Init, Inv, OwnTemporary, HasName, Unmade, OneName, Unnamed, Written,
        WholeTwice, Settling, SuccessIsDurable, NoLeftover, Owning

LEMMA BeginKeeps == ASSUME Inv, NEW p \in Procs, Begin(p) PROVE Inv'
  <1> USE NameFacts, EntryFacts
      DEF Inv, TypeOK, Begin, Goto, Return, files, local, history,
          Owning
  <1>1. TypeOK'
    OBVIOUS
  <1>2. (OwnTemporary /\ HasName)'
    BY DEF OwnTemporary, HasName, OneName, Unmade
  <1>3. (Unmade /\ OneName /\ Unnamed)'
    BY DEF OwnTemporary, HasName, Unmade, OneName, Unnamed, Settling
  <1>4. (Written /\ WholeTwice)'
    BY DEF OwnTemporary, Unmade, Written, WholeTwice
  <1>5. (Settling /\ SuccessIsDurable)'
    BY DEF Settling, SuccessIsDurable
  <1>6. NoLeftover'
    BY DEF OwnTemporary, Unmade, OneName, Unnamed, Settling, NoLeftover
  <1> QED
    BY <1>1, <1>2, <1>3, <1>4, <1>5, <1>6

LEMMA InspectKeeps == ASSUME Inv, NEW p \in Procs, Inspect(p) PROVE Inv'
  <1> USE NameFacts, EntryFacts
      DEF Inv, TypeOK, Inspect, Goto, Return, files, local, history,
          Owning
  <1>1. TypeOK'
    BY FirstName
  <1>2. (OwnTemporary /\ HasName)'
    BY FirstName DEF OwnTemporary, HasName
  <1>3. (Unmade /\ OneName /\ Unnamed)'
    BY DEF OwnTemporary, HasName, Unmade, OneName, Unnamed, Settling
  <1>4. (Written /\ WholeTwice)'
    BY DEF OwnTemporary, Unmade, Written, WholeTwice
  <1>5. (Settling /\ SuccessIsDurable)'
    BY DEF Settling, SuccessIsDurable
  <1>6. NoLeftover'
    BY DEF OwnTemporary, Unmade, OneName, Unnamed, Settling, NoLeftover
  <1> QED
    BY <1>1, <1>2, <1>3, <1>4, <1>5, <1>6

LEMMA CreateKeeps == ASSUME Inv, NEW p \in Procs, Create(p) PROVE Inv'
  <1> USE NameFacts, EntryFacts
      DEF Inv, TypeOK, Create, MayCreate, Goto, Return, files, local, history,
          Owning
  <1>1. TypeOK'
    BY NextName DEF HasName
  <1>2. (OwnTemporary /\ HasName)'
    BY NextName DEF OwnTemporary, HasName
  <1>3. (Unmade /\ OneName /\ Unnamed)'
    BY DEF OwnTemporary, HasName, Unmade, OneName, Unnamed, Settling
  <1>4. (Written /\ WholeTwice)'
    BY DEF HasName, Unmade, Written, WholeTwice
  <1>5. (Settling /\ SuccessIsDurable)'
    BY DEF Settling, SuccessIsDurable
  <1>6. NoLeftover'
    BY DEF OwnTemporary, Unmade, OneName, Unnamed, Settling, NoLeftover
  <1> QED
    BY <1>1, <1>2, <1>3, <1>4, <1>5, <1>6

LEMMA WriteKeeps == ASSUME Inv, NEW p \in Procs, Write(p) PROVE Inv'
  <1> USE NameFacts, EntryFacts
      DEF Inv, TypeOK, Write, Advanced, Goto, Return, files, local, history,
          Owning
  <1>1. TypeOK'
    OBVIOUS
  <1>2. (OwnTemporary /\ HasName)'
    BY DEF OwnTemporary, HasName, OneName, Unmade
  <1>3. (Unmade /\ OneName /\ Unnamed)'
    BY DEF OwnTemporary, HasName, Unmade, OneName, Unnamed, Settling
  <1>4. (Written /\ WholeTwice)'
    BY DEF OwnTemporary, Unmade, Written, WholeTwice
  <1>5. (Settling /\ SuccessIsDurable)'
    BY DEF Settling, SuccessIsDurable
  <1>6. NoLeftover'
    BY DEF OwnTemporary, Unmade, OneName, Unnamed, Settling, NoLeftover
  <1> QED
    BY <1>1, <1>2, <1>3, <1>4, <1>5, <1>6

LEMMA SyncKeeps == ASSUME Inv, NEW p \in Procs, Sync(p) PROVE Inv'
  <1> USE NameFacts, EntryFacts
      DEF Inv, TypeOK, Sync, Synchronized, Goto, Return, files, local, history,
          Owning
  <1>1. TypeOK'
    OBVIOUS
  <1>2. (OwnTemporary /\ HasName)'
    BY DEF OwnTemporary, HasName, OneName, Unmade
  <1>3. (Unmade /\ OneName /\ Unnamed)'
    BY DEF OwnTemporary, HasName, Unmade, OneName, Unnamed, Settling
  <1>4. (Written /\ WholeTwice)'
    BY DEF OwnTemporary, Unmade, Written, WholeTwice
  <1>5. (Settling /\ SuccessIsDurable)'
    BY DEF Settling, SuccessIsDurable
  <1>6. NoLeftover'
    BY DEF OwnTemporary, Unmade, OneName, Unnamed, Settling, NoLeftover
  <1> QED
    BY <1>1, <1>2, <1>3, <1>4, <1>5, <1>6

LEMMA RenameKeeps == ASSUME Inv, NEW p \in Procs, Rename(p) PROVE Inv'
  <1> USE NameFacts, EntryFacts
      DEF Inv, TypeOK, Rename, Goto, Return, files, local, history,
          Owning
  <1>1. TypeOK'
    OBVIOUS
  <1>2. (OwnTemporary /\ HasName)'
    BY DEF OwnTemporary, HasName, OneName, Unmade
  <1>3. (Unmade /\ OneName /\ Unnamed)'
    BY DEF OwnTemporary, HasName, Unmade, OneName, Unnamed, Settling
  <1>4. (Written /\ WholeTwice)'
    BY DEF OwnTemporary, Unmade, Written, WholeTwice
  <1>5. (Settling /\ SuccessIsDurable)'
    BY DEF Settling, SuccessIsDurable
  <1>6. NoLeftover'
    BY DEF OwnTemporary, Unmade, OneName, Unnamed, Settling, NoLeftover
  <1> QED
    BY <1>1, <1>2, <1>3, <1>4, <1>5, <1>6

LEMMA LinkKeeps == ASSUME Inv, NEW p \in Procs, Link(p) PROVE Inv'
  <1> USE NameFacts, EntryFacts
      DEF Inv, TypeOK, Link, MayLink, Goto, Return, files, local, history,
          Owning
  <1>1. TypeOK'
    OBVIOUS
  <1>2. (OwnTemporary /\ HasName)'
    BY DEF OwnTemporary, HasName, OneName, Unmade
  <1>3. (Unmade /\ OneName /\ Unnamed)'
    BY DEF OwnTemporary, HasName, Unmade, OneName, Unnamed, Settling
  <1>4. (Written /\ WholeTwice)'
    BY DEF OwnTemporary, Unmade, Written, WholeTwice
  <1>5. (Settling /\ SuccessIsDurable)'
    BY DEF Settling, SuccessIsDurable
  <1>6. NoLeftover'
    BY DEF OwnTemporary, Unmade, OneName, Unnamed, Settling, NoLeftover
  <1> QED
    BY <1>1, <1>2, <1>3, <1>4, <1>5, <1>6

LEMMA UnlinkKeeps == ASSUME Inv, NEW p \in Procs, Unlink(p) PROVE Inv'
  <1> USE NameFacts, EntryFacts
      DEF Inv, TypeOK, Unlink, Goto, Return, files, local, history,
          Owning
  <1>1. TypeOK'
    OBVIOUS
  <1>2. (OwnTemporary /\ HasName)'
    BY DEF OwnTemporary, HasName, OneName, Unmade
  <1>3. (Unmade /\ OneName /\ Unnamed)'
    BY DEF OwnTemporary, HasName, Unmade, OneName, Unnamed, Settling
  <1>4. (Written /\ WholeTwice)'
    BY DEF OwnTemporary, Unmade, Written, WholeTwice
  <1>5. (Settling /\ SuccessIsDurable)'
    BY DEF Settling, SuccessIsDurable
  <1>6. NoLeftover'
    BY DEF OwnTemporary, Unmade, OneName, Unnamed, Settling, NoLeftover
  <1> QED
    BY <1>1, <1>2, <1>3, <1>4, <1>5, <1>6

LEMMA CleanupKeeps == ASSUME Inv, NEW p \in Procs, Cleanup(p) PROVE Inv'
  <1> USE NameFacts, EntryFacts
      DEF Inv, TypeOK, Cleanup, RemoveTemporary, Goto, Return, files, local, history,
          Owning
  <1>1. TypeOK'
    OBVIOUS
  <1>2. (OwnTemporary /\ HasName)'
    BY DEF OwnTemporary, HasName, OneName, Unmade
  <1>3. (Unmade /\ OneName /\ Unnamed)'
    BY DEF OwnTemporary, HasName, Unmade, OneName, Unnamed, Settling
  <1>4. (Written /\ WholeTwice)'
    BY DEF OwnTemporary, Unmade, Written, WholeTwice
  <1>5. (Settling /\ SuccessIsDurable)'
    BY DEF Settling, SuccessIsDurable
  <1>6. NoLeftover'
    BY DEF OwnTemporary, Unmade, OneName, Unnamed, Settling, NoLeftover
  <1> QED
    BY <1>1, <1>2, <1>3, <1>4, <1>5, <1>6

LEMMA SyncDirectoryKeeps == ASSUME Inv, NEW p \in Procs, SyncDirectory(p) PROVE Inv'
  <1> USE NameFacts, EntryFacts
      DEF Inv, TypeOK, SyncDirectory, SyncOrFail, Goto, Return, files, local, history,
          Owning
  <1>1. TypeOK'
    OBVIOUS
  <1>2. (OwnTemporary /\ HasName)'
    BY DEF OwnTemporary, HasName, OneName, Unmade
  <1>3. (Unmade /\ OneName /\ Unnamed)'
    BY DEF OwnTemporary, HasName, Unmade, OneName, Unnamed, Settling
  <1>4. (Written /\ WholeTwice)'
    BY DEF OwnTemporary, Unmade, Written, WholeTwice
  <1>5. (Settling /\ SuccessIsDurable)'
    BY DEF Settling, SuccessIsDurable
  <1>6. NoLeftover'
    BY DEF OwnTemporary, Unmade, OneName, Unnamed, Settling, NoLeftover
  <1> QED
    BY <1>1, <1>2, <1>3, <1>4, <1>5, <1>6

LEMMA DieKeeps == ASSUME Inv, NEW p \in Procs, Die(p) PROVE Inv'
  <1> USE NameFacts, EntryFacts
      DEF Inv, TypeOK, Die, Running, Goto, Return, files, local, history,
          Owning
  <1>1. TypeOK'
    OBVIOUS
  <1>2. (OwnTemporary /\ HasName)'
    BY DEF OwnTemporary, HasName, OneName, Unmade
  <1>3. (Unmade /\ OneName /\ Unnamed)'
    BY DEF OwnTemporary, HasName, Unmade, OneName, Unnamed, Settling
  <1>4. (Written /\ WholeTwice)'
    BY DEF OwnTemporary, Unmade, Written, WholeTwice
  <1>5. (Settling /\ SuccessIsDurable)'
    BY DEF Settling, SuccessIsDurable
  <1>6. NoLeftover'
    BY DEF OwnTemporary, Unmade, OneName, Unnamed, Settling, NoLeftover
  <1> QED
    BY <1>1, <1>2, <1>3, <1>4, <1>5, <1>6

LEMMA WriteBackKeeps == ASSUME Inv, WriteBack PROVE Inv'
  <1> USE NameFacts, EntryFacts
      DEF Inv, TypeOK, WriteBack, Goto, Return, files, local, history,
          Owning
  <1>1. TypeOK'
    OBVIOUS
  <1>2. (OwnTemporary /\ HasName)'
    BY DEF OwnTemporary, HasName, OneName, Unmade
  <1>3. (Unmade /\ OneName /\ Unnamed)'
    BY DEF OwnTemporary, HasName, Unmade, OneName, Unnamed, Settling
  <1>4. (Written /\ WholeTwice)'
    BY DEF OwnTemporary, Unmade, Written, WholeTwice
  <1>5. (Settling /\ SuccessIsDurable)'
    BY DEF Settling, SuccessIsDurable
  <1>6. NoLeftover'
    BY DEF OwnTemporary, Unmade, OneName, Unnamed, Settling, NoLeftover
  <1> QED
    BY <1>1, <1>2, <1>3, <1>4, <1>5, <1>6

LEMMA StopKeeps == ASSUME Inv, Stop PROVE Inv'
  <1> USE NameFacts, EntryFacts
      DEF Inv, TypeOK, Stop, Running, Goto, Return, files, local, history,
          Owning
  <1>1. TypeOK'
    BY PublishAssumption
  <1>2. (OwnTemporary /\ HasName)'
    BY DEF OwnTemporary, HasName, OneName, Unmade
  <1>3. (Unmade /\ OneName /\ Unnamed)'
    BY DEF OwnTemporary, HasName, Unmade, OneName, Unnamed, Settling
  <1>4. (Written /\ WholeTwice)'
    BY DEF OwnTemporary, Unmade, Written, WholeTwice
  <1>5. (Settling /\ SuccessIsDurable)'
    BY DEF Settling, SuccessIsDurable
  <1>6. NoLeftover'
    BY DEF OwnTemporary, Unmade, OneName, Unnamed, Settling, NoLeftover
  <1> QED
    BY <1>1, <1>2, <1>3, <1>4, <1>5, <1>6

LEMMA TamperKeeps == ASSUME Inv, Tamper PROVE Inv'
  <1> USE NameFacts, EntryFacts
      DEF Inv, TypeOK, Tamper, Goto, Return, files, local, history,
          Owning
  <1>1. TypeOK'
    BY PublishAssumption
  <1>2. (OwnTemporary /\ HasName)'
    BY DEF OwnTemporary, HasName, OneName, Unmade
  <1>3. (Unmade /\ OneName /\ Unnamed)'
    BY DEF OwnTemporary, HasName, Unmade, OneName, Unnamed, Settling
  <1>4. (Written /\ WholeTwice)'
    BY DEF OwnTemporary, Unmade, Written, WholeTwice
  <1>5. (Settling /\ SuccessIsDurable)'
    BY DEF Settling, SuccessIsDurable
  <1>6. NoLeftover'
    BY DEF OwnTemporary, Unmade, OneName, Unnamed, Settling, NoLeftover
  <1> QED
    BY <1>1, <1>2, <1>3, <1>4, <1>5, <1>6

LEMMA InvNext == Inv /\ [Next]_vars => Inv'
  <1> SUFFICES ASSUME Inv, [Next]_vars PROVE Inv'
    OBVIOUS
  <1>1. ASSUME NEW p \in Procs, Step(p) PROVE Inv'
    BY <1>1, BeginKeeps, InspectKeeps, CreateKeeps, WriteKeeps, SyncKeeps,
       RenameKeeps, LinkKeeps, UnlinkKeeps, CleanupKeeps, SyncDirectoryKeeps
    DEF Step
  <1>2. ASSUME NEW p \in Procs, Die(p) PROVE Inv'
    BY <1>2, DieKeeps
  <1>3. CASE WriteBack \/ Stop \/ Tamper
    BY <1>3, WriteBackKeeps, StopKeeps, TamperKeeps
  <1>4. CASE UNCHANGED vars
    BY <1>4
    DEF vars, files, local, history, Inv, TypeOK, OwnTemporary, HasName,
        Unmade, OneName, Unnamed, Written, WholeTwice, Settling,
        SuccessIsDurable, NoLeftover
  <1> QED
    BY <1>1, <1>2, <1>3, <1>4 DEF Next

THEOREM Invariance == Spec => []Inv
  BY InvInit, InvNext, PTL DEF Spec

-----------------------------------------------------------------------------
(* The invariants and the action property of the runs. *)

\* Types: no step leaves the states, names and extents that are declared.
THEOREM TypeCorrect == Spec => []TypeOK
  BY Invariance, PTL DEF Inv

\* Readers of PATH find a whole file or none, before and after any stop.
THEOREM NeverTorn == Spec => []TargetIsWhole
  <1>1. Inv => TargetIsWhole
    BY DEF Inv, WholeTwice, TargetIsWhole
  <1> QED
    BY <1>1, Invariance, PTL

\* A process renames, links and removes no other's temporary file.
THEOREM NamesAreOwn == Spec => []OwnTemporary
  BY Invariance, PTL DEF Inv

\* No stop takes a successful publication back.
THEOREM SuccessLasts == Spec => []SuccessIsDurable
  BY Invariance, PTL DEF Inv

\* A call that returned left no temporary name it could remove.
THEOREM CleansUp == Spec => []NoLeftover
  BY Invariance, PTL DEF Inv

\* Without --force no process takes an existing entry from PATH.
THEOREM NeverClobbers == Spec => NoClobber
  <1>1. ASSUME Inv, [Next]_vars, dir[Target] # None, dir'[Target] # dir[Target]
        PROVE  \/ \E p \in Procs :
                     force[p] /\ pc[p] = "place" /\ pc'[p] = "syncdir"
               \/ tampered' > tampered \/ crashes' > crashes
    <2>1. ASSUME NEW p \in Procs, Rename(p)
          PROVE  force[p] /\ pc[p] = "place" /\ pc'[p] = "syncdir"
      BY <1>1, <2>1 DEF Rename, Goto, Inv, TypeOK
    <2>2. ASSUME NEW p \in Procs, Step(p) \/ Die(p), ~Rename(p) PROVE FALSE
      BY <1>1, <2>2, NameFacts
      DEF Inv, TypeOK, OwnTemporary, HasName, Owning, Step, Begin, Inspect,
          Create, Write, Sync, Link, MayLink, Unlink, Cleanup,
          RemoveTemporary, SyncDirectory, SyncOrFail, Die, Goto, Return
    <2>3. CASE Stop \/ Tamper
      <3>1. tampered \in Nat /\ crashes \in Nat
        BY <1>1, PublishAssumption DEF Inv, TypeOK
      <3> QED
        BY <2>3, <3>1 DEF Stop, Tamper
    <2>4. CASE WriteBack \/ UNCHANGED vars
      BY <1>1, <2>4 DEF WriteBack, vars
    <2> QED
      BY <1>1, <2>1, <2>2, <2>3, <2>4 DEF Next
  <1>2. Inv /\ [Next]_vars =>
          [dir[Target] # None /\ dir'[Target] # dir[Target] =>
              \/ \E p \in Procs :
                    force[p] /\ pc[p] = "place" /\ pc'[p] = "syncdir"
              \/ tampered' > tampered \/ crashes' > crashes]_vars
    BY <1>1
  <1> QED
    BY <1>2, Invariance, PTL DEF Spec, NoClobber

-----------------------------------------------------------------------------
(* Publish implements Register. *)

\* In every reachable state the entries are whole, so the mapping shows PATH
\* and the disk as they are.
LEMMA MappedAsIs ==
    ASSUME Inv
    PROVE  Whole(dir[Target], size) = dir[Target]
           /\ Whole(disk[Target], synced) = disk[Target]
  BY DEF Inv, WholeTwice, Whole

LEMMA RegisterInit == Init => R!Init
  BY InvInit, MappedAsIs, EntryFacts, NameFacts DEF Init, R!Init

\* Only the system calls on PATH and on the directory are seen in Register.
LEMMA RegisterStep == Inv /\ Inv' /\ [Next]_vars => [R!Next]_R!vars
  <1> SUFFICES ASSUME Inv, Inv', [Next]_vars PROVE [R!Next]_R!vars
    OBVIOUS
  <1> DEFINE value == Whole(dir[Target], size)
             durable == Whole(disk[Target], synced)
             forced == {p \in Procs : force[p]}
             acked == {p \in Procs : result[p] = "ok"}
  <1>1. value = dir[Target] /\ durable = disk[Target]
    BY MappedAsIs
  <1>2. value' = dir'[Target] /\ durable' = disk'[Target]
    <2>1. Whole(dir[Target], size)' = dir'[Target]
      BY DEF Inv, WholeTwice, Whole
    <2>2. Whole(disk[Target], synced)' = disk'[Target]
      BY DEF Inv, WholeTwice, Whole
    <2> QED
      BY <2>1, <2>2
  <1>3. ASSUME UNCHANGED <<dir[Target], disk[Target], forced, unsettled, acked>>
        PROVE  UNCHANGED R!vars
    BY <1>1, <1>2, <1>3 DEF R!vars
  <1>4. ASSUME NEW p \in Procs, Begin(p) PROVE R!Ask(p) \/ UNCHANGED R!vars
    <2>1. UNCHANGED <<dir, disk, unsettled, acked>>
      BY <1>4 DEF Begin, Return, Goto, history, Inv, TypeOK, Settling
    <2>2. forced' = forced \/ forced' = forced \cup {p}
      BY <1>4 DEF Begin, Inv, TypeOK, Settling
    <2> QED
      BY <1>1, <1>2, <1>3, <2>1, <2>2 DEF R!Ask
  <1>5. ASSUME NEW p \in Procs,
               Inspect(p) \/ Create(p) \/ Write(p) \/ Sync(p) \/ Unlink(p)
                 \/ Cleanup(p) \/ Die(p)
        PROVE  UNCHANGED R!vars
    <2>1. UNCHANGED <<force, unsettled, disk>>
      BY <1>5 DEF Inspect, Create, Write, Sync, Unlink, Cleanup, Die, local,
                  history
    <2>2. UNCHANGED dir[Target]
      BY <1>5, NameFacts
      DEF Inspect, Create, Write, Sync, Unlink, Cleanup, RemoveTemporary, Die,
          Inv, TypeOK, HasName, Owning
    <2>3. UNCHANGED acked
      BY <1>5 DEF Inspect, Create, Write, Sync, Unlink, Cleanup, Die, Return,
                  local, Inv, TypeOK, Settling, Owning
    <2> QED
      BY <1>3, <2>1, <2>2, <2>3
  <1>6. ASSUME NEW p \in Procs, Rename(p) \/ Link(p)
        PROVE  R!Put(p) \/ UNCHANGED R!vars
    <2>1. /\ UNCHANGED <<disk, force, result>>
          /\ pc[p] = "place"
      BY <1>6 DEF Rename, Link, local
    <2>2. p \notin acked
      BY <2>1 DEF Inv, Settling
    <2>3. CASE dir'[Target] = p /\ unsettled' = unsettled \cup {p}
               /\ (dir[Target] = None \/ force[p])
      BY <1>1, <1>2, <2>1, <2>2, <2>3 DEF R!Put
    <2>4. CASE UNCHANGED <<dir, unsettled>>
      BY <1>3, <2>1, <2>4
    <2>5. ASSUME ~UNCHANGED <<dir, unsettled>>
          PROVE  dir'[Target] = p /\ unsettled' = unsettled \cup {p}
                 /\ (dir[Target] = None \/ force[p])
      BY <1>6, <2>5, NameFacts
      DEF Rename, Link, MayLink, Inv, TypeOK, OwnTemporary, HasName, Owning
    <2> QED
      BY <2>3, <2>4, <2>5
  <1>7. ASSUME NEW p \in Procs, SyncDirectory(p)
        PROVE  R!Acknowledge(p) \/ UNCHANGED R!vars
    <2>1. UNCHANGED <<dir, force>>
      BY <1>7 DEF SyncDirectory
    <2>2. CASE disk' = dir /\ unsettled' = {} /\ Return(p, "ok")
      <3>1. acked' = acked \cup {p}
        BY <2>2 DEF Return, Inv, TypeOK
      <3> QED
        BY <1>1, <1>2, <2>1, <2>2, <3>1 DEF R!Acknowledge
    <2>3. CASE UNCHANGED <<disk, unsettled>> /\ Return(p, "error")
      <3>1. acked' = acked
        BY <1>7, <2>3 DEF SyncDirectory, Return, Inv, TypeOK, Settling
      <3> QED
        BY <1>3, <2>1, <2>3, <3>1
    <2> QED
      BY <1>7, <2>2, <2>3 DEF SyncDirectory, SyncOrFail
  <1>8. CASE WriteBack
    <2>1. UNCHANGED <<dir, forced, acked>>
      BY <1>8 DEF WriteBack, local
    <2>2. \/ disk' = dir /\ unsettled' = {}
          \/ UNCHANGED <<disk, unsettled>>
      BY <1>8 DEF WriteBack
    <2> QED
      BY <1>1, <1>2, <1>3, <2>1, <2>2 DEF R!Next, R!Settle
  <1>9. CASE Stop
    <2>1. UNCHANGED <<disk, forced, acked>> /\ dir' = disk /\ unsettled' = {}
      BY <1>9 DEF Stop, local
    <2> QED
      BY <1>1, <1>2, <2>1 DEF R!Next, R!FallBack
  <1>10. CASE Tamper
    <2>1. dir'[Target] \notin Procs
      BY <1>10, NameFacts, EntryFacts DEF Tamper, Inv, TypeOK
    <2>2. UNCHANGED <<disk, forced, unsettled, acked>>
      BY <1>10 DEF Tamper, local
    <2> QED
      BY <1>1, <1>2, <2>1, <2>2 DEF R!Next, R!Tamper
  <1>11. CASE UNCHANGED vars
    BY <1>3, <1>11 DEF vars, local, history
  <1> QED
    BY <1>4, <1>5, <1>6, <1>7, <1>8, <1>9, <1>10, <1>11
    DEF Next, Step, R!Next

\* PATH is a register replaced as a whole, whose acknowledged values stay.
THEOREM Implements == Spec => PublishesAtomically
  BY InvInit, InvNext, RegisterInit, RegisterStep, PTL
  DEF Spec, PublishesAtomically, R!Spec
=============================================================================
