------------------------------ MODULE Publish -------------------------------
(***************************************************************************)
(* config::publish: `config init --output PATH [--force]` creates a        *)
(* temporary file beside PATH, writes and synchronizes it, and renames it  *)
(* over PATH (--force) or links it to PATH (otherwise).  Several processes *)
(* publish to one PATH at once; each of them may die between two system    *)
(* calls, the whole machine may stop and come back with what had reached   *)
(* the disk, and somebody else may put another entry at PATH.              *)
(*                                                                         *)
(* A process creates at most one file, so it also names that file.  The    *)
(* directory and the disk are the part of the system outside this code.    *)
(***************************************************************************)
EXTENDS Integers

CONSTANTS
    Procs,          \* the processes, and the files they create
    Pids,           \* process identifiers: they may be reused or coincide
    MaxAttempts,    \* how many temporary names a process tries (64)
    Full,           \* contents.size()
    None,           \* no entry, no process
    MaxTampering,   \* bound on the entries somebody else puts at PATH
    MaxCrashes      \* bound on the stops of the machine

ASSUME PublishAssumption ==
    /\ Pids \subseteq Nat \ {0}
    /\ MaxAttempts \in Nat \ {0} /\ Full \in Nat \ {0}
    /\ MaxTampering \in Nat /\ MaxCrashes \in Nat
    /\ None \notin Procs

\* Entries at PATH that no process of this program made.
Foreign == {"file", "symlink", "directory"}

ASSUME ForeignAssumption == Procs \cap Foreign = {} /\ None \notin Foreign

Target == <<0, 0>>
Temporaries == Pids \X (0 .. MaxAttempts - 1)
Names == {Target} \cup Temporaries
Entries == Procs \cup Foreign \cup {None}

VARIABLES
    dir,        \* the directory, as the processes see it
    disk        \* the directory that a stop of the machine would leave

VARIABLES
    size,       \* per file, the bytes written
    synced      \* per file, the bytes on the disk

VARIABLES
    pc,         \* per process, the next system call
    force,      \* per process, whether it was asked to replace
    temp,       \* per process, the temporary name being used
    result,     \* per process, none until publish returns ok or error
    stuck       \* per process, a history: its unlink failed

\* Histories and bounds.
VARIABLES
    unsettled,  \* processes whose entry at PATH is not on the disk yet
    undone,     \* processes whose entry at PATH a stop took back
    tampered,   \* foreign changes so far
    crashes     \* stops so far

files == <<size, synced>>
local == <<force, temp, result, stuck>>
history == <<unsettled, undone, tampered, crashes>>
vars == <<dir, disk, files, pc, local, history>>

Regular(e) == e \in Procs \cup {"file"}

-----------------------------------------------------------------------------
(* System calls: the directory, the disk and the ways they fail. *)

Goto(p, s) == pc' = [pc EXCEPT ![p] = s]

Return(p, r) ==
    /\ Goto(p, "returned")
    /\ result' = [result EXCEPT ![p] = r]

\* The arguments are checked and the directory is opened.
Begin(p) ==
    /\ pc[p] = "begin"
    /\ \E f \in BOOLEAN : force' = [force EXCEPT ![p] = f]
    /\ \/ Goto(p, "inspect") /\ UNCHANGED result
       \/ Return(p, "error")
    /\ UNCHANGED <<dir, disk, files, temp, stuck, history>>

\* fstatat without following links.
Inspect(p) ==
    /\ pc[p] = "inspect"
    /\ \/ /\ dir[Target] = None \/ (force[p] /\ Regular(dir[Target]))
          /\ Goto(p, "create")
          /\ \E pid \in Pids : temp' = [temp EXCEPT ![p] = <<pid, 0>>]
          /\ UNCHANGED result
       \/ Return(p, "error") /\ UNCHANGED temp
    /\ UNCHANGED <<dir, disk, files, force, stuck, history>>

MayCreateAnyway(p) == TRUE

\* O_EXCL: a name in use, a stale one included, is never opened.
MayCreate(p) == dir[temp[p]] = None

\* openat; EEXIST moves on to the next name, any other failure gives up.
Create(p) ==
    /\ pc[p] = "create"
    /\ \/ /\ MayCreate(p)
          /\ dir' = [dir EXCEPT ![temp[p]] = p]
          /\ Goto(p, "write")
          /\ UNCHANGED <<temp, result>>
       \/ /\ dir[temp[p]] # None
          /\ temp[p][2] + 1 < MaxAttempts
          /\ temp' = [temp EXCEPT ![p] = <<@[1], @[2] + 1>>]
          /\ UNCHANGED <<dir, pc, result>>
       \/ /\ Return(p, "error")
          /\ UNCHANGED <<dir, temp>>
    /\ UNCHANGED <<disk, files, force, stuck, history>>

Rewound(p) == 0 .. Full

Overrun(p) == size[p] + 1 .. size[p] + Full

\* What has been written after one more call: more than before.
Advanced(p) == size[p] + 1 .. Full

\* write may be short or fail; EINTR changes nothing and is a stutter here.
Write(p) ==
    /\ pc[p] = "write"
    /\ \/ /\ size[p] < Full
          /\ \E n \in Advanced(p) : size' = [size EXCEPT ![p] = n]
          /\ UNCHANGED pc
       \/ /\ size[p] = Full
          /\ Goto(p, "sync")
          /\ UNCHANGED size
       \/ /\ size[p] < Full
          /\ Goto(p, "cleanup")
          /\ UNCHANGED size
    /\ UNCHANGED <<dir, disk, synced, local, history>>

NotSynchronized(p) == synced' = synced

Synchronized(p) == synced' = [synced EXCEPT ![p] = size[p]]

\* fsync, then close: either may fail.
Sync(p) ==
    /\ pc[p] = "sync"
    /\ \/ Synchronized(p) /\ Goto(p, "place")
       \/ UNCHANGED synced /\ Goto(p, "cleanup")
       \/ Synchronized(p) /\ Goto(p, "cleanup")
    /\ UNCHANGED <<dir, disk, size, local, history>>

\* renameat replaces any entry but a directory.
Rename(p) ==
    /\ pc[p] = "place" /\ force[p]
    /\ \/ /\ dir[Target] # "directory"
          /\ dir' = [dir EXCEPT ![Target] = dir[temp[p]], ![temp[p]] = None]
          /\ unsettled' = unsettled \cup {p}
          /\ Goto(p, "syncdir")
       \/ /\ Goto(p, "cleanup")
          /\ UNCHANGED <<dir, unsettled>>
    /\ UNCHANGED <<disk, files, force, temp, result, stuck, undone, tampered,
                   crashes>>

MayReplace(p) == TRUE

\* EEXIST: linkat never replaces an entry.
MayLink(p) == dir[Target] = None

Link(p) ==
    /\ pc[p] = "place" /\ ~force[p]
    /\ \/ /\ MayLink(p)
          /\ dir' = [dir EXCEPT ![Target] = dir[temp[p]]]
          /\ unsettled' = unsettled \cup {p}
          /\ Goto(p, "unlink")
       \/ /\ Goto(p, "cleanup")
          /\ UNCHANGED <<dir, unsettled>>
    /\ UNCHANGED <<disk, files, local, undone, tampered, crashes>>

\* The temporary name goes; if it does not, the call ends in an error though
\* the target is in place, after one more try.
Unlink(p) ==
    /\ pc[p] = "unlink"
    /\ \/ /\ dir' = [dir EXCEPT ![temp[p]] = None]
          /\ Goto(p, "syncdir")
       \/ /\ Goto(p, "cleanup")
          /\ UNCHANGED dir
    /\ UNCHANGED <<disk, files, force, temp, result, stuck, history>>

KeepTemporary(p) == UNCHANGED <<dir, stuck>>

RemoveTemporary(p) ==
    \/ dir' = [dir EXCEPT ![temp[p]] = None] /\ UNCHANGED stuck
    \/ stuck' = [stuck EXCEPT ![p] = TRUE] /\ UNCHANGED dir

\* cleanup, on every path that leaves after the file was created and before
\* the temporary name went: temporary_exists is true on all of them.
Cleanup(p) ==
    /\ pc[p] = "cleanup"
    /\ RemoveTemporary(p)
    /\ Return(p, "error")
    /\ UNCHANGED <<disk, files, force, temp, history>>

ReturnUnsynced(p) ==
    /\ Return(p, "ok")
    /\ UNCHANGED <<disk, unsettled>>

SyncOrFail(p) ==
    \/ /\ Return(p, "ok")
       /\ disk' = dir /\ unsettled' = {}
    \/ /\ Return(p, "error")
       /\ UNCHANGED <<disk, unsettled>>

SyncDirectory(p) ==
    /\ pc[p] = "syncdir"
    /\ SyncOrFail(p)
    /\ UNCHANGED <<dir, files, force, temp, stuck, undone, tampered,
                   crashes>>

Step(p) ==
    \/ Begin(p) \/ Inspect(p) \/ Create(p) \/ Write(p) \/ Sync(p)
    \/ Rename(p) \/ Link(p) \/ Unlink(p) \/ Cleanup(p) \/ SyncDirectory(p)

-----------------------------------------------------------------------------
(* Everything else that happens to the directory and the processes. *)

Running(p) == pc[p] \notin {"returned", "dead"}

Die(p) ==
    /\ Running(p)
    /\ Goto(p, "dead")
    /\ UNCHANGED <<dir, disk, files, local, history>>

\* The system writes the directory, or a file, back to the disk by itself.
WriteBack ==
    /\ \/ disk' = dir /\ unsettled' = {} /\ UNCHANGED synced
       \/ /\ \E p \in Procs : synced' = [synced EXCEPT ![p] = size[p]]
          /\ UNCHANGED <<disk, unsettled>>
    /\ UNCHANGED <<dir, size, pc, local, undone, tampered, crashes>>

\* The machine stops: only the disk is left, and no process that had begun.
Stop ==
    /\ crashes < MaxCrashes
    /\ crashes' = crashes + 1
    /\ dir' = disk /\ size' = synced
    /\ pc' = [p \in Procs |->
                 IF Running(p) /\ pc[p] # "begin" THEN "dead" ELSE pc[p]]
    /\ undone' = undone \cup unsettled /\ unsettled' = {}
    /\ UNCHANGED <<disk, synced, local, tampered>>

Tamper ==
    /\ tampered < MaxTampering
    /\ tampered' = tampered + 1
    /\ \E e \in Foreign \cup {None} :
          dir' = [dir EXCEPT ![Target] = e]
    /\ UNCHANGED <<disk, files, pc, local, unsettled, undone, crashes>>

\* At first the temporary names are free, or files left by others use them all.
Init ==
    /\ \E e \in Foreign \cup {None}, stale \in {"file", None} :
          dir = [n \in Names |-> IF n = Target THEN e ELSE stale]
    /\ disk = dir
    /\ size = [p \in Procs |-> 0] /\ synced = [p \in Procs |-> 0]
    /\ pc = [p \in Procs |-> "begin"]
    /\ force = [p \in Procs |-> FALSE]
    /\ temp = [p \in Procs |-> Target]
    /\ result = [p \in Procs |-> "none"]
    /\ stuck = [p \in Procs |-> FALSE]
    /\ unsettled = {} /\ undone = {} /\ tampered = 0 /\ crashes = 0

Next ==
    \/ \E p \in Procs : Step(p) \/ Die(p)
    \/ WriteBack \/ Stop \/ Tamper

Spec == Init /\ [][Next]_vars

\* Each process that is not killed gets to make its next system call.
FairSpec == Spec /\ \A p \in Procs : WF_vars(Step(p))

-----------------------------------------------------------------------------
(* Properties *)

Owning == {"write", "sync", "place", "unlink", "cleanup"}

TypeOK ==
    /\ dir \in [Names -> Entries] /\ disk \in [Names -> Entries]
    /\ size \in [Procs -> 0 .. Full] /\ synced \in [Procs -> 0 .. Full]
    /\ pc \in [Procs -> Owning \cup
              {"begin", "inspect", "create", "syncdir", "returned", "dead"}]
    /\ force \in [Procs -> BOOLEAN] /\ temp \in [Procs -> Names]
    /\ result \in [Procs -> {"none", "ok", "error"}]
    /\ stuck \in [Procs -> BOOLEAN]
    /\ unsettled \subseteq Procs /\ undone \subseteq Procs
    /\ tampered \in 0 .. MaxTampering /\ crashes \in 0 .. MaxCrashes

\* README, "same-directory atomic publication": a reader of PATH never finds
\* a part of a configuration there, not even after the machine stopped.
TargetIsWhole ==
    /\ dir[Target] \in Procs => size[dir[Target]] = Full
    /\ disk[Target] \in Procs => synced[disk[Target]] = Full

\* A temporary name in use leads to the file of the process that uses it, so
\* what it renames, links or removes is never another's, though names are
\* left behind by processes that died and identifiers are used again.
OwnTemporary ==
    \A p \in Procs : pc[p] \in Owning => dir[temp[p]] = p

\* When publish returned success, no stop of the machine takes the file back,
\* nor has one: the directory was synchronized after the name was placed.
SuccessIsDurable ==
    \A p \in Procs : result[p] = "ok" => p \notin unsettled \cup undone

\* A call that returns removed its temporary name, unless the removal itself
\* failed.  Only after a success is it gone for good: the other paths do not
\* synchronize the directory, and a stop of the machine can bring it back.
NoLeftover ==
    \A p \in Procs, n \in Temporaries :
        /\ pc[p] = "returned" /\ ~stuck[p] /\ crashes = 0 => dir[n] # p
        /\ result[p] = "ok" => dir[n] # p /\ disk[n] # p

\* README, "never overwrites without --force": only a forced process, the
\* machine's stop or somebody else takes an existing entry from PATH.
NoClobber ==
    [][dir[Target] # None /\ dir'[Target] # dir[Target] =>
          \/ \E p \in Procs : force[p] /\ pc[p] = "place" /\ pc'[p] = "syncdir"
          \/ tampered' > tampered \/ crashes' > crashes]_vars

\* README, "forced replacement is limited to regular files".
OnlyRegularReplaced ==
    [][\A p \in Procs :
          pc[p] = "place" /\ dir'[Target] = p /\ dir[Target] # p =>
              Regular(dir[Target]) \/ dir[Target] = None]_vars

\* Every call returns, unless its process dies first.
EveryCallReturns == \A p \in Procs : <>~Running(p)
=============================================================================
