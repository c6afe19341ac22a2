------------------------------ MODULE Snapshot ------------------------------
(***************************************************************************)
(* load_and_validate reads the configuration (read_file in config.cpp) and *)
(* then the static JWKS it names (load_static_file in jwks.cpp) while      *)
(* other programs change both files: by publishing a new file under the    *)
(* name, which leaves the old one to those who have it open, or by writing *)
(* the file again in place.                                                *)
(*                                                                         *)
(* A file is a sequence of blocks.  A block says which version of the      *)
(* document it was written for, and whether it is the document's last: a   *)
(* JSON object that lacks its end does not parse, so the end is all that   *)
(* parsing is asked about here.                                            *)
(***************************************************************************)
EXTENDS Integers, Sequences

CONSTANTS
    MaxVersions,    \* bound on the versions of each file
    MaxBlocks,      \* bound on the blocks of a version
    Fifos           \* the names that may lead to a FIFO

Files == {"configuration", "jwks"}

ASSUME SnapshotAssumption ==
    /\ MaxVersions \in Nat \ {0} /\ MaxBlocks \in Nat \ {0}
    /\ Fifos \subseteq Files

Versions == 1 .. MaxVersions
Fifo == 0           \* in place of an inode
Inodes == Versions  \* as many as versions: a publication makes a new one
Blocks == [version : Versions, last : BOOLEAN]

Document(v, n) == [k \in 1 .. n |-> [version |-> v, last |-> k = n]]

VARIABLES
    inode,          \* per file: what its name leads to
    data,           \* per file and inode: the blocks in it
    newest,         \* per file: the version last published or begun
    length,         \* per file and version: its blocks, once it is chosen
    turn,           \* the position in Order of the file being read
    pc,             \* the reader's next call
    fd,             \* the inode it has open
    expected,       \* st_size, from the first fstat
    buffer,         \* what it has read
    loaded,         \* per file: the snapshot that was accepted
    outcome,        \* none until the load returns ok or error
    during,         \* history: versions that stood whole under the name
                    \* since the reader opened the file
    torn            \* history: files written in place while they were read

writers == <<inode, data, newest, length>>
reader == <<turn, pc, fd, expected, buffer, loaded, outcome>>
history == <<during, torn>>
vars == <<writers, reader, history>>

ReversedOrder == <<"jwks", "configuration">>

Order == <<"configuration", "jwks">>

Current == Order[turn]

Contents(f) == IF inode[f] = Fifo THEN <<>> ELSE data[f][inode[f]]

\* The versions that stand whole under a name.
Whole(f) == {v \in Versions :
               length[f][v] > 0 /\ Contents(f) = Document(v, length[f][v])}

-----------------------------------------------------------------------------
(* The programs that write the files. *)

Watched ==
    /\ UNCHANGED reader
    /\ during' = IF turn <= Len(Order) THEN during \cup Whole(Current)'
                ELSE during

\* The file being read is the one that f leads to.
BeingRead(f) ==
    turn <= Len(Order) /\ f = Current /\ pc # "open" /\ fd = inode[f]

InPlace(f) ==
    /\ Watched
    /\ torn' = IF BeingRead(f) THEN torn \cup {f} ELSE torn

\* An operator who rotates keys publishes the key set before the
\* configuration that relies on it, and keeps the old keys in it.
InOrder(f) == f = "configuration" => newest[f] < newest["jwks"]

NewVersion(f, n) ==
    /\ newest[f] < MaxVersions /\ InOrder(f)
    /\ newest' = [newest EXCEPT ![f] = @ + 1]
    /\ length' = [length EXCEPT ![f][newest[f] + 1] = n]

\* publish, or mv: the name leads to a new, complete file.
Replace(f) ==
    /\ \E n \in 1 .. MaxBlocks :
          /\ NewVersion(f, n)
          /\ data' = [data EXCEPT
                        ![f][newest[f] + 1] = Document(newest[f] + 1, n)]
    /\ inode' = [inode EXCEPT ![f] = newest[f] + 1]
    /\ Watched /\ UNCHANGED torn

\* An editor or cp: the file is truncated, then written block by block.
Truncate(f) ==
    /\ inode[f] # Fifo
    /\ \E n \in 1 .. MaxBlocks : NewVersion(f, n)
    /\ data' = [data EXCEPT ![f][inode[f]] = <<>>]
    /\ UNCHANGED inode
    /\ InPlace(f)

WriteBlock(f) ==
    /\ inode[f] # Fifo
    /\ LET v == newest[f]
           k == Len(Contents(f)) + 1
       IN  /\ \A b \in 1 .. k - 1 : Contents(f)[b].version = v
           /\ k <= length[f][v]
           /\ data' = [data EXCEPT ![f][inode[f]] =
                          Append(@, Document(v, length[f][v])[k])]
    /\ UNCHANGED <<inode, newest, length>>
    /\ InPlace(f)

-----------------------------------------------------------------------------
(* The readers. *)

At(step) == outcome = "none" /\ pc = step

Fail ==
    /\ outcome' = "error"
    /\ UNCHANGED <<turn, pc, fd, expected, buffer, loaded>>

\* read_file opens without O_NONBLOCK, and waits for somebody to write to a
\* FIFO; load_static_file opens with it.
Waits(f) == f = "configuration"

Blocked == inode[Current] = Fifo /\ Waits(Current)

Open ==
    /\ At("open") /\ ~Blocked
    /\ fd' = inode[Current]
    /\ pc' = "stat"
    /\ during' = Whole(Current) /\ UNCHANGED torn
    /\ UNCHANGED <<writers, turn, expected, buffer, loaded, outcome>>

\* open, fstat, read or close may fail, the entry may be a symbolic link,
\* the owner or the mode may be wrong, and so may what a document says.
Error ==
    /\ outcome = "none" /\ ~(pc = "open" /\ Blocked)
    /\ Fail
    /\ UNCHANGED <<writers, history>>

\* fstat: the file is regular.
Stat ==
    /\ At("stat")
    /\ \/ /\ fd # Fifo
          /\ expected' = Len(data[Current][fd])
          /\ buffer' = <<>>
          /\ pc' = "read"
          /\ UNCHANGED <<turn, fd, loaded, outcome>>
       \/ fd = Fifo /\ Fail
    /\ UNCHANGED <<writers, history>>

SourceByName == inode[Current]

\* What is read: the open file, whatever its name leads to by now.
Source == fd

RoomFromStart == expected

\* What is left of the buffer.
Room == expected - Len(buffer)

TryAgain == UNCHANGED reader

\* read gave nothing: the file has become shorter.
AtEnd == Fail

\* read may give less than was asked for.
Read ==
    /\ At("read") /\ Len(buffer) < expected
    /\ LET blocks == data[Current][Source]
           given(n) == SubSeq(blocks, Len(buffer) + 1, Len(buffer) + n)
       IN  \/ \E n \in 1 .. Len(blocks) - Len(buffer) :
                 /\ n <= Room
                 /\ buffer' = buffer \o given(n)
                 /\ UNCHANGED <<turn, pc, fd, expected, loaded, outcome>>
           \/ Len(blocks) <= Len(buffer) /\ AtEnd
    /\ UNCHANGED <<writers, history>>

ReadAll ==
    /\ At("read") /\ Len(buffer) >= expected
    /\ pc' = "compare"
    /\ UNCHANGED <<writers, turn, fd, expected, buffer, loaded, outcome,
                   history>>

\* load_static_file looks at the size once more; read_file closes the file.
SameSize == Current = "jwks" => Len(data[Current][fd]) = expected

Parses == buffer # <<>> /\ buffer[Len(buffer)].last

Accept ==
    /\ At("compare")
    /\ \/ /\ SameSize /\ Parses
          /\ loaded' = [loaded EXCEPT ![Current] = buffer]
          /\ turn' = turn + 1
          /\ pc' = "open"
          /\ outcome' = IF turn = Len(Order) THEN "ok" ELSE "none"
          /\ UNCHANGED <<fd, expected, buffer>>
       \/ ~(SameSize /\ Parses) /\ Fail
    /\ UNCHANGED <<writers, history>>

-----------------------------------------------------------------------------
Init ==
    /\ inode \in [Files -> {Fifo, 1}]
    /\ \A f \in Files : inode[f] = Fifo => f \in Fifos
    /\ \E n \in 1 .. MaxBlocks :
          /\ length = [f \in Files |->
                         [v \in Versions |-> IF v = 1 THEN n ELSE 0]]
          /\ data = [f \in Files |->
                       [i \in Inodes |->
                          IF i = 1 THEN Document(1, n) ELSE <<>>]]
    /\ newest = [f \in Files |-> 1]
    /\ turn = 1 /\ pc = "open" /\ fd = Fifo /\ expected = 0
    /\ buffer = <<>> /\ loaded = [f \in Files |-> <<>>] /\ outcome = "none"
    /\ during = {} /\ torn = {}

Load == Open \/ Stat \/ Read \/ ReadAll \/ Accept

Next == Load \/ Error \/ \E f \in Files : Replace(f) \/ Truncate(f) \/ WriteBlock(f)

Spec == Init /\ [][Next]_vars

\* The reader is scheduled, and its calls are answered unless they wait for
\* another program; no call has to fail.
FairSpec == Spec /\ WF_vars(Load)

-----------------------------------------------------------------------------
(* Properties *)

TypeOK ==
    /\ inode \in [Files -> Inodes \cup {Fifo}]
    /\ \A f \in Files : \A i \in Inodes :
          data[f][i] \in Seq(Blocks) /\ Len(data[f][i]) <= MaxBlocks
    /\ newest \in [Files -> Versions]
    /\ length \in [Files -> [Versions -> 0 .. MaxBlocks]]
    /\ turn \in 1 .. 3 /\ pc \in {"open", "stat", "read", "compare"}
    /\ fd \in Inodes \cup {Fifo} /\ expected \in 0 .. MaxBlocks
    /\ buffer \in Seq(Blocks) /\ Len(buffer) <= expected
    /\ \A f \in Files : loaded[f] \in Seq(Blocks)
    /\ outcome \in {"none", "ok", "error"} /\ during \subseteq Versions
    /\ torn \subseteq Files

Stood(f) == \E v \in during : loaded'[f] = Document(v, length[f][v])

\* read_file and load_static_file: a document that is accepted is one version
\* of the file, as it stood under the name at some time while it was read,
\* unless somebody wrote to the open file meanwhile.
SnapshotStood ==
    [][\A f \in Files :
          loaded'[f] # loaded[f] /\ f \notin torn => Stood(f)]_vars

\* A configuration is never combined with a key set older than the one that
\* was in place when the configuration was published, if keys are rotated by
\* adding to the set first: parse_and_validate reads the keys afterwards.
KeysCoverConfiguration ==
    outcome = "ok" /\ torn = {} =>
        loaded["configuration"][1].version <= loaded["jwks"][1].version

\* README, "individual synchronous file calls are bounded by admitted input
\* sizes": the load comes to an end.
LoadReturns == <>(outcome # "none")
=============================================================================
