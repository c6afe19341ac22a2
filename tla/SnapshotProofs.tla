---------------------------- MODULE SnapshotProofs ----------------------------
(***************************************************************************)
(* Theorems about Snapshot, for any number of versions and blocks and any  *)
(* choice of the names that lead to a FIFO.                                *)
(***************************************************************************)
EXTENDS Snapshot, SequenceTheorems, TLAPS

-----------------------------------------------------------------------------
(* The files.  Every inode holds a beginning of one version of its file,   *)
(* and the one under the name a beginning of the newest: whoever writes,   *)
(* by a publication or in place, writes the newest version.                *)

PartOf(blocks, v, n) ==
    /\ Len(blocks) <= n
    /\ \A j \in 1 .. Len(blocks) : blocks[j] = [version |-> v, last |-> j = n]

FilesType ==
    /\ inode \in [Files -> Inodes \cup {Fifo}]
    /\ data \in [Files -> [Inodes -> Seq(Blocks)]]
    /\ newest \in [Files -> Versions]
    /\ length \in [Files -> [Versions -> 0 .. MaxBlocks]]

\* The configuration is never newer than the keys, and a version has a
\* length once it was begun.
VersionsInv ==
    /\ newest["configuration"] <= newest["jwks"]
    /\ \A f \in Files : inode[f] <= newest[f]
    /\ \A f \in Files : \A v \in Versions : length[f][v] > 0 <=> v <= newest[f]

PartsInv ==
    \A f \in Files :
        /\ \A i \in Inodes :
               \E v \in 1 .. newest[f] : PartOf(data[f][i], v, length[f][v])
        /\ inode[f] # Fifo =>
               PartOf(data[f][inode[f]], newest[f], length[f][newest[f]])

FilesInv == FilesType /\ VersionsInv /\ PartsInv

-----------------------------------------------------------------------------
(* The reader.  While nobody writes to the file that is open, its contents *)
(* are those it had under the name when it was opened, and the buffer      *)
(* holds a beginning of them.                                              *)

Reading == turn <= 2 /\ pc # "open" /\ fd # Fifo

ReaderType ==
    /\ turn \in 1 .. 3 /\ pc \in {"open", "stat", "read", "compare"}
    /\ fd \in Inodes \cup {Fifo} /\ expected \in 0 .. MaxBlocks
    /\ buffer \in Seq(Blocks) /\ Len(buffer) <= expected
    /\ loaded \in [Files -> Seq(Blocks)]
    /\ outcome \in {"none", "ok", "error"} /\ during \subseteq Versions
    /\ torn \subseteq Files
    /\ turn = 3 <=> outcome = "ok"
    /\ pc \in {"read", "compare"} => fd # Fifo
    /\ Reading => fd <= newest[Current]

\* The open file is part of version v, which stood whole if it is complete
\* and is no older than the configuration that led to it.
Opened(v) ==
    /\ PartOf(data[Current][fd], v, length[Current][v])
    /\ Len(data[Current][fd]) = length[Current][v] => v \in during
    /\ turn = 2 /\ torn = {} => loaded["configuration"][1].version <= v

Buffered ==
    pc \in {"read", "compare"} =>
        /\ expected = Len(data[Current][fd])
        /\ \A j \in 1 .. Len(buffer) : buffer[j] = data[Current][fd][j]

ReadInv ==
    Reading /\ Current \notin torn =>
        Buffered /\ \E v \in 1 .. newest[Current] : Opened(v)

\* The configuration that was accepted is a version that exists, and at the
\* end the keys are no older.
LoadedInv ==
    torn = {} =>
        /\ turn > 1 =>
               loaded["configuration"][1].version \in 1 .. newest["configuration"]
        /\ outcome = "ok" =>
               loaded["configuration"][1].version <= loaded["jwks"][1].version

SnapshotInv == FilesInv /\ ReaderType /\ ReadInv /\ LoadedInv

-----------------------------------------------------------------------------
(* Documents and their parts. *)

LEMMA DocumentIs ==
    ASSUME NEW v \in Versions, NEW n \in Nat
    PROVE  /\ Document(v, n) \in Seq(Blocks) /\ Len(Document(v, n)) = n
           /\ \A j \in 1 .. n :
                  Document(v, n)[j] = [version |-> v, last |-> j = n]
           /\ PartOf(Document(v, n), v, n)
  <1>1. Document(v, n) \in [1 .. n -> Blocks]
    BY DEF Document, Blocks
  <1>2. Document(v, n) \in Seq(Blocks)
    BY <1>1, SeqDef
  <1>3. Len(Document(v, n)) = n
    BY <1>1, <1>2, LenProperties
  <1>4. \A j \in 1 .. n : Document(v, n)[j] = [version |-> v, last |-> j = n]
    BY DEF Document
  <1> QED
    BY <1>2, <1>3, <1>4 DEF PartOf

\* A part that has as many blocks as its version is the whole document, and
\* only then does its last block say so.
LEMMA WholePart ==
    ASSUME NEW v \in Versions, NEW n \in Nat, NEW blocks \in Seq(Blocks),
           PartOf(blocks, v, n), blocks # <<>>,
           blocks[Len(blocks)].last \/ Len(blocks) = n
    PROVE  blocks = Document(v, n) /\ Len(blocks) = n /\ blocks[1].version = v
  <1>1. Len(blocks) \in Nat \ {0}
    BY EmptySeq
  <1>2. Len(blocks) = n
    <2>1. Len(blocks) \in 1 .. Len(blocks)
      BY <1>1
    <2>2. blocks[Len(blocks)] = [version |-> v, last |-> Len(blocks) = n]
      BY <2>1 DEF PartOf
    <2>3. blocks[Len(blocks)].last = (Len(blocks) = n)
      BY <2>2
    <2> QED
      BY <2>3
  <1>3. blocks = Document(v, n)
    BY <1>2, DocumentIs, SeqEqual DEF PartOf
  <1> QED
    BY <1>1, <1>2, <1>3 DEF PartOf

\* Parts of two versions differ unless they are empty.
LEMMA PartVersion ==
    ASSUME NEW v \in Versions, NEW w \in Versions, NEW n \in Nat, NEW m \in Nat \ {0},
           PartOf(Document(w, m), v, n)
    PROVE  v = w
  <1>1. Len(Document(w, m)) = m /\ 1 \in 1 .. m
    BY DocumentIs
  <1>2. Document(w, m)[1] = [version |-> w, last |-> 1 = m]
    BY <1>1, DocumentIs
  <1>3. Document(w, m)[1] = [version |-> v, last |-> 1 = n]
    BY <1>1 DEF PartOf
  <1>4. Document(w, m)[1].version = w /\ Document(w, m)[1].version = v
    BY <1>2, <1>3
  <1> QED
    BY <1>4

-----------------------------------------------------------------------------
(* The writers. *)

LEMMA FilesInit == Init => FilesInv
  <1> SUFFICES ASSUME Init PROVE FilesInv
    OBVIOUS
  <1> USE SnapshotAssumption
  <1>1. PICK n \in 1 .. MaxBlocks :
          /\ length = [f \in Files |->
                         [v \in Versions |-> IF v = 1 THEN n ELSE 0]]
          /\ data = [f \in Files |->
                       [i \in Inodes |->
                          IF i = 1 THEN Document(1, n) ELSE <<>>]]
    BY DEF Init
  <1>2. 1 \in Versions /\ n \in Nat
    BY DEF Versions
  <1>3. Document(1, n) \in Seq(Blocks) /\ PartOf(Document(1, n), 1, n)
    BY <1>2, DocumentIs
  <1>4. <<>> \in Seq(Blocks) /\ Len(<<>>) = 0 /\ PartOf(<<>>, 1, n)
    BY <1>2 DEF PartOf
  <1>5. /\ inode \in [Files -> Inodes \cup {Fifo}]
        /\ \A f \in Files : inode[f] <= 1 /\ (inode[f] # Fifo => inode[f] = 1)
    BY <1>2 DEF Init, Inodes, Fifo
  <1>6. data \in [Files -> [Inodes -> Seq(Blocks)]]
    BY <1>1, <1>3, <1>4
  <1>7. /\ newest \in [Files -> Versions]
        /\ length \in [Files -> [Versions -> 0 .. MaxBlocks]]
        /\ newest["configuration"] <= newest["jwks"]
        /\ \A f \in Files : newest[f] = 1 /\ length[f][1] = n
        /\ \A f \in Files : \A v \in Versions : length[f][v] > 0 <=> v <= 1
    BY <1>1, <1>2 DEF Init, Files, Versions
  <1>8. \A f \in Files : \A i \in Inodes : PartOf(data[f][i], 1, length[f][1])
    BY <1>1, <1>3, <1>4, <1>7
  <1>9. 1 \in 1 .. 1
    OBVIOUS
  <1>10. ASSUME NEW f \in Files, inode[f] # Fifo
         PROVE  PartOf(data[f][inode[f]], newest[f], length[f][newest[f]])
    <2>1. inode[f] \in Inodes
      BY <1>5, <1>10
    <2> QED
      BY <1>7, <1>8, <2>1
  <1> QED
    BY <1>5, <1>6, <1>7, <1>8, <1>9, <1>10
       DEF FilesInv, FilesType, VersionsInv, PartsInv

\* The next version of a file: its length is settled, no other changes, and
\* the configuration never gets ahead of the keys.
LEMMA NextVersion ==
    ASSUME FilesInv, NEW f \in Files, NEW n \in 1 .. MaxBlocks, NewVersion(f, n)
    PROVE  /\ newest' \in [Files -> Versions]
           /\ newest'[f] = newest[f] + 1 /\ newest[f] + 1 \in Versions
           /\ \A g \in Files : g # f => newest'[g] = newest[g]
           /\ length' \in [Files -> [Versions -> 0 .. MaxBlocks]]
           /\ length'[f][newest'[f]] = n
           /\ \A g \in Files : \A v \in 1 .. newest[g] :
                  length'[g][v] = length[g][v]
           /\ newest'["configuration"] <= newest'["jwks"]
           /\ \A g \in Files : \A v \in Versions :
                  length'[g][v] > 0 <=> v <= newest'[g]
  <1> USE SnapshotAssumption
  <1>1. /\ newest[f] \in Versions /\ newest[f] < MaxVersions /\ InOrder(f)
        /\ newest' = [newest EXCEPT ![f] = newest[f] + 1]
        /\ length' = [length EXCEPT ![f] =
                        [length[f] EXCEPT ![newest[f] + 1] = n]]
    BY DEF NewVersion, FilesInv, FilesType
  <1>2. newest[f] + 1 \in Versions
    BY <1>1 DEF Versions
  <1>3. /\ newest' \in [Files -> Versions] /\ newest'[f] = newest[f] + 1
        /\ \A g \in Files : g # f => newest'[g] = newest[g]
    BY <1>1, <1>2 DEF FilesInv, FilesType
  <1>4. /\ length[f] \in [Versions -> 0 .. MaxBlocks] /\ n \in 0 .. MaxBlocks
        /\ length \in [Files -> [Versions -> 0 .. MaxBlocks]]
    BY DEF FilesInv, FilesType
  <1>5. length' \in [Files -> [Versions -> 0 .. MaxBlocks]]
    BY <1>1, <1>2, <1>4
  <1>6. /\ length'[f][newest[f] + 1] = n
        /\ \A g \in Files : \A v \in Versions :
               g # f \/ v # newest[f] + 1 => length'[g][v] = length[g][v]
    BY <1>1, <1>2, <1>4
  <1>7. ASSUME NEW g \in Files, NEW v \in 1 .. newest[g]
        PROVE  length'[g][v] = length[g][v]
    <2>1. newest[g] \in Versions
      BY DEF FilesInv, FilesType
    <2>2. v \in Versions /\ v # newest[g] + 1
      BY <2>1 DEF Versions
    <2>3. g # f \/ v # newest[f] + 1
      BY <2>2
    <2> QED
      BY <1>6, <2>2, <2>3
  <1>8. newest'["configuration"] <= newest'["jwks"]
    <2>1. /\ newest["configuration"] \in Nat /\ newest["jwks"] \in Nat
          /\ newest["configuration"] <= newest["jwks"]
      BY DEF FilesInv, FilesType, VersionsInv, Files, Versions
    <2>2. CASE f = "configuration"
      <3>1. /\ newest'["configuration"] = newest["configuration"] + 1
            /\ newest'["jwks"] = newest["jwks"]
        BY <1>3, <2>2 DEF Files
      <3> QED
        BY <1>1, <2>1, <2>2, <3>1 DEF InOrder
    <2>3. CASE f = "jwks"
      <3>1. /\ newest'["configuration"] = newest["configuration"]
            /\ newest'["jwks"] = newest["jwks"] + 1
        BY <1>3, <2>3 DEF Files
      <3> QED
        BY <2>1, <3>1
    <2> QED
      BY <2>2, <2>3 DEF Files
  <1>9. ASSUME NEW g \in Files, NEW v \in Versions
        PROVE  length'[g][v] > 0 <=> v <= newest'[g]
    <2>1. length[g][v] > 0 <=> v <= newest[g]
      BY DEF FilesInv, VersionsInv
    <2>2. newest[g] \in Nat /\ v \in Nat
      BY DEF FilesInv, FilesType, Versions
    <2>3. CASE g = f /\ v = newest[f] + 1
      BY <1>3, <1>6, <2>2, <2>3
    <2>4. CASE g = f /\ v # newest[f] + 1
      BY <1>3, <1>6, <2>1, <2>2, <2>4
    <2>5. CASE g # f
      BY <1>3, <1>6, <2>1, <2>5
    <2> QED
      BY <2>3, <2>4, <2>5
  <1> QED
    BY <1>2, <1>3, <1>5, <1>6, <1>7, <1>8, <1>9

Writes(f) == Replace(f) \/ Truncate(f) \/ WriteBlock(f)

\* What a writer does: it puts a part of the newest version under the name,
\* into the file that is there or into a new one.
LEMMA WriterEffect ==
    ASSUME FilesInv, NEW f \in Files, Writes(f)
    PROVE  /\ newest' \in [Files -> Versions]
           /\ \A g \in Files : newest[g] <= newest'[g]
           /\ length' \in [Files -> [Versions -> 0 .. MaxBlocks]]
           /\ \A g \in Files : \A v \in 1 .. newest[g] :
                  length'[g][v] = length[g][v]
           /\ newest'["configuration"] <= newest'["jwks"]
           /\ \A g \in Files : \A v \in Versions :
                  length'[g][v] > 0 <=> v <= newest'[g]
           /\ inode'[f] \in Inodes /\ inode'[f] <= newest'[f]
           /\ inode'[f] = inode[f] \/ inode'[f] = newest[f] + 1
           /\ inode' = [inode EXCEPT ![f] = inode'[f]]
           /\ \E blocks \in Seq(Blocks) :
                 /\ data' = [data EXCEPT ![f] =
                               [data[f] EXCEPT ![inode'[f]] = blocks]]
                 /\ PartOf(blocks, newest'[f], length'[f][newest'[f]])
  <1> USE SnapshotAssumption
  <1>1. /\ inode \in [Files -> Inodes \cup {Fifo}] /\ newest \in [Files -> Versions]
        /\ data \in [Files -> [Inodes -> Seq(Blocks)]]
        /\ length \in [Files -> [Versions -> 0 .. MaxBlocks]]
        /\ \A g \in Files : newest[g] \in Nat
    BY DEF FilesInv, FilesType, Versions
  <1>2. ASSUME NEW n \in 1 .. MaxBlocks, NewVersion(f, n)
        PROVE  /\ newest' \in [Files -> Versions]
               /\ newest'[f] = newest[f] + 1
               /\ \A g \in Files : newest[g] <= newest'[g]
               /\ length' \in [Files -> [Versions -> 0 .. MaxBlocks]]
               /\ \A g \in Files : \A v \in 1 .. newest[g] :
                      length'[g][v] = length[g][v]
               /\ newest'["configuration"] <= newest'["jwks"]
               /\ \A g \in Files : \A v \in Versions :
                      length'[g][v] > 0 <=> v <= newest'[g]
               /\ length'[f][newest'[f]] = n
    <2>1. \A g \in Files : newest[g] <= newest'[g]
      <3>1. /\ newest'[f] = newest[f] + 1
            /\ \A g \in Files : g # f => newest'[g] = newest[g]
        BY <1>2, NextVersion
      <3>2. newest[f] <= newest[f] + 1
        BY <1>1
      <3>3. \A g \in Files : newest[g] <= newest[g]
        BY <1>1
      <3> QED
        BY <3>1, <3>2, <3>3
    <2> QED
      BY <1>2, <2>1, NextVersion
  <1>3. CASE Replace(f)
    <2>1. PICK n \in 1 .. MaxBlocks :
             /\ NewVersion(f, n)
             /\ data' = [data EXCEPT ![f] = [data[f] EXCEPT
                           ![newest[f] + 1] = Document(newest[f] + 1, n)]]
      BY <1>3 DEF Replace
    <2>2. newest'[f] = newest[f] + 1 /\ newest'[f] \in Versions
      BY <1>2, <2>1
    <2>3. inode' = [inode EXCEPT ![f] = newest'[f]] /\ inode'[f] = newest'[f]
      BY <1>1, <1>3, <2>2 DEF Replace
    <2>4. /\ Document(newest'[f], n) \in Seq(Blocks)
          /\ PartOf(Document(newest'[f], n), newest'[f], n)
      BY <2>2, DocumentIs
    <2>5. length'[f][newest'[f]] = n
      BY <1>2, <2>1
    <2>6. \E blocks \in Seq(Blocks) :
             /\ data' = [data EXCEPT ![f] =
                           [data[f] EXCEPT ![inode'[f]] = blocks]]
             /\ PartOf(blocks, newest'[f], length'[f][newest'[f]])
      BY <2>1, <2>2, <2>3, <2>4, <2>5
    <2>7. inode'[f] \in Inodes /\ inode'[f] <= newest'[f]
      BY <2>2, <2>3 DEF Versions, Inodes
    <2>8. inode' = [inode EXCEPT ![f] = inode'[f]]
      BY <2>3
    <2> QED
      BY <1>2, <2>1, <2>2, <2>3, <2>6, <2>7, <2>8
  <1>4. ASSUME Truncate(f) \/ WriteBlock(f)
        PROVE  /\ inode' = inode /\ inode[f] \in Inodes
               /\ inode[f] <= newest[f] /\ inode' = [inode EXCEPT ![f] = inode'[f]]
    BY <1>1, <1>4 DEF Truncate, WriteBlock, FilesInv, VersionsInv
  <1>5. CASE Truncate(f)
    <2>1. PICK n \in 1 .. MaxBlocks :
             /\ NewVersion(f, n)
             /\ data' = [data EXCEPT ![f] = [data[f] EXCEPT ![inode[f]] = <<>>]]
      BY <1>5 DEF Truncate
    <2>2. length'[f][newest'[f]] = n /\ <<>> \in Seq(Blocks)
      BY <1>2, <2>1
    <2>3. PartOf(<<>>, newest'[f], n)
      BY DEF PartOf
    <2>4. \E blocks \in Seq(Blocks) :
             /\ data' = [data EXCEPT ![f] =
                           [data[f] EXCEPT ![inode'[f]] = blocks]]
             /\ PartOf(blocks, newest'[f], length'[f][newest'[f]])
      BY <1>4, <1>5, <2>1, <2>2, <2>3
    <2>5. inode'[f] <= newest'[f]
      <3>1. newest[f] <= newest'[f] /\ newest'[f] \in Nat
        BY <1>2, <2>1 DEF Versions
      <3> QED
        BY <1>1, <1>4, <1>5, <3>1 DEF Inodes, Versions
    <2> QED
      BY <1>2, <1>4, <1>5, <2>1, <2>4, <2>5
  <1>6. CASE WriteBlock(f)
    <2> DEFINE v == newest[f]
               old == data[f][inode[f]]
               k == Len(old) + 1
               n == length[f][v]
               block == Document(v, n)[k]
    <2>1. inode[f] \in Inodes /\ Contents(f) = old /\ old \in Seq(Blocks)
      BY <1>1, <1>4, <1>6 DEF Contents, WriteBlock
    <2>2. v \in Versions /\ n \in Nat /\ Len(old) \in Nat
      BY <1>1, <2>1
    <2>3. /\ \A b \in 1 .. k - 1 : old[b].version = v
          /\ k <= n
          /\ data' = [data EXCEPT ![f] =
                        [data[f] EXCEPT ![inode[f]] = Append(old, block)]]
          /\ UNCHANGED <<newest, length>>
      BY <1>6, <2>1 DEF WriteBlock
    <2>4. PartOf(old, v, n)
      BY <1>6, <2>1 DEF FilesInv, PartsInv, WriteBlock
    <2>5. block = [version |-> v, last |-> k = n] /\ block \in Blocks
      <3>1. k \in 1 .. n
        BY <2>2, <2>3
      <3>2. block = [version |-> v, last |-> k = n]
        BY <2>2, <3>1, DocumentIs
      <3> QED
        BY <2>2, <3>2 DEF Blocks
    <2>6. Append(old, block) \in Seq(Blocks) /\ Len(Append(old, block)) = k
      BY <2>1, <2>5
    <2>7. \A j \in 1 .. k : Append(old, block)[j] = IF j = k THEN block ELSE old[j]
      BY <2>1, <2>2
    <2>8. PartOf(Append(old, block), v, n)
      <3>1. ASSUME NEW j \in 1 .. k
            PROVE  Append(old, block)[j] = [version |-> v, last |-> j = n]
        <4>1. CASE j = k
          BY <2>5, <2>7, <4>1
        <4>2. CASE j # k
          <5>1. j \in 1 .. Len(old)
            BY <2>2, <4>2
          <5>2. old[j] = [version |-> v, last |-> j = n]
            BY <2>4, <5>1 DEF PartOf
          <5> QED
            BY <2>7, <4>2, <5>2
        <4> QED
          BY <4>1, <4>2
      <3> QED
        BY <2>3, <2>6, <3>1 DEF PartOf
    <2>9. \E blocks \in Seq(Blocks) :
             /\ data' = [data EXCEPT ![f] =
                           [data[f] EXCEPT ![inode'[f]] = blocks]]
             /\ PartOf(blocks, newest'[f], length'[f][newest'[f]])
      BY <1>4, <1>6, <2>3, <2>6, <2>8
    <2> QED
      <3>1. \A g \in Files : newest[g] <= newest'[g]
        BY <1>1, <2>3
      <3>2. /\ newest'["configuration"] <= newest'["jwks"]
            /\ \A g \in Files : \A w \in Versions :
                   length'[g][w] > 0 <=> w <= newest'[g]
        BY <2>3 DEF FilesInv, VersionsInv
      <3>3. inode'[f] \in Inodes /\ inode'[f] <= newest'[f]
        BY <1>4, <1>6, <2>3
      <3> QED
        BY <1>1, <1>4, <1>6, <2>3, <2>9, <3>1, <3>2, <3>3
  <1> QED
    BY <1>3, <1>5, <1>6 DEF Writes

LEMMA FilesStep ==
    ASSUME FilesInv, NEW f \in Files, Writes(f)
    PROVE  FilesInv'
  <1> USE SnapshotAssumption
  <1>1. PICK blocks \in Seq(Blocks) :
           /\ data' = [data EXCEPT ![f] =
                         [data[f] EXCEPT ![inode'[f]] = blocks]]
           /\ PartOf(blocks, newest'[f], length'[f][newest'[f]])
    BY WriterEffect
  <1>2. /\ newest' \in [Files -> Versions]
        /\ \A g \in Files : newest[g] <= newest'[g]
        /\ length' \in [Files -> [Versions -> 0 .. MaxBlocks]]
        /\ newest'["configuration"] <= newest'["jwks"]
        /\ \A g \in Files : \A v \in Versions :
               length'[g][v] > 0 <=> v <= newest'[g]
    BY WriterEffect
  <1>3. \A g \in Files : \A v \in 1 .. newest[g] :
            length'[g][v] = length[g][v]
    BY WriterEffect
  <1>4. /\ inode'[f] \in Inodes /\ inode'[f] <= newest'[f]
        /\ inode' = [inode EXCEPT ![f] = inode'[f]]
    BY WriterEffect
  <1>5. /\ inode \in [Files -> Inodes \cup {Fifo}] /\ newest \in [Files -> Versions]
        /\ data \in [Files -> [Inodes -> Seq(Blocks)]]
    BY DEF FilesInv, FilesType
  <1>6. /\ inode' \in [Files -> Inodes \cup {Fifo}]
        /\ \A g \in Files : g # f => inode'[g] = inode[g]
    BY <1>4, <1>5
  <1>7. /\ data' \in [Files -> [Inodes -> Seq(Blocks)]]
        /\ data'[f][inode'[f]] = blocks
        /\ \A g \in Files : \A i \in Inodes :
               g # f \/ i # inode'[f] => data'[g][i] = data[g][i]
    BY <1>1, <1>4, <1>5
  <1>8. \A g \in Files : newest[g] \in 1 .. newest'[g]
                           /\ newest'[g] \in 1 .. newest'[g]
    BY <1>2, <1>5 DEF Versions
  <1>9. ASSUME NEW g \in Files, NEW i \in Inodes
        PROVE  \E v \in 1 .. newest'[g] : PartOf(data'[g][i], v, length'[g][v])
    <2>1. CASE g = f /\ i = inode'[f]
      BY <1>1, <1>7, <1>8, <2>1
    <2>2. CASE g # f \/ i # inode'[f]
      <3>1. PICK v \in 1 .. newest[g] : PartOf(data[g][i], v, length[g][v])
        BY DEF FilesInv, PartsInv
      <3>2. v \in 1 .. newest'[g]
        BY <1>8
      <3> QED
        BY <1>3, <1>7, <2>2, <3>1, <3>2
    <2> QED
      BY <2>1, <2>2
  <1>10. ASSUME NEW g \in Files
         PROVE  /\ inode'[g] <= newest'[g]
                /\ inode'[g] # Fifo =>
                     PartOf(data'[g][inode'[g]], newest'[g],
                            length'[g][newest'[g]])
    <2>1. CASE g = f
      BY <1>1, <1>4, <1>7, <2>1
    <2>2. CASE g # f
      <3>1. newest'[g] = newest[g]
        <4>1. CASE WriteBlock(f)
          BY <4>1 DEF WriteBlock
        <4>2. CASE Replace(f) \/ Truncate(f)
          <5>1. PICK n \in 1 .. MaxBlocks : NewVersion(f, n)
            BY <4>2 DEF Replace, Truncate
          <5> QED
            BY <2>2, <5>1, NextVersion
        <4> QED
          BY <4>1, <4>2 DEF Writes
      <3>2. inode'[g] = inode[g]
        BY <1>6, <2>2
      <3>3. length'[g][newest[g]] = length[g][newest[g]]
        BY <1>3, <1>8, <3>1
      <3>4. /\ inode[g] <= newest[g]
            /\ inode[g] # Fifo =>
                 PartOf(data[g][inode[g]], newest[g], length[g][newest[g]])
        BY DEF FilesInv, VersionsInv, PartsInv
      <3>5. inode[g] # Fifo => data'[g][inode[g]] = data[g][inode[g]]
        BY <1>5, <1>7, <2>2
      <3> QED
        BY <3>1, <3>2, <3>3, <3>4, <3>5
    <2> QED
      BY <2>1, <2>2
  <1>11. FilesType'
    BY <1>2, <1>6, <1>7 DEF FilesType
  <1>12. VersionsInv'
    BY <1>2, <1>10 DEF VersionsInv
  <1>13. PartsInv'
    BY <1>9, <1>10 DEF PartsInv
  <1> QED
    BY <1>11, <1>12, <1>13 DEF FilesInv

-----------------------------------------------------------------------------
(* The reader. *)

LEMMA CurrentIs ==
    /\ turn = 1 => Current = "configuration"
    /\ turn = 2 => Current = "jwks"
    /\ Len(Order) = 2
  BY DEF Current, Order

\* The inode that is open changes only under BeingRead: a publication makes
\* one that is newer.
LEMMA OpenFileKept ==
    ASSUME FilesInv, ReaderType, NEW f \in Files, Writes(f),
           Reading, Current \notin torn'
    PROVE  Current \in Files /\ data'[Current][fd] = data[Current][fd]
  <1>1. turn \in {1, 2} /\ fd \in Inodes /\ fd <= newest[Current]
    BY DEF Reading, ReaderType
  <1>2. Current \in Files
    BY <1>1, CurrentIs DEF Files
  <1>3. fd # inode'[f] \/ f # Current
    <2>1. CASE Replace(f)
      <3>1. inode'[f] = newest[f] + 1 /\ newest[f] \in Nat
        BY <2>1 DEF Replace, FilesInv, FilesType, Inodes, Versions
      <3> QED
        BY <1>1, <3>1 DEF Inodes, Versions
    <2>2. CASE Truncate(f) \/ WriteBlock(f)
      <3>1. inode' = inode /\ InPlace(f)
        BY <2>2 DEF Truncate, WriteBlock
      <3>2. ~BeingRead(f) \/ f # Current
        BY <3>1 DEF InPlace
      <3> QED
        BY <1>1, <3>1, <3>2, CurrentIs DEF BeingRead, Reading
    <2> QED
      BY <2>1, <2>2 DEF Writes
  <1>4. PICK blocks \in Seq(Blocks) :
           data' = [data EXCEPT ![f] = [data[f] EXCEPT ![inode'[f]] = blocks]]
    BY WriterEffect
  <1>5. data \in [Files -> [Inodes -> Seq(Blocks)]]
    BY DEF FilesInv, FilesType
  <1> QED
    BY <1>1, <1>2, <1>3, <1>4, <1>5

\* A writer leaves the reader alone, and the histories only grow.
LEMMA WriterFrame ==
    ASSUME NEW f \in Files, Writes(f), ReaderType
    PROVE  /\ UNCHANGED reader
           /\ during \subseteq during' /\ during' \subseteq Versions
           /\ torn \subseteq torn' /\ torn' \subseteq Files
  <1>1. /\ Watched
        /\ torn' = torn \/ torn' = torn \cup {f}
    BY DEF Writes, Replace, Truncate, WriteBlock, InPlace
  <1>2. Whole(Current)' \subseteq Versions
    BY DEF Whole
  <1> QED
    BY <1>1, <1>2 DEF Watched, ReaderType

LEMMA WriterStep ==
    ASSUME SnapshotInv, NEW f \in Files, Writes(f)
    PROVE  SnapshotInv'
  <1> USE DEF SnapshotInv
  <1>1. FilesInv'
    BY FilesStep
  <1>2. /\ UNCHANGED <<turn, pc, fd, expected, buffer, loaded, outcome>>
        /\ during \subseteq during' /\ during' \subseteq Versions
        /\ torn \subseteq torn' /\ torn' \subseteq Files
    BY WriterFrame DEF reader
  <1>3. Current' = Current /\ Reading' = Reading
    BY <1>2 DEF Current, Reading
  <1>4. /\ \A g \in Files : newest[g] <= newest'[g]
        /\ \A g \in Files : \A v \in 1 .. newest[g] :
               length'[g][v] = length[g][v]
    BY WriterEffect
  <1>5. \A g \in Files : newest[g] \in Nat /\ newest'[g] \in Nat
    BY <1>1 DEF FilesInv, FilesType, Versions
  <1>6. Reading => Current \in Files
    BY CurrentIs DEF Reading, ReaderType, Files
  <1>7. ReaderType'
    <2>1. Reading => fd <= newest'[Current]
      <3>1. Reading => fd <= newest[Current] /\ fd \in Nat
        BY DEF ReaderType, Inodes, Versions, Fifo
      <3> QED
        BY <1>4, <1>5, <1>6, <3>1
    <2> QED
      BY <1>2, <1>3, <2>1 DEF ReaderType
  <1>8. ReadInv'
    <2> SUFFICES ASSUME Reading, Current \notin torn'
                 PROVE  (Buffered /\ \E v \in 1 .. newest[Current] : Opened(v))'
      BY <1>3 DEF ReadInv
    <2>1. data'[Current][fd] = data[Current][fd] /\ Current \in Files
      BY OpenFileKept
    <2>2. Current \notin torn
      BY <1>2
    <2>3. Buffered'
      BY <1>2, <1>3, <2>1, <2>2 DEF ReadInv, Buffered
    <2>4. PICK v \in 1 .. newest[Current] : Opened(v)
      BY <2>2 DEF ReadInv
    <2>5. v \in 1 .. newest'[Current]
      BY <1>4, <1>5, <2>1
    <2>6. length'[Current][v] = length[Current][v]
      BY <1>4, <2>1
    <2>7. torn' = {} => torn = {}
      BY <1>2
    <2>8. Opened(v)'
      BY <1>2, <1>3, <2>1, <2>4, <2>6, <2>7 DEF Opened
    <2> QED
      BY <1>3, <2>3, <2>5, <2>8
  <1>9. LoadedInv'
    <2> SUFFICES ASSUME torn' = {} PROVE LoadedInv'
      BY DEF LoadedInv
    <2>1. torn = {}
      BY <1>2
    <2>2. turn > 1 => loaded["configuration"][1].version
                          \in 1 .. newest'["configuration"]
      <3>1. newest["configuration"] <= newest'["configuration"]
              /\ newest["configuration"] \in Nat
              /\ newest'["configuration"] \in Nat
        BY <1>4, <1>5 DEF Files
      <3> QED
        BY <2>1, <3>1 DEF LoadedInv
    <2> QED
      BY <1>2, <2>1, <2>2 DEF LoadedInv
  <1> QED
    BY <1>1, <1>7, <1>8, <1>9

LEMMA BlocksBounded ==
    ASSUME FilesInv, NEW f \in Files, NEW i \in Inodes
    PROVE  data[f][i] \in Seq(Blocks) /\ Len(data[f][i]) \in 0 .. MaxBlocks
  <1>1. data[f][i] \in Seq(Blocks)
    BY DEF FilesInv, FilesType
  <1>2. PICK v \in 1 .. newest[f] : PartOf(data[f][i], v, length[f][v])
    BY DEF FilesInv, PartsInv
  <1>3. newest[f] \in Versions
    BY DEF FilesInv, FilesType
  <1>4. v \in Versions
    BY <1>3, SnapshotAssumption DEF Versions
  <1>5. length[f][v] \in 0 .. MaxBlocks
    BY <1>4 DEF FilesInv, FilesType
  <1>6. Len(data[f][i]) \in Nat /\ Len(data[f][i]) <= length[f][v]
    BY <1>1, <1>2 DEF PartOf
  <1> QED
    BY <1>1, <1>5, <1>6, SnapshotAssumption

\* A step of the reader leaves the files and torn alone.
LEMMA FilesFrame ==
    ASSUME FilesInv, UNCHANGED writers
    PROVE  FilesInv' /\ UNCHANGED <<inode, data, newest, length>>
  BY DEF writers, FilesInv, FilesType, VersionsInv, PartsInv

\* A load that has not returned is reading one of the two files.
LEMMA Underway ==
    ASSUME ReaderType, outcome = "none"
    PROVE  turn \in 1 .. 2 /\ Current \in Files
  <1>1. turn \in 1 .. 2
    BY DEF ReaderType
  <1> QED
    BY <1>1, CurrentIs DEF Files

LEMMA FailStep ==
    ASSUME SnapshotInv, Fail, outcome = "none", UNCHANGED <<writers, history>>
    PROVE  SnapshotInv'
  <1> USE DEF SnapshotInv
  <1>1. /\ UNCHANGED <<turn, pc, fd, expected, buffer, loaded, during, torn>>
        /\ outcome' = "error" /\ FilesInv'
        /\ UNCHANGED <<inode, data, newest, length>>
    BY FilesFrame DEF Fail, history
  <1>2. turn # 3
    BY DEF ReaderType
  <1>3. Current' = Current /\ Reading' = Reading
    BY <1>1 DEF Current, Reading
  <1>4. ReaderType'
    BY <1>1, <1>2, <1>3 DEF ReaderType
  <1>5. ReadInv' /\ LoadedInv'
    BY <1>1, <1>3 DEF ReadInv, LoadedInv, Buffered, Opened
  <1> QED
    BY <1>1, <1>4, <1>5

LEMMA OpenStep ==
    ASSUME SnapshotInv, Open
    PROVE  SnapshotInv'
  <1> USE SnapshotAssumption DEF SnapshotInv
  <1>1. /\ UNCHANGED <<turn, expected, buffer, loaded, outcome, torn>>
        /\ outcome = "none" /\ pc' = "stat" /\ fd' = inode[Current]
        /\ during' = Whole(Current) /\ FilesInv'
        /\ UNCHANGED <<inode, data, newest, length>>
    BY FilesFrame DEF Open, At
  <1>2. turn \in 1 .. 2 /\ Current \in Files /\ Current' = Current
    BY <1>1, Underway DEF Current
  <1>3. /\ inode[Current] \in Inodes \cup {Fifo} /\ newest[Current] \in Versions
        /\ inode[Current] <= newest[Current]
    BY <1>2 DEF FilesInv, FilesType, VersionsInv
  <1>4. ReaderType'
    BY <1>1, <1>2, <1>3 DEF ReaderType, Whole, Reading
  <1>5. LoadedInv'
    BY <1>1 DEF LoadedInv
  <1>6. ReadInv'
    <2> DEFINE v == newest[Current]
               blocks == data[Current][inode[Current]]
               n == length[Current][newest[Current]]
    <2> SUFFICES ASSUME inode[Current] # Fifo
                 PROVE  v \in 1 .. newest[Current] /\ Opened(v)'
      <3>1. Reading' => inode[Current] # Fifo
        BY <1>1 DEF Reading
      <3>2. Buffered'
        BY <1>1 DEF Buffered
      <3> QED
        BY <1>1, <1>2, <3>1, <3>2 DEF ReadInv
    <2>1. v \in 1 .. newest[Current]
      BY <1>3 DEF Versions
    <2>2. PartOf(blocks, v, n)
      BY <1>2 DEF FilesInv, PartsInv
    <2>3. n \in 1 .. MaxBlocks
      <3>1. v \in Versions /\ v <= newest[Current]
        BY <1>3, <2>1
      <3>2. n > 0
        BY <1>2, <3>1 DEF FilesInv, VersionsInv
      <3>3. n \in 0 .. MaxBlocks
        BY <1>2, <3>1 DEF FilesInv, FilesType
      <3> QED
        BY <3>2, <3>3
    <2>4. ASSUME Len(blocks) = n PROVE v \in during'
      <3>1. blocks \in Seq(Blocks) /\ blocks # <<>>
        BY <1>2, <1>3, <2>3, <2>4, BlocksBounded
      <3>2. blocks = Document(v, n)
        BY <1>3, <2>2, <2>3, <2>4, <3>1, WholePart
      <3> QED
        BY <1>1, <1>3, <2>3, <3>2 DEF Whole, Contents
    <2>5. ASSUME turn = 2, torn = {}
          PROVE  loaded["configuration"][1].version <= v
      <3>1. Current = "jwks"
        BY <2>5, CurrentIs
      <3>2. loaded["configuration"][1].version \in 1 .. newest["configuration"]
        BY <2>5 DEF LoadedInv
      <3>3. /\ newest["configuration"] <= newest["jwks"]
            /\ newest["configuration"] \in Nat /\ newest["jwks"] \in Nat
        BY DEF FilesInv, FilesType, VersionsInv, Files, Versions
      <3> QED
        BY <3>1, <3>2, <3>3
    <2> QED
      BY <1>1, <1>2, <2>1, <2>2, <2>4, <2>5 DEF Opened
  <1> QED
    BY <1>1, <1>4, <1>5, <1>6

LEMMA StatStep ==
    ASSUME SnapshotInv, Stat
    PROVE  SnapshotInv'
  <1> USE DEF SnapshotInv
  <1>1. CASE Fail
    BY <1>1, FailStep DEF Stat, At
  <1>2. CASE fd # Fifo /\ ~Fail
    <2>1. /\ UNCHANGED <<turn, fd, loaded, outcome, during, torn>>
          /\ outcome = "none" /\ pc = "stat" /\ pc' = "read"
          /\ expected' = Len(data[Current][fd]) /\ buffer' = <<>>
          /\ FilesInv' /\ UNCHANGED <<inode, data, newest, length>>
      BY <1>2, FilesFrame DEF Stat, At, history
    <2>2. turn \in 1 .. 2 /\ Current \in Files /\ Current' = Current
      BY <2>1, Underway DEF Current
    <2>3. fd \in Inodes /\ Reading
      BY <1>2, <2>1, <2>2 DEF ReaderType, Reading
    <2>4. expected' \in 0 .. MaxBlocks
      BY <2>1, <2>2, <2>3, BlocksBounded
    <2>5. buffer' \in Seq(Blocks) /\ Len(buffer') = 0
      BY <2>1
    <2>6. ReaderType'
      <3>1. Len(buffer') <= expected'
        BY <2>4, <2>5
      <3> QED
        BY <2>1, <2>2, <2>3, <2>4, <2>5, <3>1, <1>2 DEF ReaderType
    <2>7. Buffered'
      BY <2>1, <2>2, <2>5 DEF Buffered
    <2>8. ReadInv' /\ LoadedInv'
      BY <2>1, <2>2, <2>3, <2>7 DEF ReadInv, LoadedInv, Opened
    <2> QED
      BY <2>1, <2>6, <2>8
  <1> QED
    BY <1>1, <1>2 DEF Stat

LEMMA ReadStep ==
    ASSUME SnapshotInv, Read
    PROVE  SnapshotInv'
  <1> USE DEF SnapshotInv
  <1>1. CASE Fail
    BY <1>1, FailStep DEF Read, At
  <1>2. CASE ~Fail
    <2> DEFINE blocks == data[Current][fd]
    <2>1. PICK n \in 1 .. Len(blocks) - Len(buffer) :
            /\ n <= expected - Len(buffer)
            /\ buffer' = buffer \o SubSeq(blocks, Len(buffer) + 1, Len(buffer) + n)
            /\ UNCHANGED <<turn, pc, fd, expected, loaded, outcome>>
      BY <1>2 DEF Read, Source, Room, AtEnd
    <2>2. /\ outcome = "none" /\ pc = "read" /\ UNCHANGED <<during, torn>>
          /\ FilesInv' /\ UNCHANGED <<inode, data, newest, length>>
      BY FilesFrame DEF Read, At, history
    <2>3. turn \in 1 .. 2 /\ Current \in Files /\ Current' = Current
      BY <2>1, <2>2, Underway DEF Current
    <2>4. fd \in Inodes /\ Reading
      BY <2>2, <2>3 DEF ReaderType, Reading
    <2>5. blocks \in Seq(Blocks) /\ Len(blocks) \in Nat
      BY <2>3, <2>4, BlocksBounded
    <2>6. /\ buffer \in Seq(Blocks) /\ Len(buffer) \in Nat
          /\ Len(buffer) <= expected /\ expected \in Nat
      BY DEF ReaderType
    <2> DEFINE given == SubSeq(blocks, Len(buffer) + 1, Len(buffer) + n)
    <2>7. /\ given \in Seq(Blocks) /\ Len(given) = n
          /\ \A i \in 1 .. n : given[i] = blocks[Len(buffer) + i]
      <3>1. Len(buffer) + n <= Len(blocks) /\ n \in Nat /\ n >= 1
        BY <2>1, <2>5, <2>6
      <3>2. \A i \in Len(buffer) + 1 .. Len(buffer) + n : i \in 1 .. Len(blocks)
        BY <2>5, <2>6, <3>1
      <3>3. \A i \in Len(buffer) + 1 .. Len(buffer) + n : blocks[i] \in Blocks
        BY <2>5, <3>2, ElementOfSeq
      <3>4. /\ Len(buffer) + 1 \in Int /\ Len(buffer) + n \in Int
            /\ Len(buffer) + 1 <= Len(buffer) + n
            /\ (Len(buffer) + n) - (Len(buffer) + 1) + 1 = n
        BY <2>6, <3>1
      <3>5. /\ given \in Seq(Blocks) /\ Len(given) = n
            /\ \A i \in 1 .. n : given[i] = blocks[Len(buffer) + 1 + i - 1]
        BY <3>3, <3>4, SubSeqProperties
      <3>6. \A i \in 1 .. n : Len(buffer) + 1 + i - 1 = Len(buffer) + i
        BY <2>6
      <3> QED
        BY <3>5, <3>6
    <2>8. /\ buffer' \in Seq(Blocks) /\ Len(buffer') = Len(buffer) + n
          /\ \A i \in 1 .. Len(buffer) + n : buffer'[i] =
                 IF i <= Len(buffer) THEN buffer[i] ELSE given[i - Len(buffer)]
      <3>1. buffer' = buffer \o given
        BY <2>1
      <3> HIDE DEF given
      <3> QED
        BY <2>6, <2>7, <3>1, ConcatProperties
    <2>9. Len(buffer') <= expected
      BY <2>1, <2>6, <2>8
    <2>10. ReaderType'
      BY <2>1, <2>2, <2>3, <2>8, <2>9 DEF ReaderType, Reading
    <2>11. ASSUME Current \notin torn PROVE Buffered'
      <3>1. /\ expected = Len(blocks)
            /\ \A j \in 1 .. Len(buffer) : buffer[j] = blocks[j]
        BY <2>2, <2>4, <2>11 DEF ReadInv, Buffered
      <3>2. ASSUME NEW j \in 1 .. Len(buffer) + n
            PROVE  buffer'[j] = blocks[j]
        <4>1. CASE j <= Len(buffer)
          BY <2>6, <2>8, <3>1, <4>1
        <4>2. CASE ~(j <= Len(buffer))
          <5>1. j - Len(buffer) \in 1 .. n /\ Len(buffer) + (j - Len(buffer)) = j
            BY <2>1, <2>6, <4>2
          <5>2. given[j - Len(buffer)] = blocks[j]
            BY <2>7, <5>1
          <5> HIDE DEF given
          <5> QED
            BY <2>8, <4>2, <5>2
        <4> QED
          BY <4>1, <4>2
      <3> QED
        BY <2>1, <2>2, <2>3, <2>8, <3>1, <3>2 DEF Buffered
    <2>12. ReadInv' /\ LoadedInv'
      BY <2>1, <2>2, <2>3, <2>4, <2>11 DEF ReadInv, LoadedInv, Opened
    <2> QED
      BY <2>2, <2>10, <2>12
  <1> QED
    BY <1>1, <1>2

LEMMA ReadAllStep ==
    ASSUME SnapshotInv, ReadAll
    PROVE  SnapshotInv'
  <1> USE DEF SnapshotInv
  <1>1. /\ UNCHANGED <<turn, fd, expected, buffer, loaded, outcome, during, torn>>
        /\ outcome = "none" /\ pc = "read" /\ pc' = "compare" /\ FilesInv'
        /\ UNCHANGED <<inode, data, newest, length>>
    BY FilesFrame DEF ReadAll, At, history
  <1>2. Current' = Current /\ Reading' = Reading
    BY <1>1 DEF Current, Reading
  <1>3. ReaderType'
    BY <1>1, <1>2 DEF ReaderType
  <1>4. ReadInv' /\ LoadedInv'
    BY <1>1, <1>2 DEF ReadInv, LoadedInv, Opened, Buffered
  <1> QED
    BY <1>1, <1>3, <1>4

\* What is accepted of a file that nobody wrote to: the version that was
\* opened, and all of it.
LEMMA AcceptedVersion ==
    ASSUME SnapshotInv, Accept, SameSize, Parses, Current \notin torn
    PROVE  \E v \in 1 .. newest[Current] :
              /\ v \in Versions /\ Opened(v) /\ v \in during
              /\ buffer = Document(v, length[Current][v])
              /\ buffer[1].version = v
  <1> USE SnapshotAssumption DEF SnapshotInv
  <1>1. /\ outcome = "none" /\ pc = "compare"
        /\ turn \in 1 .. 2 /\ Current \in Files
    BY Underway DEF Accept, At
  <1>2. Reading /\ fd \in Inodes
    BY <1>1 DEF Reading, ReaderType
  <1> DEFINE blocks == data[Current][fd]
  <1>3. PICK v \in 1 .. newest[Current] : Opened(v)
    BY <1>2 DEF ReadInv
  <1> DEFINE n == length[Current][v]
  <1>4. newest[Current] \in Versions
    BY <1>1 DEF FilesInv, FilesType
  <1>5. v \in Versions
    BY <1>4 DEF Versions
  <1>6. n \in Nat
    BY <1>1, <1>5 DEF FilesInv, FilesType
  <1>7. /\ expected = Len(blocks)
        /\ \A j \in 1 .. Len(buffer) : buffer[j] = blocks[j]
    BY <1>1, <1>2 DEF ReadInv, Buffered
  <1>8. /\ buffer \in Seq(Blocks) /\ Len(buffer) \in Nat
        /\ Len(buffer) <= Len(blocks)
    BY <1>7 DEF ReaderType
  <1>9. blocks \in Seq(Blocks) /\ Len(blocks) \in Nat
    BY <1>1, <1>2, BlocksBounded
  <1>10. PartOf(blocks, v, n)
    BY <1>3 DEF Opened
  <1>11. PartOf(buffer, v, n)
    <2>1. Len(buffer) <= n
      BY <1>6, <1>8, <1>9, <1>10 DEF PartOf
    <2>2. ASSUME NEW j \in 1 .. Len(buffer)
          PROVE  buffer[j] = [version |-> v, last |-> j = n]
      <3>1. j \in 1 .. Len(blocks)
        BY <1>8, <1>9
      <3> QED
        BY <1>7, <1>10, <3>1 DEF PartOf
    <2> QED
      BY <2>1, <2>2 DEF PartOf
  <1>12. buffer # <<>> /\ buffer[Len(buffer)].last
    BY DEF Parses
  <1>13. /\ buffer = Document(v, n) /\ Len(buffer) = n
         /\ buffer[1].version = v
    BY <1>5, <1>6, <1>8, <1>11, <1>12, WholePart
  <1>14. Len(blocks) = n
    BY <1>6, <1>8, <1>9, <1>10, <1>13 DEF PartOf
  <1>15. v \in during
    BY <1>3, <1>14 DEF Opened
  <1> QED
    BY <1>3, <1>5, <1>13, <1>15

LEMMA AcceptStep ==
    ASSUME SnapshotInv, Accept
    PROVE  SnapshotInv'
  <1> USE DEF SnapshotInv
  <1>1. CASE Fail
    BY <1>1, FailStep DEF Accept, At
  <1>2. CASE ~Fail
    <2>1. /\ SameSize /\ Parses
          /\ loaded' = [loaded EXCEPT ![Current] = buffer]
          /\ turn' = turn + 1 /\ pc' = "open"
          /\ outcome' = IF turn = 2 THEN "ok" ELSE "none"
          /\ UNCHANGED <<fd, expected, buffer, during, torn>>
          /\ outcome = "none"
          /\ FilesInv' /\ UNCHANGED <<inode, data, newest, length>>
      BY <1>2, FilesFrame, CurrentIs DEF Accept, At, history
    <2>2. turn \in 1 .. 2 /\ Current \in Files
      BY <2>1, Underway
    <2>3. loaded' \in [Files -> Seq(Blocks)]
      BY <2>1, <2>2 DEF ReaderType
    <2>4. turn' \in 1 .. 3 /\ (turn' = 3 <=> outcome' = "ok") /\ ~Reading'
      BY <2>1, <2>2 DEF Reading
    <2>5. ReaderType'
      BY <2>1, <2>3, <2>4 DEF ReaderType
    <2>6. ReadInv'
      BY <2>4 DEF ReadInv
    <2>7. ASSUME torn = {} PROVE LoadedInv'
      <3>1. PICK v \in 1 .. newest[Current] :
               Opened(v) /\ buffer[1].version = v
        BY <2>1, <2>7, <1>2, AcceptedVersion
      <3>2. CASE turn = 1
        <4>1. Current = "configuration" /\ outcome' = "none"
          BY <2>1, <3>2, CurrentIs
        <4>2. loaded'["configuration"] = buffer
          BY <2>1, <2>2, <4>1 DEF ReaderType
        <4> QED
          BY <2>1, <3>1, <4>1, <4>2 DEF LoadedInv
      <3>3. CASE turn = 2
        <4>1. Current = "jwks"
          BY <3>3, CurrentIs
        <4>2. /\ loaded'["jwks"] = buffer
              /\ loaded'["configuration"] = loaded["configuration"]
          BY <2>1, <2>2, <4>1 DEF ReaderType, Files
        <4>3. loaded["configuration"][1].version <= v
          BY <2>7, <3>1, <3>3 DEF Opened
        <4>4. loaded["configuration"][1].version
                  \in 1 .. newest["configuration"]
          BY <2>7, <3>3 DEF LoadedInv
        <4> QED
          BY <2>1, <3>1, <4>2, <4>3, <4>4 DEF LoadedInv
      <3> QED
        BY <2>2, <3>2, <3>3
    <2>8. LoadedInv'
      BY <2>1, <2>7 DEF LoadedInv
    <2> QED
      BY <2>1, <2>5, <2>6, <2>8
  <1> QED
    BY <1>1, <1>2

LEMMA SnapshotInit == Init => SnapshotInv
  <1> SUFFICES ASSUME Init PROVE SnapshotInv
    OBVIOUS
  <1>1. FilesInv
    BY FilesInit
  <1>2. ReaderType
    BY SnapshotAssumption DEF Init, ReaderType, Reading, Fifo
  <1>3. ReadInv /\ LoadedInv
    BY DEF Init, ReadInv, Reading, LoadedInv
  <1> QED
    BY <1>1, <1>2, <1>3 DEF SnapshotInv

LEMMA SnapshotStep == SnapshotInv /\ [Next]_vars => SnapshotInv'
  <1> SUFFICES ASSUME SnapshotInv, [Next]_vars PROVE SnapshotInv'
    OBVIOUS
  <1>1. CASE \E f \in Files : Writes(f)
    BY <1>1, WriterStep
  <1>2. CASE Load
    BY <1>2, OpenStep, StatStep, ReadStep, ReadAllStep, AcceptStep DEF Load
  <1>3. CASE Error
    BY <1>3, FailStep DEF Error
  <1>4. CASE UNCHANGED vars
    BY <1>4 DEF vars, writers, reader, history, SnapshotInv, FilesInv,
                FilesType, VersionsInv, PartsInv, ReaderType, Reading, ReadInv,
                Buffered, Opened, LoadedInv, Current
  <1> QED
    BY <1>1, <1>2, <1>3, <1>4 DEF Next, Writes

LEMMA SnapshotInductive == Spec => []SnapshotInv
  BY SnapshotInit, SnapshotStep, PTL DEF Spec

-----------------------------------------------------------------------------
(* Theorems *)

\* Every variable keeps its type, and no file outgrows its version.
THEOREM SnapshotTypes == Spec => []TypeOK
  <1>1. SnapshotInv => TypeOK
    BY BlocksBounded
       DEF SnapshotInv, FilesInv, FilesType, ReaderType, TypeOK
  <1> QED
    BY <1>1, SnapshotInductive, PTL

\* A document that is accepted is one version of the file, as it stood under
\* the name while it was read, unless somebody wrote to the open file: for
\* any short reads, publications and writers.
THEOREM LoadsStand == Spec => SnapshotStood
  <1>1. SnapshotInv /\ [Next]_vars =>
            [\A f \in Files :
                loaded'[f] # loaded[f] /\ f \notin torn => Stood(f)]_vars
    <2> SUFFICES ASSUME SnapshotInv, Next, NEW f \in Files,
                        loaded'[f] # loaded[f], f \notin torn
                 PROVE  Stood(f)
      OBVIOUS
    <2>1. Accept /\ ~Fail
      <3>1. \A g \in Files : Writes(g) => loaded' = loaded
        BY DEF Writes, Replace, Truncate, WriteBlock, InPlace, Watched, reader
      <3>2. Fail \/ Open \/ Stat \/ Read \/ ReadAll => loaded' = loaded
        BY DEF Fail, Open, Stat, Read, AtEnd, ReadAll
      <3> QED
        BY <3>1, <3>2 DEF Next, Load, Error, Writes
    <2>2. /\ SameSize /\ Parses
          /\ loaded' = [loaded EXCEPT ![Current] = buffer]
          /\ UNCHANGED during
      BY <2>1 DEF Accept, history
    <2>3. f = Current /\ loaded'[f] = buffer
      BY <2>2 DEF SnapshotInv, ReaderType
    <2>4. PICK v \in during : buffer = Document(v, length[Current][v])
      BY <2>1, <2>2, <2>3, AcceptedVersion
    <2> QED
      BY <2>3, <2>4 DEF Stood
  <1> QED
    BY <1>1, SnapshotInductive, PTL DEF Spec, SnapshotStood

\* A configuration is never combined with a key set older than the one in
\* place when it was published, because the keys are opened afterwards.
THEOREM KeysCover == Spec => []KeysCoverConfiguration
  <1>1. SnapshotInv => KeysCoverConfiguration
    BY DEF SnapshotInv, LoadedInv, KeysCoverConfiguration
  <1> QED
    BY <1>1, SnapshotInductive, PTL
=============================================================================
