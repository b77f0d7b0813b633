---------------------------- MODULE HFCacheProofs ----------------------------
(***************************************************************************)
(* What one process leaves in the cache, for a file of any size, whatever   *)
(* breaks off when: the temporary file is a prefix of the remote one, the   *)
(* blob and the returned snapshot are all of it.  A crash while a snapshot  *)
(* is copied is left out: it does leave a part of the file (README,         *)
(* findings), so the theorem is about file systems with links, and about    *)
(* copies that may fail but are not killed.                                 *)
(***************************************************************************)
EXTENDS HFCache, FiniteSetTheorems, TLAPS

CopiesNotKilled == \A m \in Machines : m.links = "copy" => "crash" \notin m.faults

PCs == {"start", "stat blob", "stat tmp", "request", "body", "rename", "finalize", "symlink",
        "hardlink", "open copy", "copy", "done", "failed", "rename again", "remove"}

TypeOK ==
  /\ data \in [Inodes -> Seq(Nat)]
  /\ tmp \in Inodes \cup {None} /\ blob \in Inodes \cup {None}
  /\ final \in Inodes \cup {None, Symlink}
  /\ pc \in [Procs -> PCs]
  /\ offset \in [Procs -> Nat]
  /\ fd \in [Procs -> Inodes \cup {None}] /\ src \in [Procs -> Inodes \cup {None}]
  /\ append \in [Procs -> BOOLEAN] /\ nolinks \in [Procs -> BOOLEAN]

\* A file of n chunks that are the first ones of the remote file.
Prefix(content, n) == Len(content) = n /\ n <= Size /\ \A i \in 1..n : content[i] = i

\* The three names, and what they name.  A snapshot that is a file of its own
\* is complete unless it is being copied.
FilesRight(p) ==
  /\ tmp # None => /\ \E n \in 0..Size : Prefix(data[tmp], n)
                   /\ tmp # blob /\ tmp # final
  /\ blob # None => Prefix(data[blob], Size)
  /\ final = Symlink => blob # None
  /\ final \in Inodes /\ pc[p] # "copy" => Prefix(data[final], Size)

\* What each place of a run knows about the files.
PlaceRight(p) ==
  /\ pc[p] \notin {"rename again", "remove"}
  /\ pc[p] = "request" =>
       IF tmp = None THEN offset[p] = 0 ELSE Prefix(data[tmp], offset[p])
  /\ pc[p] = "body" => tmp # None /\ fd[p] = tmp /\ Prefix(data[tmp], offset[p])
  /\ pc[p] = "rename" => tmp # None /\ Prefix(data[tmp], Size)
  /\ pc[p] \in {"finalize", "symlink", "hardlink", "open copy", "copy"} => blob # None
  /\ pc[p] \in {"symlink", "hardlink", "open copy"} => final = None
  /\ pc[p] \in {"open copy", "copy"} => fs.links = "copy"
  /\ pc[p] = "copy" =>
       /\ final \in Inodes /\ fd[p] = final /\ src[p] = blob /\ final # blob
       /\ Prefix(data[final], offset[p])
  /\ pc[p] = "done" => final # None

Right(p) == TypeOK /\ FilesRight(p) /\ PlaceRight(p)

IInv == fs \in Machines /\ (Alone => \A p \in fs.procs : Right(p))

-----------------------------------------------------------------------------

\* The next chunk behind a prefix makes a longer prefix.
LEMMA WrittenPrefix ==
  ASSUME NEW content \in Seq(Nat), NEW n \in Nat, Prefix(content, n), n < Size
  PROVE  LET longer == Written(content, n + 1, n + 1)
         IN  longer \in Seq(Nat) /\ Prefix(longer, n + 1)
  <1> DEFINE longer == [i \in 1..n+1 |-> IF i = n + 1 THEN n + 1 ELSE content[i]]
  <1>1. Len(content) = n /\ \A i \in 1..n : content[i] = i
    BY DEF Prefix
  <1>2. Written(content, n + 1, n + 1) = longer
    <2>1. (IF n + 1 > Len(content) THEN n + 1 ELSE Len(content)) = n + 1
      BY <1>1
    <2>2. \A i \in 1..n+1 : i # n + 1 => i <= Len(content)
      BY <1>1
    <2> QED
      BY <2>1, <2>2 DEF Written
  <1>3. \A i \in 1..n+1 : longer[i] = i
    BY <1>1
  <1>4. longer \in Seq(Nat) /\ Len(longer) = n + 1
    BY <1>1
  <1> HIDE DEF longer
  <1> QED
    BY <1>2, <1>3, <1>4, SizeAssumption DEF Prefix

\* The whole file is all of the remote one.
LEMMA WholeIsRemote ==
  ASSUME NEW content \in Seq(Nat), Prefix(content, Size)
  PROVE  content = Remote
  <1>1. Len(content) = Size /\ \A i \in 1..Size : content[i] = i
    BY DEF Prefix
  <1>2. Remote \in Seq(Nat) /\ Len(Remote) = Size /\ \A i \in 1..Size : Remote[i] = i
    BY SizeAssumption DEF Remote
  <1> QED
    BY <1>1, <1>2, SizeAssumption

\* The processes of a machine are some of those there are, and finitely many.
LEMMA ProcsOfMachines ==
  ASSUME NEW m \in Machines
  PROVE  m.procs \subseteq Procs /\ IsFiniteSet(m.procs)
  <1>1. m.procs \subseteq Procs
    BY MachinesAssumption
  <1> QED
    BY <1>1, ProcsAssumption, FS_Subset

\* Before the first process looks there is nothing to be wrong.
LEMMA InitRight == Init => IInv
  <1> SUFFICES ASSUME Init, NEW p \in fs.procs
               PROVE  Right(p)
    BY DEF IInv, Init
  <1>1. p \in Procs
    BY ProcsOfMachines DEF Init
  <1>2. TypeOK
    BY DEF Init, TypeOK, PCs
  <1>3. FilesRight(p) /\ PlaceRight(p)
    BY <1>1, NamesAssumption DEF Init, FilesRight, PlaceRight
  <1> QED
    BY <1>2, <1>3 DEF Right

-----------------------------------------------------------------------------
(* The steps of a process that works alone *)

\* A step that leaves the files alone, but for a temporary file that is read.
LEMMA StillRight ==
  ASSUME NEW p \in Procs, Right(p), fs' = fs, data' = data,
         tmp' = tmp, blob' = blob, final' = final, fd' = fd, src' = src,
         append' = append, nolinks' = nolinks, offset' \in [Procs -> Nat],
         NEW where \in PCs, Goto(p, where), pc[p] # "copy", PlaceRight(p)'
  PROVE  Right(p)'
  <1>1. pc' \in [Procs -> PCs] /\ pc'[p] = where
    BY DEF Goto, Right, TypeOK
  <1>2. TypeOK'
    BY <1>1 DEF Right, TypeOK
  <1>3. FilesRight(p)'
    BY DEF Right, FilesRight
  <1> QED
    BY <1>2, <1>3 DEF Right

\* Looking for a file changes none, and tells what is there.
LEMMA LookingRight ==
  ASSUME NEW p \in Procs, Right(p),
         StatFinal(p) \/ StatBlob(p) \/ StatTmp(p) \/ StatFinalized(p)
  PROVE  Right(p)'
  <1>1. /\ TypeOK /\ FilesRight(p) /\ PlaceRight(p)
        /\ fs' = fs /\ data' = data /\ tmp' = tmp /\ blob' = blob /\ final' = final
        /\ fd' = fd /\ src' = src /\ append' = append /\ nolinks' = nolinks
        /\ pc[p] # "copy"
    BY DEF Right, StatFinal, StatBlob, StatTmp, StatFinalized, names, proc
  <1>2. CASE StatFinal(p)
    <2>1. PICK where \in {"done", "stat blob"} :
            Goto(p, where) /\ (where = "done" => FinalTarget # None)
      BY <1>2 DEF StatFinal
    <2>2. pc'[p] = where
      BY <1>1, <2>1 DEF Goto, TypeOK
    <2>3. PlaceRight(p)'
      BY <1>1, <2>1, <2>2, NamesAssumption DEF PlaceRight, FilesRight, FinalTarget
    <2> QED
      BY <1>1, <1>2, <2>1, <2>3, StillRight DEF StatFinal, TypeOK, proc, PCs
  <1>3. CASE StatBlob(p)
    <2>1. PICK where \in {"finalize", "stat tmp"} :
            Goto(p, where) /\ (where = "finalize" => blob # None)
      BY <1>3 DEF StatBlob
    <2>2. pc'[p] = where
      BY <1>1, <2>1 DEF Goto, TypeOK
    <2>3. PlaceRight(p)'
      BY <1>1, <2>1, <2>2 DEF PlaceRight
    <2> QED
      BY <1>1, <1>3, <2>1, <2>3, StillRight DEF StatBlob, TypeOK, proc, PCs
  <1>4. CASE StatTmp(p)
    <2>1. ResumeOffset \in Nat /\ (tmp # None => Prefix(data[tmp], ResumeOffset))
          /\ (tmp = None => ResumeOffset = 0)
      BY <1>1 DEF ResumeOffset, TypeOK, FilesRight, Prefix
    <2>2. PICK where \in {"rename", "request"} :
            Goto(p, where) /\ (where = "rename" => ResumeOffset >= Size)
      BY <1>4 DEF StatTmp, Complete
    <2>3. pc'[p] = where /\ offset'[p] = ResumeOffset /\ offset' \in [Procs -> Nat]
      BY <1>1, <1>4, <2>1, <2>2 DEF Goto, TypeOK, StatTmp
    <2>4. where = "rename" => tmp # None /\ Prefix(data[tmp], Size)
      <3>1. ASSUME where = "rename"
            PROVE  tmp # None /\ ResumeOffset = Size
        BY <2>1, <2>2, <3>1, SizeAssumption DEF Prefix
      <3> QED
        BY <3>1, <2>1
    <2>5. PlaceRight(p)'
      BY <1>1, <2>1, <2>2, <2>3, <2>4 DEF PlaceRight
    <2> QED
      BY <1>1, <2>2, <2>3, <2>5, StillRight DEF PCs
  <1>5. CASE StatFinalized(p)
    <2>1. PICK where \in {"done", "failed", "hardlink", "symlink"} :
            /\ Goto(p, where)
            /\ where = "done" => FinalTarget # None
            /\ where \in {"hardlink", "symlink"} => FinalTarget = None /\ blob # None
      BY <1>5 DEF StatFinalized
    <2>2. pc'[p] = where
      BY <1>1, <2>1 DEF Goto, TypeOK
    <2>3. PlaceRight(p)'
      BY <1>1, <2>1, <2>2, NamesAssumption DEF PlaceRight, FilesRight, FinalTarget
    <2> QED
      BY <1>1, <1>5, <2>1, <2>3, StillRight DEF StatFinalized, TypeOK, proc, PCs
  <1> QED
    BY <1>2, <1>3, <1>4, <1>5

\* The answer of the server decides between a new file and the rest of one.
LEMMA RequestRight ==
  ASSUME NEW p \in Procs, Right(p), FullResponse(p) \/ PartialResponse(p)
  PROVE  Right(p)'
  <1>1. /\ TypeOK /\ FilesRight(p) /\ PlaceRight(p) /\ pc[p] = "request"
        /\ fs' = fs /\ blob' = blob /\ final' = final /\ src' = src /\ nolinks' = nolinks
    BY DEF Right, FullResponse, PartialResponse, names
  <1>2. CASE PartialResponse(p)
    <2>1. tmp # None /\ Prefix(data[tmp], offset[p])
      BY <1>1, <1>2 DEF PartialResponse, PlaceRight, TypeOK
    <2>2. /\ data' = data /\ tmp' = tmp /\ offset' = offset
          /\ pc' = [pc EXCEPT ![p] = "body"] /\ fd' = [fd EXCEPT ![p] = tmp]
          /\ append' = [append EXCEPT ![p] = TRUE]
      BY <1>2, <2>1 DEF PartialResponse, Goto, names
    <2>3. TypeOK'
      BY <1>1, <2>2 DEF TypeOK, PCs
    <2>4. pc'[p] = "body" /\ fd'[p] = tmp
      BY <1>1, <2>2 DEF TypeOK
    <2>5. FilesRight(p)' /\ PlaceRight(p)'
      BY <1>1, <2>1, <2>2, <2>4 DEF FilesRight, PlaceRight
    <2> QED
      BY <2>3, <2>5 DEF Right
  <1>3. CASE FullResponse(p)
    <2>1. PICK i \in (IF tmp = None THEN Unused ELSE {tmp}) :
            /\ tmp' = i /\ fd' = [fd EXCEPT ![p] = i] /\ data' = [data EXCEPT ![i] = <<>>]
      BY <1>3 DEF FullResponse
    <2>2. i \in Inodes /\ i # blob /\ i # final
      BY <1>1, <2>1 DEF Unused, TypeOK, FilesRight
    <2>3. /\ offset' = [offset EXCEPT ![p] = 0] /\ append' = [append EXCEPT ![p] = FALSE]
          /\ pc' = [pc EXCEPT ![p] = "body"]
      BY <1>3 DEF FullResponse, Goto
    <2>4. TypeOK'
      <3>1. << >> \in Seq(Nat)
        OBVIOUS
      <3> QED
        BY <1>1, <2>1, <2>2, <2>3, <3>1 DEF TypeOK, PCs
    <2>5. /\ pc'[p] = "body" /\ fd'[p] = i /\ offset'[p] = 0 /\ data'[i] = << >>
          /\ \A j \in Inodes : j # i => data'[j] = data[j]
      BY <1>1, <2>1, <2>2, <2>3 DEF TypeOK
    <2>6. Prefix(data'[i], 0) /\ i # None
      BY <2>2, <2>5, SizeAssumption, NamesAssumption DEF Prefix
    <2>7. FilesRight(p)'
      <3>1. \E n \in 0..Size : Prefix(data'[tmp'], n)
        BY <2>1, <2>6, SizeAssumption
      <3>2. blob # None => Prefix(data'[blob], Size)
        BY <1>1, <2>2, <2>5 DEF FilesRight, TypeOK
      <3>3. final \in Inodes => Prefix(data'[final], Size)
        BY <1>1, <2>2, <2>5 DEF FilesRight
      <3> QED
        BY <1>1, <2>1, <2>2, <3>1, <3>2, <3>3 DEF FilesRight
    <2>8. PlaceRight(p)'
      BY <2>1, <2>5, <2>6 DEF PlaceRight
    <2> QED
      BY <2>4, <2>7, <2>8 DEF Right
  <1> QED
    BY <1>2, <1>3

\* What the steps that close the files do.
LEMMA ClosedType ==
  ASSUME NEW p \in Procs, TypeOK, Closed(p), NEW where \in PCs, Goto(p, where)
  PROVE  /\ offset' \in [Procs -> Nat] /\ append' \in [Procs -> BOOLEAN]
         /\ fd' \in [Procs -> Inodes \cup {None}] /\ src' \in [Procs -> Inodes \cup {None}]
         /\ pc' \in [Procs -> PCs] /\ pc'[p] = where
  BY DEF TypeOK, Closed, Goto

\* The body extends the temporary file by bytes that belong there.
LEMMA BodyRight ==
  ASSUME NEW p \in Procs, Right(p), WriteBody(p) \/ CloseBody(p)
  PROVE  Right(p)'
  <1>1. /\ TypeOK /\ FilesRight(p) /\ PlaceRight(p) /\ pc[p] = "body"
        /\ fs' = fs /\ tmp' = tmp /\ blob' = blob /\ final' = final /\ nolinks' = nolinks
    BY DEF Right, WriteBody, CloseBody, names
  <1>2. /\ tmp \in Inodes /\ fd[p] = tmp /\ Prefix(data[tmp], offset[p]) /\ offset[p] \in Nat
        /\ tmp # blob /\ tmp # final
    BY <1>1 DEF PlaceRight, FilesRight, TypeOK
  <1>3. CASE WriteBody(p)
    <2> DEFINE longer == Written(data[tmp], offset[p] + 1, offset[p] + 1)
    <2>1. /\ offset[p] < Size /\ offset' = [offset EXCEPT ![p] = offset[p] + 1]
          /\ pc' = pc /\ fd' = fd /\ src' = src /\ append' = append
      BY <1>3 DEF WriteBody
    <2>2. WritePosition(p) = offset[p] + 1
      BY <1>2 DEF WritePosition, Prefix
    <2>3. data' = [data EXCEPT ![tmp] = longer]
      BY <1>2, <1>3, <2>2 DEF WriteBody
    <2>4. longer \in Seq(Nat) /\ Prefix(longer, offset[p] + 1)
      BY <1>1, <1>2, <2>1, WrittenPrefix DEF TypeOK
    <2> HIDE DEF longer
    <2>5. TypeOK'
      BY <1>1, <1>2, <2>1, <2>3, <2>4 DEF TypeOK
    <2>6. /\ data'[tmp] = longer /\ \A j \in Inodes : j # tmp => data'[j] = data[j]
          /\ offset'[p] = offset[p] + 1
      BY <1>1, <1>2, <2>1, <2>3 DEF TypeOK
    <2>7. FilesRight(p)'
      <3>1. \E n \in 0..Size : Prefix(data'[tmp], n)
        BY <1>2, <2>1, <2>4, <2>6, SizeAssumption
      <3>2. blob # None => Prefix(data'[blob], Size)
        BY <1>1, <1>2, <2>6 DEF FilesRight, TypeOK
      <3>3. final \in Inodes => Prefix(data'[final], Size)
        BY <1>1, <1>2, <2>6 DEF FilesRight
      <3> QED
        BY <1>1, <1>2, <3>1, <3>2, <3>3 DEF FilesRight
    <2>8. PlaceRight(p)'
      BY <1>1, <1>2, <2>1, <2>4, <2>6 DEF PlaceRight
    <2> QED
      BY <2>5, <2>7, <2>8 DEF Right
  <1>4. CASE CloseBody(p)
    <2>1. offset[p] = Size /\ Closed(p) /\ Goto(p, "rename") /\ data' = data
      BY <1>2, <1>4, SizeAssumption DEF CloseBody, Prefix
    <2>2. TypeOK' /\ pc'[p] = "rename"
      BY <1>1, <2>1, ClosedType DEF TypeOK, PCs
    <2>3. FilesRight(p)' /\ PlaceRight(p)'
      BY <1>1, <1>2, <2>1, <2>2, NamesAssumption DEF FilesRight, PlaceRight
    <2> QED
      BY <2>2, <2>3 DEF Right
  <1> QED
    BY <1>3, <1>4

\* The temporary file becomes the blob.
LEMMA RenameRight ==
  ASSUME NEW p \in Procs, Right(p), Rename(p) \/ RemoveBlob(p)
  PROVE  Right(p)'
  <1>1. /\ TypeOK /\ FilesRight(p) /\ PlaceRight(p) /\ pc[p] = "rename"
        /\ fs' = fs /\ data' = data /\ final' = final /\ nolinks' = nolinks
    BY DEF Right, Rename, RemoveBlob, PlaceRight
  <1>2. tmp # None /\ Prefix(data[tmp], Size)
    BY <1>1 DEF PlaceRight
  <1>3. /\ blob' = tmp /\ tmp' = None /\ pc' = [pc EXCEPT ![p] = "finalize"]
        /\ fd' = fd /\ src' = src /\ append' = append /\ offset' = offset
    BY <1>1, <1>2 DEF Rename, RemoveBlob, Goto, proc
  <1>4. TypeOK' /\ pc'[p] = "finalize"
    BY <1>1, <1>3 DEF TypeOK, PCs
  <1>5. FilesRight(p)' /\ PlaceRight(p)'
    BY <1>1, <1>2, <1>3, <1>4 DEF FilesRight, PlaceRight
  <1> QED
    BY <1>4, <1>5 DEF Right

\* The snapshot is made by a link.
LEMMA LinkRight ==
  ASSUME fs \in Machines, NEW p \in Procs, Right(p), LinkSymbolic(p) \/ LinkHard(p)
  PROVE  Right(p)'
  <1>1. /\ TypeOK /\ FilesRight(p) /\ PlaceRight(p) /\ pc[p] \in {"symlink", "hardlink"}
        /\ fs' = fs /\ data' = data /\ tmp' = tmp /\ blob' = blob
        /\ fd' = fd /\ src' = src /\ append' = append /\ offset' = offset
    BY DEF Right, LinkSymbolic, LinkHard, proc
  <1>2. /\ blob # None /\ blob \in Inodes /\ final = None
        /\ Prefix(data[blob], Size) /\ (tmp # blob \/ tmp = None)
    BY <1>1 DEF PlaceRight, FilesRight, TypeOK
  <1>3. PICK where \in {"done", "hardlink", "open copy"} :
          /\ pc' = [pc EXCEPT ![p] = where]
          /\ where = "done" => final' \in {Symlink, blob}
          /\ where # "done" => final' = final
          /\ where = "open copy" => fs.links \notin {"symlink", "hardlink"}
    BY <1>1, <1>2 DEF LinkSymbolic, LinkHard, Goto
  <1>4. nolinks' \in [Procs -> BOOLEAN]
    BY <1>1 DEF LinkSymbolic, LinkHard, TypeOK
  <1>5. pc'[p] = where /\ TypeOK'
    BY <1>1, <1>2, <1>3, <1>4 DEF TypeOK, PCs
  <1>6. FilesRight(p)'
    BY <1>1, <1>2, <1>3, NamesAssumption DEF FilesRight, TypeOK
  <1>7. PlaceRight(p)'
    <2>1. fs.links \in {"symlink", "hardlink", "copy"}
      BY MachinesAssumption
    <2> QED
      BY <1>1, <1>2, <1>3, <1>5, <2>1, NamesAssumption DEF PlaceRight
  <1> QED
    BY <1>5, <1>6, <1>7 DEF Right

\* Or by a copy, which begins with an empty file.
LEMMA OpenCopyRight ==
  ASSUME NEW p \in Procs, Right(p), OpenCopy(p)
  PROVE  Right(p)'
  <1>1. /\ TypeOK /\ FilesRight(p) /\ PlaceRight(p) /\ pc[p] = "open copy"
        /\ fs' = fs /\ tmp' = tmp /\ blob' = blob /\ append' = append /\ nolinks' = nolinks
    BY DEF Right, OpenCopy
  <1>2. blob # None /\ final = None /\ FinalTarget = None /\ fs.links = "copy"
    BY <1>1, NamesAssumption DEF PlaceRight, FinalTarget
  <1>3. PICK i \in Unused :
          /\ final' = i /\ data' = [data EXCEPT ![i] = <<>>] /\ fd' = [fd EXCEPT ![p] = i]
    BY <1>2 DEF OpenCopy
  <1>4. i \in Inodes /\ i # tmp /\ i # blob
    BY DEF Unused
  <1>5. /\ src' = [src EXCEPT ![p] = blob] /\ offset' = [offset EXCEPT ![p] = 0]
        /\ pc' = [pc EXCEPT ![p] = "copy"]
    BY <1>2 DEF OpenCopy, Goto
  <1>6. TypeOK'
    <2>1. << >> \in Seq(Nat)
      OBVIOUS
    <2> QED
      BY <1>1, <1>3, <1>4, <1>5, <2>1 DEF TypeOK, PCs
  <1>7. /\ pc'[p] = "copy" /\ fd'[p] = i /\ src'[p] = blob /\ offset'[p] = 0
        /\ data'[i] = << >> /\ \A j \in Inodes : j # i => data'[j] = data[j]
    BY <1>1, <1>3, <1>4, <1>5 DEF TypeOK
  <1>8. FilesRight(p)'
    <2>1. tmp # None => \E n \in 0..Size : Prefix(data'[tmp], n)
      <3>1. ASSUME tmp # None
            PROVE  data'[tmp] = data[tmp] /\ \E n \in 0..Size : Prefix(data[tmp], n)
        BY <3>1, <1>1, <1>4, <1>7 DEF FilesRight, TypeOK
      <3> QED
        BY <3>1
    <2>2. Prefix(data'[blob], Size)
      BY <1>1, <1>2, <1>4, <1>7 DEF FilesRight, TypeOK
    <2> QED
      BY <1>1, <1>2, <1>3, <1>4, <1>7, <2>1, <2>2, NamesAssumption DEF FilesRight
  <1>9. PlaceRight(p)'
    <2>1. Prefix(data'[i], 0)
      BY <1>7, SizeAssumption DEF Prefix
    <2> QED
      BY <1>1, <1>2, <1>3, <1>4, <1>7, <2>1 DEF PlaceRight
  <1> QED
    BY <1>6, <1>8, <1>9 DEF Right

\* The copy grows, and is whole when it is done.
LEMMA CopyRight ==
  ASSUME NEW p \in Procs, Right(p), CopyChunk(p) \/ CopyDone(p)
  PROVE  Right(p)'
  <1>1. /\ TypeOK /\ FilesRight(p) /\ PlaceRight(p) /\ pc[p] = "copy"
        /\ fs' = fs /\ tmp' = tmp /\ blob' = blob /\ final' = final /\ nolinks' = nolinks
    BY DEF Right, CopyChunk, CopyDone, names
  <1>2. /\ final \in Inodes /\ fd[p] = final /\ src[p] = blob /\ final # blob /\ final # tmp
        /\ blob \in Inodes /\ Prefix(data[final], offset[p]) /\ offset[p] \in Nat
        /\ Prefix(data[blob], Size)
    BY <1>1, NamesAssumption DEF PlaceRight, FilesRight, TypeOK
  <1>3. Len(data[src[p]]) = Size /\ \A i \in 1..Size : data[src[p]][i] = i
    BY <1>2 DEF Prefix
  <1>4. CASE CopyChunk(p)
    <2> DEFINE longer == Written(data[final], offset[p] + 1, offset[p] + 1)
    <2>1. /\ offset[p] < Size /\ offset' = [offset EXCEPT ![p] = offset[p] + 1]
          /\ pc' = pc /\ fd' = fd /\ src' = src /\ append' = append
      BY <1>3, <1>4 DEF CopyChunk
    <2>2. data[src[p]][offset[p] + 1] = offset[p] + 1
      BY <1>2, <1>3, <2>1, SizeAssumption
    <2>3. data' = [data EXCEPT ![final] = longer]
      BY <1>2, <1>4, <2>2 DEF CopyChunk
    <2>4. longer \in Seq(Nat) /\ Prefix(longer, offset[p] + 1)
      BY <1>1, <1>2, <2>1, WrittenPrefix DEF TypeOK
    <2> HIDE DEF longer
    <2>5. TypeOK'
      BY <1>1, <1>2, <2>1, <2>3, <2>4 DEF TypeOK
    <2>6. /\ data'[final] = longer /\ \A j \in Inodes : j # final => data'[j] = data[j]
          /\ offset'[p] = offset[p] + 1
      BY <1>1, <1>2, <2>1, <2>3 DEF TypeOK
    <2>7. FilesRight(p)'
      <3>1. tmp # None => \E n \in 0..Size : Prefix(data'[tmp], n)
        <4>1. ASSUME tmp # None
              PROVE  data'[tmp] = data[tmp] /\ \E n \in 0..Size : Prefix(data[tmp], n)
          BY <4>1, <1>1, <1>2, <2>6 DEF FilesRight, TypeOK
        <4> QED
          BY <4>1
      <3>2. Prefix(data'[blob], Size)
        BY <1>2, <2>6
      <3> QED
        BY <1>1, <1>2, <2>1, <3>1, <3>2 DEF FilesRight
    <2>8. PlaceRight(p)'
      BY <1>1, <1>2, <2>1, <2>4, <2>6 DEF PlaceRight
    <2> QED
      BY <2>5, <2>7, <2>8 DEF Right
  <1>5. CASE CopyDone(p)
    <2>1. offset[p] = Size /\ Closed(p) /\ Goto(p, "done") /\ data' = data
      BY <1>2, <1>3, <1>5, SizeAssumption DEF CopyDone, Prefix
    <2>2. TypeOK' /\ pc'[p] = "done"
      BY <1>1, <2>1, ClosedType DEF TypeOK, PCs
    <2>3. FilesRight(p)' /\ PlaceRight(p)'
      BY <1>1, <1>2, <2>1, <2>2, NamesAssumption DEF FilesRight, PlaceRight
    <2> QED
      BY <2>2, <2>3 DEF Right
  <1> QED
    BY <1>4, <1>5

\* Errors, crashes and the next attempt leave the files as they are, but for a
\* copy that fails: the snapshot's name is removed.
LEMMA FaultRight ==
  ASSUME CopiesNotKilled, fs \in Machines, NEW p \in Procs, Right(p),
         Fails(p) \/ Crash(p) \/ Again(p)
  PROVE  Right(p)'
  <1>1. /\ TypeOK /\ FilesRight(p) /\ PlaceRight(p) /\ Closed(p)
        /\ fs' = fs /\ tmp' = tmp /\ blob' = blob /\ data' = data
    BY DEF Right, Fails, Crash, Again, names
  <1>2. PICK where \in {"start", "failed"} : Goto(p, where)
    BY DEF Fails, Crash, Again
  <1>3. final' = None \/ (final' = final /\ pc[p] # "copy")
    <2>1. CASE Fails(p)
      BY <2>1 DEF Fails, CopyFails
    <2>2. CASE Crash(p)
      BY <2>2, <1>1 DEF Crash, names, PlaceRight, CopiesNotKilled
    <2>3. CASE Again(p)
      BY <2>3 DEF Again, names
    <2> QED
      BY <2>1, <2>2, <2>3
  <1>4. nolinks' \in [Procs -> BOOLEAN]
    BY <1>1 DEF Fails, Crash, Again, TypeOK
  <1>5. TypeOK' /\ pc'[p] = where
    <2>1. where \in PCs
      BY DEF PCs
    <2> QED
      BY <1>1, <1>2, <1>3, <1>4, <2>1, ClosedType DEF TypeOK
  <1>6. FilesRight(p)' /\ PlaceRight(p)'
    BY <1>1, <1>2, <1>3, <1>5, NamesAssumption DEF FilesRight, PlaceRight
  <1> QED
    BY <1>5, <1>6 DEF Right

-----------------------------------------------------------------------------
(* The theorems *)

\* Every step keeps what a process knows right, unless a copy was killed.
LEMMA NextRight == CopiesNotKilled /\ IInv /\ [Next]_vars => IInv'
  <1> SUFFICES ASSUME CopiesNotKilled, IInv, [Next]_vars
               PROVE  IInv'
    OBVIOUS
  <1>1. fs' = fs
    BY DEF Next, vars, EnsureDownloaded, Download, Finalize, StatFinal, StatBlob, StatTmp,
       FullResponse, PartialResponse, WriteBody, CloseBody, Rename, RemoveBlob, StatFinalized,
       LinkSymbolic, LinkHard, OpenCopy, CopyChunk, CopyDone, Fails, Crash, Again
  <1> SUFFICES ASSUME Alone, NEW p \in fs.procs
               PROVE  Right(p)'
    BY <1>1 DEF IInv, Alone
  <1>2. p \in Procs /\ \A q \in fs.procs : q = p
    <2>1. IsFiniteSet(fs.procs) /\ fs.procs \subseteq Procs
      BY ProcsOfMachines DEF IInv
    <2>2. PICK q : fs.procs = {q}
      BY <2>1, FS_Singleton DEF Alone
    <2> QED
      BY <2>1, <2>2
  <1>3. Right(p) /\ fs \in Machines
    BY DEF IInv
  <1>4. CASE UNCHANGED vars
    BY <1>3, <1>4 DEF vars, names, Right, TypeOK, FilesRight, PlaceRight
  <1>5. CASE Next
    <2>1. EnsureDownloaded(p) \/ Fails(p) \/ Crash(p) \/ Again(p)
      BY <1>2, <1>5 DEF Next
    <2> QED
      BY <1>2, <1>3, <2>1, LookingRight, RequestRight, BodyRight, RenameRight, LinkRight,
         OpenCopyRight, CopyRight, FaultRight DEF EnsureDownloaded, Download, Finalize
  <1> QED
    BY <1>4, <1>5

\* What a process that works alone knows of its files at every place, whatever
\* broke off before.
THEOREM Invariant == CopiesNotKilled /\ Spec => []IInv
  <1> SUFFICES ASSUME CopiesNotKilled
               PROVE  Spec => []IInv
    OBVIOUS
  <1>1. IInv /\ [Next]_vars => IInv'
    BY NextRight
  <1> QED
    BY <1>1, InitRight, PTL DEF Spec

\* A temporary file is a prefix of the remote one, so that a resume may append;
\* a blob, and a snapshot that was returned, are all of it.
THEOREM CacheIsIntact == CopiesNotKilled /\ Spec => []CachedIntact
  <1>1. IInv => CachedIntact
    <2> SUFFICES ASSUME IInv
                 PROVE  TmpIsPrefix /\ BlobIntact /\ ReturnedIntact
      BY DEF CachedIntact
    <2>1. ASSUME Alone
          PROVE  \E p \in fs.procs : TRUE
      <3>1. IsFiniteSet(fs.procs)
        BY ProcsOfMachines DEF IInv
      <3> QED
        BY <2>1, <3>1, FS_Singleton DEF Alone
    <2>2. TmpIsPrefix
      <3> SUFFICES ASSUME Alone, tmp # None
                   PROVE  IsPrefixOfRemote(data[tmp])
        BY DEF TmpIsPrefix
      <3>1. \E n \in 0..Size : Prefix(data[tmp], n)
        BY <2>1 DEF IInv, Right, FilesRight
      <3> QED
        BY <3>1 DEF Prefix, IsPrefixOfRemote
    <2>3. BlobIntact
      <3> SUFFICES ASSUME Alone, blob # None
                   PROVE  data[blob] = Remote
        BY DEF BlobIntact
      <3>1. Prefix(data[blob], Size) /\ data[blob] \in Seq(Nat)
        BY <2>1 DEF IInv, Right, FilesRight, TypeOK
      <3> QED
        BY <3>1, WholeIsRemote
    <2>4. ReturnedIntact
      <3> SUFFICES ASSUME NEW p \in fs.procs, Alone, pc[p] = "done"
                   PROVE  FinalTarget # None /\ data[FinalTarget] = Remote
        BY DEF ReturnedIntact
      <3>1. TypeOK /\ FilesRight(p) /\ PlaceRight(p)
        BY DEF IInv, Right
      <3>2. /\ FinalTarget \in Inodes /\ FinalTarget # None
            /\ Prefix(data[FinalTarget], Size)
        BY <3>1, NamesAssumption DEF FinalTarget, FilesRight, PlaceRight, TypeOK
      <3>3. data[FinalTarget] \in Seq(Nat)
        BY <3>1, <3>2 DEF TypeOK
      <3> QED
        BY <3>2, <3>3, WholeIsRemote
    <2> QED
      BY <2>2, <2>3, <2>4
  <1> QED
    BY <1>1, Invariant, PTL
=============================================================================
