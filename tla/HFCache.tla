------------------------------ MODULE HFCache ------------------------------
(***************************************************************************)
(* How pkg/hf gets one model file into the Hugging Face cache: processes   *)
(* that resolve the same file share the directory and nothing else.        *)
(*                                                                         *)
(* The file is Size chunks; an inode holds a sequence of chunks, 0 being a *)
(* hole.  The names are blobs/oid.tmp, blobs/oid and snapshots/commit/path.*)
(* A step is one system call or one chunk of a copy; a process may crash   *)
(* and the network may fail between any two.                               *)
(***************************************************************************)
EXTENDS Integers, Sequences, FiniteSets

CONSTANTS
  Procs,        \* processes resolving the file
  Inodes,       \* files of the file system
  None,         \* no such name, no open file
  Symlink,      \* a snapshot that is a symbolic link to the blob
  Size,         \* FileInfo.Size, in chunks
  Machines      \* the links a file system supports, the processes at work there,
                \* the kinds of faults and the bound on their number

ASSUME ProcsAssumption == IsFiniteSet(Procs)
ASSUME SizeAssumption == Size \in Nat \ {0}
ASSUME NamesAssumption == None \notin Inodes /\ Symlink \notin Inodes \cup {None}
ASSUME MachinesAssumption ==
  Machines \subseteq [links : {"symlink", "hardlink", "copy"}, procs : SUBSET Procs,
                      faults : SUBSET {"crash", "error"}, budget : Nat]

VARIABLES
  fs,        \* the machine: its file system, processes and faults
  data,      \* contents of the inodes
  tmp, blob, \* what blobs/oid.tmp and blobs/oid name
  final,     \* what snapshots/commit/path names
  pc,
  offset,    \* downloadFile's offset; next chunk of a body or a copy
  fd,        \* the open destination
  src,       \* the open source of a copy
  append,    \* fd was opened with O_APPEND
  nolinks,   \* symlinksDisabled, per process
  faults     \* crashes and errors so far

names == <<tmp, blob, final>>
proc == <<offset, fd, src, append>>
vars == <<fs, data, tmp, blob, final, pc, offset, fd, src, append, nolinks, faults>>

Remote == [i \in 1..Size |-> i]

Init ==
  /\ fs \in Machines
  /\ data = [i \in Inodes |-> <<>>]
  /\ tmp = None /\ blob = None /\ final = None
  /\ pc = [p \in Procs |-> "start"]
  /\ offset = [p \in Procs |-> 0]
  /\ fd = [p \in Procs |-> None] /\ src = [p \in Procs |-> None]
  /\ append = [p \in Procs |-> FALSE] /\ nolinks = [p \in Procs |-> FALSE]
  /\ faults = 0

-----------------------------------------------------------------------------
(* The file system. *)

\* The inode that opening or stat-ing the snapshot reaches.
FinalTarget == IF final = Symlink THEN blob ELSE final

Unused == Inodes \ ({tmp, blob, final} \cup {fd[p] : p \in Procs} \cup {src[p] : p \in Procs})

\* One chunk written at position at (1, 2, ...) of a file: writing beyond its end
\* leaves a hole.
Written(content, at, chunk) ==
  [i \in 1..(IF at > Len(content) THEN at ELSE Len(content)) |->
     IF i = at THEN chunk ELSE IF i <= Len(content) THEN content[i] ELSE 0]

Goto(p, where) == pc' = [pc EXCEPT ![p] = where]

Closed(p) ==
  /\ fd' = [fd EXCEPT ![p] = None]
  /\ src' = [src EXCEPT ![p] = None]
  /\ append' = [append EXCEPT ![p] = FALSE]
  /\ offset' = [offset EXCEPT ![p] = 0]

-----------------------------------------------------------------------------
(* ensureDownloaded and downloadFile. *)

StatFinal(p) ==
  /\ pc[p] = "start"
  /\ Goto(p, IF FinalTarget # None THEN "done" ELSE "stat blob")
  /\ UNCHANGED <<fs, data, names, proc, nolinks, faults>>

StatBlob(p) ==
  /\ pc[p] = "stat blob"
  /\ Goto(p, IF blob # None THEN "finalize" ELSE "stat tmp")
  /\ UNCHANGED <<fs, data, names, proc, nolinks, faults>>

\* Where a download resumes.
ResumeOffset == IF tmp = None THEN 0 ELSE Len(data[tmp])

\* A complete temporary file needs no request.
Complete(n) == n >= Size

StatTmp(p) ==
  /\ pc[p] = "stat tmp"
  /\ offset' = [offset EXCEPT ![p] = ResumeOffset]
  /\ Goto(p, IF Complete(ResumeOffset) THEN "rename" ELSE "request")
  /\ UNCHANGED <<fs, data, names, fd, src, append, nolinks, faults>>

\* 200: the whole file, into a truncated temporary file.
FullResponse(p) ==
  /\ pc[p] = "request"
  /\ \E i \in (IF tmp = None THEN Unused ELSE {tmp}) :
       /\ tmp' = i
       /\ fd' = [fd EXCEPT ![p] = i]
       /\ data' = [data EXCEPT ![i] = <<>>]
  /\ offset' = [offset EXCEPT ![p] = 0]
  /\ append' = [append EXCEPT ![p] = FALSE]
  /\ Goto(p, "body")
  /\ UNCHANGED <<fs, blob, final, src, nolinks, faults>>

\* 206: the rest of the file, appended.  The temporary file may be gone.
PartialResponse(p) ==
  /\ pc[p] = "request"
  /\ offset[p] > 0
  /\ fd' = [fd EXCEPT ![p] = tmp]
  /\ append' = [append EXCEPT ![p] = tmp # None]
  /\ Goto(p, IF tmp = None THEN "failed" ELSE "body")
  /\ UNCHANGED <<fs, data, names, offset, src, nolinks, faults>>

\* Mutant: the resumed body is written from the start of the file.
WritePositionFromStart(p) == offset[p] + 1 - (IF append[p] THEN 1 ELSE 0)

WritePosition(p) ==
  IF append[p] THEN Len(data[fd[p]]) + 1 ELSE offset[p] + 1

\* io.Copy: one chunk of the body reaches the file.
WriteBody(p) ==
  /\ pc[p] = "body"
  /\ offset[p] < Size
  /\ data' = [data EXCEPT ![fd[p]] = Written(@, WritePosition(p), offset[p] + 1)]
  /\ offset' = [offset EXCEPT ![p] = @ + 1]
  /\ UNCHANGED <<fs, names, pc, fd, src, append, nolinks, faults>>

CloseBody(p) ==
  /\ pc[p] = "body"
  /\ offset[p] >= Size
  /\ Closed(p)
  /\ Goto(p, "rename")
  /\ UNCHANGED <<fs, data, names, nolinks, faults>>

\* Mutant: a rename that fails is tried until it succeeds.
RenameRetries(p) ==
  /\ pc[p] \in {"rename", "rename again"}
  /\ tmp # None
  /\ blob' = tmp
  /\ tmp' = None
  /\ Goto(p, "finalize")
  /\ UNCHANGED <<fs, data, final, proc, nolinks, faults>>

\* replaceFile: a rename that fails although the blob exists removes the blob
\* and tries again.
Rename(p) ==
  /\ pc[p] \in {"rename", "rename again"}
  /\ \/ /\ tmp # None
        /\ blob' = tmp
        /\ tmp' = None
        /\ Goto(p, "finalize")
     \/ /\ tmp = None
        /\ Goto(p, IF pc[p] = "rename" /\ blob # None THEN "remove" ELSE "failed")
        /\ UNCHANGED <<tmp, blob>>
  /\ UNCHANGED <<fs, data, final, proc, nolinks, faults>>

RemoveBlob(p) ==
  /\ pc[p] = "remove"
  /\ blob' = None
  /\ Goto(p, IF blob = None THEN "failed" ELSE "rename again")
  /\ UNCHANGED <<fs, data, tmp, final, proc, nolinks, faults>>

-----------------------------------------------------------------------------
(* finalizeFile. *)

StatFinalized(p) ==
  /\ pc[p] = "finalize"
  /\ Goto(p, IF FinalTarget # None THEN "done"
             ELSE IF blob = None THEN "failed"
             ELSE IF nolinks[p] THEN "hardlink" ELSE "symlink")
  /\ UNCHANGED <<fs, data, names, proc, nolinks, faults>>

\* Mutant: no fallback where symbolic links do not work.
LinkSymbolicOnly(p) ==
  /\ pc[p] = "symlink"
  /\ IF fs.links = "symlink" /\ final = None
     THEN final' = Symlink /\ Goto(p, "done")
     ELSE UNCHANGED final /\ Goto(p, "failed")
  /\ UNCHANGED <<fs, data, tmp, blob, proc, nolinks, faults>>

\* os.Symlink fails where links are not supported and on an existing name.
LinkSymbolic(p) ==
  /\ pc[p] = "symlink"
  /\ IF fs.links = "symlink" /\ final = None
     THEN final' = Symlink /\ Goto(p, "done") /\ UNCHANGED nolinks
     ELSE UNCHANGED final /\ Goto(p, "hardlink") /\ nolinks' = [nolinks EXCEPT ![p] = TRUE]
  /\ UNCHANGED <<fs, data, tmp, blob, proc, faults>>

LinkHard(p) ==
  /\ pc[p] = "hardlink"
  /\ IF fs.links \in {"symlink", "hardlink"} /\ final = None /\ blob # None
     THEN final' = blob /\ Goto(p, "done")
     ELSE UNCHANGED final /\ Goto(p, "open copy")
  /\ UNCHANGED <<fs, data, tmp, blob, proc, nolinks, faults>>

\* Opens the blob, then creates or truncates what the snapshot names.
OpenCopy(p) ==
  /\ pc[p] = "open copy"
  /\ \/ /\ blob = None
        /\ Goto(p, "failed")
        /\ UNCHANGED <<data, final, fd, src, offset>>
     \/ /\ blob # None
        /\ \E i \in (IF FinalTarget = None THEN Unused ELSE {FinalTarget}) :
             /\ final' = IF final = None THEN i ELSE final
             /\ data' = [data EXCEPT ![i] = <<>>]
             /\ fd' = [fd EXCEPT ![p] = i]
        /\ src' = [src EXCEPT ![p] = blob]
        /\ offset' = [offset EXCEPT ![p] = 0]
        /\ Goto(p, "copy")
  /\ UNCHANGED <<fs, tmp, blob, append, nolinks, faults>>

CopyChunk(p) ==
  /\ pc[p] = "copy"
  /\ offset[p] < Len(data[src[p]])
  /\ data' = [data EXCEPT ![fd[p]] = Written(@, offset[p] + 1, data[src[p]][offset[p] + 1])]
  /\ offset' = [offset EXCEPT ![p] = @ + 1]
  /\ UNCHANGED <<fs, names, pc, fd, src, append, nolinks, faults>>

CopyDone(p) ==
  /\ pc[p] = "copy"
  /\ offset[p] >= Len(data[src[p]])
  /\ Closed(p)
  /\ Goto(p, "done")
  /\ UNCHANGED <<fs, data, names, nolinks, faults>>

-----------------------------------------------------------------------------
(* Faults, and the next attempt. *)

\* A copy that fails removes the snapshot's name.
CopyFails(p) == final' = None

\* The request or the body breaks off, or a copy finds the disk full.
Fails(p) ==
  /\ faults < fs.budget /\ "error" \in fs.faults
  /\ pc[p] \in {"request", "body", "copy"}
  /\ IF pc[p] = "copy" THEN CopyFails(p) ELSE UNCHANGED final
  /\ Closed(p)
  /\ Goto(p, "failed")
  /\ faults' = faults + 1
  /\ UNCHANGED <<fs, data, tmp, blob, nolinks>>

\* The process dies: its files are closed, what it wrote stays.
Crash(p) ==
  /\ faults < fs.budget /\ "crash" \in fs.faults
  /\ pc[p] \notin {"start", "failed", "done"}
  /\ Closed(p)
  /\ Goto(p, "failed")
  /\ nolinks' = [nolinks EXCEPT ![p] = FALSE]
  /\ faults' = faults + 1
  /\ UNCHANGED <<fs, data, names>>

\* The command is run again.
Again(p) ==
  /\ pc[p] \in {"failed", "done"}
  /\ Goto(p, "start")
  /\ Closed(p)
  /\ nolinks' = [nolinks EXCEPT ![p] = FALSE]
  /\ UNCHANGED <<fs, data, names, faults>>

Retry(p) == pc[p] = "failed" /\ Again(p)

Download(p) ==
  StatTmp(p) \/ FullResponse(p) \/ PartialResponse(p) \/ WriteBody(p) \/ CloseBody(p)
  \/ Rename(p) \/ RemoveBlob(p)

Finalize(p) ==
  StatFinalized(p) \/ LinkSymbolic(p) \/ LinkHard(p) \/ OpenCopy(p)
  \/ CopyChunk(p) \/ CopyDone(p)

EnsureDownloaded(p) == StatFinal(p) \/ StatBlob(p) \/ Download(p) \/ Finalize(p)

Next ==
  \E p \in fs.procs : EnsureDownloaded(p) \/ Fails(p) \/ Crash(p) \/ Again(p)

Spec == Init /\ [][Next]_vars

\* A running process goes on, and a user whose command failed runs it again.
FairSpec ==
  Spec /\ \A p \in Procs :
            /\ WF_vars(p \in fs.procs /\ EnsureDownloaded(p))
            /\ WF_vars(p \in fs.procs /\ Retry(p))

-----------------------------------------------------------------------------
(* Properties. *)

\* One process at a time; with two, each may write into the other's files.
Alone == Cardinality(fs.procs) = 1

IsPrefixOfRemote(content) ==
  Len(content) <= Size /\ \A i \in 1..Len(content) : content[i] = i

\* What a resume relies on (download.go:18): whatever broke off before, the
\* temporary file is a prefix of the remote one.
TmpIsPrefix == Alone /\ tmp # None => IsPrefixOfRemote(data[tmp])

\* A blob is in the cache under the hash of its content: it is the whole file.
BlobIntact == Alone /\ blob # None => data[blob] = Remote

\* A path that Resolve returned (download.go:214) names the whole file, also
\* after an earlier run broke off at any point.
ReturnedIntact ==
  \A p \in fs.procs : Alone /\ pc[p] = "done" => FinalTarget # None /\ data[FinalTarget] = Remote

\* Whatever breaks off when, what is in the cache is the file, or its beginning where
\* a later run looks for that.
CachedIntact == TmpIsPrefix /\ BlobIntact /\ ReturnedIntact

\* Whatever the other processes rename, remove or link under its feet, a process
\* returns a path or an error.
EveryRunEnds ==
  \A p \in Procs : (p \in fs.procs /\ pc[p] = "start") ~> pc[p] \in {"done", "failed"}

\* Every attempt makes progress: a process that is run again after each failure
\* gets the file once the faults stop.
EventuallyCached == \A p \in Procs : <>(Alone /\ p \in fs.procs => pc[p] = "done")

=============================================================================
