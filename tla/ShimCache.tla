------------------------------ MODULE ShimCache ------------------------------
(***************************************************************************)
(* The cache of extracted mesh shims on Windows: ExtractShim() and         *)
(* LoadShim() of mesh_loader.cpp, run by several processes of one user at  *)
(* once.  A loaded DLL cannot be deleted there, so the extracted file is   *)
(* kept under a directory named after the hash of its contents and shared  *)
(* by every process and every later session.                               *)
(*                                                                         *)
(* Within a process MeshLoader::mutex_ admits one extraction at a time     *)
(* (MeshNode); between processes there is only the file system.  Processes *)
(* crash at any moment, and their process ids are used again.              *)
(***************************************************************************)
EXTENDS Naturals

CONSTANTS
  Pids,               \* process ids
  Blobs,              \* embedded shims: Tailscale's and NetBird's, of several releases
  Size,               \* Size[b]: length of blob b, in units of what one WriteFile may write
  None

ASSUME ShimAssumption ==
  /\ Size \in [Blobs -> Nat \ {0}]
  /\ None \notin Blobs /\ \A b \in Blobs : None # [of |-> b, len |-> Size[b]]

VARIABLES
  final,              \* final[b]: the file at final_path of blob b, or None
  tmp,                \* tmp[b][p]: the file final_path.tmp.<p>, or None
  pc,                 \* where process p is; "none" while no process has that id
  blob,               \* blob[p]: the shim process p wants
  image,              \* image[p]: the file contents process p has mapped, or None
  io_error            \* a system call of process p's extraction failed on its own account

file_vars == <<final, tmp>>
vars == <<final, tmp, pc, blob, image, io_error>>

Points == {"none", "check", "open", "write", "move", "recheck", "load", "up", "failed"}

(* A file holds the first len units of a blob, or damage of that length.   *)
File == [of : Blobs \cup {None}, len : Nat]
Whole(b) == [of |-> b, len |-> Size[b]]
Empty(b) == [of |-> b, len |-> 0]

TypeOK ==
  /\ final \in [Blobs -> File \cup {None}]
  /\ tmp \in [Blobs -> [Pids -> File \cup {None}]]
  /\ pc \in [Pids -> Points]
  /\ blob \in [Pids -> Blobs]
  /\ image \in [Pids -> File \cup {None}]
  /\ io_error \in [Pids -> BOOLEAN]
  /\ \A b \in Blobs, p \in Pids : tmp[b][p] # None => tmp[b][p].len <= Size[b]

(* What an earlier session may leave: nothing, or a file damaged by a full *)
(* disk or a power loss, up to one unit too long.  Damage that keeps the   *)
(* length is out of the reach of a check of the length.                    *)
Leftover(b) ==
  {None} \cup [of : {None}, len : (0 .. Size[b] + 1) \ {Size[b]}]

Init ==
  /\ final \in [Blobs -> UNION {Leftover(b) : b \in Blobs}]
  /\ \A b \in Blobs : final[b] \in Leftover(b)
  /\ tmp = [b \in Blobs |-> [p \in Pids |-> None]]
  /\ pc = [p \in Pids |-> "none"]
  /\ blob \in [Pids -> Blobs]
  /\ image = [p \in Pids |-> None]
  /\ io_error = [p \in Pids |-> FALSE]
-----------------------------------------------------------------------------
Goto(p, from, to) == pc[p] = from /\ pc' = [pc EXCEPT ![p] = to]

MyTmp(p) == tmp[blob[p]][p]
SetTmp(p, f) == tmp' = [tmp EXCEPT ![blob[p]][p] = f]

(* Mutant: any file under the name will do. *)
CachedAnySize(b) == final[b] # None

(* GetFileAttributesEx finds the file with the length of the blob. *)
Cached(b) == final[b] # None /\ final[b].len = Size[b]

(* Some process has the DLL mapped: Windows does not let it be replaced.   *)
Mapped(b) == \E p \in Pids : pc[p] = "up" /\ blob[p] = b
-----------------------------------------------------------------------------
(* A process activates the mesh of blob b for the first time: it computes  *)
(* the hash and creates the directories.                                   *)
Start(p, b) ==
  /\ Goto(p, "none", "check")
  /\ blob' = [blob EXCEPT ![p] = b]
  /\ UNCHANGED <<file_vars, image, io_error>>

DirectoryFails(p) ==
  /\ Goto(p, "check", "failed") /\ io_error' = [io_error EXCEPT ![p] = TRUE]
  /\ UNCHANGED <<file_vars, blob, image>>

Reuse(p) ==
  /\ Goto(p, "check", "load") /\ Cached(blob[p])
  /\ UNCHANGED <<file_vars, blob, image, io_error>>

Miss(p) ==
  /\ Goto(p, "check", "open") /\ ~Cached(blob[p])
  /\ UNCHANGED <<file_vars, blob, image, io_error>>

(* Mutant: the blob is written straight to its final place. *)
CreateFinal(p) ==
  /\ Goto(p, "open", "write")
  /\ final' = [final EXCEPT ![blob[p]] = Empty(blob[p])] /\ SetTmp(p, Empty(blob[p]))
  /\ UNCHANGED <<blob, image, io_error>>

(* CREATE_ALWAYS: what an earlier process of this id left is truncated.    *)
CreateTmp(p) ==
  /\ Goto(p, "open", "write") /\ SetTmp(p, Empty(blob[p]))
  /\ UNCHANGED <<final, blob, image, io_error>>

CreateFails(p) ==
  /\ Goto(p, "open", "failed") /\ io_error' = [io_error EXCEPT ![p] = TRUE]
  /\ UNCHANGED <<file_vars, blob, image>>

(* One WriteFile of at most a chunk, which may write less than asked.      *)
Write(p) ==
  /\ Goto(p, "write", "write") /\ MyTmp(p).len < Size[blob[p]]
  /\ \E n \in 1 .. Size[blob[p]] - MyTmp(p).len :
       SetTmp(p, [of |-> blob[p], len |-> MyTmp(p).len + n])
  /\ UNCHANGED <<final, blob, image, io_error>>

WriteFails(p) ==
  /\ Goto(p, "write", "failed") /\ MyTmp(p).len < Size[blob[p]]
  /\ SetTmp(p, None) /\ io_error' = [io_error EXCEPT ![p] = TRUE]
  /\ UNCHANGED <<final, blob, image>>

(* Everything is written, flushed and closed. *)
Written(p) ==
  /\ Goto(p, "write", "move") /\ MyTmp(p).len >= Size[blob[p]]
  /\ UNCHANGED <<file_vars, blob, image, io_error>>
-----------------------------------------------------------------------------
(* MoveFileEx with MOVEFILE_REPLACE_EXISTING *)
Move(p) ==
  /\ Goto(p, "move", "load") /\ ~Mapped(blob[p])
  /\ final' = [final EXCEPT ![blob[p]] = MyTmp(p)] /\ SetTmp(p, None)
  /\ UNCHANGED <<blob, image, io_error>>

(* Another process has won the race and has the file mapped. *)
MoveRefused(p) ==
  /\ Goto(p, "move", "recheck") /\ Mapped(blob[p])
  /\ UNCHANGED <<file_vars, blob, image, io_error>>

(* Or something else is wrong with the directory. *)
MoveFails(p) ==
  /\ Goto(p, "move", "recheck") /\ io_error' = [io_error EXCEPT ![p] = TRUE]
  /\ UNCHANGED <<file_vars, blob, image>>

(* Mutant: a replace that failed is an error. *)
RecheckGivesUp(p) ==
  /\ Goto(p, "recheck", "failed") /\ SetTmp(p, None)
  /\ UNCHANGED <<final, blob, image, io_error>>

(* Mutant: the extraction starts over until a replace succeeds. *)
RecheckRetries(p) ==
  /\ Goto(p, "recheck", IF Cached(blob[p]) THEN "load" ELSE "open") /\ SetTmp(p, None)
  /\ UNCHANGED <<final, blob, image, io_error>>

(* The destination may be right all the same. *)
Recheck(p) ==
  /\ Goto(p, "recheck", IF Cached(blob[p]) THEN "load" ELSE "failed") /\ SetTmp(p, None)
  /\ UNCHANGED <<final, blob, image, io_error>>

(* LoadLibraryEx maps whatever is in the file now. *)
LoadShim(p) ==
  /\ Goto(p, "load", "up") /\ image' = [image EXCEPT ![p] = final[blob[p]]]
  /\ UNCHANGED <<file_vars, blob, io_error>>

LoadFails(p) ==
  /\ Goto(p, "load", "failed") /\ io_error' = [io_error EXCEPT ![p] = TRUE]
  /\ UNCHANGED <<file_vars, blob, image>>

(* The process ends or crashes; its files stay as they are. *)
Exit(p) ==
  /\ pc[p] # "none" /\ pc' = [pc EXCEPT ![p] = "none"]
  /\ image' = [image EXCEPT ![p] = None] /\ io_error' = [io_error EXCEPT ![p] = FALSE]
  /\ UNCHANGED <<file_vars, blob>>
-----------------------------------------------------------------------------
Step(p) ==
  \/ DirectoryFails(p) \/ Reuse(p) \/ Miss(p) \/ CreateTmp(p) \/ CreateFails(p)
  \/ Write(p) \/ WriteFails(p) \/ Written(p)
  \/ Move(p) \/ MoveRefused(p) \/ MoveFails(p) \/ Recheck(p)
  \/ LoadShim(p) \/ LoadFails(p)

Next ==
  \E p \in Pids : \/ Step(p) \/ Exit(p)
                  \/ \E b \in Blobs : Start(p, b)

Spec == Init /\ [][Next]_vars

(* A process is scheduled and its system calls return. *)
FairSpec == Spec /\ \A p \in Pids : WF_vars(Step(p))
-----------------------------------------------------------------------------
(* Properties. *)

(* Whatever other processes, of this or another release, write, replace or *)
(* leave behind half written, a process maps the whole of its own shim.    *)
LoadsWholeShim ==
  \A p \in Pids : image[p] # None => image[p] = Whole(blob[p])

(* Losing a race against another process is never an error: an extraction  *)
(* fails only because a system call of its own did.                        *)
LosesNoRace == \A p \in Pids : pc[p] = "failed" => io_error[p]

(* A shim that is in the cache is never again missing or incomplete, which *)
(* is what a process between its check of the length and its load counts on. *)
CacheKeepsShim ==
  [][\A b \in Blobs : final[b] = Whole(b) => final'[b] = Whole(b)]_vars

(* An extraction comes to an end, whatever its competitors do. *)
ExtractEnds ==
  \A p \in Pids : pc[p] = "check" ~> pc[p] \in {"up", "failed", "none"}
=============================================================================
