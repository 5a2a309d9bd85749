--------------------------- MODULE ShimCacheProofs ---------------------------
(***************************************************************************)
(* Proofs about ShimCache, for any number of processes and shims of any    *)
(* size.  The argument: a file under its final name is either of another   *)
(* length than its blob, or is the whole blob, because only MoveFileEx     *)
(* puts files there and what it moves was written to the end by the same   *)
(* process under a name nobody else uses.                                  *)
(***************************************************************************)
EXTENDS ShimCache, TLAPS

(* A file of the right length is the right file. *)
LengthTells == \A b \in Blobs : Cached(b) => final[b] = Whole(b)

(* The temporary file of a process is a prefix of its blob, and all of it  *)
(* once the write loop is left.                                            *)
TmpIsMine ==
  \A p \in Pids :
    /\ pc[p] \in {"write", "move", "recheck"} =>
         MyTmp(p) \in File /\ MyTmp(p).of = blob[p] /\ MyTmp(p).len <= Size[blob[p]]
    /\ pc[p] \in {"move", "recheck"} => MyTmp(p) = Whole(blob[p])

(* Whoever is about to load its shim, or has it loaded, finds it in place; *)
(* so does a process whose replace was refused by a competitor.            *)
InPlace ==
  \A p \in Pids :
    /\ pc[p] \in {"load", "up"} => final[blob[p]] = Whole(blob[p])
    /\ pc[p] = "recheck" => io_error[p] \/ final[blob[p]] = Whole(blob[p])

Images == \A p \in Pids : image[p] # None => pc[p] = "up" /\ image[p] = Whole(blob[p])

IInv == TypeOK /\ LengthTells /\ TmpIsMine /\ InPlace /\ Images /\ LosesNoRace
-----------------------------------------------------------------------------
(* ExtractShim never shortens, removes or damages a file in the cache. *)
LEMMA FinalStep ==
  ASSUME IInv, Next
  PROVE  \A b \in Blobs : final'[b] = final[b] \/ final'[b] = Whole(b)
<1>1. ASSUME NEW p \in Pids, Move(p)
      PROVE  \A b \in Blobs : final'[b] = final[b] \/ final'[b] = Whole(b)
  BY <1>1 DEF Move, Goto, IInv, TypeOK, TmpIsMine
<1>2. UNCHANGED final \/ \E p \in Pids : Move(p)
  BY DEF Next, Step, Start, DirectoryFails, Reuse, Miss, CreateTmp, CreateFails, Write,
         WriteFails, Written, MoveRefused, MoveFails, Recheck, LoadShim, LoadFails, Exit,
         file_vars
<1> QED BY <1>1, <1>2

LEMMA Initially == Init => IInv
<1> SUFFICES ASSUME Init PROVE IInv
  OBVIOUS
<1>1. ASSUME NEW b \in Blobs
      PROVE  /\ final[b] \in File \cup {None}
             /\ final[b] # None => final[b].len # Size[b]
  <2>1. Size[b] \in Nat
    BY ShimAssumption
  <2>2. final[b] \in {None} \cup [of : {None}, len : (0 .. Size[b] + 1) \ {Size[b]}]
    BY DEF Init, Leftover
  <2> QED BY <2>1, <2>2 DEF File
<1>2. TypeOK
  BY <1>1 DEF Init, TypeOK, Points
<1>3. LengthTells
  BY <1>1 DEF LengthTells, Cached
<1>4. TmpIsMine /\ InPlace /\ Images /\ LosesNoRace
  BY DEF Init, TmpIsMine, InPlace, Images, LosesNoRace
<1> QED BY <1>2, <1>3, <1>4 DEF IInv

(* What a step of process p does to the files under the temporary names:   *)
(* it leaves those of the others alone, and grows, empties or deletes its  *)
(* own.                                                                    *)
LEMMA TmpStep ==
  ASSUME IInv, Next
  PROVE  /\ tmp' \in [Blobs -> [Pids -> File \cup {None}]]
         /\ \A b \in Blobs, p \in Pids : tmp'[b][p] # None => tmp'[b][p].len <= Size[b]
<1>1. ASSUME NEW p \in Pids, NEW f \in File \cup {None}, SetTmp(p, f),
             f # None => f.len <= Size[blob[p]]
      PROVE  /\ tmp' \in [Blobs -> [Pids -> File \cup {None}]]
             /\ \A b \in Blobs, q \in Pids : tmp'[b][q] # None => tmp'[b][q].len <= Size[b]
  BY <1>1 DEF IInv, TypeOK, SetTmp
<1>2. ASSUME NEW p \in Pids, SetTmp(p, None)
      PROVE  /\ tmp' \in [Blobs -> [Pids -> File \cup {None}]]
             /\ \A b \in Blobs, q \in Pids : tmp'[b][q] # None => tmp'[b][q].len <= Size[b]
  BY <1>1, <1>2
<1>3. ASSUME NEW p \in Pids, CreateTmp(p)
      PROVE  /\ tmp' \in [Blobs -> [Pids -> File \cup {None}]]
             /\ \A b \in Blobs, q \in Pids : tmp'[b][q] # None => tmp'[b][q].len <= Size[b]
  <2>1. blob[p] \in Blobs /\ Size[blob[p]] \in Nat
    BY ShimAssumption DEF IInv, TypeOK
  <2>2. Empty(blob[p]) \in File /\ Empty(blob[p]).len <= Size[blob[p]]
    BY <2>1 DEF Empty, File
  <2> QED BY <1>1, <1>3, <2>2 DEF CreateTmp
<1>4. ASSUME NEW p \in Pids, Write(p)
      PROVE  /\ tmp' \in [Blobs -> [Pids -> File \cup {None}]]
             /\ \A b \in Blobs, q \in Pids : tmp'[b][q] # None => tmp'[b][q].len <= Size[b]
  <2>1. blob[p] \in Blobs /\ Size[blob[p]] \in Nat
    BY ShimAssumption DEF IInv, TypeOK
  <2>2. MyTmp(p) \in File
    BY <1>4 DEF Write, Goto, IInv, TmpIsMine
  <2>3. PICK n \in 1 .. Size[blob[p]] - MyTmp(p).len :
          SetTmp(p, [of |-> blob[p], len |-> MyTmp(p).len + n])
    BY <1>4 DEF Write
  <2>4. /\ [of |-> blob[p], len |-> MyTmp(p).len + n] \in File
        /\ [of |-> blob[p], len |-> MyTmp(p).len + n].len <= Size[blob[p]]
    BY <2>1, <2>2, <2>3 DEF File
  <2> QED BY <1>1, <2>3, <2>4
<1>5. \/ UNCHANGED tmp
      \/ \E p \in Pids : CreateTmp(p) \/ Write(p) \/ SetTmp(p, None)
  BY DEF Next, Step, Start, DirectoryFails, Reuse, Miss, CreateFails, WriteFails, Written,
         Move, MoveRefused, MoveFails, Recheck, LoadShim, LoadFails, Exit, file_vars
<1> QED BY <1>2, <1>3, <1>4, <1>5 DEF IInv, TypeOK

LEMMA TypeStep == ASSUME IInv, Next PROVE TypeOK'
<1>1. \A b \in Blobs : Whole(b) \in File
  BY ShimAssumption DEF Whole, File
<1>2. final' \in [Blobs -> File \cup {None}]
  <2>1. DOMAIN final' = Blobs /\ final' = [b \in Blobs |-> final'[b]]
    BY DEF Next, Step, Start, DirectoryFails, Reuse, Miss, CreateTmp, CreateFails, Write,
           WriteFails, Written, Move, MoveRefused, MoveFails, Recheck, LoadShim, LoadFails,
           Exit, file_vars, IInv, TypeOK
  <2>2. \A b \in Blobs : final'[b] \in File \cup {None}
    BY <1>1, FinalStep DEF IInv, TypeOK
  <2> QED BY <2>1, <2>2
<1>3. pc' \in [Pids -> Points]
  <2>1. \E p \in Pids, to \in Points : pc' = [pc EXCEPT ![p] = to]
    BY DEF Next, Step, Start, DirectoryFails, Reuse, Miss, CreateTmp, CreateFails, Write,
           WriteFails, Written, Move, MoveRefused, MoveFails, Recheck, LoadShim, LoadFails,
           Exit, Goto, Points
  <2> QED BY <2>1 DEF IInv, TypeOK
<1>6. blob' \in [Pids -> Blobs]
  BY DEF Next, Step, Start, DirectoryFails, Reuse, Miss, CreateTmp, CreateFails, Write,
         WriteFails, Written, Move, MoveRefused, MoveFails, Recheck, LoadShim, LoadFails,
         Exit, IInv, TypeOK
<1>4. image' \in [Pids -> File \cup {None}]
  BY DEF Next, Step, Start, DirectoryFails, Reuse, Miss, CreateTmp, CreateFails, Write,
         WriteFails, Written, Move, MoveRefused, MoveFails, Recheck, LoadShim, LoadFails,
         Exit, IInv, TypeOK
<1>5. io_error' \in [Pids -> BOOLEAN]
  <2>1. \/ UNCHANGED io_error
        \/ \E p \in Pids : \/ io_error' = [io_error EXCEPT ![p] = TRUE]
                          \/ io_error' = [io_error EXCEPT ![p] = FALSE]
    BY DEF Next, Step, Start, DirectoryFails, Reuse, Miss, CreateTmp, CreateFails, Write,
           WriteFails, Written, Move, MoveRefused, MoveFails, Recheck, LoadShim, LoadFails,
           Exit
  <2> QED BY <2>1 DEF IInv, TypeOK
<1> QED BY <1>2, <1>3, <1>4, <1>5, <1>6, TmpStep DEF TypeOK

(* A step of process p leaves the control state and the temporary files of *)
(* every other process alone.                                              *)
Apart(p) ==
  \A q \in Pids \ {p} :
    /\ pc'[q] = pc[q] /\ blob'[q] = blob[q] /\ image'[q] = image[q]
    /\ io_error'[q] = io_error[q] /\ \A b \in Blobs : tmp'[b][q] = tmp[b][q]

LEMMA Locality ==
  ASSUME IInv, NEW p \in Pids, Step(p) \/ Exit(p) \/ \E b \in Blobs : Start(p, b)
  PROVE  Apart(p)
<1>1. /\ pc' = [pc EXCEPT ![p] = pc'[p]] /\ blob' = [blob EXCEPT ![p] = blob'[p]]
      /\ image' = [image EXCEPT ![p] = image'[p]]
  BY DEF Step, Start, DirectoryFails, Reuse, Miss, CreateTmp, CreateFails, Write, WriteFails,
         Written, Move, MoveRefused, MoveFails, Recheck, LoadShim, LoadFails, Exit, Goto,
         IInv, TypeOK
<1>2. \/ UNCHANGED io_error
      \/ io_error' = [io_error EXCEPT ![p] = TRUE] \/ io_error' = [io_error EXCEPT ![p] = FALSE]
  BY DEF Step, Start, DirectoryFails, Reuse, Miss, CreateTmp, CreateFails, Write, WriteFails,
         Written, Move, MoveRefused, MoveFails, Recheck, LoadShim, LoadFails, Exit
<1>3. UNCHANGED tmp \/ \E f : SetTmp(p, f)
  BY DEF Step, Start, DirectoryFails, Reuse, Miss, CreateTmp, CreateFails, Write, WriteFails,
         Written, Move, MoveRefused, MoveFails, Recheck, LoadShim, LoadFails, Exit, file_vars
<1>4. \A q \in Pids \ {p}, b \in Blobs : tmp'[b][q] = tmp[b][q]
  BY <1>3 DEF SetTmp, IInv, TypeOK
<1>5. \A q \in Pids \ {p} : io_error'[q] = io_error[q]
  BY <1>2 DEF IInv, TypeOK
<1> QED BY <1>1, <1>4, <1>5 DEF Apart, IInv, TypeOK

(* Hence the invariant of every other process survives the step, since     *)
(* files in the cache do.                                                  *)
LEMMA OthersKeep ==
  ASSUME IInv, Next, NEW p \in Pids, Apart(p), NEW q \in Pids \ {p}
  PROVE  /\ pc'[q] \in {"write", "move", "recheck"} =>
              /\ MyTmp(q)' \in File /\ MyTmp(q)'.of = blob'[q]
              /\ MyTmp(q)'.len <= Size[blob'[q]]
         /\ pc'[q] \in {"move", "recheck"} => MyTmp(q)' = Whole(blob'[q])
         /\ pc'[q] \in {"load", "up"} => final'[blob'[q]] = Whole(blob'[q])
         /\ pc'[q] = "recheck" => io_error'[q] \/ final'[blob'[q]] = Whole(blob'[q])
         /\ image'[q] # None => pc'[q] = "up" /\ image'[q] = Whole(blob'[q])
         /\ pc'[q] = "failed" => io_error'[q]
<1>1. /\ pc'[q] = pc[q] /\ blob'[q] = blob[q] /\ image'[q] = image[q]
      /\ io_error'[q] = io_error[q] /\ blob[q] \in Blobs
  BY DEF Apart, IInv, TypeOK
<1>2. MyTmp(q)' = MyTmp(q)
  BY <1>1 DEF Apart, MyTmp
<1>3. final[blob[q]] = Whole(blob[q]) => final'[blob[q]] = Whole(blob[q])
  BY <1>1, FinalStep
<1>4. /\ pc[q] \in {"write", "move", "recheck"} =>
           MyTmp(q) \in File /\ MyTmp(q).of = blob[q] /\ MyTmp(q).len <= Size[blob[q]]
      /\ pc[q] \in {"move", "recheck"} => MyTmp(q) = Whole(blob[q])
  BY DEF IInv, TmpIsMine
<1>5. /\ pc[q] \in {"load", "up"} => final[blob[q]] = Whole(blob[q])
      /\ pc[q] = "recheck" => io_error[q] \/ final[blob[q]] = Whole(blob[q])
  BY DEF IInv, InPlace
<1>6. /\ image[q] # None => pc[q] = "up" /\ image[q] = Whole(blob[q])
      /\ pc[q] = "failed" => io_error[q]
  BY DEF IInv, Images, LosesNoRace
<1> QED BY <1>1, <1>2, <1>3, <1>4, <1>5, <1>6

(* The moving process, action by action. *)
LEMMA MoverKeeps ==
  ASSUME IInv, NEW p \in Pids, Step(p) \/ Exit(p) \/ \E b \in Blobs : Start(p, b)
  PROVE  /\ pc'[p] \in {"write", "move", "recheck"} =>
              /\ MyTmp(p)' \in File /\ MyTmp(p)'.of = blob'[p]
              /\ MyTmp(p)'.len <= Size[blob'[p]]
         /\ pc'[p] \in {"move", "recheck"} => MyTmp(p)' = Whole(blob'[p])
         /\ pc'[p] \in {"load", "up"} => final'[blob'[p]] = Whole(blob'[p])
         /\ pc'[p] = "recheck" => io_error'[p] \/ final'[blob'[p]] = Whole(blob'[p])
         /\ image'[p] # None => pc'[p] = "up" /\ image'[p] = Whole(blob'[p])
         /\ pc'[p] = "failed" => io_error'[p]
<1> DEFINE Mine ==
         /\ pc[p] \in {"write", "move", "recheck"} =>
              MyTmp(p) \in File /\ MyTmp(p).of = blob[p] /\ MyTmp(p).len <= Size[blob[p]]
         /\ pc[p] \in {"move", "recheck"} => MyTmp(p) = Whole(blob[p])
         /\ pc[p] \in {"load", "up"} => final[blob[p]] = Whole(blob[p])
         /\ pc[p] = "recheck" => io_error[p] \/ final[blob[p]] = Whole(blob[p])
         /\ image[p] # None => pc[p] = "up" /\ image[p] = Whole(blob[p])
         /\ pc[p] = "failed" => io_error[p]
<1>1. Mine
  BY DEF IInv, TmpIsMine, InPlace, Images, LosesNoRace
<1>2. blob[p] \in Blobs /\ Size[blob[p]] \in Nat
  BY ShimAssumption DEF IInv, TypeOK
<1>3. Cached(blob[p]) => final[blob[p]] = Whole(blob[p])
  BY <1>2 DEF IInv, LengthTells
<1>4. CASE \/ DirectoryFails(p) \/ Reuse(p) \/ Miss(p) \/ CreateFails(p) \/ WriteFails(p)
           \/ LoadShim(p) \/ LoadFails(p) \/ Exit(p) \/ \E b \in Blobs : Start(p, b)
  <2>1. pc'[p] \notin {"write", "move", "recheck"} /\ final' = final
    BY <1>4 DEF DirectoryFails, Reuse, Miss, CreateFails, WriteFails, LoadShim, LoadFails, Exit,
                Start, Goto, file_vars, IInv, TypeOK
  <2>2. image'[p] # None => pc'[p] = "up" /\ image'[p] = Whole(blob'[p])
    BY <1>1, <1>4 DEF DirectoryFails, Reuse, Miss, CreateFails, WriteFails, LoadShim, LoadFails,
                      Exit, Start, Goto, IInv, TypeOK
  <2>3. pc'[p] \in {"load", "up"} => final'[blob'[p]] = Whole(blob'[p])
    BY <1>1, <1>3, <1>4, <2>1
    DEF DirectoryFails, Reuse, Miss, CreateFails, WriteFails, LoadShim, LoadFails, Exit,
        Start, Goto, IInv, TypeOK
  <2>4. pc'[p] = "failed" => io_error'[p]
    BY <1>4 DEF DirectoryFails, Reuse, Miss, CreateFails, WriteFails, LoadShim, LoadFails, Exit,
                Start, Goto, IInv, TypeOK
  <2> QED BY <2>1, <2>2, <2>3, <2>4
<1>5. CASE CreateTmp(p)
  <2>1. pc'[p] = "write" /\ blob' = blob /\ image' = image /\ image[p] = None
    BY <1>1, <1>5 DEF CreateTmp, Goto, IInv, TypeOK
  <2>2. tmp'[blob[p]][p] = Empty(blob[p])
    BY <1>2, <1>5 DEF CreateTmp, SetTmp, IInv, TypeOK
  <2>3. Empty(blob[p]) \in File /\ Empty(blob[p]).of = blob[p] /\ Empty(blob[p]).len <= Size[blob[p]]
    BY <1>2 DEF Empty, File
  <2> QED BY <2>1, <2>2, <2>3 DEF MyTmp
<1>6. CASE Write(p)
  <2>1. pc'[p] = "write" /\ blob' = blob /\ image' = image /\ image[p] = None
    BY <1>1, <1>6 DEF Write, Goto, IInv, TypeOK
  <2>2. MyTmp(p) \in File
    BY <1>1, <1>6 DEF Write, Goto
  <2>3. PICK n \in 1 .. Size[blob[p]] - MyTmp(p).len :
          SetTmp(p, [of |-> blob[p], len |-> MyTmp(p).len + n])
    BY <1>6 DEF Write
  <2>4. tmp'[blob[p]][p] = [of |-> blob[p], len |-> MyTmp(p).len + n]
    BY <1>2, <2>3 DEF SetTmp, IInv, TypeOK
  <2>5. MyTmp(p)' = [of |-> blob[p], len |-> MyTmp(p).len + n]
    BY <2>1, <2>4 DEF MyTmp
  <2>6. MyTmp(p)' \in File /\ MyTmp(p)'.of = blob[p] /\ MyTmp(p)'.len <= Size[blob[p]]
    BY <1>2, <2>2, <2>3, <2>5 DEF File
  <2> QED BY <2>1, <2>6
<1>7. CASE Written(p)
  <2>1. pc'[p] = "move" /\ UNCHANGED <<blob, image, tmp>> /\ image[p] = None
    BY <1>1, <1>7 DEF Written, Goto, file_vars, IInv, TypeOK
  <2>2. MyTmp(p) \in File /\ MyTmp(p).of = blob[p] /\ MyTmp(p).len = Size[blob[p]]
    BY <1>1, <1>2, <1>7 DEF Written, Goto, File
  <2>3. MyTmp(p) = Whole(blob[p])
    BY <2>2 DEF Whole, File
  <2> QED BY <1>2, <2>1, <2>2, <2>3 DEF MyTmp
<1>8. CASE Move(p)
  <2>1. pc'[p] = "load" /\ blob' = blob /\ image' = image /\ image[p] = None
    BY <1>1, <1>8 DEF Move, Goto, IInv, TypeOK
  <2>2. final'[blob[p]] = Whole(blob[p])
    BY <1>1, <1>2, <1>8 DEF Move, Goto, IInv, TypeOK
  <2> QED BY <2>1, <2>2
<1>9. CASE MoveRefused(p)
  <2>1. pc'[p] = "recheck" /\ UNCHANGED <<file_vars, blob, image>> /\ image[p] = None
    BY <1>1, <1>9 DEF MoveRefused, Goto, IInv, TypeOK
  <2>2. final[blob[p]] = Whole(blob[p])
    BY <1>9 DEF MoveRefused, Mapped, IInv, InPlace
  <2>3. MyTmp(p)' = MyTmp(p) /\ pc[p] = "move"
    BY <1>9, <2>1 DEF MyTmp, file_vars, MoveRefused, Goto
  <2> QED BY <1>1, <2>1, <2>2, <2>3 DEF file_vars
<1>10. CASE MoveFails(p)
  <2>1. pc'[p] = "recheck" /\ UNCHANGED <<file_vars, blob, image>> /\ image[p] = None
    BY <1>1, <1>10 DEF MoveFails, Goto, IInv, TypeOK
  <2>2. io_error'[p]
    BY <1>10 DEF MoveFails, IInv, TypeOK
  <2>3. MyTmp(p)' = MyTmp(p) /\ pc[p] = "move"
    BY <1>10, <2>1 DEF MyTmp, file_vars, MoveFails, Goto
  <2> QED BY <1>1, <2>1, <2>2, <2>3 DEF file_vars
<1>11. CASE Recheck(p)
  <2>1. /\ pc[p] = "recheck" /\ pc'[p] = IF Cached(blob[p]) THEN "load" ELSE "failed"
        /\ UNCHANGED <<final, blob, image, io_error>> /\ image[p] = None
    BY <1>1, <1>11 DEF Recheck, Goto, IInv, TypeOK
  <2>2. final[blob[p]] = Whole(blob[p]) => Cached(blob[p])
    BY <1>2, ShimAssumption DEF Cached, Whole, IInv, TypeOK, File
  <2> QED BY <1>1, <1>3, <2>1, <2>2
<1> QED BY <1>4, <1>5, <1>6, <1>7, <1>8, <1>9, <1>10, <1>11 DEF Step

LEMMA LengthStep == ASSUME IInv, Next PROVE LengthTells'
<1> SUFFICES ASSUME NEW b \in Blobs, Cached(b)' PROVE final'[b] = Whole(b)
  BY DEF LengthTells, Whole
<1>1. final'[b] = final[b] \/ final'[b] = Whole(b)
  BY FinalStep
<1>2. CASE final'[b] = final[b]
  BY <1>2 DEF Cached, IInv, LengthTells
<1> QED BY <1>1, <1>2

LEMMA Inductive == IInv /\ [Next]_vars => IInv'
<1> SUFFICES ASSUME IInv, [Next]_vars PROVE IInv'
  OBVIOUS
<1>1. CASE UNCHANGED vars
  BY <1>1 DEF vars, IInv, TypeOK, LengthTells, Cached, TmpIsMine, MyTmp, InPlace, Images,
              LosesNoRace
<1>2. CASE Next
  <2>1. PICK p \in Pids : Step(p) \/ Exit(p) \/ \E b \in Blobs : Start(p, b)
    BY <1>2 DEF Next
  <2>2. Apart(p)
    BY <2>1, Locality
  <2>3. (TmpIsMine /\ InPlace /\ Images /\ LosesNoRace)'
    BY <1>2, <2>1, <2>2, MoverKeeps, OthersKeep DEF TmpIsMine, InPlace, Images, LosesNoRace
  <2> QED BY <1>2, <2>3, TypeStep, LengthStep DEF IInv
<1> QED BY <1>1, <1>2

LEMMA Always == Spec => []IInv
  BY Initially, Inductive, PTL DEF Spec
-----------------------------------------------------------------------------
(* Every variable keeps its type and no temporary file outgrows its blob.  *)
THEOREM TypeCorrect == Spec => []TypeOK
<1>1. IInv => TypeOK
  BY DEF IInv
<1> QED BY <1>1, Always, PTL

(* ExtractShim and LoadShim: a process maps the whole of its own shim,     *)
(* whatever the others write, replace or leave behind.                     *)
THEOREM WholeShims == Spec => []LoadsWholeShim
<1>1. IInv => LoadsWholeShim
  BY DEF IInv, Images, LoadsWholeShim
<1> QED BY <1>1, Always, PTL

(* The check of the destination after a failed MoveFileEx: an extraction   *)
(* fails only through a system call of its own, never by losing a race.    *)
THEOREM NoRaceLost == Spec => []LosesNoRace
<1>1. IInv => LosesNoRace
  BY DEF IInv
<1> QED BY <1>1, Always, PTL

(* MoveFileEx is the only way into the cache, so a shim that is there is   *)
(* never again missing or incomplete.                                      *)
THEOREM ShimsStay == Spec => CacheKeepsShim
<1>1. IInv /\ [Next]_vars => [\A b \in Blobs : final[b] = Whole(b) => final'[b] = Whole(b)]_vars
  BY FinalStep DEF vars
<1> QED BY <1>1, Always, PTL DEF Spec, CacheKeepsShim
=============================================================================
