-------------------------- MODULE BundleStoreProofs --------------------------
(***************************************************************************)
(* Proofs about BundleStore, for any processes, bundles and image sizes.   *)
(*                                                                         *)
(* What a process holds while it is between two file operations is what    *)
(* the invariants of the module need: ProcOK says it for one process,      *)
(* FileOK that the pieces of the file were offered by somebody, DirOK how  *)
(* the directory looks at each step of a save nobody disturbs.             *)
(***************************************************************************)
EXTENDS BundleStore, TLAPS

Found(x) == x \in begun \/ x = NoForm

ProcOK(p) ==
  /\ pc[p] \in {"open", "write"} => bundle[p] \in begun
  /\ pc[p] = "write" => Len(buf[p]) < Pieces[bundle[p][2]]
  /\ pc[p] = "read" =>
       /\ buf[p] = <<>> \/ (buf[p][1] \in Bundles
                             /\ Len(buf[p]) < Pieces[buf[p][1][2]])
       /\ \A i \in 1..Len(buf[p]) : Found(buf[p][i])
  /\ pc[p] \in {"read", "readdata", "readplan"} =>
       node[p] = NoForm /\ bundle[p] = NoForm
  /\ pc[p] = "readplan" => part[p] \in Versions
  /\ pc[p] = "remove" => node[p] \in Bundles \union {Errors}
  /\ pc[p] \in {"data", "plan"} => node[p] \in Bundles
  /\ bundle[p] # NoForm => node[p] \in {NoForm, bundle[p]}

TypeInv ==
  /\ file \in [1..MaxPieces -> Bundles \union {NoForm}]
  /\ dir \in [{"data", "plan"} -> Versions \union {None, Partial}]
  /\ pc \in [Procs -> PCs]
  /\ node \in [Procs -> Forms]
  /\ bundle \in [Procs -> Bundles \union {NoForm}]
  /\ got \in [Procs -> Bundles \union {NoForm}]
  /\ begun \subseteq Bundles
  /\ buf \in [Procs -> Seq(Bundles \union {NoForm})]
  /\ DOMAIN part = Procs /\ DOMAIN reply = Procs /\ DOMAIN answer = Procs

FileOK == \A i \in 1..MaxPieces : Found(file[i])

IInv == TypeInv /\ FileOK /\ \A p \in Procs : ProcOK(p)

(***************************************************************************)
(* The entries that say what is not there differ from every bundle.        *)
(***************************************************************************)
LEMMA NoBundle == NoForm \notin Bundles /\ Errors \notin Bundles /\ NoForm # Errors
BY StoreAssumption DEF Bundles, NoForm, Errors, None, Partial

LEMMA PieceCount == \A x \in Bundles : Pieces[x[2]] \in 1..MaxPieces
BY StoreAssumption DEF Bundles

LEMMA InitInv == Init => IInv
<1> SUFFICES ASSUME Init PROVE IInv OBVIOUS
<1>1. TypeInv
  BY StoreAssumption DEF Init, TypeInv, NoFile, NoDir, Forms, PCs, None
<1>2. FileOK
  BY DEF Init, FileOK, Found, NoFile
<1>3. \A p \in Procs : ProcOK(p)
  BY DEF Init, ProcOK
<1> QED BY <1>1, <1>2, <1>3 DEF IInv

(***************************************************************************)
(* A process whose own entries do not change keeps what holds of it, as    *)
(* long as no offer is taken back.                                         *)
(***************************************************************************)
Same(q) == /\ pc'[q] = pc[q] /\ node'[q] = node[q] /\ bundle'[q] = bundle[q]
           /\ buf'[q] = buf[q] /\ part'[q] = part[q]

LEMMA OthersKept ==
  ASSUME NEW q \in Procs, ProcOK(q), Same(q), begun \subseteq begun'
  PROVE  ProcOK(q)'
BY DEF ProcOK, Same, Found

LEMMA FileKept ==
  ASSUME FileOK, file' = file \/ file' = NoFile, begun \subseteq begun'
  PROVE  FileOK'
BY DEF FileOK, Found, NoFile

LEMMA LoweredOK ==
  ASSUME TypeInv, NEW p \in Procs, ProcOK(p), Lowerable(p)
  PROVE  /\ Lowered(p) \in Bundles
         /\ node[p] \in {NoForm, Lowered(p)}
BY NoBundle DEF TypeInv, ProcOK, Lowerable, Lowered, Forms

(***************************************************************************)
(* One lemma for each action that does more than return.                   *)
(***************************************************************************)
LEMMA BuildStep ==
  ASSUME IInv, NEW p \in Procs, Build(p) PROVE IInv'
<1> USE DEF Build, Called, SetHandle, Return, disk
<1>1. TypeInv'
  BY DEF IInv, TypeInv, Forms, Bundles
<1>2. FileOK'
  BY FileKept DEF IInv
<1>3. ASSUME NEW q \in Procs, q # p PROVE ProcOK(q)'
  BY <1>3, OthersKept DEF IInv, TypeInv, Same
<1>4. ProcOK(p)'
  BY DEF IInv, TypeInv, ProcOK
<1> QED BY <1>1, <1>2, <1>3, <1>4 DEF IInv

LEMMA QueryStep ==
  ASSUME IInv, NEW p \in Procs, Query(p) PROVE IInv'
<1> USE DEF Query, Called, Return, disk, FillBundle
<1>0. ProcOK(p) BY DEF IInv
<1>1. TypeInv'
  BY LoweredOK, <1>0 DEF IInv, TypeInv
<1>2. FileOK'
  BY FileKept DEF IInv
<1>3. ASSUME NEW q \in Procs, q # p PROVE ProcOK(q)'
  BY <1>3, OthersKept DEF IInv, TypeInv, Same
<1>4. ProcOK(p)'
  BY LoweredOK, <1>0 DEF IInv, TypeInv, ProcOK
<1> QED BY <1>1, <1>2, <1>3, <1>4 DEF IInv

LEMMA SaveBinaryStep ==
  ASSUME IInv, NEW p \in Procs, SaveBinary(p) PROVE IInv'
<1> USE DEF SaveBinary, Called, Return, disk, FillBundle, At
<1>0. ProcOK(p) /\ TypeInv BY DEF IInv
<1>1. TypeInv'
  <2>1. CASE Lowerable(p)
    <3>1. Lowered(p) \in Bundles BY <2>1, <1>0, LoweredOK
    <3> QED BY <2>1, <3>1, <1>0 DEF TypeInv, PCs
  <2>2. CASE ~Lowerable(p)
    BY <2>2, <1>0 DEF TypeInv
  <2> QED BY <2>1, <2>2
<1>2. FileOK'
  BY FileKept DEF IInv
<1>3. ASSUME NEW q \in Procs, q # p PROVE ProcOK(q)'
  BY <1>3, OthersKept DEF IInv, TypeInv, Same
<1>4. ProcOK(p)'
  BY LoweredOK, <1>0 DEF TypeInv, ProcOK
<1> QED BY <1>1, <1>2, <1>3, <1>4 DEF IInv

LEMMA OpenStep ==
  ASSUME IInv, NEW p \in Procs, Open(p) PROVE IInv'
<1> USE DEF Open, At, handles
<1>0. ProcOK(p) BY DEF IInv
<1>1. TypeInv'
  BY DEF IInv, TypeInv, PCs, NoFile
<1>2. FileOK'
  BY FileKept DEF IInv
<1>3. ASSUME NEW q \in Procs, q # p PROVE ProcOK(q)'
  BY <1>3, OthersKept DEF IInv, TypeInv, Same
<1>4. ProcOK(p)'
  BY <1>0, PieceCount DEF IInv, TypeInv, ProcOK
<1> QED BY <1>1, <1>2, <1>3, <1>4 DEF IInv

LEMMA WriteStep ==
  ASSUME IInv, NEW p \in Procs, Write(p) PROVE IInv'
<1> USE DEF Write, At, handles, Return
<1>0. /\ ProcOK(p) /\ pc[p] = "write" /\ bundle[p] \in begun
      /\ bundle[p] \in Bundles /\ Len(buf[p]) < Pieces[bundle[p][2]]
  BY DEF IInv, ProcOK, TypeInv
<1>a. /\ Len(buf[p]) \in Nat /\ Len(buf[p]) + 1 \in 1..MaxPieces
      /\ Len(Append(buf[p], bundle[p])) = Len(buf[p]) + 1
  BY <1>0, PieceCount, StoreAssumption DEF IInv, TypeInv
<1>1. TypeInv'
  <2>1. buf' \in [Procs -> Seq(Bundles \union {NoForm})]
    BY <1>0 DEF IInv, TypeInv
  <2> QED BY <2>1, <1>0, <1>a DEF IInv, TypeInv, PCs
<1>2. FileOK'
  BY <1>0, <1>a DEF IInv, TypeInv, FileOK, Found
<1>3. ASSUME NEW q \in Procs, q # p PROVE ProcOK(q)'
  BY <1>3, OthersKept DEF IInv, TypeInv, Same
<1>4. ProcOK(p)'
  BY <1>0, <1>a, PieceCount DEF IInv, TypeInv, ProcOK
<1> QED BY <1>1, <1>2, <1>3, <1>4 DEF IInv

LEMMA LoadBinaryStep ==
  ASSUME IInv, NEW p \in Procs, LoadBinary(p) PROVE IInv'
<1> USE DEF LoadBinary, Called, At, SetHandle, disk
<1>1. TypeInv'
  BY DEF IInv, TypeInv, PCs, Forms
<1>2. FileOK'
  BY FileKept DEF IInv
<1>3. ASSUME NEW q \in Procs, q # p PROVE ProcOK(q)'
  BY <1>3, OthersKept DEF IInv, TypeInv, Same
<1>4. ProcOK(p)'
  BY DEF IInv, TypeInv, ProcOK
<1> QED BY <1>1, <1>2, <1>3, <1>4 DEF IInv

(***************************************************************************)
(* What a read finds: the pieces so far with one more, all of them         *)
(* offered.  If the checksum is right they are the image of the first.     *)
(***************************************************************************)
LEMMA PiecesRead ==
  ASSUME IInv, NEW p \in Procs, pc[p] = "read",
         NEW pieces, pieces = Append(buf[p], file[Len(buf[p]) + 1])
  PROVE  /\ pieces \in Seq(Bundles \union {NoForm})
         /\ Len(pieces) = Len(buf[p]) + 1 /\ Len(pieces) >= 1
         /\ \A i \in 1..Len(pieces) : Found(pieces[i])
         /\ ~Complete(pieces) =>
              pieces[1] \in Bundles /\ Len(pieces) < Pieces[pieces[1][2]]
         /\ Complete(pieces) /\ ChecksumOK(pieces) =>
              /\ pieces[1] \in begun
              /\ <<pieces[1][1], pieces[Len(pieces)][2]>> = pieces[1]
<1>0. /\ ProcOK(p) /\ buf[p] \in Seq(Bundles \union {NoForm})
      /\ Len(buf[p]) \in Nat /\ FileOK /\ begun \subseteq Bundles
  BY DEF IInv, TypeInv
<1>1. Len(buf[p]) + 1 \in 1..MaxPieces
  <2>1. CASE buf[p] = <<>>
    BY <2>1, StoreAssumption
  <2>2. CASE buf[p] # <<>>
    BY <2>2, <1>0, PieceCount, StoreAssumption DEF ProcOK
  <2> QED BY <2>1, <2>2
<1>2. /\ file[Len(buf[p]) + 1] \in Bundles \union {NoForm}
      /\ Found(file[Len(buf[p]) + 1])
  BY <1>1 DEF IInv, TypeInv, FileOK
<1>3. /\ pieces \in Seq(Bundles \union {NoForm})
      /\ Len(pieces) = Len(buf[p]) + 1
      /\ \A i \in 1..Len(buf[p]) : pieces[i] = buf[p][i]
      /\ pieces[Len(buf[p]) + 1] = file[Len(buf[p]) + 1]
  BY <1>0, <1>2
<1>4. \A i \in 1..Len(pieces) : Found(pieces[i])
  BY <1>0, <1>2, <1>3 DEF ProcOK
<1>5. Len(pieces) >= 1
  BY <1>0, <1>3
<1>6. ASSUME ~Complete(pieces)
      PROVE  pieces[1] \in Bundles /\ Len(pieces) < Pieces[pieces[1][2]]
  <2>1. pieces[1] \in Bundles
    BY <1>6, <1>5, <1>3 DEF Complete
  <2>2. Pieces[pieces[1][2]] \in 1..MaxPieces
    BY <2>1, PieceCount
  <2>3. CASE buf[p] = <<>>
    <3>1. Len(pieces) = 1 BY <2>3, <1>3
    <3> QED BY <3>1, <2>1, <2>2, <1>6, StoreAssumption DEF Complete
  <2>4. CASE buf[p] # <<>>
    <3>1. buf[p][1] \in Bundles /\ Len(buf[p]) < Pieces[buf[p][1][2]]
      BY <2>4, <1>0 DEF ProcOK
    <3>2. pieces[1] = buf[p][1] /\ Len(buf[p]) >= 1
      BY <2>4, <1>0, <1>3
    <3> QED BY <3>1, <3>2, <2>1, <2>2, <1>3, <1>0, <1>6, StoreAssumption DEF Complete
  <2> QED BY <2>3, <2>4
<1>7. ASSUME Complete(pieces), ChecksumOK(pieces)
      PROVE  /\ pieces[1] \in begun
             /\ <<pieces[1][1], pieces[Len(pieces)][2]>> = pieces[1]
  <2>1. pieces[1] # NoForm /\ pieces = Image(pieces[1])
    BY <1>7 DEF ChecksumOK
  <2>2. pieces[1] \in begun
    BY <2>1, <1>4, <1>5, <1>3 DEF Found
  <2>3. pieces[1] \in Bundles
    BY <2>2, <1>0
  <2>4. pieces[Len(pieces)] = pieces[1]
    <3>1. \A i \in DOMAIN Image(pieces[1]) : Image(pieces[1])[i] = pieces[1]
      BY DEF Image
    <3>2. Len(pieces) \in DOMAIN pieces
      BY <1>5, <1>3
    <3> QED BY <3>1, <3>2, <2>1
  <2> QED BY <2>2, <2>3, <2>4 DEF Bundles
<1> QED BY <1>3, <1>4, <1>5, <1>6, <1>7

LEMMA ReadStep ==
  ASSUME IInv, NEW p \in Procs, Read(p) PROVE IInv'
<1> DEFINE pieces == Append(buf[p], file[Len(buf[p]) + 1])
           result == IF ChecksumOK(pieces)
                       THEN <<pieces[1][1], pieces[Len(pieces)][2]>> ELSE NoForm
<1>0. pc[p] = "read" BY DEF Read, At
<1>1. /\ pieces \in Seq(Bundles \union {NoForm})
      /\ Len(pieces) = Len(buf[p]) + 1 /\ Len(pieces) >= 1
      /\ \A i \in 1..Len(pieces) : Found(pieces[i])
      /\ ~Complete(pieces) =>
           pieces[1] \in Bundles /\ Len(pieces) < Pieces[pieces[1][2]]
      /\ Complete(pieces) /\ ChecksumOK(pieces) =>
           /\ pieces[1] \in begun
           /\ <<pieces[1][1], pieces[Len(pieces)][2]>> = pieces[1]
  BY <1>0, PiecesRead
<1>2. Complete(pieces) => result \in begun \union {NoForm}
  BY <1>1
<1>3. /\ pc' = [pc EXCEPT ![p] = IF Complete(pieces) THEN "idle" ELSE "read"]
      /\ buf' = [buf EXCEPT ![p] = IF Complete(pieces) THEN <<>> ELSE pieces]
      /\ Complete(pieces) => /\ bundle' = [bundle EXCEPT ![p] = result]
                             /\ got' = [got EXCEPT ![p] = result]
                             /\ reply' = [reply EXCEPT ![p] = "ok"]
      /\ ~Complete(pieces) => UNCHANGED <<bundle, got, reply>>
      /\ UNCHANGED <<disk, node, part, answer, begun, overlap, ops>>
  BY DEF Read, At, Return
<1> HIDE DEF pieces, result
<1>4. TypeInv'
  <2>0. TypeInv BY DEF IInv
  <2>1. /\ buf' \in [Procs -> Seq(Bundles \union {NoForm})]
        /\ pc' \in [Procs -> PCs]
    BY <1>1, <1>3, <2>0 DEF TypeInv, PCs
  <2>2. /\ bundle' \in [Procs -> Bundles \union {NoForm}]
        /\ got' \in [Procs -> Bundles \union {NoForm}]
        /\ DOMAIN reply' = Procs
    BY <1>2, <1>3, <2>0 DEF TypeInv
  <2> QED BY <1>3, <2>0, <2>1, <2>2 DEF TypeInv, disk
<1>5. FileOK'
  BY <1>3, FileKept DEF IInv, disk
<1>6. ASSUME NEW q \in Procs, q # p PROVE ProcOK(q)'
  BY <1>3, <1>6, OthersKept DEF IInv, TypeInv, Same
<1>7. ProcOK(p)'
  BY <1>0, <1>1, <1>2, <1>3 DEF IInv, TypeInv, ProcOK, Found
<1> QED BY <1>4, <1>5, <1>6, <1>7 DEF IInv

(***************************************************************************)
(* The directory.  A save or load of it changes no piece of the file.      *)
(***************************************************************************)
LEMMA DirSteps ==
  ASSUME IInv, NEW p \in Procs,
         \/ SaveDir(p) \/ RemoveOne(p) \/ RemoveFails(p) \/ Rewrite(p)
         \/ WriteData(p) \/ WritePlan(p) \/ LoadDir(p) \/ ReadData(p) \/ ReadPlan(p)
  PROVE  IInv'
<1> USE DEF Called, At, Return, disk, handles, SetHandle
<1>0. TypeInv /\ ProcOK(p) BY DEF IInv
<1>1. TypeInv'
  <2>1. CASE SaveDir(p) BY <2>1, <1>0 DEF SaveDir, TypeInv, PCs
  <2>2. CASE RemoveOne(p) BY <2>2, <1>0 DEF RemoveOne, TypeInv
  <2>3. CASE RemoveFails(p) BY <2>3, <1>0 DEF RemoveFails, TypeInv, PCs
  <2>4. CASE Rewrite(p) BY <2>4, <1>0 DEF Rewrite, TypeInv, PCs
  <2>5. CASE WriteData(p)
    <3>1. node[p] \in Bundles BY <2>5, <1>0 DEF WriteData, WriteFile, ProcOK
    <3>2. node[p][1] \in Versions BY <3>1 DEF Bundles
    <3>3. dir' = [dir EXCEPT !["data"] = node[p][1]] \/ dir' = [dir EXCEPT !["data"] = Partial]
      BY <2>5 DEF WriteData, WriteFile
    <3>4. dir' \in [{"data", "plan"} -> Versions \union {None, Partial}]
      BY <3>2, <3>3, <1>0 DEF TypeInv
    <3>5. /\ pc' \in [Procs -> PCs] /\ DOMAIN reply' = Procs
          /\ UNCHANGED <<file, node, bundle, got, begun, buf, part, answer>>
      BY <2>5, <1>0 DEF WriteData, WriteFile, TypeInv, PCs
    <3> QED BY <3>4, <3>5, <1>0 DEF TypeInv
  <2>6. CASE WritePlan(p)
    <3>1. node[p] \in Bundles BY <2>6, <1>0 DEF WritePlan, WriteFile, ProcOK
    <3>2. node[p][2] \in Versions BY <3>1 DEF Bundles
    <3>3. dir' = [dir EXCEPT !["plan"] = node[p][2]] \/ dir' = [dir EXCEPT !["plan"] = Partial]
      BY <2>6 DEF WritePlan, WriteFile
    <3>4. dir' \in [{"data", "plan"} -> Versions \union {None, Partial}]
      BY <3>2, <3>3, <1>0 DEF TypeInv
    <3>5. /\ pc' \in [Procs -> PCs] /\ DOMAIN reply' = Procs
          /\ UNCHANGED <<file, node, bundle, got, begun, buf, part, answer>>
      BY <2>6, <1>0 DEF WritePlan, WriteFile, TypeInv, PCs
    <3> QED BY <3>4, <3>5, <1>0 DEF TypeInv
  <2>7. CASE LoadDir(p) BY <2>7, <1>0 DEF LoadDir, TypeInv, PCs, Forms
  <2>8. CASE ReadData(p) BY <2>8, <1>0 DEF ReadData, TypeInv, PCs, Forms, Unread
  <2>9. CASE ReadPlan(p)
    <3>1. part[p] \in Versions BY <2>9, <1>0 DEF ReadPlan, ProcOK
    <3> QED BY <2>9, <3>1, <1>0
            DEF ReadPlan, TypeInv, PCs, Forms, Unread, Bundles
  <2> QED BY <2>1, <2>2, <2>3, <2>4, <2>5, <2>6, <2>7, <2>8, <2>9
<1>2. FileOK'
  BY FileKept DEF IInv, SaveDir, RemoveOne, RemoveFails, Rewrite, WriteData,
     WritePlan, WriteFile, LoadDir, ReadData, ReadPlan
<1>3. ASSUME NEW q \in Procs, q # p PROVE ProcOK(q)'
  BY <1>0, <1>3, OthersKept DEF IInv, TypeInv, Same, SaveDir, RemoveOne, RemoveFails,
     Rewrite, WriteData, WritePlan, WriteFile, LoadDir, ReadData, ReadPlan
<1>4. ProcOK(p)'
  <2>1. CASE SaveDir(p) BY <2>1, <1>0 DEF SaveDir, TypeInv, ProcOK, Forms
  <2>2. CASE RemoveOne(p) BY <2>2, <1>0 DEF RemoveOne, TypeInv, ProcOK
  <2>3. CASE RemoveFails(p) BY <2>3, <1>0 DEF RemoveFails, TypeInv, ProcOK
  <2>4. CASE Rewrite(p) BY <2>4, <1>0 DEF Rewrite, RemovedAll, TypeInv, ProcOK
  <2>5. CASE WriteData(p)
    BY <2>5, <1>0 DEF WriteData, WriteFile, TypeInv, ProcOK
  <2>6. CASE WritePlan(p)
    BY <2>6, <1>0 DEF WritePlan, WriteFile, TypeInv, ProcOK
  <2>7. CASE LoadDir(p) BY <2>7, <1>0 DEF LoadDir, TypeInv, ProcOK
  <2>8. CASE ReadData(p) BY <2>8, <1>0 DEF ReadData, TypeInv, ProcOK
  <2>9. CASE ReadPlan(p) BY <2>9, <1>0 DEF ReadPlan, TypeInv, ProcOK
  <2> QED BY <2>1, <2>2, <2>3, <2>4, <2>5, <2>6, <2>7, <2>8, <2>9
<1> QED BY <1>1, <1>2, <1>3, <1>4 DEF IInv

LEMMA StopSteps ==
  ASSUME IInv, NEW p \in Procs, Crash(p) \/ SaveBinaryFails(p)
  PROVE  IInv'
<1> USE DEF Return, disk, handles, SetHandle
<1>0. TypeInv /\ ProcOK(p) BY DEF IInv
<1>1. TypeInv'
  <2>1. CASE Crash(p) BY <2>1, <1>0 DEF Crash, TypeInv, PCs, Forms
  <2>2. CASE SaveBinaryFails(p) BY <2>2, <1>0 DEF SaveBinaryFails, TypeInv, PCs
  <2> QED BY <2>1, <2>2
<1>2. FileOK'
  BY FileKept DEF IInv, Crash, SaveBinaryFails
<1>3. ASSUME NEW q \in Procs, q # p PROVE ProcOK(q)'
  BY <1>0, <1>3, OthersKept DEF IInv, TypeInv, Same, Crash, SaveBinaryFails
<1>4. ProcOK(p)'
  BY <1>0 DEF Crash, SaveBinaryFails, TypeInv, ProcOK
<1> QED BY <1>1, <1>2, <1>3, <1>4 DEF IInv

LEMMA StepInv == IInv /\ [Next]_vars => IInv'
<1> SUFFICES ASSUME IInv, [Next]_vars PROVE IInv' OBVIOUS
<1>1. CASE UNCHANGED vars
  <2>1. TypeInv' BY <1>1 DEF IInv, TypeInv, vars
  <2>2. FileOK' BY <1>1 DEF IInv, FileOK, Found, vars
  <2>3. ASSUME NEW q \in Procs PROVE ProcOK(q)'
    BY <1>1, OthersKept DEF IInv, Same, vars
  <2> QED BY <2>1, <2>2, <2>3 DEF IInv
<1>2. ASSUME NEW p \in Procs, Step(p) PROVE IInv'
  BY <1>2, BuildStep, QueryStep, SaveBinaryStep, OpenStep, WriteStep, LoadBinaryStep,
     ReadStep, DirSteps, StopSteps DEF Step
<1> QED BY <1>1, <1>2 DEF Next

LEMMA Invariance == Spec => []IInv
BY InitInv, StepInv, PTL DEF Spec

(***************************************************************************)
(* Every file and handle keeps its type, and no process reads or writes    *)
(* past the last piece of an image.                                        *)
(***************************************************************************)
THEOREM TypeCorrect == Spec => []TypeOK
<1>1. IInv => TypeOK
  <2> SUFFICES ASSUME IInv PROVE TypeOK OBVIOUS
  <2>1. ASSUME NEW p \in Procs, pc[p] \in {"read", "write"}
        PROVE  Len(buf[p]) < MaxPieces
    <3>0. ProcOK(p) /\ TypeInv BY DEF IInv
    <3>1. Len(buf[p]) \in Nat BY <3>0 DEF TypeInv
    <3>2. CASE buf[p] = <<>>
      BY <3>2, StoreAssumption
    <3>3. CASE pc[p] = "read" /\ buf[p] # <<>>
      BY <3>0, <3>1, <3>3, PieceCount, StoreAssumption DEF ProcOK
    <3>4. CASE pc[p] = "write"
      BY <3>0, <3>1, <3>4, PieceCount, StoreAssumption DEF ProcOK, TypeInv
    <3> QED BY <2>1, <3>2, <3>3, <3>4
  <2> QED BY <2>1 DEF IInv, TypeInv, TypeOK
<1> QED BY <1>1, Invariance, PTL

(***************************************************************************)
(* The two forms of a handle are of one bundle, through every sequence of  *)
(* builds, loads, saves and queries, failed ones among them.               *)
(***************************************************************************)
THEOREM FormsCorrect == Spec => []FormsAgree
<1>1. IInv => FormsAgree
  BY DEF IInv, ProcOK, FormsAgree
<1> QED BY <1>1, Invariance, PTL

(***************************************************************************)
(* A query is answered only by the bundle its handle shows.  A handle may  *)
(* hold two forms and a query prefers the compiled one: that both are of   *)
(* one bundle (ProcOK) is what makes the answer the handle's own.          *)
(***************************************************************************)
THEOREM AnswersCorrect == Spec => AnswersComeFromHandle
<1> DEFINE FromHandle(p) ==
             answer'[p] # answer[p] /\ answer'[p] # NoForm
               => HandleOk(p) /\ answer'[p] \in {node[p], bundle[p]}
<1>1. ASSUME IInv, [Next]_vars, NEW q \in Procs PROVE FromHandle(q)
  <2>0. TypeInv /\ ProcOK(q) BY <1>1 DEF IInv
  <2>1. CASE UNCHANGED vars
    BY <2>1 DEF vars
  <2>2. ASSUME NEW p \in Procs, Step(p) PROVE FromHandle(q)
    <3>1. CASE Query(p) /\ q = p
      <4>1. CASE Lowerable(p)
        <5>1. answer'[p] = Lowered(p)
          BY <2>0, <3>1, <4>1 DEF Query, TypeInv
        <5>2. bundle[p] # NoForm => node[p] # Errors
          BY <2>0, <3>1, NoBundle DEF TypeInv, ProcOK
        <5> QED BY <3>1, <4>1, <5>1, <5>2 DEF Lowerable, Lowered, HandleOk
      <4>2. CASE ~Lowerable(p)
        BY <2>0, <3>1, <4>2 DEF Query, TypeInv
      <4> QED BY <4>1, <4>2
    <3>2. CASE (Query(p) \/ Crash(p)) /\ q # p
      BY <2>0, <3>2 DEF Query, Crash, TypeInv
    <3>3. CASE Crash(p) /\ q = p
      BY <2>0, <3>3 DEF Crash, TypeInv
    <3>4. CASE \/ Build(p) \/ SaveBinary(p) \/ Open(p) \/ Write(p) \/ SaveBinaryFails(p)
               \/ LoadBinary(p) \/ Read(p) \/ SaveDir(p) \/ RemoveOne(p) \/ RemoveFails(p)
               \/ Rewrite(p) \/ WriteData(p) \/ WritePlan(p) \/ LoadDir(p) \/ ReadData(p)
               \/ ReadPlan(p)
      BY <3>4 DEF Build, SaveBinary, Open, Write, SaveBinaryFails, LoadBinary, Read,
         SaveDir, RemoveOne, RemoveFails, Rewrite, WriteData, WritePlan, WriteFile,
         LoadDir, ReadData, ReadPlan
    <3> QED BY <2>2, <3>1, <3>2, <3>3, <3>4 DEF Step
  <2> QED BY <1>1, <2>1, <2>2 DEF Next
<1>2. IInv /\ [Next]_vars => \A p \in Procs : FromHandle(p)
  BY <1>1
<1>3. IInv /\ [Next]_vars => [\A p \in Procs : FromHandle(p)]_vars
  BY <1>2
<1> HIDE DEF FromHandle
<1> QED BY <1>3, Invariance, PTL DEF Spec, AnswersComeFromHandle, FromHandle

(***************************************************************************)
(* The directory while no save of it has run beside another use of it: a   *)
(* saver is alone, what it has removed and written so far is known, and    *)
(* between the two reads of a load the data stays what was read.           *)
(***************************************************************************)
Saving == {"remove", "data", "plan"}
Using == Saving \union {"readdata", "readplan"}

Matched == dir.data \in Versions /\ dir.plan \in Versions => dir.data = dir.plan

Settled(p) ==
  /\ OneVersion(node[p]) /\ OneVersion(bundle[p])
  /\ pc[p] = "data" => dir.data = None /\ dir.plan = None
  /\ pc[p] = "plan" => dir.data = node[p][1] /\ dir.plan = None
  /\ pc[p] = "readplan" => part[p] = dir.data
  /\ pc[p] \in Saving => \A q \in Procs \ {p} : pc[q] \notin Using

Calm ==
  /\ \A x \in begun : OneVersion(x)
  /\ Matched
  /\ \A p \in Procs : Settled(p)

DirInv == ~overlap => Calm

LEMMA EmptyForms == OneVersion(NoForm) /\ OneVersion(Errors)
BY DEF OneVersion, NoForm, Errors

LEMMA InitDir == Init => DirInv
BY EmptyForms, StoreAssumption
   DEF Init, DirInv, Calm, Matched, Settled, NoDir, None, Saving

(***************************************************************************)
(* A step that leaves the directory alone and takes its process out of the *)
(* directory, or keeps it out, disturbs nobody.                            *)
(***************************************************************************)
LEMMA QuietStep ==
  ASSUME IInv, Calm, NEW p \in Procs, dir' = dir,
         \A q \in Procs \ {p} : Same(q),
         pc'[p] \notin Using, OneVersion(node'[p]), OneVersion(bundle'[p]),
         \A x \in begun' : OneVersion(x)
  PROVE  Calm'
<1>1. Matched' BY DEF Calm, Matched
<1>2. ASSUME NEW q \in Procs, q # p PROVE Settled(q)'
  <2>1. Same(q) /\ Settled(q) BY <1>2 DEF Calm
  <2>2. \A r \in Procs \ {q} : pc[r] \notin Using => pc'[r] \notin Using
    BY DEF Same
  <2> QED BY <2>1, <2>2 DEF Settled, Same
<1>3. Settled(p)'
  BY DEF Settled, Using, Saving
<1> QED BY <1>1, <1>2, <1>3 DEF Calm

LEMMA ReadOneVersion ==
  ASSUME IInv, Calm, NEW p \in Procs, Read(p) PROVE OneVersion(bundle'[p])
<1> DEFINE pieces == Append(buf[p], file[Len(buf[p]) + 1])
           result == IF ChecksumOK(pieces)
                       THEN <<pieces[1][1], pieces[Len(pieces)][2]>> ELSE NoForm
<1>0. pc[p] = "read" BY DEF Read, At
<1>1. Complete(pieces) /\ ChecksumOK(pieces) =>
        /\ pieces[1] \in begun
        /\ <<pieces[1][1], pieces[Len(pieces)][2]>> = pieces[1]
  BY <1>0, PiecesRead
<1>2. Complete(pieces) => OneVersion(result)
  BY <1>1, EmptyForms DEF Calm
<1>3. IF Complete(pieces) THEN bundle' = [bundle EXCEPT ![p] = result]
                          ELSE bundle' = bundle
  BY DEF Read
<1> HIDE DEF pieces, result
<1>4. CASE Complete(pieces)
  BY <1>2, <1>3, <1>4 DEF IInv, TypeInv
<1>5. CASE ~Complete(pieces)
  BY <1>3, <1>5 DEF Calm, Settled
<1> QED BY <1>4, <1>5

LEMMA QuietSteps ==
  ASSUME IInv, Calm, NEW p \in Procs,
         \/ Build(p) \/ Query(p) \/ Crash(p) \/ SaveBinary(p) \/ Open(p) \/ Write(p)
         \/ SaveBinaryFails(p) \/ LoadBinary(p) \/ Read(p) \/ RemoveFails(p)
         \/ ReadPlan(p)
  PROVE  Calm'
<1> USE DEF Called, At, Return, disk, handles, SetHandle, FillBundle
<1>0. /\ TypeInv /\ ProcOK(p) /\ Settled(p) /\ Matched
      /\ \A x \in begun : OneVersion(x)
  BY DEF IInv, Calm
<1>a. Lowerable(p) => OneVersion(Lowered(p))
  BY <1>0 DEF Lowered, Settled
<1>1. dir' = dir
  BY DEF Build, Query, Crash, SaveBinary, Open, Write, SaveBinaryFails, LoadBinary, Read,
     RemoveFails, ReadPlan
<1>2. ASSUME NEW q \in Procs \ {p} PROVE Same(q)
  BY <1>0 DEF Same, TypeInv, Build, Query, Crash, SaveBinary, Open, Write,
     SaveBinaryFails, LoadBinary, Read, RemoveFails, ReadPlan
<1>3. pc'[p] \notin Using
  BY <1>0 DEF TypeInv, Using, Saving, Build, Query, Crash, SaveBinary, Open, Write,
     SaveBinaryFails, LoadBinary, Read, RemoveFails, ReadPlan
<1>4. OneVersion(node'[p])
  <2>1. CASE Build(p)
    BY <2>1, <1>0, EmptyForms DEF Build, TypeInv, OneVersion
  <2>2. CASE ReadPlan(p)
    <3>1. part[p] = dir.data /\ part[p] \in Versions
      BY <2>2, <1>0 DEF ReadPlan, Settled, ProcOK
    <3>2. node'[p] = IF dir.plan \in Versions THEN <<part[p], dir.plan>>
                                              ELSE Unread(dir.plan)
      BY <2>2, <1>0 DEF ReadPlan, TypeInv
    <3> QED BY <3>1, <3>2, <1>0, EmptyForms DEF Matched, Unread, OneVersion
  <2>3. CASE LoadBinary(p) \/ Crash(p)
    BY <2>3, <1>0, EmptyForms DEF LoadBinary, Crash, TypeInv
  <2>4. CASE \/ Query(p) \/ SaveBinary(p) \/ Open(p) \/ Write(p) \/ SaveBinaryFails(p)
             \/ Read(p) \/ RemoveFails(p)
    <3>1. node' = node
      BY <2>4 DEF Query, SaveBinary, Open, Write, SaveBinaryFails, Read, RemoveFails
    <3> QED BY <3>1, <1>0 DEF Settled
  <2> QED BY <2>1, <2>2, <2>3, <2>4
<1>5. OneVersion(bundle'[p])
  <2>1. CASE Read(p) BY <2>1, ReadOneVersion
  <2>2. CASE Build(p) \/ LoadBinary(p) \/ Crash(p)
    BY <2>2, <1>0, EmptyForms DEF Build, LoadBinary, Crash, TypeInv
  <2>3. CASE Query(p) \/ SaveBinary(p)
    BY <2>3, <1>0, <1>a DEF Query, SaveBinary, TypeInv, Settled
  <2>4. CASE Open(p) \/ Write(p) \/ SaveBinaryFails(p) \/ RemoveFails(p) \/ ReadPlan(p)
    <3>1. bundle' = bundle
      BY <2>4 DEF Open, Write, SaveBinaryFails, RemoveFails, ReadPlan
    <3> QED BY <3>1, <1>0 DEF Settled
  <2> QED BY <2>1, <2>2, <2>3, <2>4
<1>6. ASSUME NEW x \in begun' PROVE OneVersion(x)
  BY <1>0, <1>a DEF Build, Query, Crash, SaveBinary, Open, Write, SaveBinaryFails,
     LoadBinary, Read, RemoveFails, ReadPlan
<1> QED BY <1>1, <1>2, <1>3, <1>4, <1>5, <1>6, QuietStep

(***************************************************************************)
(* The steps that enter the directory, or change it.                       *)
(***************************************************************************)
LEMMA SaverSteps ==
  ASSUME IInv, Calm, ~overlap', NEW p \in Procs,
         \/ SaveDir(p) \/ RemoveOne(p) \/ Rewrite(p) \/ WriteData(p) \/ WritePlan(p)
         \/ LoadDir(p) \/ ReadData(p)
  PROVE  Calm'
<1> USE DEF Called, At, Return, disk, handles, SetHandle
<1>0. TypeInv /\ ProcOK(p) /\ Settled(p) /\ Matched /\ begun' = begun
  BY DEF IInv, Calm, SaveDir, RemoveOne, Rewrite, WriteData, WritePlan, WriteFile, LoadDir,
     ReadData
<1>1. ASSUME NEW q \in Procs \ {p} PROVE Same(q)
  BY <1>0 DEF Same, TypeInv, SaveDir, RemoveOne, Rewrite, WriteData, WritePlan, WriteFile,
     LoadDir, ReadData
<1>2. Matched'
  <2>1. CASE RemoveOne(p)
    BY <2>1, <1>0, StoreAssumption DEF RemoveOne, Matched, TypeInv, None
  <2>2. CASE WriteData(p)
    <3>1. dir'.plan = None
      BY <2>2, <1>0 DEF WriteData, WriteFile, Settled, TypeInv
    <3> QED BY <3>1, StoreAssumption DEF Matched, None
  <2>3. CASE WritePlan(p)
    <3>1. /\ dir.data = node[p][1] /\ node[p][1] = node[p][2]
          /\ dir'.data = dir.data /\ dir'.plan \in {node[p][2], Partial}
      BY <2>3, <1>0 DEF WritePlan, WriteFile, Settled, OneVersion, TypeInv
    <3> QED BY <3>1, StoreAssumption DEF Matched, Partial
  <2>4. CASE SaveDir(p) \/ Rewrite(p) \/ LoadDir(p) \/ ReadData(p)
    <3>1. dir' = dir BY <2>4 DEF SaveDir, Rewrite, LoadDir, ReadData
    <3> QED BY <3>1, <1>0 DEF Matched
  <2> QED BY <2>1, <2>2, <2>3, <2>4
<1>3. ASSUME NEW q \in Procs, q # p PROVE Settled(q)'
  <2>0. Same(q) /\ Settled(q) BY <1>1, <1>3 DEF Calm
  <2>1. CASE RemoveOne(p) \/ Rewrite(p) \/ WriteData(p) \/ WritePlan(p)
    <3>1. pc[p] \in Saving
      BY <2>1 DEF RemoveOne, Rewrite, RemovedAll, WriteData, WritePlan, WriteFile, Saving
    <3>2. pc[q] \notin Using BY <3>1, <1>0, <1>3 DEF Settled
    <3> QED BY <2>0, <3>2 DEF Settled, Same, Using, Saving
  <2>2. CASE SaveDir(p)
    <3>0. dir' = dir /\ node' = node BY <2>2 DEF SaveDir
    <3>1. CASE pc' = pc
      BY <3>1, <3>0, <2>0 DEF Settled, Same
    <3>2. CASE pc' # pc
      <4>1. Savers \union Readers = {} BY <2>2, <3>2 DEF SaveDir
      <4>2. pc[q] \notin Using BY <4>1 DEF Savers, Readers, Using, Saving
      <4> QED BY <4>2, <2>0 DEF Settled, Same, Using, Saving
    <3> QED BY <3>1, <3>2
  <2>3. CASE LoadDir(p)
    <3>1. dir' = dir /\ Savers = {} BY <2>3 DEF LoadDir
    <3>2. pc[q] \notin Saving BY <3>1 DEF Savers, Saving
    <3> QED BY <2>0, <3>1, <3>2 DEF Settled, Same, Saving
  <2>4. CASE ReadData(p)
    <3>1. dir' = dir /\ pc[p] = "readdata" BY <2>4 DEF ReadData
    <3>2. pc[q] \notin Saving BY <3>1, <2>0, <1>3 DEF Settled, Using
    <3> QED BY <2>0, <3>1, <3>2 DEF Settled, Same, Saving
  <2> QED BY <2>1, <2>2, <2>3, <2>4
<1>4. Settled(p)'
  <2>0. \A q \in Procs \ {p} : pc'[q] = pc[q] BY <1>1 DEF Same
  <2>a. /\ OneVersion(node[p]) /\ OneVersion(bundle[p])
        /\ bundle' = bundle \/ OneVersion(bundle'[p])
    BY <1>0, EmptyForms DEF Settled, TypeInv, SaveDir, RemoveOne, Rewrite, WriteData,
       WritePlan, WriteFile, LoadDir, ReadData
  <2>1. CASE SaveDir(p)
    <3>0. dir' = dir /\ node' = node /\ bundle' = bundle BY <2>1 DEF SaveDir
    <3>1. CASE pc' = pc
      BY <3>1, <3>0, <2>1, <1>0, <2>0 DEF SaveDir, Settled, Saving
    <3>2. CASE pc' # pc
      <4>1. Savers \union Readers = {} /\ pc'[p] = "remove"
        BY <2>1, <3>2, <1>0 DEF SaveDir, TypeInv
      <4>2. \A q \in Procs : pc[q] \notin Using BY <4>1 DEF Savers, Readers, Using, Saving
      <4> QED BY <4>1, <4>2, <3>0, <2>0, <2>a DEF Settled
    <3> QED BY <3>1, <3>2
  <2>2. CASE RemoveOne(p)
    BY <2>2, <2>0, <1>0 DEF RemoveOne, Settled
  <2>3. CASE Rewrite(p)
    <3>1. dir = NoDir /\ dir' = dir /\ node' = node /\ bundle' = bundle /\ pc[p] = "remove"
      BY <2>3 DEF Rewrite, RemovedAll
    <3>2. pc'[p] \in {"idle", "data"} BY <2>3, <1>0 DEF Rewrite, TypeInv
    <3> QED BY <3>1, <3>2, <2>0, <1>0 DEF Settled, NoDir, Saving
  <2>4. CASE WriteData(p)
    <3>1. /\ pc[p] = "data" /\ node' = node /\ bundle' = bundle
          /\ dir'.plan = None
          /\ pc'[p] = "idle" \/ (pc'[p] = "plan" /\ dir'.data = node[p][1])
      BY <2>4, <1>0 DEF WriteData, WriteFile, TypeInv, Settled
    <3> QED BY <3>1, <2>0, <1>0 DEF Settled, Saving
  <2>5. CASE WritePlan(p)
    <3>1. node' = node /\ bundle' = bundle /\ pc'[p] = "idle"
      BY <2>5, <1>0 DEF WritePlan, WriteFile, TypeInv
    <3> QED BY <3>1, <2>0, <1>0 DEF Settled, Saving
  <2>6. CASE LoadDir(p)
    <3>1. node'[p] = NoForm /\ bundle'[p] = NoForm /\ pc'[p] = "readdata"
      BY <2>6, <1>0 DEF LoadDir, TypeInv
    <3> QED BY <3>1, EmptyForms DEF Settled, Saving
  <2>7. CASE ReadData(p)
    <3>1. /\ bundle' = bundle /\ dir' = dir
          /\ \/ pc'[p] = "readplan" /\ part'[p] = dir.data /\ node' = node
             \/ pc'[p] = "idle" /\ node'[p] = Unread(dir.data)
      BY <2>7, <1>0 DEF ReadData, TypeInv
    <3> QED BY <3>1, <1>0, EmptyForms DEF Settled, Saving, Unread
  <2> QED BY <2>1, <2>2, <2>3, <2>4, <2>5, <2>6, <2>7
<1> QED BY <1>0, <1>2, <1>3, <1>4 DEF Calm

LEMMA StepDir == IInv /\ DirInv /\ [Next]_vars => DirInv'
<1> SUFFICES ASSUME IInv, DirInv, [Next]_vars, ~overlap' PROVE Calm'
  BY DEF DirInv
<1>1. CASE UNCHANGED vars
  BY <1>1 DEF vars, DirInv, Calm, Matched, Settled
<1>2. ASSUME NEW p \in Procs, Step(p) PROVE Calm'
  <2>1. ~overlap
    BY <1>2 DEF Step, Build, Query, Crash, SaveBinary, Open, Write, SaveBinaryFails,
       LoadBinary, Read, RemoveFails, ReadPlan, SaveDir, RemoveOne, Rewrite, WriteData,
       WritePlan, WriteFile, LoadDir, ReadData
  <2>2. Calm BY <2>1 DEF DirInv
  <2> QED BY <1>2, <2>2, QuietSteps, SaverSteps DEF Step
<1> QED BY <1>1, <1>2 DEF Next

LEMMA DirInvariance == Spec => [](IInv /\ DirInv)
<1>1. Init => IInv /\ DirInv BY InitInv, InitDir
<1>2. IInv /\ DirInv /\ [Next]_vars => (IInv /\ DirInv)' BY StepInv, StepDir
<1> QED BY <1>1, <1>2, PTL DEF Spec

(***************************************************************************)
(* A directory used by one process at a time never yields the data of one  *)
(* bundle with the plan of another, whatever failed or died before.        *)
(***************************************************************************)
THEOREM DirectoryCorrect == Spec => []DirectoryNeverMixes
<1>1. IInv /\ DirInv => DirectoryNeverMixes
  BY DEF DirInv, Calm, Settled, DirectoryNeverMixes
<1> QED BY <1>1, DirInvariance, PTL

(***************************************************************************)
(* A save to the directory that reports success has stored the bundle.     *)
(***************************************************************************)
THEOREM SaveDirCorrect == Spec => SaveDirOkStores
<1> DEFINE Stores == \A p \in Procs :
             pc[p] = "plan" /\ pc'[p] = "idle" /\ reply'[p] = "ok" /\ ~overlap
             => SavedToDir(p)'
<1>1. IInv /\ DirInv /\ [Next]_vars => [Stores]_vars
  <2> SUFFICES ASSUME IInv, DirInv, Next, NEW p \in Procs,
                      pc[p] = "plan", pc'[p] = "idle", reply'[p] = "ok", ~overlap
               PROVE  SavedToDir(p)'
    OBVIOUS
  <2>1. PICK q \in Procs : Step(q) BY DEF Next
  <2>0. TypeInv /\ Settled(p) BY DEF IInv, DirInv, Calm
  <2>2. WritePlan(p)
    BY <2>0, <2>1 DEF TypeInv, Step, Called, At, Return, Build, Query, Crash, SaveBinary, Open, Write,
       SaveBinaryFails, LoadBinary, Read, RemoveFails, ReadPlan, SaveDir, RemoveOne,
       Rewrite, RemovedAll, WriteData, WritePlan, WriteFile, LoadDir, ReadData
  <2>3. /\ dir' = [dir EXCEPT !["plan"] = node[p][2]] /\ node' = node
    BY <2>2, <2>0 DEF WritePlan, WriteFile, TypeInv, Return, handles
  <2> QED BY <2>0, <2>3 DEF TypeInv, SavedToDir, Settled
<1> QED BY <1>1, DirInvariance, PTL DEF Spec, SaveDirOkStores

(***************************************************************************)
(* The binary file keeps its promise: what a load yields was offered by    *)
(* somebody, whole.  The step of the code that matters is the last read,   *)
(* where PiecesRead shows that a right checksum leaves only the pieces of  *)
(* one offered image; every other step offers, drops or changes nothing.   *)
(***************************************************************************)
LEMMA InitPromise == Init => Promise!Init
BY DEF Init, Promise!Init

LEMMA StepPromise ==
  IInv /\ [Next]_vars => [Promise!Next]_<<begun, got>>
<1> SUFFICES ASSUME IInv, [Next]_vars PROVE [Promise!Next]_<<begun, got>> OBVIOUS
<1>1. CASE UNCHANGED vars
  BY <1>1 DEF vars
<1>2. ASSUME NEW p \in Procs, Step(p) PROVE [Promise!Next]_<<begun, got>>
  <2>0. TypeInv /\ ProcOK(p) BY DEF IInv
  <2>1. CASE Build(p) \/ LoadBinary(p) \/ LoadDir(p) \/ Crash(p)
    <3>1. got' = [got EXCEPT ![p] = NoForm] /\ begun' = begun
      BY <2>1 DEF Build, LoadBinary, LoadDir, Crash
    <3>2. Promise!Drop(p) BY <3>1 DEF Promise!Drop
    <3> QED BY <3>2 DEF Promise!Next
  <2>2. CASE SaveBinary(p)
    <3>1. CASE Lowerable(p)
      <4>1. Lowered(p) \in Bundles BY <2>0, <3>1, LoweredOK
      <4>2. Promise!Offer(Lowered(p))
        BY <2>2, <3>1 DEF SaveBinary, Promise!Offer
      <4> QED BY <4>1, <4>2 DEF Promise!Next
    <3>2. CASE ~Lowerable(p)
      BY <2>2, <3>2 DEF SaveBinary
    <3> QED BY <3>1, <3>2
  <2>3. CASE Read(p)
    <3> DEFINE pieces == Append(buf[p], file[Len(buf[p]) + 1])
    <3>0. pc[p] = "read" BY <2>3 DEF Read, At
    <3>1. Complete(pieces) /\ ChecksumOK(pieces) =>
            /\ pieces[1] \in begun
            /\ <<pieces[1][1], pieces[Len(pieces)][2]>> = pieces[1]
      BY <3>0, PiecesRead
    <3>2. CASE ~Complete(pieces)
      BY <2>3, <3>2 DEF Read
    <3>3. CASE Complete(pieces) /\ ChecksumOK(pieces)
      <4>1. got' = [got EXCEPT ![p] = pieces[1]] /\ begun' = begun
        BY <2>3, <3>1, <3>3 DEF Read
      <4>2. Promise!Answer(p) BY <3>1, <3>3, <4>1 DEF Promise!Answer
      <4> QED BY <4>2 DEF Promise!Next
    <3>4. CASE Complete(pieces) /\ ~ChecksumOK(pieces)
      <4>1. got' = [got EXCEPT ![p] = NoForm] /\ begun' = begun
        BY <2>3, <3>4 DEF Read
      <4>2. Promise!Drop(p) BY <4>1 DEF Promise!Drop
      <4> QED BY <4>2 DEF Promise!Next
    <3> QED BY <3>2, <3>3, <3>4
  <2>4. CASE \/ Query(p) \/ Open(p) \/ Write(p) \/ SaveBinaryFails(p) \/ SaveDir(p)
             \/ RemoveOne(p) \/ RemoveFails(p) \/ Rewrite(p) \/ WriteData(p)
             \/ WritePlan(p) \/ ReadData(p) \/ ReadPlan(p)
    BY <2>4 DEF Query, Open, Write, SaveBinaryFails, SaveDir, RemoveOne, RemoveFails,
       Rewrite, WriteData, WritePlan, WriteFile, ReadData, ReadPlan
  <2> QED BY <1>2, <2>1, <2>2, <2>3, <2>4 DEF Step
<1> QED BY <1>1, <1>2 DEF Next

THEOREM PromiseKept == Spec => KeepsPromise
<1>1. Spec => Promise!Init /\ [][Promise!Next]_<<begun, got>>
  BY InitPromise, StepPromise, Invariance, PTL DEF Spec
<1> QED BY <1>1 DEF KeepsPromise, Promise!Spec
=============================================================================
