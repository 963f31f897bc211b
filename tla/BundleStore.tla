----------------------------- MODULE BundleStore -----------------------------
(***************************************************************************)
(* Bundles on disk, and the handles through which a program uses them.     *)
(*                                                                         *)
(* A process of the C API holds a regoBundle: a tree (node) and a compiled *)
(* form (bundle), each filled when it is first needed.  It can be built,   *)
(* loaded from a directory of JSON files or from a binary file, saved to   *)
(* either, and queried.  Processes share one directory and one file.       *)
(*                                                                         *)
(* Saving and loading are sequences of file operations: other processes    *)
(* run between them, each of them may fail, and a process may die between  *)
(* any two.  A JSON save removes the directory and writes data.json and    *)
(* plan.json; a binary save truncates the file in place and writes it in   *)
(* pieces.  The text of the modules, which only serves the positions of    *)
(* errors, and the text of the JSON files are left out.                    *)
(***************************************************************************)
EXTENDS Integers, Sequences, FiniteSets

CONSTANTS
  Procs,      \* processes that share the disk
  Versions,   \* bundles that can be built
  Pieces,     \* the number of writes the binary image of each takes
  MaxPieces,  \* the largest of them
  MaxOps      \* bound on the number of calls

ASSUME StoreAssumption ==
  /\ Versions \subseteq Nat \ {0}
  /\ MaxPieces \in Nat \ {0}
  /\ Pieces \in [Versions -> 1..MaxPieces]
  /\ MaxOps \in Nat

None == 0
Partial == -1

(***************************************************************************)
(* A program is its data document and its plan.  They have one version,    *)
(* unless something mixed two bundles.                                     *)
(***************************************************************************)
Bundles == Versions \X Versions
NoForm == <<None, None>>
Errors == <<Partial, Partial>>    \* an ErrorSeq in the place of a tree

VARIABLES
  file,       \* the pieces of the binary file
  dir,        \* the JSON files: a version, None or Partial
  pc,         \* what each process is doing
  node,       \* the tree of its handle
  bundle,     \* the compiled form of its handle
  buf,        \* the pieces it has read of the binary file
  part,       \* the data it has read of the directory
  reply,      \* the answer to its last call
  answer,     \* the program that answered its last query
  got,        \* what its last binary load gave it
  begun,      \* the bundles somebody began to save to the file
  overlap,    \* whether a save of the directory ran beside another use of it
  ops         \* the calls made

disk == <<file, dir>>
handles == <<node, bundle>>
vars == <<file, dir, pc, node, bundle, buf, part, reply, answer, got, begun,
          overlap, ops>>

NoFile == [i \in 1..MaxPieces |-> NoForm]
NoDir == [data |-> None, plan |-> None]

Init ==
  /\ file = NoFile /\ dir = NoDir
  /\ pc = [p \in Procs |-> "idle"]
  /\ node = [p \in Procs |-> NoForm]
  /\ bundle = [p \in Procs |-> NoForm]
  /\ buf = [p \in Procs |-> <<>>]
  /\ part = [p \in Procs |-> None]
  /\ reply = [p \in Procs |-> "none"]
  /\ answer = [p \in Procs |-> NoForm]
  /\ got = [p \in Procs |-> NoForm]
  /\ begun = {} /\ overlap = FALSE /\ ops = 0

Savers == {p \in Procs : pc[p] \in {"remove", "data", "plan"}}
Readers == {p \in Procs : pc[p] \in {"readdata", "readplan"}}

(* A call by an idle process; At moves a process on; Return ends its call. *)
Called(p) == pc[p] = "idle" /\ ops < MaxOps /\ ops' = ops + 1

At(p, here, next) == pc[p] = here /\ pc' = [pc EXCEPT ![p] = next]

Return(p, what) == reply' = [reply EXCEPT ![p] = what]

SetHandle(p, n, b) == /\ node' = [node EXCEPT ![p] = n]
                      /\ bundle' = [bundle EXCEPT ![p] = b]

(***************************************************************************)
(* regoBuild.  A build that fails leaves the errors in the place of the    *)
(* tree.                                                                   *)
(***************************************************************************)
Build(p) ==
  /\ Called(p)
  /\ \E n \in {<<v, v>> : v \in Versions} \union {Errors} : SetHandle(p, n, NoForm)
  /\ got' = [got EXCEPT ![p] = NoForm]
  /\ Return(p, "ok")
  /\ UNCHANGED <<disk, pc, buf, part, answer, begun, overlap>>

(***************************************************************************)
(* regoBundle::node_to_bundle.  from_node throws on a tree that is none.   *)
(***************************************************************************)
(* Mutant: a tree of errors is lowered like any other. *)
LowerableAny(p) == bundle[p] # NoForm \/ node[p] # NoForm

Lowerable(p) == bundle[p] # NoForm \/ node[p] \notin {NoForm, Errors}

Lowered(p) == IF bundle[p] # NoForm THEN bundle[p] ELSE node[p]

FillBundle(p) == bundle' = [bundle EXCEPT ![p] = Lowered(p)]

(***************************************************************************)
(* regoBundleSaveBinary, BundleDef::save.  The file is truncated when it   *)
(* is opened.  Neither the open nor a write is checked: after a failure    *)
(* the rest is skipped and the call still succeeds.                        *)
(***************************************************************************)
SaveBinary(p) ==
  /\ Called(p)
  /\ IF Lowerable(p)
       THEN /\ FillBundle(p)
            /\ At(p, "idle", "open")
            /\ begun' = begun \union {Lowered(p)}
            /\ UNCHANGED reply
       ELSE Return(p, "error") /\ UNCHANGED <<bundle, pc, begun>>
  /\ UNCHANGED <<disk, node, buf, part, answer, got, overlap>>

Open(p) ==
  /\ At(p, "open", "write")
  /\ file' = NoFile
  /\ buf' = [buf EXCEPT ![p] = <<>>]
  /\ UNCHANGED <<dir, handles, part, reply, answer, got, begun, overlap, ops>>

(* buf counts the pieces that were written. *)
Write(p) ==
  LET i == Len(buf[p]) + 1
      n == Pieces[bundle[p][2]]
  IN  /\ At(p, "write", IF i = n THEN "idle" ELSE "write")
      /\ file' = [file EXCEPT ![i] = bundle[p]]
      /\ buf' = [buf EXCEPT ![p] = IF i = n THEN <<>> ELSE Append(@, bundle[p])]
      /\ IF i = n THEN Return(p, "ok") ELSE UNCHANGED reply
      /\ UNCHANGED <<dir, handles, part, answer, got, begun, overlap, ops>>

SaveBinaryFails(p) ==
  /\ pc[p] \in {"open", "write"}
  /\ pc' = [pc EXCEPT ![p] = "idle"]
  /\ buf' = [buf EXCEPT ![p] = <<>>]
  /\ Return(p, "ok")
  /\ UNCHANGED <<disk, handles, part, answer, got, begun, overlap, ops>>

(***************************************************************************)
(* regoBundleLoadBinary, BundleDef::load.  The header, which is in the     *)
(* first piece, gives the size and the checksum of the rest.  A file that  *)
(* is missing, too short or whose checksum differs gives a handle without  *)
(* a bundle.                                                               *)
(***************************************************************************)
LoadBinary(p) ==
  /\ Called(p)
  /\ At(p, "idle", "read")
  /\ buf' = [buf EXCEPT ![p] = <<>>]
  /\ SetHandle(p, NoForm, NoForm)
  /\ got' = [got EXCEPT ![p] = NoForm]
  /\ UNCHANGED <<disk, part, reply, answer, begun, overlap>>

Image(x) == [i \in 1..Pieces[x[2]] |-> x]

(* Mutant: the size in the header is trusted and there is no checksum. *)
ChecksumIgnored(pieces) ==
  pieces[1] # NoForm /\ pieces[Len(pieces)] # NoForm

ChecksumOK(pieces) ==
  pieces[1] # NoForm /\ pieces = Image(pieces[1])

Complete(pieces) ==
  pieces[1] = NoForm \/ Len(pieces) = Pieces[pieces[1][2]]

Read(p) ==
  LET pieces == Append(buf[p], file[Len(buf[p]) + 1])
      last   == pieces[Len(pieces)]
      result == IF ChecksumOK(pieces) THEN <<pieces[1][1], last[2]>> ELSE NoForm
  IN  /\ At(p, "read", IF Complete(pieces) THEN "idle" ELSE "read")
      /\ buf' = [buf EXCEPT ![p] = IF Complete(pieces) THEN <<>> ELSE pieces]
      /\ IF Complete(pieces)
           THEN /\ bundle' = [bundle EXCEPT ![p] = result]
                /\ got' = [got EXCEPT ![p] = result]
                /\ Return(p, "ok")
           ELSE UNCHANGED <<bundle, got, reply>>
      /\ UNCHANGED <<disk, node, part, answer, begun, overlap, ops>>

(***************************************************************************)
(* regoBundleSave, Interpreter::save_bundle.  The directory is removed     *)
(* before the tree is turned to JSON, so also when that will fail because  *)
(* the tree is an error.                                                   *)
(***************************************************************************)
SaveDir(p) ==
  /\ Called(p)
  /\ IF node[p] = NoForm
       THEN Return(p, "error") /\ UNCHANGED <<pc, overlap>>
       ELSE /\ At(p, "idle", "remove")
            /\ overlap' = (overlap \/ Savers \union Readers # {})
            /\ UNCHANGED reply
  /\ UNCHANGED <<disk, handles, buf, part, answer, got, begun>>

(* Mutant: the files are left to be overwritten. *)
RemovedFirst(p) == pc[p] = "remove"

RemovedAll(p) == pc[p] = "remove" /\ dir = NoDir

RemoveOne(p) ==
  /\ pc[p] = "remove"
  /\ \E f \in {"data", "plan"} : dir[f] # None /\ dir' = [dir EXCEPT ![f] = None]
  /\ UNCHANGED <<file, pc, handles, buf, part, reply, answer, got, begun, overlap,
                 ops>>

RemoveFails(p) ==
  /\ At(p, "remove", "idle")
  /\ Return(p, "error")
  /\ UNCHANGED <<disk, handles, buf, part, answer, got, begun, overlap, ops>>

Rewrite(p) ==
  /\ RemovedAll(p)
  /\ IF node[p] = Errors
       THEN pc' = [pc EXCEPT ![p] = "idle"] /\ Return(p, "error")
       ELSE pc' = [pc EXCEPT ![p] = "data"] /\ UNCHANGED reply
  /\ UNCHANGED <<disk, handles, buf, part, answer, got, begun, overlap, ops>>

(* Mutant: what the writer returns is not looked at. *)
WriteFileUnchecked(p, f, i, next, end) ==
  /\ pc[p] = f
  /\ \E x \in {node[p][i], Partial} : dir' = [dir EXCEPT ![f] = x]
  /\ pc' = [pc EXCEPT ![p] = next]
  /\ IF end THEN Return(p, "ok") ELSE UNCHANGED reply
  /\ UNCHANGED <<file, handles, buf, part, answer, got, begun, overlap, ops>>

WriteFile(p, f, i, next, end) ==
  /\ pc[p] = f
  /\ \/ /\ dir' = [dir EXCEPT ![f] = node[p][i]]
        /\ pc' = [pc EXCEPT ![p] = next]
        /\ IF end THEN Return(p, "ok") ELSE UNCHANGED reply
     \/ /\ dir' = [dir EXCEPT ![f] = Partial]
        /\ pc' = [pc EXCEPT ![p] = "idle"]
        /\ Return(p, "error")
  /\ UNCHANGED <<file, handles, buf, part, answer, got, begun, overlap, ops>>

WriteData(p) == WriteFile(p, "data", 1, "plan", FALSE)
WritePlan(p) == WriteFile(p, "plan", 2, "idle", TRUE)

(***************************************************************************)
(* regoBundleLoad, Interpreter::load_bundle.  A missing file gives a       *)
(* handle without a tree, one that does not parse a tree of errors.        *)
(***************************************************************************)
LoadDir(p) ==
  /\ Called(p)
  /\ At(p, "idle", "readdata")
  /\ SetHandle(p, NoForm, NoForm)
  /\ got' = [got EXCEPT ![p] = NoForm]
  /\ overlap' = (overlap \/ Savers # {})
  /\ UNCHANGED <<disk, buf, part, reply, answer, begun>>

Unread(found) == IF found = None THEN NoForm ELSE Errors

ReadData(p) ==
  /\ pc[p] = "readdata"
  /\ IF dir.data \in Versions
       THEN /\ pc' = [pc EXCEPT ![p] = "readplan"]
            /\ part' = [part EXCEPT ![p] = dir.data]
            /\ UNCHANGED <<node, reply>>
       ELSE /\ pc' = [pc EXCEPT ![p] = "idle"]
            /\ node' = [node EXCEPT ![p] = Unread(dir.data)]
            /\ Return(p, "ok")
            /\ UNCHANGED part
  /\ UNCHANGED <<disk, bundle, buf, answer, got, begun, overlap, ops>>

ReadPlan(p) ==
  /\ At(p, "readplan", "idle")
  /\ node' = [node EXCEPT ![p] = IF dir.plan \in Versions
                                   THEN <<part[p], dir.plan>> ELSE Unread(dir.plan)]
  /\ Return(p, "ok")
  /\ UNCHANGED <<disk, bundle, buf, part, answer, got, begun, overlap, ops>>

(***************************************************************************)
(* regoBundleQuery and regoBundleQueryEntrypoint: NULL when there is       *)
(* nothing to run.                                                         *)
(***************************************************************************)
Query(p) ==
  /\ Called(p)
  /\ IF Lowerable(p)
       THEN /\ FillBundle(p)
            /\ answer' = [answer EXCEPT ![p] = Lowered(p)]
            /\ Return(p, "ok")
       ELSE /\ answer' = [answer EXCEPT ![p] = NoForm]
            /\ Return(p, "null")
            /\ UNCHANGED bundle
  /\ UNCHANGED <<disk, pc, node, buf, part, got, begun, overlap>>

(***************************************************************************)
(* A process dies.  Its handle is gone; the disk stays as it is.           *)
(***************************************************************************)
Crash(p) ==
  /\ pc[p] # "idle"
  /\ pc' = [pc EXCEPT ![p] = "idle"]
  /\ SetHandle(p, NoForm, NoForm)
  /\ buf' = [buf EXCEPT ![p] = <<>>]
  /\ got' = [got EXCEPT ![p] = NoForm]
  /\ answer' = [answer EXCEPT ![p] = NoForm]
  /\ Return(p, "none")
  /\ UNCHANGED <<disk, part, begun, overlap, ops>>

Step(p) ==
  \/ Build(p) \/ Query(p) \/ Crash(p)
  \/ SaveBinary(p) \/ Open(p) \/ Write(p) \/ SaveBinaryFails(p)
  \/ LoadBinary(p) \/ Read(p)
  \/ SaveDir(p) \/ RemoveOne(p) \/ RemoveFails(p) \/ Rewrite(p)
  \/ WriteData(p) \/ WritePlan(p)
  \/ LoadDir(p) \/ ReadData(p) \/ ReadPlan(p)

Next == \E p \in Procs : Step(p)

Spec == Init /\ [][Next]_vars

-----------------------------------------------------------------------------
Forms == Bundles \union {NoForm, Errors}

PCs == {"idle", "open", "write", "read", "remove", "data", "plan", "readdata",
        "readplan"}

(***************************************************************************)
(* Every handle and file holds what such a thing can hold, and a process   *)
(* never runs past the last piece of an image.                             *)
(***************************************************************************)
TypeOK ==
  /\ file \in [1..MaxPieces -> Bundles \union {NoForm}]
  /\ dir \in [{"data", "plan"} -> Versions \union {None, Partial}]
  /\ pc \in [Procs -> PCs]
  /\ node \in [Procs -> Forms]
  /\ bundle \in [Procs -> Bundles \union {NoForm}]
  /\ got \in [Procs -> Bundles \union {NoForm}]
  /\ begun \subseteq Bundles
  /\ buf \in [Procs -> Seq(Bundles \union {NoForm})]
  /\ \A p \in Procs : pc[p] \in {"read", "write"} => Len(buf[p]) < MaxPieces

(***************************************************************************)
(* The promise of the binary file: a load that ends gives a bundle that    *)
(* was saved, whole, or nothing, though saves overlap it and one another,  *)
(* fail half way, and their processes die.                                 *)
(***************************************************************************)
Promise == INSTANCE BundlePromise
             WITH Programs <- Bundles, Nothing <- NoForm,
                  offered <- begun, loaded <- got

KeepsPromise == Promise!Spec

(***************************************************************************)
(* A directory that is used by one process at a time is never loaded as    *)
(* the data of one bundle with the plan of another, whatever failures and  *)
(* crashes earlier saves met.                                              *)
(***************************************************************************)
OneVersion(x) == x[1] = x[2]

DirectoryNeverMixes ==
  ~overlap => \A p \in Procs : OneVersion(node[p]) /\ OneVersion(bundle[p])

(***************************************************************************)
(* The two forms of a handle are of the same bundle, and a query is        *)
(* answered only by the bundle its handle shows: a handle whose load or    *)
(* build failed (regoBundleOk is false) is never run.                      *)
(***************************************************************************)
HandleOk(p) == node[p] # Errors /\ (node[p] # NoForm \/ bundle[p] # NoForm)

FormsAgree ==
  \A p \in Procs : bundle[p] # NoForm => node[p] \in {NoForm, bundle[p]}

AnswersComeFromHandle ==
  [][\A p \in Procs : answer'[p] # answer[p] /\ answer'[p] # NoForm
       => HandleOk(p) /\ answer'[p] \in {node[p], bundle[p]}]_vars

(***************************************************************************)
(* A save to the directory that reports success has stored the bundle,     *)
(* when nobody else used the directory meanwhile.                          *)
(***************************************************************************)
SavedToDir(p) == dir.data = node[p][1] /\ dir.plan = node[p][2]

SaveDirOkStores ==
  [][\A p \in Procs : pc[p] = "plan" /\ pc'[p] = "idle" /\ reply'[p] = "ok" /\ ~overlap
       => SavedToDir(p)']_vars

(***************************************************************************)
(* Documented, and violated: regoBundleSaveBinary returns REGO_OK if       *)
(* successful (rego_c.h), so a process that was alone gets it only when    *)
(* the file holds the bundle.                                              *)
(***************************************************************************)
SavedToFile(p) == \A i \in 1..Pieces[bundle[p][2]] : file[i] = bundle[p]

SaveBinaryOkStores ==
  [][\A p \in Procs :
       /\ pc[p] \in {"open", "write"} /\ pc'[p] = "idle" /\ reply'[p] = "ok"
       /\ \A q \in Procs \ {p} : pc[q] = "idle"
       => SavedToFile(p)']_vars
=============================================================================
