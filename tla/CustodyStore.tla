---------------------------- MODULE CustodyStore ----------------------------
(***************************************************************************)
(* The write-once store of originals and bundles: custody.write_once on a  *)
(* file system, S3Storage's conditional put, EncryptedStorage around       *)
(* either, and the volume key every process loads or creates when it       *)
(* boots (service/scripts/custody.py, service/app/storage.py).             *)
(*                                                                         *)
(* A file is created empty and filled by a second step; an object of the   *)
(* object store appears whole.  A digest is the content it stands for, and *)
(* two envelopes are never equal.                                          *)
(***************************************************************************)
EXTENDS Integers, FiniteSets

CONSTANTS
  Proc,         \* processes: API replicas and command lines
  Writer,       \* one call of write_once each
  Key, Content,
  ProcOf, KeyOf, DataOf,  \* of each writer
  CommandLine,  \* the processes that write bundles and know no backend
  Cmk, NoKek,   \* KMS's key-encryption key, and none
  Deployments,  \* [mode, sealed, procs]: the backend, the envelope, who is there
  MaxCrash,     \* bound on process deaths
  MaxFault      \* bound on failed calls

ASSUME CustodyAssumption ==
  /\ ProcOf \in [Writer -> Proc]
  /\ KeyOf \in [Writer -> Key]
  /\ DataOf \in [Writer -> Content]
  /\ CommandLine \subseteq Proc
  /\ Deployments \subseteq [mode : {"local", "s3"}, sealed : {"no", "volume", "kms"},
                            procs : SUBSET Proc]
  /\ NoKek \notin Proc \cup {Cmk} /\ Cmk \notin Proc
  /\ MaxCrash \in Nat /\ MaxFault \in Nat

\* Key-encryption keys: KMS's, or the one a process drew for the volume, which
\* bears its name.
Keks == Proc \cup {Cmk}
NoFile == [found |-> "absent"]

VARIABLES
  deployment,
  objects,   \* what each key holds: NoFile, or content, envelope key, whole or not
  keyfile,   \* the volume key file: NoFile, or its key and whether it is whole
  boot,      \* where each process stands: "down", "create", "fill" or "up"
  kek,       \* the key-encryption key each process has loaded
  step,      \* where each writer's call of write_once stands
  crashes, faults

storeVars == <<deployment, objects, keyfile, boot, kek, step, crashes, faults>>

Objects == {NoFile} \cup [found : {"file"}, data : Content, kek : Keks \cup {NoKek}, whole : BOOLEAN]
KeyFiles == {NoFile} \cup [found : {"file"}, kek : Keks, whole : BOOLEAN]
Steps == {"idle", "look", "create", "compare", "fill", "head", "put", "reread",
          "stored", "refused", "raised"}

StoreTypeOK ==
  /\ deployment \in Deployments
  /\ objects \in [Key -> Objects]
  /\ keyfile \in KeyFiles
  /\ boot \in [Proc -> {"down", "create", "fill", "up"}]
  /\ kek \in [Proc -> Keks \cup {NoKek}]
  /\ step \in [Writer -> Steps]
  /\ crashes \in 0..MaxCrash /\ faults \in 0..MaxFault

StoreInit ==
  /\ deployment \in Deployments
  /\ objects = [k \in Key |-> NoFile]
  /\ keyfile = NoFile
  /\ boot = [p \in Proc |-> IF p \in deployment.procs \cap CommandLine THEN "up" ELSE "down"]
  /\ kek = [p \in Proc |-> NoKek]
  /\ step = [w \in Writer |-> "idle"]
  /\ crashes = 0 /\ faults = 0

Servers == deployment.procs \ CommandLine

Fault == faults < MaxFault /\ faults' = faults + 1

----------------------------------------------------------------------------
(* The volume key.                                                         *)

BootTo(p, label, key) ==
  /\ boot' = [boot EXCEPT ![p] = label]
  /\ kek' = [kek EXCEPT ![p] = key]

bootFrame == <<deployment, objects, step, crashes>>

\* keyring_from_config without a volume key: nothing to load, or KMS has it.
BootWithoutFile(p) ==
  /\ boot[p] = "down" /\ p \in Servers /\ deployment.sealed # "volume"
  /\ BootTo(p, "up", IF deployment.sealed = "kms" THEN Cmk ELSE NoKek)
  /\ UNCHANGED <<bootFrame, keyfile, faults>>

\* _load_or_create: a file that is there wins.  One that is not yet filled has
\* the wrong length: the boot is refused, and the process started again.
LoadKey(p) ==
  /\ boot[p] = "down" /\ p \in Servers /\ deployment.sealed = "volume"
  /\ \/ keyfile # NoFile /\ keyfile.whole /\ BootTo(p, "up", keyfile.kek)
     \/ keyfile = NoFile /\ BootTo(p, "create", NoKek)
  /\ UNCHANGED <<bootFrame, keyfile, faults>>

\* O_EXCL: who loses the race loads the winner's key.
CreateKey(p) ==
  /\ boot[p] = "create"
  /\ IF keyfile = NoFile
     THEN /\ BootTo(p, "fill", NoKek)
          /\ keyfile' = [found |-> "file", kek |-> p, whole |-> FALSE]
     ELSE BootTo(p, "down", NoKek) /\ UNCHANGED keyfile
  /\ UNCHANGED <<bootFrame, faults>>

FillKey(p) ==
  /\ boot[p] = "fill"
  /\ BootTo(p, "up", p)
  /\ keyfile' = [found |-> "file", kek |-> p, whole |-> TRUE]
  /\ UNCHANGED <<bootFrame, faults>>

\* The write raises: the file is removed and the boot fails.
FillKeyFails(p) ==
  /\ boot[p] = "fill" /\ Fault
  /\ BootTo(p, "down", NoKek)
  /\ keyfile' = NoFile
  /\ UNCHANGED bootFrame

BootStep(p) == BootWithoutFile(p) \/ LoadKey(p) \/ CreateKey(p) \/ FillKey(p)

\* No process is left to fill the file.
KeyTorn == keyfile # NoFile /\ ~keyfile.whole /\ \A p \in Proc : boot[p] # "fill"

----------------------------------------------------------------------------
(* write_once.                                                             *)

Bundles(w) == ProcOf[w] \in CommandLine
OnFiles(w) == Bundles(w) \/ deployment.mode = "local"
Sealed(w) == ~Bundles(w) /\ deployment.sealed # "no"
Running(w) == boot[ProcOf[w]] = "up"

At(w) == objects[KeyOf[w]]
Object(w, whole) ==
  [found |-> "file", data |-> DataOf[w], whole |-> whole,
   kek |-> IF Sealed(w) THEN kek[ProcOf[w]] ELSE NoKek]

\* What a comparison of digests sees: a sealed object never has the digest of
\* a new envelope.
SameDigest(w) == At(w) # NoFile /\ At(w).whole /\ At(w).data = DataOf[w] /\ ~Sealed(w)

Goto(w, label) == step' = [step EXCEPT ![w] = label]
Put(w, object) == objects' = [objects EXCEPT ![KeyOf[w]] = object]

\* Mutant: the wrapper swallows the refusal and returns nothing.
RefuseSwallowed(w) == Goto(w, IF Sealed(w) THEN "none" ELSE "refused")

\* The inner backend refuses: EncryptedStorage looks at the stored plaintext.
Refuse(w) == Goto(w, IF Sealed(w) THEN "reread" ELSE "refused")

writeFrame == <<deployment, keyfile, boot, kek, crashes>>

BeginWrite(w) ==
  /\ step[w] = "idle" /\ Running(w)
  /\ Goto(w, IF OnFiles(w) THEN "look" ELSE "head")
  /\ UNCHANGED <<writeFrame, objects, faults>>

\* dest.exists(), then O_CREAT | O_EXCL.
Look(w) ==
  /\ step[w] = "look"
  /\ Goto(w, IF At(w) = NoFile THEN "create" ELSE "compare")
  /\ UNCHANGED <<writeFrame, objects, faults>>

Create(w) ==
  /\ step[w] = "create"
  /\ IF At(w) = NoFile
     THEN Put(w, Object(w, FALSE)) /\ Goto(w, "fill")
     ELSE Goto(w, "compare") /\ UNCHANGED objects
  /\ UNCHANGED <<writeFrame, faults>>

\* Mutant: whoever loses the race removes what it takes for its partial file.
CompareRemoves(w) ==
  /\ step[w] = "compare"
  /\ IF SameDigest(w) THEN Goto(w, "stored") /\ UNCHANGED objects
     ELSE Refuse(w) /\ Put(w, NoFile)
  /\ UNCHANGED <<writeFrame, faults>>

\* sha256_file of the file that is there, which may meanwhile be half written
\* or gone again.
Compare(w) ==
  /\ step[w] = "compare"
  /\ CASE At(w) = NoFile -> Goto(w, "raised")
       [] SameDigest(w)  -> Goto(w, "stored")
       [] OTHER          -> Refuse(w)
  /\ UNCHANGED <<writeFrame, objects, faults>>

Fill(w) ==
  /\ step[w] = "fill"
  /\ Put(w, Object(w, TRUE)) /\ Goto(w, "stored")
  /\ UNCHANGED <<writeFrame, faults>>

\* The write raises: this call removes the file it created.
FillFails(w) ==
  /\ step[w] = "fill" /\ Fault
  /\ Put(w, NoFile) /\ Goto(w, "raised")
  /\ UNCHANGED writeFrame

\* head_object.
Head(w) ==
  /\ step[w] = "head"
  /\ CASE At(w) = NoFile -> Goto(w, "put")
       [] SameDigest(w)  -> Goto(w, "stored")
       [] OTHER          -> Refuse(w)
  /\ UNCHANGED <<writeFrame, objects, faults>>

\* put_object with If-None-Match.
PutObject(w) ==
  /\ step[w] = "put"
  /\ IF At(w) = NoFile THEN Put(w, Object(w, TRUE)) /\ Goto(w, "stored")
     ELSE Refuse(w) /\ UNCHANGED objects
  /\ UNCHANGED <<writeFrame, faults>>

\* The object is stored and the reply lost: the client library sends the
\* request again, or gives up.
PutReplyLost(w) ==
  /\ step[w] = "put" /\ At(w) = NoFile /\ Fault
  /\ Put(w, Object(w, TRUE))
  /\ Goto(w, "put") \/ Goto(w, "raised")
  /\ UNCHANGED writeFrame

\* head_object or put_object fails and stores nothing.
StoreRaises(w) ==
  /\ step[w] \in {"head", "put"} /\ Fault
  /\ Goto(w, "raised")
  /\ UNCHANGED <<writeFrame, objects>>

\* _open needs the key of the envelope, and all of it.
Opens(p, object) == object.whole /\ (object.kek = NoKek \/ object.kek = kek[p])

\* Mutant: the conflict is reported without reading the object back.
RereadSkipped(w) ==
  /\ step[w] = "reread"
  /\ Goto(w, "refused")
  /\ UNCHANGED <<writeFrame, objects, faults>>

\* EncryptedStorage after a conflict: read back, open, compare the plaintext.
Reread(w) ==
  /\ step[w] = "reread"
  /\ Goto(w, CASE At(w) = NoFile -> "refused"
               [] At(w) # NoFile /\ ~Opens(ProcOf[w], At(w)) -> "raised"
               [] OTHER -> IF At(w).data = DataOf[w] THEN "stored" ELSE "refused")
  /\ UNCHANGED <<writeFrame, objects, faults>>

WriteStep(w) ==
  Look(w) \/ Create(w) \/ Compare(w) \/ Fill(w) \/ Head(w) \/ PutObject(w) \/ Reread(w)
WriteFault(w) == FillFails(w) \/ PutReplyLost(w) \/ StoreRaises(w)

\* A process dies: its calls end where they are, and what they wrote stays.
Dies(p) ==
  /\ boot[p] \in {"create", "fill", "up"}
  /\ crashes < MaxCrash /\ crashes' = crashes + 1
  /\ BootTo(p, "down", NoKek)
  /\ step' = [w \in Writer |->
                IF ProcOf[w] = p /\ step[w] \notin {"idle", "stored", "refused"}
                THEN "raised" ELSE step[w]]
  /\ UNCHANGED <<deployment, objects, keyfile, faults>>
=============================================================================
