---------------------------- MODULE Intake_proofs ----------------------------
(***************************************************************************)
(* For any processes, writers, keys, contents, deployments and bounds: the *)
(* variables keep their types; the store implements the write-once         *)
(* register; a committed row names an original every process can open, and *)
(* no original is left without its row but by a death or a failed call;    *)
(* under an envelope the object store refuses nobody's own content.        *)
(***************************************************************************)
EXTENDS Intake, TLAPS

Terminals == {"idle", "stored", "refused", "raised"}

\* Who fills a file created it, and is alone with it.
Filling == \A w \in Writer : step[w] = "fill" => At(w) # NoFile /\ ~At(w).whole

OneFiller ==
  \A v, w \in Writer : step[v] = "fill" /\ step[w] = "fill" /\ KeyOf[v] = KeyOf[w] => v = w

StoredIsHeld ==
  \A w \in Writer : step[w] = "stored" => At(w) # NoFile /\ At(w).whole /\ At(w).data = DataOf[w]

\* A call that is under way belongs to a process that is up.
CallsAreServed == \A w \in Writer : step[w] \notin Terminals => boot[ProcOf[w]] = "up"

\* Only a process that is there boots, and creates the key file if any does.
Present == \A p \in Proc \ CommandLine : boot[p] # "down" => p \in Servers

OneKeyFiller ==
  \A p \in Proc : boot[p] = "fill" => keyfile # NoFile /\ ~keyfile.whole /\ keyfile.kek = p

OnlyVolumes ==
  \A p \in Proc : boot[p] \in {"create", "fill"} => p \notin CommandLine /\ deployment.sealed = "volume"

\* The one key everything is sealed under, once there is one.
KeyKnown == deployment.sealed = "volume" => keyfile # NoFile /\ keyfile.whole
SealingKey ==
  CASE deployment.sealed = "no" -> NoKek
    [] deployment.sealed = "kms" -> Cmk
    [] OTHER -> keyfile.kek

Loaded == \A p \in Servers : boot[p] = "up" => KeyKnown /\ kek[p] = SealingKey

SealedUnder ==
  \A k \in Key : objects[k] # NoFile /\ objects[k].kek # NoKek => KeyKnown /\ objects[k].kek = SealingKey

StoreInv ==
  /\ StoreTypeOK
  /\ Filling /\ OneFiller /\ StoredIsHeld /\ CallsAreServed
  /\ Present /\ OneKeyFiller /\ OnlyVolumes /\ Loaded /\ SealedUnder

-----------------------------------------------------------------------------
(* The store on its own: what any step of Intake does to it.                *)

RaisedCall == faults < MaxFault /\ faults' = faults + 1
              /\ UNCHANGED <<deployment, objects, keyfile, boot, kek, step, crashes>>

StoreNext ==
  \/ \E w \in Writer : BeginWrite(w) \/ WriteStep(w) \/ WriteFault(w)
  \/ \E p \in Proc : BootStep(p) \/ FillKeyFails(p) \/ Dies(p)
  \/ RaisedCall

LEMMA WritersOfUploads == Upload \subseteq Writer
  BY DEF Upload

\* Every step of the system is a step of the store, or leaves it alone.
LEMMA NextOfStore == ASSUME [Next]_vars PROVE StoreNext \/ UNCHANGED storeVars
<1>1. CASE UNCHANGED vars
  BY <1>1 DEF vars
<1>2. ASSUME NEW u \in Upload, UploadStep(u) PROVE StoreNext \/ UNCHANGED storeVars
  <2>1. CASE Scan(u)
    BY <2>1, WritersOfUploads DEF Scan, StoreNext
  <2>2. CASE ~Scan(u)
    BY <1>2, <2>2 DEF UploadStep, Require, GetLock, BusyTimeout, Read, Stored, Record, frame
  <2>. QED  BY <2>1, <2>2
<1>3. ASSUME NEW r \in Request, ReadRows(r) \/ Close(r) PROVE UNCHANGED storeVars
  BY <1>3 DEF ReadRows, Close, frame
<1>4. CASE StoreStep
  BY <1>4 DEF StoreStep, StoreNext
<1>5. CASE StartBundle
  BY <1>5 DEF StartBundle, StoreNext
<1>6. CASE StoreFault
  BY <1>6 DEF StoreFault, StoreNext
<1>7. ASSUME NEW u \in Upload, RecordFails(u) PROVE StoreNext \/ UNCHANGED storeVars
  BY <1>7 DEF RecordFails, StoreNext, RaisedCall, Fault, storeVars
<1>8. ASSUME NEW p \in Proc, Crash(p) PROVE StoreNext
  BY <1>8 DEF Crash, StoreNext
<1>. QED
  BY <1>1, <1>2, <1>3, <1>4, <1>5, <1>6, <1>7, <1>8 DEF Next, Progress, Request

\* An object is a record; NoFile is not one with content.
LEMMA ObjectIsAFile ==
  ASSUME StoreTypeOK, NEW w \in Writer, NEW whole \in BOOLEAN
  PROVE  /\ Object(w, whole) \in Objects /\ Object(w, whole) # NoFile
         /\ Object(w, whole).whole = whole /\ Object(w, whole).data = DataOf[w]
         /\ Object(w, whole).kek = IF Sealed(w) THEN kek[ProcOf[w]] ELSE NoKek
  BY CustodyAssumption DEF Object, Objects, NoFile, StoreTypeOK

LEMMA InitStore == StoreInit => StoreInv
<1>. SUFFICES ASSUME StoreInit PROVE StoreInv
  OBVIOUS
<1>1. StoreTypeOK
  BY CustodyAssumption DEF StoreInit, StoreTypeOK, Objects, KeyFiles, Steps
<1>2. Filling /\ OneFiller /\ StoredIsHeld /\ CallsAreServed
  BY DEF StoreInit, Filling, OneFiller, StoredIsHeld, CallsAreServed, Terminals
<1>3. Present /\ OneKeyFiller /\ OnlyVolumes
  BY DEF StoreInit, Present, OneKeyFiller, OnlyVolumes
<1>4. Loaded /\ SealedUnder
  BY CustodyAssumption DEF StoreInit, Loaded, SealedUnder, Servers
<1>. QED  BY <1>1, <1>2, <1>3, <1>4 DEF StoreInv

-----------------------------------------------------------------------------
(* A step of one call does one of four things to what its key holds.        *)

Held(w) == At(w) # NoFile /\ At(w).whole /\ At(w).data = DataOf[w]
Calls(w, labels) == step[w] \notin {"stored", "refused", "raised"} /\ \E l \in labels : Goto(w, l)

Moves(w) ==
  /\ objects' = objects
  /\ \/ Calls(w, Steps \ {"idle", "fill", "stored"})
     \/ Held(w) /\ Calls(w, {"stored"})

Creates(w) == At(w) = NoFile /\ Put(w, Object(w, FALSE)) /\ Calls(w, {"fill"})

Completes(w) ==
  /\ At(w) = NoFile \/ step[w] = "fill"
  /\ Put(w, Object(w, TRUE)) /\ Calls(w, {"stored", "put", "raised"})

Removes(w) == step[w] = "fill" /\ Put(w, NoFile) /\ Calls(w, {"raised"})

LEMMA StepOfOneCall ==
  ASSUME StoreInv, NEW w \in Writer, BeginWrite(w) \/ WriteStep(w) \/ WriteFault(w)
  PROVE  /\ Moves(w) \/ Creates(w) \/ Completes(w) \/ Removes(w)
         /\ UNCHANGED <<deployment, keyfile, boot, kek, crashes>>
         /\ boot[ProcOf[w]] = "up" /\ faults' \in 0..MaxFault
<1>0. faults \in 0..MaxFault /\ MaxFault \in Nat
  BY CustodyAssumption DEF StoreInv, StoreTypeOK
<1>1. CASE BeginWrite(w)
  BY <1>0, <1>1 DEF BeginWrite, Running, Moves, Calls, Goto, Steps, writeFrame
<1>. SUFFICES ASSUME WriteStep(w) \/ WriteFault(w)
              PROVE  /\ Moves(w) \/ Creates(w) \/ Completes(w) \/ Removes(w)
                     /\ UNCHANGED <<deployment, keyfile, boot, kek, crashes>>
                     /\ step[w] \notin Terminals /\ faults' \in 0..MaxFault
  BY <1>1 DEF StoreInv, CallsAreServed
<1>. USE <1>0 DEF Terminals, Calls, writeFrame
<1>2. CASE Look(w)
  BY <1>2 DEF Look, Moves, Goto, Steps
<1>3. CASE Create(w)
  BY <1>3 DEF Create, Moves, Creates, Goto, Steps
<1>4. CASE Compare(w)
  <2>1. SameDigest(w) => Held(w)
    BY DEF SameDigest, Held
  <2>2. objects' = objects /\ step[w] = "compare"
        /\ \/ \E l \in Steps \ {"idle", "fill", "stored"} : Goto(w, l)
           \/ SameDigest(w) /\ Goto(w, "stored")
    BY <1>4 DEF Compare, Refuse, Goto, Steps
  <2>. QED  BY <1>4, <2>1, <2>2 DEF Compare, Moves
<1>5. CASE Fill(w)
  BY <1>5 DEF Fill, Completes
<1>6. CASE Head(w)
  <2>1. SameDigest(w) => Held(w)
    BY DEF SameDigest, Held
  <2>2. objects' = objects /\ step[w] = "head"
        /\ \/ \E l \in Steps \ {"idle", "fill", "stored"} : Goto(w, l)
           \/ SameDigest(w) /\ Goto(w, "stored")
    BY <1>6 DEF Head, Refuse, Goto, Steps
  <2>. QED  BY <1>6, <2>1, <2>2 DEF Head, Moves
<1>7. CASE PutObject(w)
  BY <1>7 DEF PutObject, Moves, Completes, Refuse, Goto, Steps
<1>8. CASE Reread(w)
  <2>1. At(w) # NoFile /\ Opens(ProcOf[w], At(w)) /\ At(w).data = DataOf[w] => Held(w)
    BY DEF Opens, Held
  <2>2. objects' = objects /\ step[w] = "reread"
        /\ \/ \E l \in {"refused", "raised"} : Goto(w, l)
           \/ At(w) # NoFile /\ Opens(ProcOf[w], At(w)) /\ At(w).data = DataOf[w] /\ Goto(w, "stored")
    BY <1>8 DEF Reread, Goto
  <2>. QED  BY <1>8, <2>1, <2>2 DEF Reread, Moves, Steps
<1>9. CASE FillFails(w)
  BY <1>9 DEF FillFails, Removes, Fault
<1>f. ASSUME Fault PROVE faults' \in 0..MaxFault
  BY <1>f DEF Fault
<1>10. CASE PutReplyLost(w)
  <2>1. Fault /\ step[w] = "put" /\ UNCHANGED <<deployment, keyfile, boot, kek, crashes>>
    BY <1>10 DEF PutReplyLost
  <2>2. \E l \in {"stored", "put", "raised"} : Goto(w, l)
    BY <1>10 DEF PutReplyLost
  <2>. QED  BY <1>10, <1>f, <2>1, <2>2 DEF PutReplyLost, Completes
<1>11. CASE StoreRaises(w)
  <2>1. Fault /\ step[w] \in {"head", "put"} /\ UNCHANGED <<deployment, objects, keyfile, boot, kek, crashes>>
    BY <1>11 DEF StoreRaises
  <2>2. \E l \in Steps \ {"idle", "fill", "stored"} : Goto(w, l)
    BY <1>11 DEF StoreRaises, Steps
  <2>. QED  BY <1>f, <2>1, <2>2 DEF Moves
<1>. QED
  BY <1>2, <1>3, <1>4, <1>5, <1>6, <1>7, <1>8, <1>9, <1>10, <1>11 DEF WriteStep, WriteFault

\* A boot step or a death leaves the objects alone; calls end with their process.
Boots(p) == BootStep(p) \/ FillKeyFails(p)

LEMMA StepOfOneBoot ==
  ASSUME StoreInv, NEW p \in Proc, Boots(p)
  PROVE  /\ UNCHANGED <<deployment, objects, step, crashes>> /\ faults' \in 0..MaxFault
         /\ boot[p] \notin {"up"}
<1>. faults \in 0..MaxFault /\ MaxFault \in Nat
  BY CustodyAssumption DEF StoreInv, StoreTypeOK
<1>. QED
  BY DEF Boots, BootStep, BootWithoutFile, LoadKey, CreateKey, FillKey, FillKeyFails, bootFrame, Fault

-----------------------------------------------------------------------------
LEMMA TypesOfStore == ASSUME StoreInv, StoreNext PROVE StoreTypeOK'
<1>1. ASSUME NEW w \in Writer, BeginWrite(w) \/ WriteStep(w) \/ WriteFault(w)
      PROVE  StoreTypeOK'
  <2>1. Moves(w) \/ Creates(w) \/ Completes(w) \/ Removes(w)
    BY <1>1, StepOfOneCall
  <2>2. step' \in [Writer -> Steps]
    BY <2>1 DEF Moves, Creates, Completes, Removes, Calls, Goto, Steps, StoreInv, StoreTypeOK
  <2>3. NoFile \in Objects /\ Object(w, TRUE) \in Objects /\ Object(w, FALSE) \in Objects
    BY ObjectIsAFile DEF StoreInv, Objects
  <2>4. objects' \in [Key -> Objects]
    BY <2>1, <2>3 DEF Moves, Creates, Completes, Removes, Put, StoreInv, StoreTypeOK
  <2>. QED  BY <1>1, <2>2, <2>4, StepOfOneCall DEF StoreInv, StoreTypeOK
<1>2. ASSUME NEW p \in Proc, Boots(p) PROVE StoreTypeOK'
  <2>1. UNCHANGED <<deployment, objects, step, crashes>> /\ faults' \in 0..MaxFault
    BY <1>2, StepOfOneBoot
  <2>2. /\ \E l \in {"down", "create", "fill", "up"}, k \in Keks \cup {NoKek} : BootTo(p, l, k)
        /\ keyfile' \in KeyFiles
    <3>. Cmk \in Keks /\ p \in Keks /\ NoFile \in KeyFiles
      BY DEF Keks, KeyFiles
    <3>1. CASE BootWithoutFile(p)
      BY <3>1 DEF BootWithoutFile, StoreInv, StoreTypeOK
    <3>2. CASE LoadKey(p)
      BY <3>2 DEF LoadKey, StoreInv, StoreTypeOK, KeyFiles, NoFile
    <3>3. CASE CreateKey(p)
      <4>1. [found |-> "file", kek |-> p, whole |-> FALSE] \in KeyFiles /\ keyfile \in KeyFiles
        BY DEF KeyFiles, StoreInv, StoreTypeOK
      <4>. QED  BY <3>3, <4>1 DEF CreateKey
    <3>4. CASE FillKey(p)
      BY <3>4 DEF FillKey, StoreInv, StoreTypeOK, KeyFiles
    <3>5. CASE FillKeyFails(p)
      BY <3>5 DEF FillKeyFails
    <3>. QED  BY <1>2, <3>1, <3>2, <3>3, <3>4, <3>5 DEF Boots, BootStep
  <2>3. boot' \in [Proc -> {"down", "create", "fill", "up"}] /\ kek' \in [Proc -> Keks \cup {NoKek}]
    BY <2>2 DEF BootTo, StoreInv, StoreTypeOK
  <2>. QED  BY <2>1, <2>2, <2>3 DEF StoreInv, StoreTypeOK
<1>3. ASSUME NEW p \in Proc, Dies(p) PROVE StoreTypeOK'
  <2>1. crashes' \in 0..MaxCrash
    BY <1>3, CustodyAssumption DEF Dies, StoreInv, StoreTypeOK
  <2>2. step' \in [Writer -> Steps]
    BY <1>3 DEF Dies, Steps, StoreInv, StoreTypeOK
  <2>3. boot' \in [Proc -> {"down", "create", "fill", "up"}] /\ kek' \in [Proc -> Keks \cup {NoKek}]
    BY <1>3 DEF Dies, BootTo, StoreInv, StoreTypeOK
  <2>. QED  BY <1>3, <2>1, <2>2, <2>3 DEF Dies, StoreInv, StoreTypeOK
<1>4. CASE RaisedCall
  BY <1>4, CustodyAssumption DEF RaisedCall, StoreInv, StoreTypeOK
<1>. QED  BY <1>1, <1>2, <1>3, <1>4 DEF StoreNext, Boots

LEMMA CallsKeepStore ==
  ASSUME StoreInv, NEW w \in Writer, BeginWrite(w) \/ WriteStep(w) \/ WriteFault(w)
  PROVE  StoreInv'
<1>. DEFINE Changed == Moves(w) \/ Creates(w) \/ Completes(w) \/ Removes(w)
<1>1. Changed /\ UNCHANGED <<deployment, keyfile, boot, kek, crashes>> /\ boot[ProcOf[w]] = "up"
  BY StepOfOneCall
<1>2. StoreTypeOK'
  BY TypesOfStore DEF StoreNext
<1>3. KeyOf[w] \in Key /\ step \in [Writer -> Steps] /\ objects \in [Key -> Objects]
      /\ \A v \in Writer : KeyOf[v] \in Key
  BY CustodyAssumption DEF StoreInv, StoreTypeOK
<1>4. \A b \in BOOLEAN : /\ Object(w, b) # NoFile /\ Object(w, b).whole = b
                            /\ Object(w, b).data = DataOf[w]
                            /\ Object(w, b).kek = IF Sealed(w) THEN kek[ProcOf[w]] ELSE NoKek
  BY ObjectIsAFile DEF StoreInv
<1>5. step[w] \notin {"stored", "refused", "raised"} /\ \A v \in Writer \ {w} : step'[v] = step[v]
  BY <1>1, <1>3 DEF Moves, Creates, Completes, Removes, Calls, Goto
<1>6. \A k \in Key : k # KeyOf[w] => objects'[k] = objects[k]
  BY <1>1, <1>3 DEF Moves, Creates, Completes, Removes, Put
<1>7. \/ objects' = objects /\ step'[w] \in Steps \ {"idle", "fill"} /\ (step'[w] = "stored" => Held(w))
      \/ At(w) = NoFile /\ objects'[KeyOf[w]] = Object(w, FALSE) /\ step'[w] = "fill"
      \/ /\ At(w) = NoFile \/ step[w] = "fill"
         /\ objects'[KeyOf[w]] = Object(w, TRUE) /\ step'[w] \in {"stored", "put", "raised"}
      \/ step[w] = "fill" /\ objects'[KeyOf[w]] = NoFile /\ step'[w] = "raised"
  BY <1>1, <1>3 DEF Moves, Creates, Completes, Removes, Put, Calls, Goto, Steps
<1>a. ASSUME NEW v \in Writer \ {w}, step[v] \in {"fill", "stored"}
      PROVE  objects'[KeyOf[v]] = objects[KeyOf[v]] /\ step'[v] = step[v]
  <2>1. CASE KeyOf[v] # KeyOf[w]
    BY <1>3, <1>5, <1>6, <2>1
  <2>2. CASE KeyOf[v] = KeyOf[w]
    <3>1. At(v) = At(w) /\ At(v) # NoFile /\ step[w] # "fill"
      BY <1>a, <2>2 DEF StoreInv, Filling, OneFiller, StoredIsHeld, At
    <3>. QED  BY <1>5, <1>7, <2>2, <3>1
  <2>. QED  BY <2>1, <2>2
<1>8. Filling'
  <2>. SUFFICES ASSUME NEW v \in Writer, step'[v] = "fill" PROVE (At(v) # NoFile /\ ~At(v).whole)'
    BY DEF Filling
  <2>1. CASE v = w
    BY <1>4, <1>7, <2>1 DEF At, Steps
  <2>2. CASE v # w
    BY <1>5, <1>a, <2>2 DEF StoreInv, Filling, At
  <2>. QED  BY <2>1, <2>2
<1>9. OneFiller'
  <2>. SUFFICES ASSUME NEW u \in Writer, NEW v \in Writer, step'[u] = "fill", step'[v] = "fill",
                       KeyOf[u] = KeyOf[v], u # v
                PROVE  FALSE
    BY DEF OneFiller
  <2>1. \A x \in {u, v} \ {w} : step[x] = "fill" /\ At(x) # NoFile
    BY <1>5 DEF StoreInv, Filling
  <2>2. w \in {u, v} => At(w) = NoFile
    BY <1>7
  <2>3. w \notin {u, v}
    BY <2>1, <2>2 DEF At
  <2>. QED  BY <2>1, <2>3 DEF StoreInv, OneFiller
<1>10. StoredIsHeld'
  <2>. SUFFICES ASSUME NEW v \in Writer, step'[v] = "stored"
                PROVE  (At(v) # NoFile /\ At(v).whole /\ At(v).data = DataOf[v])'
    BY DEF StoredIsHeld
  <2>1. CASE v = w
    BY <1>4, <1>7, <2>1 DEF At, Held
  <2>2. CASE v # w
    BY <1>5, <1>a, <2>2 DEF StoreInv, StoredIsHeld, At
  <2>. QED  BY <2>1, <2>2
<1>11. CallsAreServed'
  <2>1. CallsAreServed /\ boot' = boot
    BY <1>1 DEF StoreInv
  <2>. QED  BY <1>1, <1>5, <2>1 DEF CallsAreServed
<1>12. Present' /\ OneKeyFiller' /\ OnlyVolumes' /\ Loaded'
  <2>1. deployment' = deployment /\ keyfile' = keyfile /\ boot' = boot /\ kek' = kek
    BY <1>1
  <2>2. Present /\ OneKeyFiller /\ OnlyVolumes /\ Loaded
    BY DEF StoreInv
  <2>3. Present' /\ OneKeyFiller' /\ OnlyVolumes'
    BY <2>1, <2>2 DEF Present, OneKeyFiller, OnlyVolumes, Servers
  <2>4. Servers' = Servers /\ KeyKnown' = KeyKnown /\ SealingKey' = SealingKey
    BY <2>1 DEF Servers, KeyKnown, SealingKey
  <2>. QED  BY <2>1, <2>2, <2>3, <2>4 DEF Loaded
<1>13. SealedUnder'
  <2>1. Sealed(w) => KeyKnown /\ kek[ProcOf[w]] = SealingKey
    BY <1>1, CustodyAssumption DEF Sealed, Bundles, StoreInv, Present, Loaded
  <2>2. KeyKnown' = KeyKnown /\ SealingKey' = SealingKey
    BY <1>1 DEF KeyKnown, SealingKey
  <2>3. \A k \in Key : objects'[k] = objects[k] \/ objects'[k] = NoFile
                        \/ \E b \in BOOLEAN : objects'[k] = Object(w, b)
    BY <1>3, <1>6, <1>7
  <2>. QED  BY <1>4, <2>1, <2>2, <2>3 DEF StoreInv, SealedUnder
<1>. QED  BY <1>2, <1>8, <1>9, <1>10, <1>11, <1>12, <1>13 DEF StoreInv

\* Until the volume's key is whole nobody serves, and nothing is sealed.
LEMMA NobodyYet ==
  ASSUME StoreInv, ~KeyKnown
  PROVE  /\ \A p \in Servers : boot[p] # "up"
         /\ \A k \in Key : objects[k] # NoFile => objects[k].kek = NoKek
  BY DEF StoreInv, Loaded, SealedUnder

LEMMA BootsKeepStore == ASSUME StoreInv, NEW p \in Proc, Boots(p) PROVE StoreInv'
<1>1. UNCHANGED <<deployment, objects, step>> /\ boot[p] # "up"
  BY StepOfOneBoot
<1>2. StoreTypeOK'
  BY TypesOfStore DEF StoreNext, Boots
<1>3. boot \in [Proc -> {"down", "create", "fill", "up"}] /\ kek \in [Proc -> Keks \cup {NoKek}]
  BY DEF StoreInv, StoreTypeOK
<1>4. \A q \in Proc \ {p} : boot'[q] = boot[q] /\ kek'[q] = kek[q]
  BY <1>3 DEF Boots, BootStep, BootWithoutFile, LoadKey, CreateKey, FillKey, FillKeyFails, BootTo
<1>5. Filling' /\ OneFiller' /\ StoredIsHeld'
  BY <1>1 DEF StoreInv, Filling, OneFiller, StoredIsHeld, At
<1>6. CallsAreServed'
  <2>1. CallsAreServed /\ \A w \in Writer : ProcOf[w] \in Proc
    BY CustodyAssumption DEF StoreInv
  <2>2. step' = step
    BY <1>1
  <2>. QED  BY <1>1, <1>4, <2>1, <2>2 DEF CallsAreServed
<1>7. Servers' = Servers /\ Servers \subseteq Proc /\ deployment' = deployment /\ objects' = objects
  BY <1>1, CustodyAssumption DEF Servers, StoreInv, StoreTypeOK
<1>8. Present /\ OneKeyFiller /\ OnlyVolumes /\ Loaded /\ SealedUnder
  BY DEF StoreInv
<1>. DEFINE Rest == Present' /\ OneKeyFiller' /\ OnlyVolumes' /\ Loaded' /\ SealedUnder'
<1>9. ASSUME keyfile' = keyfile, boot'[p] \in {"down", "create"} \/ (boot'[p] = "up" /\ KeyKnown /\ kek'[p] = SealingKey),
             boot'[p] # "down" => p \in Servers,
             boot'[p] = "create" => p \notin CommandLine /\ deployment.sealed = "volume"
      PROVE  Rest
  <2>1. KeyKnown' = KeyKnown /\ SealingKey' = SealingKey
    BY <1>7, <1>9 DEF KeyKnown, SealingKey
  <2>2. Present'
    BY <1>4, <1>7, <1>8, <1>9 DEF Present
  <2>3. OneKeyFiller' /\ OnlyVolumes'
    BY <1>4, <1>7, <1>8, <1>9 DEF OneKeyFiller, OnlyVolumes
  <2>4. Loaded'
    BY <1>4, <1>7, <1>8, <1>9, <2>1 DEF Loaded
  <2>5. SealedUnder'
    BY <1>7, <1>8, <2>1 DEF SealedUnder
  <2>. QED  BY <2>2, <2>3, <2>4, <2>5
<1>10. ASSUME ~KeyKnown, p \in Servers, deployment.sealed = "volume", p \notin CommandLine,
              \/ boot'[p] = "fill" /\ keyfile' = [found |-> "file", kek |-> p, whole |-> FALSE]
              \/ boot'[p] = "up" /\ kek'[p] = p /\ keyfile' = [found |-> "file", kek |-> p, whole |-> TRUE]
              \/ boot'[p] = "down" /\ keyfile' = NoFile,
              \A q \in Proc \ {p} : boot[q] # "fill"
       PROVE  Rest
  <2>1. /\ \A q \in Servers : boot[q] # "up"
        /\ \A k \in Key : objects[k] # NoFile => objects[k].kek = NoKek
    BY <1>10, NobodyYet
  <2>2. Present'
    BY <1>4, <1>7, <1>8, <1>10 DEF Present
  <2>3. OneKeyFiller' /\ OnlyVolumes'
    BY <1>4, <1>7, <1>8, <1>10 DEF OneKeyFiller, OnlyVolumes, NoFile
  <2>4. Loaded'
    BY <1>4, <1>7, <1>10, <2>1 DEF Loaded, KeyKnown, SealingKey, NoFile
  <2>5. SealedUnder'
    BY <1>7, <2>1 DEF SealedUnder
  <2>. QED  BY <2>2, <2>3, <2>4, <2>5
<1>. SUFFICES Rest
  BY <1>2, <1>5, <1>6 DEF StoreInv
<1>. HIDE DEF Rest
<1>11. CASE BootWithoutFile(p)
  <2>1. deployment.sealed \in {"no", "kms"} /\ p \in Servers /\ keyfile' = keyfile
    BY <1>11, CustodyAssumption DEF BootWithoutFile, StoreInv, StoreTypeOK
  <2>2. boot'[p] = "up" /\ kek'[p] = SealingKey
    BY <1>3, <1>11, <2>1 DEF BootWithoutFile, BootTo, SealingKey
  <2>. QED  BY <1>9, <2>1, <2>2 DEF KeyKnown
<1>12. CASE LoadKey(p)
  <2>1. deployment.sealed = "volume" /\ p \in Servers /\ keyfile' = keyfile
    BY <1>12 DEF LoadKey
  <2>2. \/ keyfile # NoFile /\ keyfile.whole /\ boot'[p] = "up" /\ kek'[p] = keyfile.kek
        \/ boot'[p] = "create"
    BY <1>3, <1>12 DEF LoadKey, BootTo
  <2>. QED  BY <1>9, <2>1, <2>2 DEF KeyKnown, SealingKey, Servers
<1>13. CASE CreateKey(p)
  <2>1. p \in Servers /\ p \notin CommandLine /\ deployment.sealed = "volume"
    BY <1>8, <1>13 DEF CreateKey, Present, OnlyVolumes
  <2>2. CASE keyfile = NoFile
    <3>1. ~KeyKnown /\ \A q \in Proc : boot[q] # "fill"
      BY <1>8, <2>1, <2>2 DEF KeyKnown, OneKeyFiller
    <3>2. boot'[p] = "fill" /\ keyfile' = [found |-> "file", kek |-> p, whole |-> FALSE]
      BY <1>3, <1>13, <2>2 DEF CreateKey, BootTo
    <3>. QED  BY <1>10, <2>1, <3>1, <3>2
  <2>3. CASE keyfile # NoFile
    <3>1. boot'[p] = "down" /\ keyfile' = keyfile
      BY <1>3, <1>13, <2>3 DEF CreateKey, BootTo
    <3>. QED  BY <1>9, <3>1
  <2>. QED  BY <2>2, <2>3
<1>14. CASE FillKey(p) \/ FillKeyFails(p)
  <2>1. boot[p] = "fill"
    BY <1>14 DEF FillKey, FillKeyFails
  <2>2. p \in Servers /\ p \notin CommandLine /\ deployment.sealed = "volume"
    BY <1>8, <2>1 DEF Present, OnlyVolumes
  <2>3. ~KeyKnown /\ \A q \in Proc \ {p} : boot[q] # "fill"
    BY <1>8, <2>1, <2>2 DEF KeyKnown, OneKeyFiller
  <2>4. \/ boot'[p] = "up" /\ kek'[p] = p /\ keyfile' = [found |-> "file", kek |-> p, whole |-> TRUE]
        \/ boot'[p] = "down" /\ keyfile' = NoFile
    BY <1>3, <1>14 DEF FillKey, FillKeyFails, BootTo
  <2>. QED  BY <1>10, <2>2, <2>3, <2>4
<1>. QED
  BY <1>11, <1>12, <1>13, <1>14 DEF Boots, BootStep

LEMMA DeathKeepsStore == ASSUME StoreInv, NEW p \in Proc, Dies(p) PROVE StoreInv'
<1>1. StoreTypeOK'
  BY TypesOfStore DEF StoreNext
<1>2. /\ boot \in [Proc -> {"down", "create", "fill", "up"}]
      /\ kek \in [Proc -> Keks \cup {NoKek}] /\ step \in [Writer -> Steps]
  BY DEF StoreInv, StoreTypeOK
<1>3. /\ \A q \in Proc : boot'[q] = IF q = p THEN "down" ELSE boot[q]
      /\ \A q \in Proc \ {p} : kek'[q] = kek[q]
      /\ deployment' = deployment /\ objects' = objects /\ keyfile' = keyfile
  BY <1>2 DEF Dies, BootTo
<1>4. \A w \in Writer : step'[w] = step[w] \/ step'[w] = "raised"
  BY DEF Dies
<1>5. Filling' /\ OneFiller' /\ StoredIsHeld'
  <2>1. \A w \in Writer : step'[w] \in {"fill", "stored"} => step[w] = step'[w]
    BY <1>4
  <2>2. Filling /\ OneFiller /\ StoredIsHeld
    BY DEF StoreInv
  <2>. QED  BY <1>3, <2>1, <2>2 DEF Filling, OneFiller, StoredIsHeld, At
<1>6. CallsAreServed'
  <2>1. \A w \in Writer : step'[w] \notin Terminals => step[w] = step'[w] /\ ProcOf[w] # p
    BY DEF Dies, Terminals
  <2>2. CallsAreServed /\ \A w \in Writer : ProcOf[w] \in Proc
    BY CustodyAssumption DEF StoreInv
  <2>. QED  BY <1>3, <2>1, <2>2 DEF CallsAreServed
<1>7. Servers' = Servers /\ KeyKnown' = KeyKnown /\ SealingKey' = SealingKey
  BY <1>3 DEF Servers, KeyKnown, SealingKey
<1>8. Present' /\ OneKeyFiller' /\ OnlyVolumes'
  BY <1>3, <1>7 DEF StoreInv, Present, OneKeyFiller, OnlyVolumes
<1>9. Loaded'
  <2>1. Loaded /\ Servers \subseteq Proc
    BY CustodyAssumption DEF StoreInv, StoreTypeOK, Servers
  <2>. QED  BY <1>3, <1>7, <2>1 DEF Loaded
<1>10. SealedUnder'
  BY <1>3, <1>7 DEF StoreInv, SealedUnder
<1>. QED  BY <1>1, <1>5, <1>6, <1>8, <1>9, <1>10 DEF StoreInv

LEMMA SameStore == ASSUME StoreInv, UNCHANGED <<deployment, objects, keyfile, boot, kek, step>>,
                          crashes' \in 0..MaxCrash, faults' \in 0..MaxFault
                   PROVE  StoreInv'
<1>1. StoreTypeOK'
  BY DEF StoreInv, StoreTypeOK
<1>2. Filling' /\ OneFiller' /\ StoredIsHeld' /\ CallsAreServed'
  BY DEF StoreInv, Filling, OneFiller, StoredIsHeld, CallsAreServed, At
<1>3. Present' /\ OneKeyFiller' /\ OnlyVolumes'
  BY DEF StoreInv, Present, OneKeyFiller, OnlyVolumes, Servers
<1>4. Loaded' /\ SealedUnder'
  BY DEF StoreInv, Loaded, SealedUnder, Servers, KeyKnown, SealingKey
<1>. QED  BY <1>1, <1>2, <1>3, <1>4 DEF StoreInv

LEMMA StepStore == ASSUME StoreInv, [Next]_vars PROVE StoreInv'
<1>1. CASE UNCHANGED storeVars
  BY <1>1, SameStore DEF storeVars, StoreInv, StoreTypeOK
<1>2. CASE RaisedCall
  <2>1. StoreTypeOK'
    BY <1>2, TypesOfStore DEF StoreNext
  <2>. QED  BY <1>2, <2>1, SameStore DEF RaisedCall, StoreTypeOK
<1>. QED
  BY <1>1, <1>2, NextOfStore, CallsKeepStore, BootsKeepStore, DeathKeepsStore DEF StoreNext, Boots

LEMMA StoreHolds == Spec => []StoreInv
<1>1. Init => StoreInv
  BY InitStore DEF Init
<1>2. StoreInv /\ [Next]_vars => StoreInv'
  BY StepStore
<1>. QED  BY <1>1, <1>2, PTL DEF Spec

-----------------------------------------------------------------------------
(* The write-once register.                                                 *)

Whole(k) == IF objects[k] # NoFile /\ objects[k].whole THEN objects[k].data ELSE NoFile
AnswerOf(w) == IF step[w] = "stored" THEN "stored"
               ELSE IF step[w] \in {"refused", "raised"} THEN "raised" ELSE "none"
HeldNow == [k \in Key |-> Whole(k)]
Answers == [w \in Writer |-> AnswerOf(w)]

LEMMA CallsAreRegisterSteps ==
  ASSUME StoreInv, NEW w \in Writer, BeginWrite(w) \/ WriteStep(w) \/ WriteFault(w)
  PROVE  Register!Next \/ UNCHANGED <<HeldNow, Answers>>
<1>1. Moves(w) \/ Creates(w) \/ Completes(w) \/ Removes(w)
  BY StepOfOneCall
<1>2. KeyOf[w] \in Key /\ step \in [Writer -> Steps] /\ objects \in [Key -> Objects]
  BY CustodyAssumption DEF StoreInv, StoreTypeOK
<1>3. \A b \in BOOLEAN : /\ Object(w, b) # NoFile /\ Object(w, b).whole = b
                          /\ Object(w, b).data = DataOf[w]
  BY ObjectIsAFile DEF StoreInv
<1>. DEFINE Quiet == HeldNow' = HeldNow
            Fresh == Whole(KeyOf[w]) = NoFile /\ HeldNow' = [HeldNow EXCEPT ![KeyOf[w]] = DataOf[w]]
            Says(a) == AnswerOf(w) = "none" /\ Answers' = [Answers EXCEPT ![w] = a]
            Silent == Answers' = Answers
<1>4. ASSUME NEW l \in Steps, step[w] \notin {"stored", "refused", "raised"}, Goto(w, l)
      PROVE  /\ l = "stored" => Says("stored")
             /\ l \in {"refused", "raised"} => Says("raised")
             /\ l \notin {"stored", "refused", "raised"} => Silent
  <2>1. \A v \in Writer : step'[v] = IF v = w THEN l ELSE step[v]
    BY <1>2, <1>4 DEF Goto
  <2>. QED  BY <1>4, <2>1 DEF Answers, AnswerOf
<1>5. ASSUME NEW o, Put(w, o) PROVE \A k \in Key : objects'[k] = IF k = KeyOf[w] THEN o ELSE objects[k]
  BY <1>2, <1>5 DEF Put
<1>6. CASE Moves(w)
  <2>1. Quiet
    BY <1>6 DEF Moves, HeldNow, Whole
  <2>2. \/ Silent \/ Says("raised")
        \/ Held(w) /\ Says("stored")
    BY <1>4, <1>6 DEF Moves, Calls, Steps
  <2>3. Held(w) => HeldNow'[KeyOf[w]] = DataOf[w]
    BY <1>2, <2>1 DEF Held, At, HeldNow, Whole
  <2>. QED
    BY <2>1, <2>2, <2>3 DEF Register!Next, Register!Tell, Answers, AnswerOf, HeldNow, Whole
<1>7. CASE Creates(w)
  <2>1. Quiet
    BY <1>2, <1>3, <1>5, <1>7 DEF Creates, At, HeldNow, Whole
  <2>2. Silent
    BY <1>4, <1>7 DEF Creates, Calls, Steps
  <2>. QED  BY <2>1, <2>2
<1>8. CASE Completes(w)
  <2>1. Whole(KeyOf[w]) = NoFile
    BY <1>8 DEF Completes, Whole, At, StoreInv, Filling
  <2>2. \A k \in Key : Whole(k)' = IF k = KeyOf[w] THEN DataOf[w] ELSE Whole(k)
    BY <1>3, <1>5, <1>8 DEF Completes, Whole
  <2>3. Fresh /\ HeldNow'[KeyOf[w]] = DataOf[w]
    BY <1>2, <2>1, <2>2 DEF HeldNow
  <2>4. Silent \/ Says("raised") \/ Says("stored")
    BY <1>4, <1>8 DEF Completes, Calls, Steps
  <2>5. Register!Store(w)
    BY <1>2, <2>3 DEF Register!Store, HeldNow, Whole
  <2>. QED
    BY <2>3, <2>4, <2>5 DEF Register!Next, Register!Tell, Answers, AnswerOf, HeldNow, Whole
<1>9. CASE Removes(w)
  <2>1. Quiet
    BY <1>2, <1>5, <1>9 DEF Removes, HeldNow, Whole, StoreInv, Filling, At
  <2>2. Says("raised")
    BY <1>4, <1>9 DEF Removes, Calls, Steps
  <2>. QED
    BY <2>1, <2>2 DEF Register!Next, Register!Tell, Answers, AnswerOf, HeldNow, Whole
<1>. QED  BY <1>1, <1>6, <1>7, <1>8, <1>9

LEMMA DeathIsAbandon ==
  ASSUME StoreInv, NEW p \in Proc, Dies(p) PROVE Register!Next \/ UNCHANGED <<HeldNow, Answers>>
<1>1. HeldNow' = HeldNow
  BY DEF Dies, HeldNow, Whole
<1>. DEFINE W == {w \in Writer : AnswerOf(w) = "none" /\ AnswerOf(w)' = "raised"}
<1>2. \A w \in Writer : AnswerOf(w)' = IF w \in W THEN "raised" ELSE AnswerOf(w)
  BY DEF Dies, AnswerOf
<1>3. Answers' = [w \in Writer |-> IF w \in W THEN "raised" ELSE Answers[w]]
  BY <1>2 DEF Answers
<1>4. W \in SUBSET {w \in Writer : Answers[w] = "none"}
  BY DEF Answers
<1>. HIDE DEF W
<1>5. Register!Abandon
  BY <1>1, <1>3, <1>4 DEF Register!Abandon, Answers, AnswerOf, HeldNow, Whole
<1>. QED  BY <1>5 DEF Register!Next

\* The store with its files, envelopes, races and deaths implements the
\* register: what a key holds whole never changes again, and "stored" is said
\* of one's own content only (custody.write_once, S3Storage, EncryptedStorage).
THEOREM StoreIsWriteOnce == Spec => IsWriteOnce
<1>1. Init => Register!Init
  BY CustodyAssumption DEF Init, StoreInit, Register!Init
<1>2. ASSUME StoreInv, [Next]_vars PROVE Register!Next \/ UNCHANGED <<HeldNow, Answers>>
  <2>1. CASE UNCHANGED storeVars \/ RaisedCall
    BY <2>1 DEF storeVars, RaisedCall, HeldNow, Whole, Answers, AnswerOf
  <2>2. ASSUME NEW p \in Proc, Boots(p) PROVE UNCHANGED <<HeldNow, Answers>>
    BY <1>2, <2>2, StepOfOneBoot DEF HeldNow, Whole, Answers, AnswerOf
  <2>. QED
    BY <1>2, <2>1, <2>2, NextOfStore, CallsAreRegisterSteps, DeathIsAbandon DEF StoreNext, Boots
<1>3. StoreInv /\ [Next]_vars => [Register!Next]_<<HeldNow, Answers>>
  BY <1>2
<1>4. StoreInv /\ [Next]_vars
        => [Register!Next]_<<[k \in Key |-> IF objects[k] # NoFile /\ objects[k].whole THEN objects[k].data ELSE NoFile],
                            [w \in Writer |-> IF step[w] = "stored" THEN "stored"
                                              ELSE IF step[w] \in {"refused", "raised"} THEN "raised" ELSE "none"]>>
  BY <1>3 DEF HeldNow, Whole, Answers, AnswerOf
<1>. QED  BY <1>1, <1>4, StoreHolds, PTL DEF Spec, IsWriteOnce, Register!Spec

-----------------------------------------------------------------------------
(* The requests around the store.                                           *)

IntakeTypes ==
  /\ database \in Databases /\ body \in [Upload -> Bodies]
  /\ loop \in [Proc -> Request \cup {NoRequest}]
  /\ tx \in Request \cup {NoRequest}
  /\ pc \in [Request -> Places]
  /\ docs \subseteq Upload

\* From the permission check on, an upload owns the lock its row will need.
LockHeld(u) ==
  database = "sqlite" /\ pc[u] \in {"reading", "scanning", "storing", "recording"} => tx = u

\* A row is written after the store has answered.
Recorded(u) ==
  /\ pc[u] = "recording" \/ u \in docs => step[u] = "stored"
  /\ pc[u] = "done" => u \in docs

\* Where nothing dies or fails, an object is there only with its call.
Undisturbed(u) ==
  crashes = 0 /\ faults = 0 =>
    /\ pc[u] \in {"new", "blocked", "reading", "scanning"} => step[u] = "idle"
    /\ pc[u] \in {"closing", "closed"} => step[u] \in {"idle", "refused", "raised"}
    /\ pc[u] # "dead"
    /\ At(u) # NoFile => step[u] \in {"fill", "stored"}

\* An upload's key holds its own content; the object store has no partial
\* files, and under an envelope a conflict means that something is there.
OwnKey(u) ==
  /\ At(u) # NoFile => At(u).data = DataOf[u]
  /\ deployment.mode = "s3" => step[u] \notin {"look", "create", "compare", "fill"}
  /\ deployment.mode = "s3" /\ deployment.sealed # "no" =>
       step[u] # "refused" /\ (step[u] = "reread" => At(u) # NoFile)

UploadInv ==
  IntakeTypes /\ \A u \in Upload : LockHeld(u) /\ Recorded(u) /\ Undisturbed(u) /\ OwnKey(u)

LEMMA InitUploads == Init => UploadInv
<1>. SUFFICES ASSUME Init PROVE UploadInv
  OBVIOUS
<1>1. IntakeTypes
  BY DEF Init, IntakeTypes, Places, Ended
<1>2. ASSUME NEW u \in Upload PROVE LockHeld(u) /\ Recorded(u) /\ Undisturbed(u) /\ OwnKey(u)
  <2>1. pc[u] = "new" /\ step[u] = "idle" /\ objects[KeyOf[u]] = NoFile /\ docs = {}
    BY CustodyAssumption DEF Init, StoreInit, Upload, Request
  <2>. QED  BY <2>1 DEF LockHeld, Recorded, Undisturbed, OwnKey, At
<1>. QED  BY <1>1, <1>2 DEF UploadInv

\* What another writer's call leaves of an upload.
LEMMA OthersCalls ==
  ASSUME StoreInv, NEW u \in Upload, NEW w \in Writer \ {u},
         BeginWrite(w) \/ WriteStep(w) \/ WriteFault(w)
  PROVE  step'[u] = step[u] /\ At(u)' = At(u)
<1>1. Moves(w) \/ Creates(w) \/ Completes(w) \/ Removes(w)
  BY StepOfOneCall
<1>2. KeyOf[w] # KeyOf[u] /\ KeyOf[u] \in Key /\ u \in Writer
  BY IntakeAssumption, CustodyAssumption DEF Upload
<1>3. step \in [Writer -> Steps] /\ objects \in [Key -> Objects]
  BY DEF StoreInv, StoreTypeOK
<1>. QED
  BY <1>1, <1>2, <1>3 DEF Moves, Creates, Completes, Removes, Calls, Goto, Put, At

LEMMA FaultsCount == ASSUME StoreInv, NEW w \in Writer, WriteFault(w) PROVE faults' # 0
<1>1. faults \in Nat
  BY CustodyAssumption DEF StoreInv, StoreTypeOK
<1>2. Fault
  BY DEF WriteFault, FillFails, PutReplyLost, StoreRaises
<1>. QED  BY <1>1, <1>2 DEF Fault

\* What its own call does to it.
LEMMA OwnCall ==
  ASSUME StoreInv, NEW u \in Upload, OwnKey(u), Undisturbed(u),
         BeginWrite(u) \/ WriteStep(u) \/ WriteFault(u)
  PROVE  /\ OwnKey(u)'
         /\ step[u] \notin {"stored", "refused", "raised"} /\ step'[u] # "idle"
         /\ crashes' = 0 /\ faults' = 0 => faults = 0 /\ crashes = 0 /\ (At(u)' # NoFile => step'[u] \in {"fill", "stored"})
<1>1. KeyOf[u] \in Key /\ u \in Writer /\ (Sealed(u) <=> deployment.sealed # "no")
      /\ (OnFiles(u) <=> deployment.mode = "local")
  BY CustodyAssumption DEF Upload, Sealed, OnFiles, Bundles
<1>2. /\ step \in [Writer -> Steps] /\ objects \in [Key -> Objects] /\ deployment' = deployment
      /\ faults \in Nat /\ crashes' = crashes
  BY <1>1, StepOfOneCall, CustodyAssumption DEF StoreInv, StoreTypeOK
<1>0. deployment.mode \in {"local", "s3"}
  BY CustodyAssumption DEF StoreInv, StoreTypeOK
<1>3. \A b \in BOOLEAN : Object(u, b) # NoFile /\ Object(u, b).data = DataOf[u]
  BY <1>1, ObjectIsAFile DEF StoreInv
<1>4. /\ \A l \in Steps : Goto(u, l) => step'[u] = l
      /\ \A o : Put(u, o) => At(u)' = o
      /\ objects' = objects => At(u)' = At(u)
  BY <1>1, <1>2 DEF Goto, Put, At
<1>5. Refuse(u) => step'[u] = IF deployment.sealed # "no" THEN "reread" ELSE "refused"
  BY <1>1, <1>4 DEF Refuse, Steps
<1>. DEFINE Result ==
       /\ OwnKey(u)'
       /\ step[u] \notin {"stored", "refused", "raised"} /\ step'[u] # "idle"
       /\ crashes' = 0 /\ faults' = 0 => faults = 0 /\ crashes = 0 /\ (At(u)' # NoFile => step'[u] \in {"fill", "stored"})
<1>. USE DEF OwnKey, Undisturbed, Steps
<1>6. CASE BeginWrite(u)
  <2>1. step'[u] = (IF deployment.mode = "local" THEN "look" ELSE "head") /\ At(u)' = At(u) /\ faults' = faults
    BY <1>0, <1>1, <1>4, <1>6 DEF BeginWrite
  <2>. QED  BY <1>0, <1>2, <1>6, <2>1 DEF BeginWrite
<1>7. CASE Look(u)
  BY <1>2, <1>4, <1>7 DEF Look
<1>8. CASE Create(u)
  BY <1>2, <1>3, <1>4, <1>8 DEF Create
<1>9. CASE Compare(u)
  BY <1>2, <1>4, <1>5, <1>9 DEF Compare, SameDigest
<1>10. CASE Fill(u)
  BY <1>2, <1>3, <1>4, <1>10 DEF Fill
<1>11. CASE Head(u)
  BY <1>2, <1>4, <1>5, <1>11 DEF Head, SameDigest
<1>12. CASE PutObject(u)
  BY <1>2, <1>3, <1>4, <1>5, <1>12 DEF PutObject
<1>13. CASE Reread(u)
  BY <1>2, <1>4, <1>13 DEF Reread
<1>14. CASE WriteFault(u)
  <2>1. faults' # 0
    BY <1>1, <1>14, FaultsCount
  <2>2. OwnKey(u)' /\ step[u] \notin {"stored", "refused", "raised"} /\ step'[u] # "idle"
    <3>1. CASE FillFails(u)
      BY <1>2, <1>4, <3>1 DEF FillFails
    <3>2. CASE PutReplyLost(u)
      <4>1. At(u)' = Object(u, TRUE) /\ step'[u] \in {"put", "raised"} /\ step[u] = "put"
        BY <1>4, <3>2 DEF PutReplyLost
      <4>. QED  BY <1>2, <1>3, <4>1
    <3>3. CASE StoreRaises(u)
      <4>1. At(u)' = At(u) /\ step'[u] = "raised" /\ step[u] \in {"head", "put"}
        BY <1>4, <3>3 DEF StoreRaises
      <4>. QED  BY <1>2, <4>1
    <3>. QED  BY <1>14, <3>1, <3>2, <3>3 DEF WriteFault
  <2>. QED  BY <2>1, <2>2
<1>. QED
  BY <1>6, <1>7, <1>8, <1>9, <1>10, <1>11, <1>12, <1>13, <1>14 DEF WriteStep

\* A step that leaves the store alone moves requests.
LEMMA RequestsMove ==
  ASSUME StoreInv, UploadInv, UNCHANGED storeVars, UNCHANGED <<database, body>>,
         NEW r \in Request, NEW l \in Places, Move(r, l),
         loop' \in [Proc -> Request \cup {NoRequest}],
         tx' \in Request \cup {NoRequest}, docs' \in {docs, docs \cup {r}},
         \A u \in Upload \ {r} : database = "sqlite" /\ tx = u => tx' = u,
         docs' = docs \/ (r \in Upload /\ step[r] = "stored"),
         r \in Upload =>
           /\ database = "sqlite" /\ l \in {"reading", "scanning", "storing", "recording"} => tx' = r
           /\ l = "recording" => step[r] = "stored"
           /\ l = "done" => r \in docs'
           /\ crashes = 0 /\ faults = 0 =>
                /\ l \in {"new", "blocked", "reading", "scanning"} => step[r] = "idle"
                /\ l \in {"closing", "closed"} => step[r] \in {"idle", "refused", "raised"}
                /\ l # "dead"
  PROVE  UploadInv'
<1>1. IntakeTypes'
  BY DEF UploadInv, IntakeTypes, Move
<1>2. \A q \in Request : pc'[q] = IF q = r THEN l ELSE pc[q]
  BY DEF UploadInv, IntakeTypes, Move
<1>3. step' = step /\ objects' = objects /\ deployment' = deployment /\ crashes' = crashes /\ faults' = faults
      /\ database' = database
  BY DEF storeVars
<1>4. ASSUME NEW u \in Upload PROVE (LockHeld(u) /\ Recorded(u) /\ Undisturbed(u) /\ OwnKey(u))'
  <2>1. LockHeld(u) /\ Recorded(u) /\ Undisturbed(u) /\ OwnKey(u) /\ u \in Request
    BY <1>4 DEF UploadInv, Request
  <2>2. OwnKey(u)' /\ At(u)' = At(u)
    BY <1>3, <2>1 DEF OwnKey, At
  <2>3. LockHeld(u)'
    BY <1>2, <1>3, <2>1 DEF LockHeld
  <2>4. Recorded(u)'
    BY <1>2, <1>3, <2>1 DEF Recorded
  <2>5. Undisturbed(u)'
    BY <1>2, <1>3, <2>1, <2>2 DEF Undisturbed
  <2>. QED  BY <2>2, <2>3, <2>4, <2>5
<1>. QED  BY <1>1, <1>4 DEF UploadInv

\* A step of the store that leaves the requests where they are.
LEMMA StoreMoves ==
  ASSUME StoreInv, UploadInv, UNCHANGED intakeVars,
         \/ \E w \in Writer : WriteStep(w) \/ WriteFault(w)
         \/ \E w \in Writer \ Upload : BeginWrite(w)
         \/ \E p \in Proc : Boots(p)
  PROVE  UploadInv'
<1>1. IntakeTypes' /\ pc' = pc /\ docs' = docs /\ tx' = tx /\ database' = database
  BY DEF UploadInv, IntakeTypes, intakeVars
<1>2. ASSUME NEW u \in Upload PROVE (LockHeld(u) /\ Recorded(u) /\ Undisturbed(u) /\ OwnKey(u))'
  <2>1. LockHeld(u) /\ Recorded(u) /\ Undisturbed(u) /\ OwnKey(u) /\ u \in Request /\ u \in Writer
    BY <1>2 DEF UploadInv, Request, Upload
  <2>2. LockHeld(u)'
    BY <1>1, <2>1 DEF LockHeld
  <2>3. ASSUME UNCHANGED <<deployment, crashes>>, faults' = 0 => faults = 0, step'[u] = step[u], At(u)' = At(u)
        PROVE  (LockHeld(u) /\ Recorded(u) /\ Undisturbed(u) /\ OwnKey(u))'
    BY <1>1, <2>1, <2>2, <2>3 DEF Recorded, Undisturbed, OwnKey
  <2>4. ASSUME NEW w \in Writer \ {u}, BeginWrite(w) \/ WriteStep(w) \/ WriteFault(w)
        PROVE  (LockHeld(u) /\ Recorded(u) /\ Undisturbed(u) /\ OwnKey(u))'
    <3>1. UNCHANGED <<deployment, crashes>>
      BY <2>4, StepOfOneCall
    <3>2. faults' = 0 => faults = 0
      <4>2. CASE BeginWrite(w) \/ WriteStep(w)
        BY <4>2 DEF BeginWrite, WriteStep, Look, Create, Compare, Fill, Head, PutObject, Reread
      <4>3. CASE WriteFault(w)
        BY <4>3, FaultsCount
      <4>. QED  BY <2>4, <4>2, <4>3
    <3>. QED  BY <2>3, <2>4, <3>1, <3>2, OthersCalls
  <2>5. CASE WriteStep(u) \/ WriteFault(u)
    <3>1. /\ OwnKey(u)'
          /\ step[u] \notin {"stored", "refused", "raised"} /\ step'[u] # "idle"
          /\ crashes' = 0 /\ faults' = 0 => faults = 0 /\ crashes = 0 /\ (At(u)' # NoFile => step'[u] \in {"fill", "stored"})
      BY <2>1, <2>5, OwnCall
    <3>2. step[u] # "idle"
      BY <2>5 DEF WriteStep, WriteFault, Look, Create, Compare, Fill, Head, PutObject, Reread,
                  FillFails, PutReplyLost, StoreRaises
    <3>3. Recorded(u)' /\ Undisturbed(u)'
      BY <1>1, <2>1, <3>1, <3>2 DEF Recorded, Undisturbed
    <3>. QED  BY <2>2, <3>1, <3>3
  <2>6. ASSUME NEW p \in Proc, Boots(p)
        PROVE  (LockHeld(u) /\ Recorded(u) /\ Undisturbed(u) /\ OwnKey(u))'
    <3>1. UNCHANGED <<deployment, objects, step, crashes>>
      BY <2>6, StepOfOneBoot
    <3>2. faults' = 0 => faults = 0
      BY <2>6 DEF Boots, BootStep, BootWithoutFile, LoadKey, CreateKey, FillKey, FillKeyFails, Fault, StoreInv, StoreTypeOK
    <3>. QED  BY <2>3, <3>1, <3>2 DEF At
  <2>. QED  BY <2>1, <2>4, <2>5, <2>6
<1>. QED  BY <1>1, <1>2 DEF UploadInv

\* Who may take SQLite's lock when it is free, and who gives it back.
LEMMA LocksAndLoops ==
  ASSUME UploadInv, NEW r \in Request
  PROVE  /\ ProcessOf(r) \in Proc
         /\ loop \in [Proc -> Request \cup {NoRequest}] /\ tx \in Request \cup {NoRequest}
         /\ Occupy(r) \/ Yield(r) => loop' \in [Proc -> Request \cup {NoRequest}]
         /\ Lockable /\ Lock(r) =>
              /\ tx' \in Request \cup {NoRequest} /\ (database = "sqlite" => tx' = r)
              /\ \A u \in Upload : ~(database = "sqlite" /\ tx = u)
         /\ Unlock(r) => tx' \in Request \cup {NoRequest} /\ \A u \in Upload \ {r} : tx = u => tx' = u
<1>1. ProcessOf(r) \in Proc
  BY CustodyAssumption, IntakeAssumption DEF ProcessOf, Request, Upload
<1>2. loop \in [Proc -> Request \cup {NoRequest}] /\ tx \in Request \cup {NoRequest}
  BY DEF UploadInv, IntakeTypes
<1>3. \A u \in Upload : u # NoRequest
  BY IntakeAssumption DEF Request
<1>. QED  BY <1>1, <1>2, <1>3 DEF Occupy, Yield, Lockable, Lock, Unlock

LEMMA StepsKeepUploads == ASSUME StoreInv, UploadInv, NEW u \in Upload, UploadStep(u) PROVE UploadInv'
<1>1. u \in Request /\ LockHeld(u) /\ Recorded(u) /\ Undisturbed(u) /\ OwnKey(u)
  BY DEF UploadInv, Request
<1>2. loop \in [Proc -> Request \cup {NoRequest}] /\ tx \in Request \cup {NoRequest}
  BY <1>1, LocksAndLoops
<1>3. CASE Require(u)
  <2>1. UNCHANGED <<storeVars, database, body, docs>> /\ pc[u] = "new"
    BY <1>3 DEF Require, frame
  <2>2. \/ Lockable /\ Lock(u) /\ Move(u, "reading") /\ UNCHANGED loop
        \/ Occupy(u) /\ Move(u, "blocked") /\ UNCHANGED tx
    BY <1>3 DEF Require
  <2>. QED  BY <1>1, <1>2, <2>1, <2>2, LocksAndLoops, RequestsMove DEF Places, Undisturbed
<1>4. CASE GetLock(u)
  <2>1. UNCHANGED <<storeVars, database, body, docs>> /\ pc[u] = "blocked"
        /\ Lockable /\ Lock(u) /\ Yield(u) /\ Move(u, "reading")
    BY <1>4 DEF GetLock, frame
  <2>. QED  BY <1>1, <1>2, <2>1, LocksAndLoops, RequestsMove DEF Places, Undisturbed
<1>5. CASE BusyTimeout(u)
  <2>1. UNCHANGED <<storeVars, database, body, docs, tx>> /\ pc[u] = "blocked" /\ Yield(u) /\ Move(u, "closed")
    BY <1>5 DEF BusyTimeout, frame
  <2>. QED  BY <1>1, <1>2, <2>1, LocksAndLoops, RequestsMove DEF Places, Ended, Undisturbed
<1>6. CASE Read(u)
  <2>1. UNCHANGED <<storeVars, database, body, docs, tx, loop>> /\ pc[u] = "reading"
        /\ (Move(u, "closing") \/ Move(u, "scanning"))
    BY <1>6 DEF Read, frame
  <2>. QED  BY <1>1, <1>2, <2>1, RequestsMove DEF Places, Undisturbed, LockHeld
<1>7. CASE Scan(u)
  <2>1. UNCHANGED <<database, body, tx, docs>> /\ pc[u] = "scanning"
    BY <1>7 DEF Scan
  <2>2. CASE UNCHANGED <<loop, storeVars>> /\ Move(u, "closing")
    BY <1>1, <1>2, <2>1, <2>2, RequestsMove DEF Places, Undisturbed
  <2>3. CASE Occupy(u) /\ Move(u, "storing") /\ BeginWrite(u)
    <3>1. IntakeTypes'
      BY <1>1, <2>1, <2>3, LocksAndLoops DEF UploadInv, IntakeTypes, Move, Places
    <3>2. \A q \in Request : pc'[q] = IF q = u THEN "storing" ELSE pc[q]
      BY <2>3 DEF UploadInv, IntakeTypes, Move
    <3>3. u \in Writer /\ UNCHANGED <<deployment, crashes>> /\ faults' = faults
      BY <2>3, StepOfOneCall DEF Upload, BeginWrite
    <3>4. ASSUME NEW v \in Upload PROVE (LockHeld(v) /\ Recorded(v) /\ Undisturbed(v) /\ OwnKey(v))'
      <4>1. LockHeld(v) /\ Recorded(v) /\ Undisturbed(v) /\ OwnKey(v) /\ v \in Request
        BY <3>4 DEF UploadInv, Request
      <4>2. LockHeld(v)'
        BY <1>1, <2>1, <3>2, <4>1 DEF LockHeld
      <4>3. CASE v = u
        <5>1. /\ OwnKey(u)'
              /\ step[u] \notin {"stored", "refused", "raised"}
              /\ crashes' = 0 /\ faults' = 0 => (At(u)' # NoFile => step'[u] \in {"fill", "stored"})
          BY <1>1, <2>3, OwnCall
        <5>2. u \notin docs
          BY <1>1, <5>1 DEF Recorded
        <5>. QED  BY <1>1, <2>1, <3>2, <4>2, <4>3, <5>1, <5>2 DEF Recorded, Undisturbed
      <4>4. CASE v # u
        <5>1. step'[v] = step[v] /\ At(v)' = At(v)
          BY <2>3, <3>3, <4>4, OthersCalls
        <5>. QED  BY <2>1, <3>2, <3>3, <4>1, <4>2, <4>4, <5>1 DEF Recorded, Undisturbed, OwnKey
      <4>. QED  BY <4>3, <4>4
    <3>. QED  BY <3>1, <3>4 DEF UploadInv
  <2>. QED  BY <1>7, <2>2, <2>3 DEF Scan
<1>8. CASE Stored(u)
  <2>1. UNCHANGED <<storeVars, database, body, docs, tx>> /\ pc[u] = "storing"
    BY <1>8 DEF Stored, frame
  <2>2. \/ step[u] = "stored" /\ Move(u, "recording") /\ UNCHANGED loop
        \/ step[u] \in {"refused", "raised"} /\ Move(u, "closing") /\ Yield(u)
    BY <1>8 DEF Stored
  <2>. QED  BY <1>1, <1>2, <2>1, <2>2, LocksAndLoops, RequestsMove DEF Places, LockHeld
<1>9. CASE Record(u)
  <2>1. UNCHANGED <<storeVars, database, body>> /\ pc[u] = "recording" /\ docs' = docs \cup {u}
        /\ Unlock(u) /\ Yield(u) /\ Move(u, "done")
    BY <1>9 DEF Record, frame
  <2>. QED  BY <1>1, <1>2, <2>1, LocksAndLoops, RequestsMove DEF Places, Ended, Recorded
<1>. QED
  BY <1>3, <1>4, <1>5, <1>6, <1>7, <1>8, <1>9 DEF UploadStep

LEMMA FailuresKeepUploads ==
  ASSUME StoreInv, UploadInv, (\E u \in Upload : RecordFails(u)) \/ (\E p \in Proc : Crash(p))
  PROVE  UploadInv'
<1>1. ASSUME NEW u \in Upload, RecordFails(u) PROVE UploadInv'
  <2>1. u \in Request /\ LockHeld(u) /\ Yield(u) /\ Move(u, "closing") /\ pc[u] = "recording"
        /\ UNCHANGED <<deployment, objects, step, crashes, database, body, tx, docs>>
    BY <1>1 DEF RecordFails, UploadInv, Request
  <2>2. Fault
    <3>1. database \in {"sqlite", "postgres"}
      BY IntakeAssumption DEF UploadInv, IntakeTypes
    <3>. QED  BY <1>1, <2>1, <3>1 DEF RecordFails, LockHeld, Lockable
  <2>3. faults' # 0
    BY <2>2, CustodyAssumption DEF Fault, StoreInv, StoreTypeOK
  <2>4. IntakeTypes'
    BY <2>1, LocksAndLoops DEF UploadInv, IntakeTypes, Move, Places
  <2>5. \A q \in Request : pc'[q] = IF q = u THEN "closing" ELSE pc[q]
    BY <2>1 DEF UploadInv, IntakeTypes, Move
  <2>6. ASSUME NEW v \in Upload PROVE (LockHeld(v) /\ Recorded(v) /\ Undisturbed(v) /\ OwnKey(v))'
    <3>1. LockHeld(v) /\ Recorded(v) /\ OwnKey(v) /\ v \in Request
      BY <2>6 DEF UploadInv, Request
    <3>. QED  BY <2>1, <2>3, <2>5, <3>1 DEF LockHeld, Recorded, Undisturbed, OwnKey, At
  <2>. QED  BY <2>4, <2>6 DEF UploadInv
<1>2. ASSUME NEW p \in Proc, Crash(p) PROVE UploadInv'
  <2>1. UNCHANGED <<deployment, objects, faults, database, body, docs>> /\ Dies(p)
    BY <1>2 DEF Crash, Dies
  <2>2. crashes' # 0
    BY <2>1, CustodyAssumption DEF Dies, StoreInv, StoreTypeOK
  <2>3. \A r \in Request : pc'[r] = IF ProcessOf(r) = p /\ pc[r] \notin Ended \cup {"new"} THEN "dead" ELSE pc[r]
    BY <1>2 DEF Crash
  <2>4. IntakeTypes'
    <3>1. pc' \in [Request -> Places]
      BY <1>2 DEF Crash, UploadInv, IntakeTypes, Places, Ended
    <3>2. loop' \in [Proc -> Request \cup {NoRequest}] /\ tx' \in Request \cup {NoRequest}
      BY <1>2 DEF Crash, UploadInv, IntakeTypes
    <3>. QED  BY <2>1, <3>1, <3>2 DEF UploadInv, IntakeTypes
  <2>5. ASSUME NEW v \in Upload PROVE (LockHeld(v) /\ Recorded(v) /\ Undisturbed(v) /\ OwnKey(v))'
    <3>1. LockHeld(v) /\ Recorded(v) /\ OwnKey(v) /\ v \in Request /\ v \in Writer
      BY <2>5 DEF UploadInv, Request, Upload
    <3>2. LockHeld(v)'
      BY <1>2, <2>1, <2>3, <3>1 DEF Crash, LockHeld, Ended
    <3>3. step'[v] = step[v] \/ (step'[v] = "raised" /\ step[v] # "stored")
      BY <2>1, <3>1 DEF Dies
    <3>4. Recorded(v)'
      BY <2>1, <2>3, <3>1, <3>3 DEF Recorded
    <3>5. OwnKey(v)'
      BY <2>1, <3>1, <3>3 DEF OwnKey, At
    <3>. QED  BY <2>2, <3>2, <3>4, <3>5 DEF Undisturbed
  <2>. QED  BY <2>4, <2>5 DEF UploadInv
<1>. QED  BY <1>1, <1>2

LEMMA StepUploads == ASSUME StoreInv, UploadInv, [Next]_vars PROVE UploadInv'
<1>1. CASE UNCHANGED vars
  <2>1. IntakeTypes'
    BY <1>1 DEF vars, intakeVars, UploadInv, IntakeTypes
  <2>2. \A u \in Upload : (LockHeld(u) /\ Recorded(u) /\ Undisturbed(u) /\ OwnKey(u))'
    BY <1>1 DEF vars, intakeVars, storeVars, UploadInv, LockHeld, Recorded, Undisturbed, OwnKey, At
  <2>. QED  BY <2>1, <2>2 DEF UploadInv
<1>2. ASSUME NEW r \in Reader, ReadRows(r) PROVE UploadInv'
  <2>1. UNCHANGED <<storeVars, database, body, loop, docs>> /\ Lockable /\ Lock(r) /\ Move(r, "closing")
        /\ r \in Request /\ r \notin Upload
    BY <1>2, IntakeAssumption DEF ReadRows, frame, Request
  <2>. QED  BY <2>1, LocksAndLoops, RequestsMove DEF Places
<1>3. ASSUME NEW r \in Request, Close(r) PROVE UploadInv'
  <2>1. UNCHANGED <<storeVars, database, body, loop, docs>> /\ Unlock(r) /\ Move(r, "closed") /\ pc[r] = "closing"
    BY <1>3 DEF Close, frame
  <2>2. r \in Upload => Undisturbed(r)
    BY DEF UploadInv
  <2>. QED  BY <2>1, <2>2, LocksAndLoops, RequestsMove DEF Places, Ended, Undisturbed
<1>4. CASE StoreStep \/ StartBundle \/ StoreFault
  BY <1>4, StoreMoves DEF StoreStep, StartBundle, StoreFault, Boots
<1>. QED
  BY <1>1, <1>2, <1>3, <1>4, StepsKeepUploads, FailuresKeepUploads DEF Next, Progress

LEMMA UploadsHold == Spec => [](StoreInv /\ UploadInv)
<1>1. Init => StoreInv /\ UploadInv
  BY InitStore, InitUploads DEF Init
<1>2. StoreInv /\ UploadInv /\ [Next]_vars => (StoreInv /\ UploadInv)'
  BY StepStore, StepUploads
<1>. QED  BY <1>1, <1>2, PTL DEF Spec

\* The variables keep their types (TypeOK), whatever dies or fails.
THEOREM TypeCorrect == Spec => []TypeOK
<1>1. StoreInv /\ UploadInv => TypeOK
  BY DEF StoreInv, UploadInv, IntakeTypes, TypeOK
<1>. QED  BY <1>1, UploadsHold, PTL

\* Rows and originals name each other (RowsNameOriginals): upload_document
\* takes the lock its row needs before it stores, stores before it records,
\* and every process opens what any of them sealed.
THEOREM RowsAndOriginals == Spec => []RowsNameOriginals
<1>1. ASSUME StoreInv, UploadInv PROVE RowHasOriginal
  <2>. SUFFICES ASSUME NEW u \in docs
                PROVE  /\ At(u) # NoFile /\ At(u).whole /\ At(u).data = DataOf[u]
                       /\ \A p \in Servers : boot[p] = "up" => Opens(p, At(u))
    BY DEF RowHasOriginal
  <2>1. u \in Upload /\ u \in Writer /\ Recorded(u) /\ KeyOf[u] \in Key
    BY <1>1, CustodyAssumption DEF UploadInv, IntakeTypes, Upload
  <2>2. At(u) # NoFile /\ At(u).whole /\ At(u).data = DataOf[u]
    BY <1>1, <2>1 DEF Recorded, StoreInv, StoredIsHeld
  <2>3. At(u).kek # NoKek => KeyKnown /\ At(u).kek = SealingKey
    BY <1>1, <2>1, <2>2 DEF StoreInv, SealedUnder, At
  <2>. QED  BY <1>1, <2>2, <2>3 DEF StoreInv, Loaded, Opens
<1>2. ASSUME UploadInv PROVE StoredIsNamed
  BY <1>2 DEF UploadInv, StoredIsNamed, Recorded, Undisturbed, Ended
<1>3. StoreInv /\ UploadInv => RowsNameOriginals
  BY <1>1, <1>2 DEF RowsNameOriginals
<1>. QED  BY <1>3, UploadsHold, PTL

\* Under an envelope the object store refuses nobody's own content
\* (RefusalsAreTrue): what a lost reply left is recognised when it is read
\* back (EncryptedStorage.write_once).
THEOREM NoFalseRefusals == Spec => []RefusalsAreTrue
<1>1. UploadInv => RefusalsAreTrue
  BY DEF UploadInv, OwnKey, RefusalsAreTrue
<1>. QED  BY <1>1, UploadsHold, PTL
=============================================================================
