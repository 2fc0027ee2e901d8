------------------------------ MODULE AuthFiles ------------------------------
(***************************************************************************)
(* Two files of the data volume and the code that provisions them,         *)
(* service/app/config.py: the cookie secret, written plainly by whoever    *)
(* finds it missing and replaced whole by a revocation, and the signing    *)
(* key of release packets, created under O_EXCL.  Every thread of every    *)
(* server process may be anywhere in either; the secrets are numbers, each *)
(* generated once.                                                         *)
(***************************************************************************)
EXTENDS Naturals, FiniteSets

CONSTANTS Thread,        \* the threads of the servers
          Missing, Torn, \* no file; a file created and not yet written
          MaxSecrets     \* bound: how many secrets and keys are generated

ASSUME FilesAssumption ==
  /\ MaxSecrets \in Nat \ {0}
  /\ Missing \notin 0..MaxSecrets /\ Torn \notin 0..MaxSecrets /\ Missing # Torn

VARIABLES cookieFile,    \* Missing, Torn or a secret
          keyFile,       \* the same for the signing key
          made,          \* secrets and keys generated so far
          at,            \* where each thread is
          mine,          \* the secret a thread generated and is to write
          tries,         \* a thread's attempts to create the signing key
          loaded         \* the signing keys threads have come away with

files == <<cookieFile, keyFile, made, mine, tries, loaded>>

NoSecret == 0
KeyTries == 3
Whole(file) == file \in 1..MaxSecrets
Contents == {Missing, Torn} \cup 1..MaxSecrets

Go(t, place) == at' = [at EXCEPT ![t] = place]

\* Threads that found the cookie secret missing and have not written theirs
Writers == {t \in Thread : at[t] \in {"open", "fill"}}

FilesTypeOK ==
  /\ cookieFile \in Contents /\ keyFile \in Contents /\ made \in 0..MaxSecrets
  /\ mine \in [Thread -> 0..MaxSecrets] /\ tries \in [Thread -> 0..KeyTries]
  /\ loaded \subseteq 1..MaxSecrets

FilesInit(cookie) ==
  /\ cookieFile = cookie /\ keyFile = Missing
  /\ made = (IF cookie = Missing THEN 0 ELSE 1)
  /\ mine = [t \in Thread |-> NoSecret] /\ tries = [t \in Thread |-> 0]
  /\ loaded = {}

Generate(t) ==
  /\ made < MaxSecrets
  /\ made' = made + 1
  /\ mine' = [mine EXCEPT ![t] = made + 1]

-----------------------------------------------------------------------------
(* ensure_cookie_secret: the check, the truncating open, the write; the     *)
(* read that follows belongs to the caller                                  *)

\* Mutant: the secret is written without asking whether there is one
LookAlwaysCreates(t) ==
  /\ at[t] = "look"
  /\ Generate(t)
  /\ Go(t, "open")
  /\ UNCHANGED <<cookieFile, keyFile, tries, loaded>>

Look(t) ==
  /\ at[t] = "look"
  /\ \/ /\ cookieFile # Missing
        /\ Go(t, "read")
        /\ UNCHANGED <<made, mine>>
     \/ /\ cookieFile = Missing
        /\ Generate(t)
        /\ Go(t, "open")
  /\ UNCHANGED <<cookieFile, keyFile, tries, loaded>>

Open(t) ==
  /\ at[t] = "open"
  /\ cookieFile' = Torn
  /\ Go(t, "fill")
  /\ UNCHANGED <<keyFile, made, mine, tries, loaded>>

\* A file that was replaced or deleted since the open takes the write with it
Fill(t) ==
  /\ at[t] = "fill"
  /\ cookieFile' = (IF mine[t] = NoSecret THEN cookieFile ELSE mine[t])
  /\ Go(t, IF cookieFile = Missing THEN "idle" ELSE "read")
  /\ mine' = [mine EXCEPT ![t] = NoSecret]
  /\ UNCHANGED <<keyFile, made, tries, loaded>>

\* The write raises: the file stays as the open left it
FillFails(t) ==
  /\ at[t] = "fill"
  /\ Go(t, "idle")
  /\ mine' = [mine EXCEPT ![t] = NoSecret]
  /\ UNCHANGED <<cookieFile, keyFile, made, tries, loaded>>

Orphaned == [t \in Thread |-> IF at[t] = "fill" THEN NoSecret ELSE mine[t]]

\* rotate_cookie_secret: written beside the file, put in its place in one step
Rotate(t) ==
  /\ at[t] = "rotate"
  /\ made < MaxSecrets
  /\ made' = made + 1
  /\ cookieFile' = made + 1
  /\ mine' = Orphaned
  /\ Go(t, "idle")
  /\ UNCHANGED <<keyFile, tries, loaded>>

\* What revoke_sessions names as the way to revoke under single sign-on
HostDeletes ==
  /\ cookieFile # Missing
  /\ cookieFile' = Missing
  /\ mine' = Orphaned
  /\ UNCHANGED <<keyFile, made, at, tries, loaded>>

-----------------------------------------------------------------------------
(* ensure_custody_signing_key *)

FindKey(t) ==
  /\ at[t] = "findKey"
  /\ \/ /\ keyFile # Missing \/ tries[t] = KeyTries
        /\ Go(t, "loadKey")
        /\ tries' = [tries EXCEPT ![t] = 0]
        /\ UNCHANGED <<made, mine>>
     \/ /\ keyFile = Missing /\ tries[t] < KeyTries
        /\ Generate(t)
        /\ tries' = [tries EXCEPT ![t] = @ + 1]
        /\ Go(t, "makeKey")
  /\ UNCHANGED <<cookieFile, keyFile, loaded>>

\* Mutant: the key is created as the cookie secret is, over what is there
MakeKeyOver(t) ==
  /\ at[t] = "makeKey"
  /\ keyFile' = Torn
  /\ Go(t, "fillKey")
  /\ UNCHANGED <<cookieFile, made, mine, tries, loaded>>

\* O_CREAT | O_EXCL: one creates, the others look again
MakeKey(t) ==
  /\ at[t] = "makeKey"
  /\ \/ /\ keyFile = Missing
        /\ keyFile' = Torn
        /\ Go(t, "fillKey")
        /\ UNCHANGED mine
     \/ /\ keyFile # Missing
        /\ Go(t, "findKey")
        /\ mine' = [mine EXCEPT ![t] = NoSecret]
        /\ UNCHANGED keyFile
  /\ UNCHANGED <<cookieFile, made, tries, loaded>>

FillKey(t) ==
  /\ at[t] = "fillKey"
  /\ keyFile' = mine[t]
  /\ Go(t, "findKey")
  /\ mine' = [mine EXCEPT ![t] = NoSecret]
  /\ UNCHANGED <<cookieFile, made, tries, loaded>>

\* A write that raises takes the file it created away again
FillKeyFails(t) ==
  /\ at[t] = "fillKey"
  /\ keyFile' = Missing
  /\ Go(t, "idle")
  /\ mine' = [mine EXCEPT ![t] = NoSecret]
  /\ tries' = [tries EXCEPT ![t] = 0]
  /\ UNCHANGED <<cookieFile, made, loaded>>

\* Fifty attempts at a file that may be half written; then the call raises
LoadKey(t) ==
  /\ at[t] = "loadKey"
  /\ loaded' = (IF Whole(keyFile) THEN loaded \cup {keyFile} ELSE loaded)
  /\ Go(t, "idle")
  /\ UNCHANGED <<cookieFile, keyFile, made, mine, tries>>

==============================================================================
