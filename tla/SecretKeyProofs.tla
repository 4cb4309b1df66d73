--------------------------- MODULE SecretKeyProofs ----------------------------
(***************************************************************************)
(* The theorems about SecretKey: for any number of servers, keys and       *)
(* mishaps, each value in the database has its key in one of the files,    *)
(* a running server opens everything it finds, and a rotation moves all    *)
(* values or none.  The exceptions are those the properties name.          *)
(*                                                                         *)
(* The properties are not inductive.  What makes them so is where the      *)
(* lock keeps servers and a rotation apart (LockInv), what the three files *)
(* hold at each point of a rotation (RotationInv), that a key not yet      *)
(* installed is used by nobody (FreshInv), and that a key in use is on     *)
(* disk and, when nothing went wrong, is the current one (DiskInv,         *)
(* SameInv).                                                               *)
(***************************************************************************)
EXTENDS SecretKey, TLAPS

Raced == "raced" \in upset

\* Servers that start hold the lock, and have a key from the moment they write
\* one or read one; a rotation past its lock runs beside no server but one
\* whose connection dropped.
LockInv ==
    /\ \A s \in Servers :
         /\ server[s] \in {"load", "create", "write", "sealing", "stopping"} => s \in holds
         /\ server[s] = "running" /\ "dropped" \notin upset => s \in holds
         /\ server[s] \in {"write", "sealing", "running"} => key[s] \in Keys
    /\ exclusive = (rotation = "rotate")
    /\ rotation = "rotate" => holds = {}
    /\ rotation \in {"rename", "install"} /\ ~Raced => holds = {}

\* What the files hold at each point of a rotation.
RotationInv ==
    /\ rotation # "idle" => from \in Keys /\ to \in Keys
    /\ rotation \in {"write", "lock", "rotate", "rename"} => current = from
    /\ rotation = "write" => next = EmptyFile
    /\ rotation \in {"lock", "rotate", "rename", "install"} => next = to
    /\ rotation = "install" /\ ~Raced => current = NoFile

\* Keys are numbered as they are made, and the key of a rotation that has not
\* committed is used by nobody.
FreshInv ==
    /\ {current, next, from, to} \cap Keys \subseteq 1 .. made
    /\ old \subseteq 1 .. made
    /\ \A s \in Servers : key[s] \in Keys => key[s] <= made
    /\ \A p \in sealed : p[2] <= made
    /\ rotation \in {"write", "lock", "rotate"} =>
         /\ current # to /\ to \notin old
         /\ \A s \in Servers : key[s] # to
         /\ \A p \in sealed : p[2] # to

\* A key in use is in one of the files, or is being written to one.
DiskInv ==
    /\ KeyForEverything
    /\ upset \cap {"lost", "raced"} = {} =>
         \A s \in Servers : server[s] \in {"sealing", "running"} => key[s] \in KeysOnDisk
    /\ ~Raced => \A s \in Servers :
         server[s] = "write" =>
             current = EmptyFile /\ \A t \in Servers : server[t] = "write" => t = s

\* When nothing went wrong, servers work with the current key, and values are
\* sealed under it or, past the rotation's commit, under the new one.
SameInv ==
    upset = {} =>
        /\ \A s \in Servers : server[s] \in {"sealing", "running"} => key[s] = current
        /\ next = NoFile \/ rotation \in {"write", "lock", "rotate"}
             => \A p \in sealed : p[2] = current
        /\ rotation \in {"rename", "install"} => \A p \in sealed : p[2] = to

Inv == TypeOK /\ LockInv /\ RotationInv /\ FreshInv /\ DiskInv /\ SameInv
-------------------------------------------------------------------------------

LEMMA KeyFacts ==
    ASSUME MaxKeys \in Nat
    PROVE  /\ Keys = 1 .. MaxKeys /\ Keys \subseteq Nat
           /\ NoFile \notin Keys /\ EmptyFile \notin Keys /\ EmptyFile # NoFile
BY DEF Keys, NoFile, EmptyFile

USE DEF files, db, srv, rot, Raced

\* What the proofs assume of the constants.
Bounds == MaxKeys \in Nat /\ MaxMishaps \in Nat

LEMMA InitInv == ASSUME Bounds, Init PROVE Inv
<1>1. TypeOK
  <2>1. plain \in BOOLEAN /\ exclusive \in BOOLEAN
    BY Zenon DEF Init
  <2> QED BY <2>1 DEF Bounds, Init, TypeOK, Content, Keys
<1>2. LockInv /\ RotationInv
  BY Zenon, KeyFacts DEF Bounds, Init, LockInv, RotationInv
<1>3. FreshInv
  BY KeyFacts DEF Bounds, Init, FreshInv
<1>4. DiskInv /\ SameInv
  BY Zenon DEF Init, DiskInv, SameInv, KeyForEverything
<1> QED BY Zenon, <1>1, <1>2, <1>3, <1>4 DEF Inv

LEMMA HoldStep == ASSUME Bounds, Inv, NEW s \in Servers, HoldRunningLock(s) PROVE Inv'
<1> USE DEF Inv, HoldRunningLock
<1>1. TypeOK'
  BY KeyFacts DEF Bounds, TypeOK, Content, LockInv, RotationInv
<1>2. LockInv'
  BY Zenon, KeyFacts DEF Bounds, LockInv, RotationInv, TypeOK
<1>3. RotationInv'
  BY KeyFacts DEF Bounds, LockInv, RotationInv, DiskInv, TypeOK
<1>4. FreshInv'
  BY Zenon, KeyFacts DEF Bounds, FreshInv, RotationInv, LockInv, TypeOK
<1>5. DiskInv'
  BY KeyFacts DEF Bounds, DiskInv, KeyForEverything, KeysOnDisk, RotationInv, FreshInv, LockInv, TypeOK
<1>6. SameInv'
  BY KeyFacts DEF Bounds, SameInv, LockInv, DiskInv, RotationInv, TypeOK
<1> QED BY Zenon, <1>1, <1>2, <1>3, <1>4, <1>5, <1>6

LEMMA LoadStep == ASSUME Bounds, Inv, NEW s \in Servers, LoadOrCreateFile(s) PROVE Inv'
<1> USE DEF Inv, LoadOrCreateFile
<1>1. TypeOK'
  BY Zenon, KeyFacts DEF Bounds, TypeOK, Content, LockInv, RotationInv
<1>2. LockInv'
  BY KeyFacts DEF Bounds, Content, LockInv, RotationInv, TypeOK
<1>3. RotationInv'
  BY Zenon, KeyFacts DEF Bounds, LockInv, RotationInv, DiskInv, TypeOK
<1>4. FreshInv'
  BY KeyFacts DEF Bounds, FreshInv, RotationInv, LockInv, TypeOK
<1>5. DiskInv'
  BY KeyFacts DEF Bounds, DiskInv, KeyForEverything, KeysOnDisk, RotationInv, FreshInv, LockInv, TypeOK, Content
<1>6. SameInv'
  BY KeyFacts DEF Bounds, SameInv, TypeOK, Content
<1> QED BY <1>1, <1>2, <1>3, <1>4, <1>5, <1>6

LEMMA CreateStep == ASSUME Bounds, Inv, NEW s \in Servers, CreateKeyFile(s) PROVE Inv'
<1> USE DEF Inv, CreateKeyFile
<1>1. TypeOK'
  BY KeyFacts DEF Bounds, TypeOK, Content, LockInv, RotationInv
<1>2. LockInv'
  BY KeyFacts DEF Bounds, LockInv, RotationInv, TypeOK
<1>3. RotationInv'
  BY KeyFacts DEF Bounds, LockInv, RotationInv, DiskInv, TypeOK
<1>4. FreshInv'
  BY KeyFacts DEF Bounds, FreshInv, RotationInv, LockInv, TypeOK
<1>5. DiskInv'
  BY KeyFacts DEF Bounds, DiskInv, KeyForEverything, KeysOnDisk, RotationInv, FreshInv, LockInv, TypeOK
<1>6. SameInv'
  BY KeyFacts DEF Bounds, SameInv, LockInv, DiskInv, RotationInv, TypeOK
<1> QED BY <1>1, <1>2, <1>3, <1>4, <1>5, <1>6

LEMMA WriteStep == ASSUME Bounds, Inv, NEW s \in Servers, WriteKeyFile(s) PROVE Inv'
<1> USE DEF Inv, WriteKeyFile
<1>1. TypeOK'
  BY Zenon, KeyFacts DEF Bounds, TypeOK, Content, LockInv, RotationInv
<1>2. LockInv'
  BY KeyFacts DEF Bounds, LockInv, RotationInv, TypeOK
<1>3. RotationInv'
  BY KeyFacts DEF Bounds, LockInv, RotationInv, DiskInv, TypeOK
<1>4. FreshInv'
  BY KeyFacts DEF Bounds, FreshInv, RotationInv, LockInv, TypeOK
<1>5. DiskInv'
  BY KeyFacts DEF Bounds, DiskInv, KeyForEverything, KeysOnDisk, RotationInv, FreshInv, LockInv, TypeOK
<1>6. SameInv'
  BY KeyFacts DEF Bounds, SameInv, LockInv, DiskInv, RotationInv, TypeOK
<1> QED BY <1>1, <1>2, <1>3, <1>4, <1>5, <1>6

LEMMA SealTOTPStep == ASSUME Bounds, Inv, NEW s \in Servers, SealTOTPSecrets(s) PROVE Inv'
<1> USE DEF Inv, SealTOTPSecrets
<1>1. TypeOK'
  <2>1. plain' \in BOOLEAN
    OBVIOUS
  <2>2. sealed' \subseteq Kinds \X Keys
    BY DEF TypeOK, LockInv, Kinds
  <2> QED BY Zenon, <2>1, <2>2 DEF TypeOK
<1>2. LockInv'
  BY KeyFacts DEF Bounds, LockInv, RotationInv, TypeOK
<1>3. RotationInv'
  BY Zenon, KeyFacts DEF Bounds, LockInv, RotationInv, DiskInv, TypeOK
<1>4. FreshInv'
  BY KeyFacts DEF Bounds, FreshInv, RotationInv, LockInv, TypeOK
<1>5. DiskInv'
  BY KeyFacts DEF Bounds, DiskInv, KeyForEverything, KeysOnDisk, RotationInv, FreshInv, LockInv, TypeOK
<1>6. SameInv'
  BY KeyFacts DEF Bounds, SameInv, LockInv, DiskInv, RotationInv, TypeOK
<1> QED BY Zenon, <1>1, <1>2, <1>3, <1>4, <1>5, <1>6

LEMMA SealStep == ASSUME Bounds, Inv, NEW s \in Servers, NEW kind \in Kinds, Seal(s, kind) PROVE Inv'
<1> USE DEF Inv, Seal
<1>1. TypeOK'
  BY KeyFacts DEF Bounds, TypeOK, Content, LockInv, RotationInv
<1>2. LockInv'
  BY Zenon, KeyFacts DEF Bounds, LockInv, RotationInv, TypeOK
<1>3. RotationInv'
  BY Zenon, KeyFacts DEF Bounds, LockInv, RotationInv, DiskInv, TypeOK
<1>4. FreshInv'
  BY KeyFacts DEF Bounds, FreshInv, RotationInv, LockInv, TypeOK
<1>5. DiskInv'
  BY KeyFacts DEF Bounds, DiskInv, KeyForEverything, KeysOnDisk, RotationInv, FreshInv, LockInv, TypeOK
<1>6. SameInv'
  BY KeyFacts DEF Bounds, SameInv, LockInv, DiskInv, RotationInv, TypeOK
<1> QED BY Zenon, <1>1, <1>2, <1>3, <1>4, <1>5, <1>6

LEMMA CloseStep == ASSUME Bounds, Inv, NEW s \in Servers, Close(s) PROVE Inv'
<1> USE DEF Inv, Close
<1>1. TypeOK'
  BY Zenon, KeyFacts DEF Bounds, TypeOK, Content, LockInv, RotationInv
<1>2. LockInv'
  BY KeyFacts DEF Bounds, LockInv, RotationInv, TypeOK
<1>3. RotationInv'
  BY Zenon, KeyFacts DEF Bounds, LockInv, RotationInv, DiskInv, TypeOK
<1>4. FreshInv'
  BY KeyFacts DEF Bounds, FreshInv, RotationInv, LockInv, TypeOK
<1>5. DiskInv'
  BY KeyFacts DEF Bounds, DiskInv, KeyForEverything, KeysOnDisk, RotationInv, FreshInv, LockInv, TypeOK
<1>6. SameInv'
  BY KeyFacts DEF Bounds, SameInv, LockInv, DiskInv, RotationInv, TypeOK
<1> QED BY <1>1, <1>2, <1>3, <1>4, <1>5, <1>6

LEMMA ServerCrashStep == ASSUME Bounds, Inv, NEW s \in Servers, ServerCrash(s) PROVE Inv'
<1> USE DEF Inv, ServerCrash, Mishap
<1>1. TypeOK'
  BY KeyFacts DEF Bounds, TypeOK, Content, LockInv, RotationInv
<1>2. LockInv'
  BY KeyFacts DEF Bounds, LockInv, RotationInv, TypeOK
<1>3. RotationInv'
  BY Zenon, KeyFacts DEF Bounds, LockInv, RotationInv, DiskInv, TypeOK
<1>4. FreshInv'
  BY KeyFacts DEF Bounds, FreshInv, RotationInv, LockInv, TypeOK
<1>5. DiskInv'
  BY KeyFacts DEF Bounds, DiskInv, KeyForEverything, KeysOnDisk, RotationInv, FreshInv, LockInv, TypeOK
<1>6. SameInv'
  BY KeyFacts DEF Bounds, SameInv, LockInv, DiskInv, RotationInv, TypeOK
<1> QED BY <1>1, <1>2, <1>3, <1>4, <1>5, <1>6

LEMMA DropStep == ASSUME Bounds, Inv, NEW s \in Servers, DropLock(s) PROVE Inv'
<1> USE DEF Inv, DropLock, Mishap
<1>1. TypeOK'
  BY KeyFacts DEF Bounds, TypeOK, Content, LockInv, RotationInv
<1>2. LockInv'
  BY Zenon, KeyFacts DEF Bounds, LockInv, RotationInv, TypeOK
<1>3. RotationInv'
  BY KeyFacts DEF Bounds, LockInv, RotationInv, DiskInv, TypeOK
<1>4. FreshInv'
  BY Zenon, KeyFacts DEF Bounds, FreshInv, RotationInv, LockInv, TypeOK
<1>5. DiskInv'
  BY KeyFacts DEF Bounds, DiskInv, KeyForEverything, KeysOnDisk, RotationInv, FreshInv, LockInv, TypeOK
<1>6. SameInv'
  BY Zenon, KeyFacts DEF Bounds, SameInv, LockInv, DiskInv, RotationInv, TypeOK
<1> QED BY Zenon, <1>1, <1>2, <1>3, <1>4, <1>5, <1>6

LEMMA RotateCmdStep == ASSUME Bounds, Inv, RotateKeyCmd PROVE Inv'
<1> USE DEF Inv, RotateKeyCmd
<1>1. TypeOK'
  BY KeyFacts DEF Bounds, TypeOK, Content, LockInv, RotationInv
<1>2. LockInv'
  BY KeyFacts DEF Bounds, LockInv, RotationInv, TypeOK
<1>3. RotationInv'
  BY KeyFacts DEF Bounds, LockInv, RotationInv, DiskInv, TypeOK
<1>4. FreshInv'
  <2>1. made \in Nat /\ made' = made + 1 /\ 1 .. made \subseteq 1 .. made'
    BY KeyFacts DEF Bounds, TypeOK
  <2>2. {current, next, from, to}' \cap Keys \subseteq 1 .. made'
    BY <2>1, KeyFacts DEF Bounds, FreshInv, TypeOK
  <2>3. old' \subseteq 1 .. made' /\ to' \notin old'
    BY <2>1, KeyFacts DEF Bounds, FreshInv, TypeOK
  <2>4. \A t \in Servers : (key'[t] \in Keys => key'[t] <= made') /\ key'[t] # to'
    BY <2>1, KeyFacts DEF Bounds, FreshInv, TypeOK
  <2>5. \A p \in sealed' : p[2] <= made' /\ p[2] # to'
    BY <2>1, KeyFacts DEF Bounds, FreshInv, TypeOK
  <2>6. current' # to'
    <3>1. current \in 1 .. made /\ current' = current
      BY Zenon DEF FreshInv
    <3> QED BY <2>1, <3>1
  <2> QED BY Zenon, <2>2, <2>3, <2>4, <2>5, <2>6 DEF FreshInv
<1>5. DiskInv'
  BY KeyFacts DEF Bounds, DiskInv, KeyForEverything, KeysOnDisk, RotationInv, FreshInv, LockInv, TypeOK
<1>6. SameInv'
  BY Zenon, KeyFacts DEF Bounds, SameInv, LockInv, DiskInv, RotationInv, TypeOK
<1> QED BY <1>1, <1>2, <1>3, <1>4, <1>5, <1>6

LEMMA WriteNewStep == ASSUME Bounds, Inv, WriteNew PROVE Inv'
<1> USE DEF Inv, WriteNew
<1>1. TypeOK'
  BY Zenon, KeyFacts DEF Bounds, TypeOK, Content, LockInv, RotationInv
<1>2. LockInv'
  BY Zenon, KeyFacts DEF Bounds, LockInv, RotationInv, TypeOK
<1>3. RotationInv'
  BY KeyFacts DEF Bounds, LockInv, RotationInv, DiskInv, TypeOK
<1>4. FreshInv'
  BY Zenon, KeyFacts DEF Bounds, FreshInv, RotationInv, LockInv, TypeOK
<1>5. DiskInv'
  BY KeyFacts DEF Bounds, DiskInv, KeyForEverything, KeysOnDisk, RotationInv, FreshInv, LockInv, TypeOK
<1>6. SameInv'
  BY KeyFacts DEF Bounds, SameInv, LockInv, DiskInv, RotationInv, TypeOK
<1> QED BY Zenon, <1>1, <1>2, <1>3, <1>4, <1>5, <1>6

LEMMA LockStep == ASSUME Bounds, Inv, WithServersStopped PROVE Inv'
<1> USE DEF Inv, WithServersStopped, RotationEnds
<1>1. TypeOK'
  BY Zenon, KeyFacts DEF Bounds, TypeOK, Content, LockInv, RotationInv
<1>2. LockInv'
  BY Zenon, KeyFacts DEF Bounds, LockInv, RotationInv, TypeOK
<1>3. RotationInv'
  BY Zenon, KeyFacts DEF Bounds, LockInv, RotationInv, DiskInv, TypeOK
<1>4. FreshInv'
  BY Zenon, KeyFacts DEF Bounds, FreshInv, RotationInv, LockInv, TypeOK
<1>5. DiskInv'
  BY KeyFacts DEF Bounds, DiskInv, KeyForEverything, KeysOnDisk, RotationInv, FreshInv, LockInv, TypeOK
<1>6. SameInv'
  BY Zenon, KeyFacts DEF Bounds, SameInv, LockInv, DiskInv, RotationInv, TypeOK
<1> QED BY Zenon, <1>1, <1>2, <1>3, <1>4, <1>5, <1>6

LEMMA RotateStep == ASSUME Bounds, Inv, Rotate PROVE Inv'
<1> USE DEF Inv, Rotate, RotationEnds, Mishap, Reseal
<1>1. TypeOK'
  <2>1. exclusive' \in BOOLEAN
    OBVIOUS
  <2>2. from \in Keys /\ to \in Keys /\ sealed' \subseteq Kinds \X Keys
    BY DEF TypeOK, RotationInv
  <2>3. rotation' \in {"idle", "rename"} /\ {from, to}' \subseteq Keys \cup {NoFile}
    BY Zenon, <2>2
  <2>4. next' \in Content /\ upset' \subseteq {"raced", "dropped", "lost"}
    BY Zenon DEF TypeOK, Content
  <2>5. mishaps' \in 0 .. MaxMishaps
    <3>1. mishaps \in 0 .. MaxMishaps /\ (mishaps' = mishaps \/ Mishap)
      BY Zenon DEF TypeOK
    <3> QED BY <3>1 DEF Bounds, Mishap
  <2> QED BY Zenon, <2>1, <2>2, <2>3, <2>4, <2>5 DEF TypeOK
<1>2. LockInv'
  BY Zenon, KeyFacts DEF Bounds, LockInv, RotationInv, TypeOK
<1>3. RotationInv'
  BY KeyFacts DEF Bounds, LockInv, RotationInv, DiskInv, TypeOK
<1>4. FreshInv'
  BY KeyFacts DEF Bounds, FreshInv, RotationInv, LockInv, TypeOK
<1>5. DiskInv'
  BY KeyFacts DEF Bounds, DiskInv, KeyForEverything, KeysOnDisk, RotationInv, FreshInv, LockInv, TypeOK
<1>6. SameInv'
  BY KeyFacts DEF Bounds, SameInv, LockInv, DiskInv, RotationInv, TypeOK
<1> QED BY Zenon, <1>1, <1>2, <1>3, <1>4, <1>5, <1>6

LEMMA RenameOldStep == ASSUME Bounds, Inv, RenameOld PROVE Inv'
<1> USE DEF Inv, RenameOld
<1>1. TypeOK'
  BY Zenon, KeyFacts DEF Bounds, TypeOK, Content, LockInv, RotationInv
<1>2. LockInv'
  BY Zenon, KeyFacts DEF Bounds, LockInv, RotationInv, TypeOK
<1>3. RotationInv'
  BY Zenon, KeyFacts DEF Bounds, LockInv, RotationInv, DiskInv, TypeOK
<1>4. FreshInv'
  BY Zenon, KeyFacts DEF Bounds, FreshInv, RotationInv, LockInv, TypeOK
<1>5. DiskInv'
  BY KeyFacts DEF Bounds, DiskInv, KeyForEverything, KeysOnDisk, RotationInv, FreshInv, LockInv, TypeOK
<1>6. SameInv'
  BY KeyFacts DEF Bounds, SameInv, LockInv, DiskInv, RotationInv, TypeOK
<1> QED BY Zenon, <1>1, <1>2, <1>3, <1>4, <1>5, <1>6

LEMMA RenameNewStep == ASSUME Bounds, Inv, RenameNew PROVE Inv'
<1> USE DEF Inv, RenameNew, RotationEnds
<1>1. TypeOK'
  BY Zenon, KeyFacts DEF Bounds, TypeOK, Content, LockInv, RotationInv
<1>2. LockInv'
  BY Zenon, KeyFacts DEF Bounds, LockInv, RotationInv, TypeOK
<1>3. RotationInv'
  BY Zenon, KeyFacts DEF Bounds, LockInv, RotationInv, DiskInv, TypeOK
<1>4. FreshInv'
  BY KeyFacts DEF Bounds, FreshInv, RotationInv, LockInv, TypeOK
<1>5. DiskInv'
  BY Zenon, KeyFacts DEF Bounds, DiskInv, KeyForEverything, KeysOnDisk, RotationInv, FreshInv, LockInv, TypeOK
<1>6. SameInv'
  BY Zenon, KeyFacts DEF Bounds, SameInv, LockInv, DiskInv, RotationInv, TypeOK
<1> QED BY <1>1, <1>2, <1>3, <1>4, <1>5, <1>6

LEMMA RotationCrashStep == ASSUME Bounds, Inv, RotationCrash PROVE Inv'
<1> USE DEF Inv, RotationCrash, RotationEnds, Mishap
<1>1. TypeOK'
  <2>1. exclusive' \in BOOLEAN
    OBVIOUS
  <2> QED BY <2>1 DEF Bounds, TypeOK, Content, RotationInv
<1>2. LockInv'
  BY Zenon, KeyFacts DEF Bounds, LockInv, RotationInv, TypeOK
<1>3. RotationInv'
  BY Zenon, KeyFacts DEF Bounds, LockInv, RotationInv, DiskInv, TypeOK
<1>4. FreshInv'
  BY KeyFacts DEF Bounds, FreshInv, RotationInv, LockInv, TypeOK
<1>5. DiskInv'
  BY Zenon, KeyFacts DEF Bounds, DiskInv, KeyForEverything, KeysOnDisk, RotationInv, FreshInv, LockInv, TypeOK
<1>6. SameInv'
  BY Zenon, KeyFacts DEF Bounds, SameInv, LockInv, DiskInv, RotationInv, TypeOK
<1> QED BY Zenon, <1>1, <1>2, <1>3, <1>4, <1>5, <1>6

LEMMA ByHandStep == ASSUME Bounds, Inv, ByHand PROVE Inv'
<1> USE DEF Inv, ByHand
<1>1. TypeOK'
  BY Zenon, KeyFacts DEF Bounds, TypeOK, Content, LockInv, RotationInv
<1>2. LockInv'
  BY Zenon, KeyFacts DEF Bounds, LockInv, RotationInv, TypeOK
<1>3. RotationInv'
  BY Zenon, KeyFacts DEF Bounds, LockInv, RotationInv, DiskInv, TypeOK
<1>4. FreshInv'
  BY Zenon, KeyFacts DEF Bounds, FreshInv, RotationInv, LockInv, TypeOK
<1>5. DiskInv'
  BY KeyFacts DEF Bounds, DiskInv, KeyForEverything, KeysOnDisk, RotationInv, FreshInv, LockInv, TypeOK
<1>6. SameInv'
  BY Zenon, KeyFacts DEF Bounds, SameInv, LockInv, DiskInv, RotationInv, TypeOK
<1> QED BY <1>1, <1>2, <1>3, <1>4, <1>5, <1>6

LEMMA NextStep == ASSUME Bounds, Inv, [Next]_vars PROVE Inv'
<1>1. CASE \E s \in Servers : Start(s)
  BY Zenon, <1>1, HoldStep, LoadStep, CreateStep, WriteStep, SealTOTPStep DEF Start
<1>2. CASE \E s \in Servers : Close(s) \/ ServerCrash(s) \/ DropLock(s)
  BY <1>2, CloseStep, ServerCrashStep, DropStep
<1>3. CASE \E s \in Servers, kind \in Kinds : Seal(s, kind)
  BY <1>3, SealStep
<1>4. CASE RotationStep
  BY Zenon, <1>4, WriteNewStep, LockStep, RotateStep, RenameOldStep, RenameNewStep DEF RotationStep
<1>5. CASE RotateKeyCmd \/ RotationCrash \/ ByHand
  BY <1>5, RotateCmdStep, RotationCrashStep, ByHandStep
<1>6. CASE UNCHANGED vars
  <2>1. TypeOK' /\ LockInv' /\ RotationInv' /\ FreshInv'
    BY <1>6 DEF vars, Inv, TypeOK, LockInv, RotationInv, FreshInv
  <2>2. DiskInv' /\ SameInv'
    BY <1>6 DEF vars, Inv, DiskInv, KeyForEverything, KeysOnDisk, SameInv
  <2> QED BY Zenon, <2>1, <2>2 DEF Inv
<1> QED BY Zenon, <1>1, <1>2, <1>3, <1>4, <1>5, <1>6 DEF Next

-------------------------------------------------------------------------------

\* Servers, rotations and crashes keep Inv, for any number of each.
THEOREM Invariance == ASSUME Bounds PROVE Spec => []Inv
<1>1. Init => Inv
  BY Zenon, InitInv
<1>2. Inv /\ [Next]_vars => Inv'
  BY NextStep
<1> QED BY <1>1, <1>2, PTL DEF Spec

\* Each value was sealed under a key that is still in one of the files, wherever
\* a start or a rotation is cut short (rotateKeyCmd, rekey.Rotate,
\* secrets.LoadOrCreateFile).
THEOREM NoKeyLost == ASSUME Bounds PROVE Spec => []KeyForEverything
<1>1. Inv => KeyForEverything
  BY DEF Inv, DiskInv
<1> QED BY <1>1, Invariance, PTL

\* A running server opens everything it finds, while no lock dropped, no answer
\* to a commit was lost, no start came between commit and rename, and no
\* secret.key.new waits (rekey.Rotate, store.HoldRunningLock).
THEOREM RunningServerOpens == ASSUME Bounds PROVE Spec => []OpensEverything
<1>1. Inv => OpensEverything
  BY DEF Inv, SameInv, OpensEverything
<1> QED BY <1>1, Invariance, PTL

\* A rotation that goes on to install the new key has sealed every value under
\* it (rekey.Rotate).
THEOREM RotatesEverything == Spec => AllOrNothing
<1>1. ASSUME [Next]_vars PROVE [AllOrNothingStep]_vars
  <2>1. CASE Rotate
    BY <2>1 DEF Rotate, Reseal, RotationEnds, AllOrNothingStep
  <2>2. CASE rotation # "rotate" \/ rotation' # "rename"
    BY Zenon, <2>2 DEF AllOrNothingStep
  <2>3. \/ UNCHANGED vars \/ Rotate \/ rotation # "rotate" \/ rotation' # "rename"
    BY Zenon, <1>1 DEF Next, Start, HoldRunningLock, LoadOrCreateFile, CreateKeyFile, WriteKeyFile,
                SealTOTPSecrets, Close, ServerCrash, DropLock, Seal, RotateKeyCmd,
                RotationStep, WriteNew, WithServersStopped, RenameOld, RenameNew,
                RotationEnds, RotationCrash, ByHand
  <2> QED BY <2>1, <2>2, <2>3
<1> QED BY <1>1, PTL DEF Spec, AllOrNothing

===============================================================================
