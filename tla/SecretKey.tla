------------------------------ MODULE SecretKey ------------------------------
(***************************************************************************)
(* The server's secret key: the key file in the data directory             *)
(* (server/secrets), the servers that read or create it as they start      *)
(* (server/app), the values they seal under it, and the rotation of the    *)
(* key by `retune-server rotate-secret-key` (cmd/retune-server,            *)
(* server/rekey, server/store/rekey.go).                                   *)
(*                                                                         *)
(* A key is the number of its generation.  The database is the set of      *)
(* <<kind, key>> pairs something is sealed under.  The advisory lock       *)
(* ServerRunningLock is held shared by servers, each on a connection of    *)
(* its own, and exclusively by the rotation's transaction.  A step is one  *)
(* file operation or one transaction; a process may die between any two.   *)
(* The key supplied in SECRET_KEY is left out: nothing is renamed there.   *)
(***************************************************************************)
EXTENDS Naturals, FiniteSets

CONSTANTS
    Servers,
    MaxKeys,              \* bound: keys ever generated
    MaxSealed,            \* bound: kinds and keys the database holds values of
    MaxMishaps            \* bound: processes that die and connections that drop

\* What is sealed under the server's key.
Kinds == {"totp", "bitlocker", "password", "channel", "profile"}

Keys      == 1 .. MaxKeys
NoFile    == 0
EmptyFile == MaxKeys + 1   \* created, and not written yet
Content   == Keys \cup {NoFile, EmptyFile}

VARIABLES
    current,    \* secret.key
    next,       \* secret.key.new
    old,        \* the keys in secret.key.old-<time> files
    made,       \* how many keys were generated
    sealed,     \* the <<kind, key>> pairs the database holds a value for
    plain,      \* whether an authenticator secret is stored in the clear
    server,     \* where each server is
    key,        \* the key each server holds, NoFile for none
    holds,      \* the servers whose connection holds the shared lock
    rotation,   \* where the rotation command is
    from, to,   \* the rotation's two keys
    exclusive,  \* whether the rotation holds the lock
    mishaps,    \* how many mishaps there were
    upset       \* which of them the locks and the error paths do not provide for

files == <<current, next, old, made>>
db    == <<sealed, plain>>
srv   == <<server, key, holds>>
rot   == <<rotation, from, to, exclusive>>
vars  == <<files, db, srv, rot, mishaps, upset>>

\* A connection or a process is lost.
Mishap == mishaps < MaxMishaps /\ mishaps' = mishaps + 1

KeysOnDisk == ({current, next} \cup old) \cap Keys

-----------------------------------------------------------------------------
\* A server starts.

\* The shared lock waits for a rotation's transaction and for nothing else.
HoldRunningLock(s) ==
    /\ server[s] = "down"
    /\ ~exclusive
    /\ holds' = holds \cup {s}
    /\ server' = [server EXCEPT ![s] = "load"]
    /\ upset' = IF rotation \in {"rename", "install"} THEN upset \cup {"raced"} ELSE upset
    /\ UNCHANGED <<files, db, key, rot, mishaps>>

\* The key is read, or is found missing and made.
LoadOrCreateFile(s) ==
    /\ server[s] = "load"
    /\ server' = [server EXCEPT ![s] = IF current = NoFile THEN "create"
                                       ELSE IF current = EmptyFile THEN "stopping"
                                       ELSE "sealing"]
    /\ key' = [key EXCEPT ![s] = IF current \in Keys THEN current ELSE NoFile]
    /\ UNCHANGED <<files, db, holds, rot, mishaps, upset>>

CreateOver(s) ==
    /\ server[s] = "create"
    /\ made < MaxKeys
    /\ made' = made + 1
    /\ current' = EmptyFile
    /\ key' = [key EXCEPT ![s] = made + 1]
    /\ server' = [server EXCEPT ![s] = "write"]
    /\ UNCHANGED <<next, old, db, holds, rot, mishaps, upset>>

\* O_EXCL: whoever is second reads what the first one wrote.
CreateKeyFile(s) ==
    /\ server[s] = "create"
    /\ IF current # NoFile
       THEN /\ server' = [server EXCEPT ![s] = "load"]
            /\ UNCHANGED <<made, current, key>>
       ELSE /\ made < MaxKeys
            /\ made' = made + 1
            /\ current' = EmptyFile
            /\ key' = [key EXCEPT ![s] = made + 1]
            /\ server' = [server EXCEPT ![s] = "write"]
    /\ UNCHANGED <<next, old, db, holds, rot, mishaps, upset>>

WriteKeyFile(s) ==
    /\ server[s] = "write"
    /\ current' = IF current = EmptyFile THEN key[s] ELSE current
    /\ server' = [server EXCEPT ![s] = "sealing"]
    /\ UNCHANGED <<next, old, made, db, key, holds, rot, mishaps, upset>>

\* The last thing a start does: secrets an earlier version stored in the
\* clear are sealed.
SealTOTPSecrets(s) ==
    /\ server[s] = "sealing"
    /\ sealed' = IF plain THEN sealed \cup {<<"totp", key[s]>>} ELSE sealed
    /\ plain' = FALSE
    /\ server' = [server EXCEPT ![s] = "running"]
    /\ UNCHANGED <<files, key, holds, rot, mishaps, upset>>

Seal(s, kind) ==
    /\ server[s] = "running"
    /\ Cardinality(sealed) < MaxSealed
    /\ sealed' = sealed \cup {<<kind, key[s]>>}
    /\ UNCHANGED <<files, plain, srv, rot, mishaps, upset>>

\* Close, and a start that failed: the lock is let go.
Close(s) ==
    /\ server[s] \in {"running", "stopping"}
    /\ server' = [server EXCEPT ![s] = "down"]
    /\ key' = [key EXCEPT ![s] = NoFile]
    /\ holds' = holds \ {s}
    /\ UNCHANGED <<files, db, rot, mishaps, upset>>

ServerCrash(s) ==
    /\ server[s] # "down"
    /\ Mishap
    /\ server' = [server EXCEPT ![s] = "down"]
    /\ key' = [key EXCEPT ![s] = NoFile]
    /\ holds' = holds \ {s}
    /\ UNCHANGED <<files, db, rot, upset>>

\* "if that connection drops, Postgres releases the lock with it"
DropLock(s) ==
    /\ server[s] = "running" /\ s \in holds
    /\ Mishap
    /\ holds' = holds \ {s}
    /\ upset' = upset \cup {"dropped"}
    /\ UNCHANGED <<files, db, server, key, rot>>

-----------------------------------------------------------------------------
\* The rotation command.

RotationEnds == /\ rotation' = "idle"
                /\ from' = NoFile
                /\ to' = NoFile

\* LoadFile never creates a key; a dry run goes no further than Rotate, rolled
\* back, and WriteNew is refused while an earlier rotation's file is there.
RotateKeyCmd ==
    /\ rotation = "idle"
    /\ current \in Keys
    /\ next = NoFile
    /\ made < MaxKeys
    /\ made' = made + 1
    /\ from' = current
    /\ to' = made + 1
    /\ next' = EmptyFile
    /\ rotation' = "write"
    /\ UNCHANGED <<current, old, db, srv, exclusive, mishaps, upset>>

WriteNew ==
    /\ rotation = "write"
    /\ next' = to
    /\ rotation' = "lock"
    /\ UNCHANGED <<current, old, made, db, srv, from, to, exclusive, mishaps, upset>>

\* pg_try_advisory_lock, refused while a server holds it: ErrServerRunning,
\* and the file just written is removed.
WithServersStopped ==
    /\ rotation = "lock"
    /\ IF holds # {}
       THEN RotationEnds /\ next' = NoFile /\ UNCHANGED exclusive
       ELSE /\ exclusive' = TRUE
            /\ rotation' = "rotate"
            /\ UNCHANGED <<next, from, to>>
    /\ UNCHANGED <<current, old, made, db, srv, mishaps, upset>>

ResealAllButChannels ==
    {<<p[1], IF p[1] = "channel" THEN p[2] ELSE to>> : p \in sealed}

\* Every kind in turn; an authenticator secret in the clear is left alone.
Reseal == {<<p[1], to>> : p \in sealed}

\* One transaction: a value that does not open with from fails all of it.  An
\* error from it means the new key's file is removed; when the answer to the
\* commit is lost, the error comes although the transaction was committed.
Rotate ==
    /\ rotation = "rotate"
    /\ exclusive' = FALSE
    /\ \/ /\ \A p \in sealed : p[2] = from
          /\ sealed' = Reseal
          /\ rotation' = "rename"
          /\ UNCHANGED <<next, from, to, mishaps, upset>>
       \/ /\ \E p \in sealed : p[2] # from
          /\ RotationEnds
          /\ next' = NoFile
          /\ UNCHANGED <<sealed, mishaps, upset>>
       \/ /\ Mishap
          /\ upset' = upset \cup {"lost"}
          /\ \A p \in sealed : p[2] = from
          /\ sealed' = Reseal
          /\ RotationEnds
          /\ next' = NoFile
    /\ UNCHANGED <<current, old, made, plain, srv>>

\* secret.key becomes secret.key.old-<time>.
RenameOld ==
    /\ rotation = "rename"
    /\ old' = old \cup ({current} \cap Keys)
    /\ current' = NoFile
    /\ rotation' = "install"
    /\ UNCHANGED <<next, made, db, srv, from, to, exclusive, mishaps, upset>>

\* secret.key.new becomes secret.key, over whatever is there by now.
RenameNew ==
    /\ rotation = "install"
    /\ current' = next
    /\ next' = NoFile
    /\ RotationEnds
    /\ UNCHANGED <<old, made, db, srv, exclusive, mishaps, upset>>

\* The process dies; its session's lock goes with it, an open transaction is
\* rolled back.
RotationCrash ==
    /\ rotation # "idle"
    /\ Mishap
    /\ exclusive' = FALSE
    /\ RotationEnds
    /\ UNCHANGED <<files, db, srv, upset>>

\* What the messages of the command tell whoever runs it to do with a file
\* left behind: it holds the key when nothing opens without it, else it goes.
ByHand ==
    /\ rotation = "idle" /\ next # NoFile
    /\ \A s \in Servers : server[s] = "down"
    /\ \/ /\ next \in Keys
          /\ \A p \in sealed : p[2] = next
          /\ old' = old \cup ({current} \cap Keys)
          /\ current' = next
       \/ /\ current \in Keys
          /\ \A p \in sealed : p[2] = current
          /\ UNCHANGED <<old, current>>
    /\ next' = NoFile
    /\ UNCHANGED <<made, db, srv, rot, mishaps, upset>>

-----------------------------------------------------------------------------
Init ==
    /\ current = NoFile /\ next = NoFile /\ old = {} /\ made = 0
    /\ sealed = {} /\ plain \in BOOLEAN
    /\ server = [s \in Servers |-> "down"]
    /\ key = [s \in Servers |-> NoFile]
    /\ holds = {}
    /\ rotation = "idle" /\ from = NoFile /\ to = NoFile /\ exclusive = FALSE
    /\ mishaps = 0 /\ upset = {}

Start(s) == \/ HoldRunningLock(s) \/ LoadOrCreateFile(s) \/ CreateKeyFile(s)
            \/ WriteKeyFile(s) \/ SealTOTPSecrets(s)

RotationStep == WriteNew \/ WithServersStopped \/ Rotate \/ RenameOld \/ RenameNew

Next ==
    \/ \E s \in Servers : Start(s) \/ Close(s) \/ ServerCrash(s) \/ DropLock(s)
    \/ \E s \in Servers, kind \in Kinds : Seal(s, kind)
    \/ RotateKeyCmd \/ RotationStep \/ RotationCrash \/ ByHand

Spec == Init /\ [][Next]_vars

-----------------------------------------------------------------------------
\* A server and a rotation are somewhere they can be, and neither ever works
\* with what is in a file that was not written to the end.
TypeOK ==
    /\ current \in Content /\ next \in Content
    /\ old \subseteq Keys /\ made \in 0 .. MaxKeys
    /\ sealed \subseteq Kinds \X Keys /\ plain \in BOOLEAN
    /\ server \in [Servers -> {"down", "load", "create", "write", "sealing",
                               "running", "stopping"}]
    /\ key \in [Servers -> Keys \cup {NoFile}]
    /\ holds \subseteq Servers
    /\ rotation \in {"idle", "write", "lock", "rotate", "rename", "install"}
    /\ {from, to} \subseteq Keys \cup {NoFile}
    /\ exclusive \in BOOLEAN
    /\ mishaps \in 0 .. MaxMishaps /\ upset \subseteq {"raced", "dropped", "lost"}

\* However a start, a rotation or a crash ends, each value the database holds
\* was sealed under a key that is still in one of the files: the new key is
\* written before anything is sealed with it, and no file is lost.  Two cases
\* are outside it: a commit whose answer was lost, and a server that started
\* between the commit and the last rename.
KeyForEverything ==
    upset \cap {"lost", "raced"} = {} => \A p \in sealed : p[2] \in KeysOnDisk

\* A running server opens everything it finds, unless a rotation was cut
\* short and its secret.key.new still waits for a hand, or a lock dropped, the
\* answer to a commit was lost or a start came between commit and rename.
OpensEverything ==
    \A s \in Servers :
        server[s] = "running" /\ next = NoFile /\ upset = {} => \A p \in sealed : p[2] = key[s]

AllOrNothingStep ==
    rotation = "rotate" /\ rotation' = "rename" => \A p \in sealed' : p[2] = to

\* The new key takes the old one's place with every value sealed under it or
\* with none: a rotation never moves some values and leaves others.
AllOrNothing == [][AllOrNothingStep]_vars

=============================================================================
