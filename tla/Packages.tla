------------------------------ MODULE Packages ------------------------------
(* Uploaded installers: files named by their hash, the app versions that     *)
(* name them, and the daily pass that removes the ones nothing names         *)
(* (server/apps/packages.go, server/artifacts/blobs.go).  An app version is  *)
(* checked against the disk before the transaction that stores it, and the   *)
(* pass lists the directory, asks the database and removes in three steps.   *)
EXTENDS Naturals, FiniteSets

CONSTANTS Hashes,   \* the packages ever uploaded
          Admins,   \* administrators with a request open
          Ids,      \* app versions ever stored, a bound
          MaxErrors, \* bound on passes that fail
          None

VARIABLES files,    \* each package's file: absent, or touched within the grace or not
          part,     \* a partial upload a crash left behind, the same way
          upload,   \* each administrator's upload under way
          call,     \* each administrator's app form being saved
          versions, \* the package each stored app version names
          prune,    \* the pruning pass: None, or what it has yet to look at
          errors,   \* how often a pass has failed
          late      \* ghost: removed by a pass that listed it before it was touched

vars == <<files, part, upload, call, versions, prune, errors, late>>

Named == {versions[v] : v \in Ids} \ {None}

-----------------------------------------------------------------------------
\* Blobs.Put: the body goes to a temporary file beside the others.
StartUpload(a) ==
    /\ upload[a] = None
    /\ upload' = [upload EXCEPT ![a] = "copying"]
    /\ UNCHANGED <<files, part, call, versions, prune, errors, late>>

\* An existing copy is kept as it is and the new one discarded.
Put(h) == files' = [files EXCEPT ![h] = IF @ = "absent" THEN "new" ELSE @]

UploadPackage(a, h) ==
    /\ upload[a] = "copying"
    /\ Put(h)
    /\ upload' = [upload EXCEPT ![a] = None]
    /\ late' = late \ {h}
    /\ UNCHANGED <<part, call, versions, prune, errors>>

\* A body over the limit or cut short leaves nothing; a crash leaves the part.
FailUpload(a, crash) ==
    /\ upload[a] = "copying"
    /\ upload' = [upload EXCEPT ![a] = None]
    /\ part' = IF crash THEN "new" ELSE part
    /\ UNCHANGED <<files, call, versions, prune, errors, late>>

\* The file must be there, and is touched: its grace starts again.
ValidatePackage(a, h) ==
    /\ call[a] = None /\ files[h] # "absent"
    /\ files' = [files EXCEPT ![h] = "new"]
    /\ call' = [call EXCEPT ![a] = h]
    /\ UNCHANGED <<part, upload, versions, prune, errors, late>>

\* The transaction that stores the version, or fails.
SaveVersion(a) ==
    /\ call[a] # None
    /\ \/ \E v \in Ids : versions[v] = None /\ versions' = [versions EXCEPT ![v] = call[a]]
       \/ UNCHANGED versions
    /\ call' = [call EXCEPT ![a] = None]
    /\ UNCHANGED <<files, part, upload, prune, errors, late>>

\* Deleting an app deletes its versions.
DeleteApp(v) ==
    /\ versions[v] # None
    /\ versions' = [versions EXCEPT ![v] = None]
    /\ UNCHANGED <<files, part, upload, call, prune, errors, late>>

\* The file a version names, or ErrNoPackage.
OpenPackage(v) == files[versions[v]] # "absent"

-----------------------------------------------------------------------------
(* PrunePackages.                                                            *)

\* The directory is listed once, with each file's age.
ListPackages ==
    /\ prune = None
    /\ prune' = [todo |-> {h \in Hashes : files[h] # "absent"},
                 old |-> {h \in Hashes : files[h] = "old"},
                 part |-> part = "old", unused |-> None]
    /\ UNCHANGED <<files, part, upload, call, versions, errors, late>>

Skip(h) == prune' = [prune EXCEPT !.todo = @ \ {h}]

\* Files within their grace are left alone, and files a version names.
InspectByAge(h) ==
    /\ prune # None /\ prune.unused = None /\ h \in prune.todo
    /\ IF h \notin prune.old THEN Skip(h)
       ELSE prune' = [prune EXCEPT !.unused = h]
    /\ UNCHANGED <<files, part, upload, call, versions, errors, late>>
Inspect(h) ==
    /\ prune # None /\ prune.unused = None /\ h \in prune.todo
    /\ IF h \notin prune.old \/ h \in Named THEN Skip(h)
       ELSE prune' = [prune EXCEPT !.unused = h]
    /\ UNCHANGED <<files, part, upload, call, versions, errors, late>>

RemovePackage ==
    /\ prune # None /\ prune.unused # None
    /\ LET h == prune.unused
       IN  /\ files' = [files EXCEPT ![h] = "absent"]
           /\ late' = IF h \in prune.old /\ files[h] = "new" THEN late \cup {h} ELSE late
           /\ prune' = [prune EXCEPT !.todo = @ \ {h}, !.unused = None]
    /\ UNCHANGED <<part, upload, call, versions, errors>>

RemovePart ==
    /\ prune # None /\ prune.part
    /\ part' = "absent"
    /\ prune' = [prune EXCEPT !.part = FALSE]
    /\ UNCHANGED <<files, upload, call, versions, errors, late>>

\* The pass ends when it has seen everything, or at the first error.
EndPrune(failed) ==
    /\ prune # None
    /\ failed \/ (prune.todo = {} /\ ~prune.part)
    /\ errors' = errors + IF failed THEN 1 ELSE 0
    /\ errors' <= MaxErrors
    /\ prune' = None
    /\ UNCHANGED <<files, part, upload, call, versions, late>>

\* PackageGrace, a day: no request and no pass lasts that long.
GracePasses ==
    /\ prune = None /\ \A a \in Admins : call[a] = None /\ upload[a] = None
    /\ files' = [h \in Hashes |-> IF files[h] = "new" THEN "old" ELSE files[h]]
    /\ part' = IF part = "new" THEN "old" ELSE part
    /\ UNCHANGED <<upload, call, versions, prune, errors, late>>

-----------------------------------------------------------------------------
Init ==
    /\ files = [h \in Hashes |-> "absent"] /\ part = "absent"
    /\ upload = [a \in Admins |-> None] /\ call = [a \in Admins |-> None]
    /\ versions = [v \in Ids |-> None]
    /\ prune = None /\ errors = 0 /\ late = {}

Pass == \/ ListPackages \/ RemovePackage \/ RemovePart \/ EndPrune(FALSE)
        \/ \E h \in Hashes : Inspect(h)

Next == \/ \E a \in Admins : StartUpload(a) \/ SaveVersion(a)
        \/ \E a \in Admins, h \in Hashes : UploadPackage(a, h) \/ ValidatePackage(a, h)
        \/ \E a \in Admins, crash \in BOOLEAN : FailUpload(a, crash)
        \/ \E v \in Ids : DeleteApp(v)
        \/ Pass \/ EndPrune(TRUE)
        \/ GracePasses

Spec == Init /\ [][Next]_vars

-----------------------------------------------------------------------------

\* A stored app version's package is there for devices to download, except one
\* removed by a pass that had listed it before the version touched it.
PackageStands == \A v \in Ids : versions[v] # None => OpenPackage(v) \/ versions[v] \in late

=============================================================================
