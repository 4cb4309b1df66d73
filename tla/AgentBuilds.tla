---------------------------- MODULE AgentBuilds ----------------------------
(***************************************************************************)
(* How an agent build comes to be on the server: administrators upload     *)
(* builds and delete versions (agentversions/service.go), the release feed *)
(* finds the newest signed release and imports its builds the way an       *)
(* upload would (releasefeed/feed.go), and both put the bytes in a         *)
(* directory per version and platform (artifacts/artifacts.go) before the  *)
(* row that names them.                                                    *)
(*                                                                         *)
(* Several requests run at once and share the directories, so the steps    *)
(* are those of the file system: the stat, the open of the temporary file  *)
(* (which every upload of one build shares), the copy, the rename, the     *)
(* removal.  An upload that holds a file open goes on writing to it        *)
(* whatever happens to the name it opened it by.                           *)
(***************************************************************************)
EXTENDS Integers, FiniteSets, FiniteSetsExt

CONSTANTS
    Versions,       \* version numbers, in the order release.Newer gives
    Platforms,      \* protocol.Platforms, numbered in its order
    Admins,         \* administrators' requests that may run at once
    Feed,           \* the release feed's own upload
    Inputs,         \* what an administrator may upload
    Carried,        \* the platforms each release's manifest has a build for
    Prereleases,    \* the versions published as prereleases
    AllowPrerelease,
    None,
    MaxUploads,     \* uploads administrators start
    MaxDeletes,     \* versions administrators delete
    MaxFaults,      \* copies, downloads and statements that fail
    MaxCrashes      \* times the server stops between two steps

VARIABLES
    version,    \* agent_versions with their agent_version_builds
    releases,   \* the releases table: recorded or not, and AgentVersionID
    final,      \* what each build's file holds, None where there is none
    part,       \* what each build's ".part" file holds
    up,         \* each request's upload
    feed,       \* the feed's check
    removing,   \* versions whose row is deleted and whose bytes are not yet
    published,  \* the releases the feed's source lists
    used,       \* the bounds spent so far
    raced       \* builds that two requests worked on at the same time

vars == <<version, releases, final, part, up, feed, removing, published,
          used, raced>>

\* A build's bytes: the release's own, a rebuild the same key also signed, and
\* bytes nobody signed.  Empty is a file truncated or only partly written.
Released == 1
Unsigned == 3
Empty    == 0

Procs  == Admins \cup {Feed}
Builds == Versions \X Platforms

Idle == [at |-> "idle"]

Init ==
    /\ version = [v \in Versions |-> None]
    /\ releases = [v \in Versions |-> [known |-> FALSE, agent |-> 0]]
    /\ final = [b \in Builds |-> None]
    /\ part = [b \in Builds |-> None]
    /\ up = [p \in Procs |-> Idle]
    /\ feed = Idle
    /\ removing = {}
    /\ published = {}
    /\ used = [uploads |-> 0, deletes |-> 0, faults |-> 0, crashes |-> 0, ids |-> 0]
    /\ raced = {}

---------------------------------------------------------------------------
(* Helpers *)

Count(what) == used' = [used EXCEPT ![what] = @ + 1]

Fault == used.faults < MaxFaults /\ Count("faults")

\* The build an upload is for, and the uploads past the stat of their build
\* whose outcome is not settled yet.
Of(u) == <<u.version, u.platform>>
Busy(b) == {p \in Procs : up[p].at \notin {"idle", "stat", "done"} /\ Of(up[p]) = b}

\* A build's bytes are in place, and the row that names them.
Stored(b) == final[b] # None
Row(b) == IF version[b[1]] = None THEN None ELSE version[b[1]].builds[b[2]]

\* An upload ends: an administrator's request is answered, the feed's import
\* goes on with what the upload returned.
Ended(p, id) == IF p = Feed THEN [at |-> "done", id |-> id] ELSE Idle
End(p, id) == up' = [up EXCEPT ![p] = Ended(p, id)]

Step(p, at) == up' = [up EXCEPT ![p].at = at]

\* The uploads that hold a file of the builds bs open, and their files once the
\* name is gone: nothing reads what they write.
Unlinked(bs, names) ==
    [p \in Procs |-> IF up[p].at = "copy" /\ Of(up[p]) \in bs /\ up[p].open \in names
                     THEN [up[p] EXCEPT !.open = "gone"] ELSE up[p]]

\* artifacts.Store.RemoveBuild, from an upload that is refused or whose row
\* failed: the platform's directory goes, with whatever is in it.  p is the
\* upload, which ends.
RemoveAll(bs, p) ==
    /\ final' = [b \in Builds |-> IF b \in bs THEN None ELSE final[b]]
    /\ part' = [b \in Builds |-> IF b \in bs THEN None ELSE part[b]]
    /\ up' = [q \in Procs |-> IF q = p THEN Ended(p, 0) ELSE Unlinked(bs, {"part", "final"})[q]]

RemoveBuildOfVersion(p) == RemoveAll({b \in Builds : b[1] = up[p].version}, p)

RemoveBuild(p) == RemoveAll({Of(up[p])}, p)

Race(b) == raced' = raced \cup (IF Busy(b) # {} \/ b[1] \in removing THEN {b} ELSE {})

---------------------------------------------------------------------------
(* Upload *)

\* What an upload that passes the checks before its bytes looks like.  The
\* version row it read travels with it.
Uploading(v, p, body, sha, genuine) ==
    [at |-> "stat", version |-> v, platform |-> p, body |-> body, sha |-> sha, genuine |-> genuine,
     existing |-> IF version[v] = None THEN 0 ELSE version[v].id, open |-> "gone"]

\* An administrator uploads a build: a build already recorded is refused, and
\* so is a signature that cannot be read or names no configured key, before a
\* byte is taken (those leave nothing but an audit entry).
Upload(a, v, p, body, sha, genuine) ==
    /\ up[a].at = "idle"
    /\ used.uploads < MaxUploads
    /\ Row(<<v, p>>) = None
    /\ up' = [up EXCEPT ![a] = Uploading(v, p, body, sha, genuine)]
    /\ Count("uploads")
    /\ UNCHANGED <<version, releases, final, part, feed, removing, published, raced>>

\* artifacts.Store.put's stat: bytes already there refuse the upload.
PutStat(p) ==
    /\ up[p].at = "stat"
    /\ IF Stored(Of(up[p]))
       THEN End(p, 0) /\ UNCHANGED raced
       ELSE Step(p, "open") /\ Race(Of(up[p]))
    /\ UNCHANGED <<version, releases, final, part, feed, removing, published, used>>

\* The open of the ".part" file creates it, or truncates the one another
\* upload has open.
PutOpen(p) ==
    /\ up[p].at = "open"
    /\ part' = [part EXCEPT ![Of(up[p])] = Empty]
    /\ up' = [up EXCEPT ![p].at = "copy", ![p].open = "part"]
    /\ UNCHANGED <<version, releases, final, feed, removing, published, used, raced>>

\* The copy writes what arrives and hashes it on the way: the hash is of the
\* stream, not of the file.  The file is the one this upload opened, under
\* whichever name it has by now.
PutCopy(p) ==
    LET b == Of(up[p])
        put(f, name) == IF up[p].open = name THEN [f EXCEPT ![b] = up[p].body] ELSE f
    IN  /\ up[p].at = "copy"
        /\ part' = put(part, "part")
        /\ final' = put(final, "final")
        /\ up' = [up EXCEPT ![p].at = "rename", ![p].open = "gone"]
        /\ UNCHANGED <<version, releases, feed, removing, published, used, raced>>

\* The rename moves whatever has the ".part" name now, over whatever has the
\* build's.  A name that is gone is an error, whose clean-up finds nothing to
\* remove.
PutRename(p) ==
    LET b == Of(up[p])
        moved(q) == IF up[q].at = "copy" /\ Of(up[q]) = b
                    THEN [up[q] EXCEPT !.open = IF @ = "part" THEN "final" ELSE "gone"] ELSE up[q]
    IN  /\ up[p].at = "rename"
        /\ IF part[b] = None
           THEN End(p, 0) /\ UNCHANGED <<final, part>>
           ELSE /\ final' = [final EXCEPT ![b] = part[b]]
                /\ part' = [part EXCEPT ![b] = None]
                /\ up' = [q \in Procs |-> IF q = p THEN [up[p] EXCEPT !.at = "verify"] ELSE moved(q)]
        /\ UNCHANGED <<version, releases, feed, removing, published, used, raced>>

\* The open or the copy fails, or the upload is larger than the limit: put's
\* deferred clean-up removes the ".part" name.
PutFails(p) ==
    /\ up[p].at \in {"open", "copy"}
    /\ part' = [part EXCEPT ![Of(up[p])] = None]
    /\ up' = [Unlinked({Of(up[p])}, {"part"}) EXCEPT ![p] = Ended(p, 0)]
    /\ Fault
    /\ UNCHANGED <<version, releases, final, feed, removing, published, raced>>

\* The bytes are in: their hash must be the signed one, and the signature must
\* verify.  A refusal removes them.
Verified(u) == u.body = u.sha /\ u.genuine

Verify(p) ==
    /\ up[p].at = "verify"
    /\ IF Verified(up[p])
       THEN Step(p, "insert") /\ UNCHANGED <<final, part>>
       ELSE RemoveBuild(p)
    /\ UNCHANGED <<version, releases, feed, removing, published, used, raced>>

\* The transaction that records the build.  The unique index on the version
\* and the build's primary key refuse a second one, and a version deleted
\* since it was read has no row for the build to belong to.
MayInsert(u) ==
    IF u.existing = 0 THEN version[u.version] = None
    ELSE /\ version[u.version] # None
         /\ version[u.version].id = u.existing
         /\ version[u.version].builds[u.platform] = None

\* CreateAgentVersionBuild: the build joins the version's, if it has others.
WithBuild(u, id) ==
    LET was == IF u.existing = 0 THEN [q \in Platforms |-> None] ELSE version[u.version].builds
    IN  [id |-> id, builds |-> [was EXCEPT ![u.platform] = u.body]]

Insert(p) ==
    LET u == up[p]
        id == IF u.existing = 0 THEN used.ids + 1 ELSE u.existing
    IN  /\ u.at = "insert"
        /\ MayInsert(u)
        /\ version' = [version EXCEPT ![u.version] = WithBuild(u, id)]
        /\ used' = [used EXCEPT !.ids = IF u.existing = 0 THEN @ + 1 ELSE @]
        /\ End(p, id)
        /\ UNCHANGED <<releases, final, part, feed, removing, published, raced>>

Undo(p) == RemoveBuild(p)

InsertFails(p) ==
    /\ up[p].at = "insert"
    /\ \/ ~MayInsert(up[p]) /\ UNCHANGED used
       \/ Fault
    /\ Undo(p)
    /\ UNCHANGED <<version, releases, feed, removing, published, raced>>

UploadStep(p) ==
    \/ PutStat(p) \/ PutOpen(p) \/ PutCopy(p) \/ PutRename(p) \/ PutFails(p)
    \/ Verify(p) \/ Insert(p) \/ InsertFails(p)

---------------------------------------------------------------------------
(* Delete *)

\* The transaction takes the version, its builds and the release's reference
\* to it; the bytes go after it.
Delete(v) ==
    /\ version[v] # None
    /\ used.deletes < MaxDeletes
    /\ version' = [version EXCEPT ![v] = None]
    /\ releases' = [releases EXCEPT ![v].agent = 0]
    /\ removing' = removing \cup {v}
    /\ raced' = raced \cup {b \in Builds : b[1] = v /\ Busy(b) # {}}
    /\ Count("deletes")
    /\ UNCHANGED <<final, part, up, feed, published>>

\* artifacts.Store.Remove: the version's whole directory.
RemoveBytes(v) ==
    /\ v \in removing
    /\ removing' = removing \ {v}
    /\ RemoveAll({v} \X Platforms, None)
    /\ UNCHANGED <<version, releases, feed, published, used, raced>>

---------------------------------------------------------------------------
(* The release feed *)

Publish(v) ==
    /\ v \notin published
    /\ published' = published \cup {v}
    /\ UNCHANGED <<version, releases, final, part, up, feed, removing, used, raced>>

\* A release is taken off the source's list.
Retract(v) ==
    /\ v \in published
    /\ published' = published \ {v}
    /\ Fault
    /\ UNCHANGED <<version, releases, final, part, up, feed, removing, raced>>

\* The candidates the feed may take, and the newest of them.
Offered == {v \in published : v \notin Prereleases \/ AllowPrerelease}
newest == Max(Offered)

\* Something newer is recorded, which the list no longer shows.
Recorded == {k \in Versions : releases[k].known}
Ahead(v) == \A k \in Recorded : v > k

Importing(v) == [at |-> "build", version |-> v, todo |-> Carried[v], got |-> 0, failed |-> FALSE]

\* The feed's advisory lock, shared by the job and "Check now".
LockFree == feed.at = "idle"

\* A release is recorded once its manifest is verified, and left as it is if it
\* is there.  One that does not verify ends the check with nothing changed.
record(v) == releases' = [releases EXCEPT ![v].known = TRUE]

\* A check looks at the newest release only: a new one is verified and
\* recorded, and one whose agent is not imported yet is imported.
ToImport(v) == releases[v].agent = 0

Poll ==
    /\ LockFree
    /\ Offered # {}
    /\ newest \in Recorded \/ Ahead(newest)
    /\ ToImport(newest)
    /\ record(newest)
    /\ feed' = Importing(newest)
    /\ UNCHANGED <<version, final, part, up, removing, published, used, raced>>

\* Import: a build already here with the release's bytes is done, one with
\* other bytes is a failure, and one not here is downloaded and uploaded.  The
\* download may fail, or be something else than the manifest names.
Next1(s) == Min(s)

ImportBuild ==
    LET b == <<feed.version, Next1(feed.todo)>>
        done(id, bad) == feed' = [feed EXCEPT !.todo = @ \ {b[2]}, !.got = IF bad THEN @ ELSE id,
                                              !.failed = @ \/ bad]
    IN  /\ feed.at = "build"
        /\ feed.todo # {}
        /\ up[Feed] = Idle
        /\ \/ /\ Row(b) # None
              /\ done(version[b[1]].id, Row(b) # Released)
              /\ UNCHANGED <<up, used>>
           \/ /\ Row(b) = None
              /\ up' = [up EXCEPT ![Feed] = Uploading(b[1], b[2], Released, Released, TRUE)]
              /\ UNCHANGED <<feed, used>>
           \/ /\ Row(b) = None
              /\ up' = [up EXCEPT ![Feed] = Uploading(b[1], b[2], Unsigned, Released, TRUE)]
              /\ Fault
              /\ UNCHANGED feed
           \/ /\ Row(b) = None
              /\ done(0, TRUE)
              /\ Fault
              /\ UNCHANGED up
        /\ UNCHANGED <<version, releases, final, part, removing, published, raced>>

Imported ==
    /\ feed.at = "build"
    /\ up[Feed].at = "done"
    /\ feed' = [feed EXCEPT !.todo = @ \ {Next1(feed.todo)},
                            !.got = IF up[Feed].id = 0 THEN @ ELSE up[Feed].id,
                            !.failed = @ \/ up[Feed].id = 0]
    /\ up' = [up EXCEPT ![Feed] = Idle]
    /\ UNCHANGED <<version, releases, final, part, removing, published, used, raced>>

\* SetReleaseImport, once every build is in.  A failure is recorded instead,
\* and a version deleted meanwhile cannot be referred to.
Markable(f) == ~f.failed

SetReleaseImport ==
    /\ feed.at = "build"
    /\ feed.todo = {}
    /\ feed' = Idle
    /\ releases' = IF Markable(feed) /\ version[feed.version] # None /\ version[feed.version].id = feed.got
                   THEN [releases EXCEPT ![feed.version].agent = feed.got] ELSE releases
    /\ UNCHANGED <<version, final, part, up, removing, published, used, raced>>

---------------------------------------------------------------------------
(* The server stops: every request ends where it was, and the files stay. *)
Crash ==
    /\ used.crashes < MaxCrashes
    /\ Count("crashes")
    /\ up' = [p \in Procs |-> Idle]
    /\ feed' = Idle
    /\ removing' = {}
    /\ UNCHANGED <<version, releases, final, part, published, raced>>

Next ==
    \/ \E a \in Admins, i \in Inputs : Upload(a, i.version, i.platform, i.body, i.sha, i.genuine)
    \/ \E p \in Procs : UploadStep(p)
    \/ \E v \in Versions : Delete(v) \/ RemoveBytes(v) \/ Publish(v) \/ Retract(v)
    \/ Poll \/ ImportBuild \/ Imported \/ SetReleaseImport
    \/ Crash

Spec == Init /\ [][Next]_vars

---------------------------------------------------------------------------
(* Properties *)

\* A row never describes bytes that are not there: not after a crash at any
\* step, a refused upload of another platform or a failed transaction ("The
\* bytes land first", Upload) - as long as no two requests worked on the build
\* at once.
AloneKeepsItsBytes ==
    \A b \in Builds \ raced : Row(b) # None => final[b] = Row(b)

=============================================================================
