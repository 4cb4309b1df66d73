------------------------------- MODULE SignIn -------------------------------
(***************************************************************************)
(* Password sign-in and browser sessions (internal/server/auth, with the   *)
(* admins, sessions and login_failures tables of internal/server/store and *)
(* the session handlers of internal/server/adminapi).                      *)
(*                                                                         *)
(* One local account is signed in to from one address by Requests that run *)
(* side by side, while its password and authenticator are changed, it is   *)
(* disabled and enabled, browsers use the sessions and time passes.  Every *)
(* statement that the code runs outside a transaction is a step of its     *)
(* own; a transaction is one step.                                         *)
(*                                                                         *)
(* Time is relative: a failure has an age, a session the time it has left, *)
(* an authenticator code and the last claimed step a distance from the     *)
(* current time step.  Tick moves all of them at once.                     *)
(***************************************************************************)
EXTENDS Integers, Sequences, FiniteSets

CONSTANTS
    None,          \* no row
    Requests,      \* sign-in requests that may be in flight at once
    Emails,        \* the addresses signed in as
    SessionIds,    \* names for session rows
    MaxAccount,    \* failures allowed per account within the window
    MaxAddress,    \* failures allowed per client address within the window
    Window,        \* the throttle's window, in ticks
    SessionTTL,    \* life of an unused session, in ticks
    MaxSessionLifetime, \* life of any session from its sign-in, in ticks
    TouchInterval, \* staleness at which a session's row is written again
    HashSlots,     \* password checks that may run at once
    MaxChanges     \* bound: changes of password, authenticator and account

VARIABLES
    account,   \* the row of the admins table
    failures,  \* the login_failures table: key |-> ages of its failures
    sessions,  \* the sessions table
    req,       \* the sign-in requests in flight
    view,      \* the request a browser makes with its session
    sealing,   \* the secret SealTOTPSecrets has read and not yet replaced
    changes,   \* changes made so far
    epoch,     \* history: how often the account was signed out everywhere
    spent      \* history: steps claimed since the authenticator was last set

vars == <<account, failures, sessions, req, view, sealing, changes, epoch, spent>>

Known == "known"        \* the account's address; nobody has any other
Address == "address"    \* the key of the one client address
Keys == Emails \cup {Address}

NoCode == [secret |-> 0, step |-> 0]
Floor == -2             \* a step no code can match any more, or none claimed

Codes == [secret : 1..MaxChanges + 1, step : -1..1]

(***************************************************************************)
(* The throttle.                                                           *)
(***************************************************************************)

\* Failures of a key that are still within the window.
CountLoginFailures(key) == Len(SelectSeq(failures[key], LAMBDA age : age < Window))

AllowedOneMore(key, max) == CountLoginFailures(key) <= max

Allowed(key, max) == CountLoginFailures(key) < max

\* RecordLoginFailure drops what every key has outside the window first.
RecordLoginFailure(f, key) ==
    [k \in Keys |->
        LET kept == SelectSeq(f[k], LAMBDA age : age < Window)
        IN  IF k = key THEN <<0>> \o kept ELSE kept]

\* Service.fail counts against the address typed and the client address.
Fail(email) == RecordLoginFailure(RecordLoginFailure(failures, email), Address)

\* A sign-in that worked clears the account's failures and leaves the address's.
ClearLoginFailures(email) == [failures EXCEPT ![email] = <<>>]

(***************************************************************************)
(* AuthenticateFrom, statement by statement.                               *)
(***************************************************************************)

Idle == [pc |-> "idle"]
InFlight == {r \in Requests : req[r] # Idle}
Live == {s \in SessionIds : sessions[s] # None}

Goto(r, pc) == req' = [req EXCEPT ![r].pc = pc]
Answer(r) == req' = [req EXCEPT ![r] = Idle]

\* A request arrives for an address.  The account's own throttle is asked first,
\* and a request it refuses counts as nothing.  SessionIds bounds the sessions
\* there can be.
Arrive(r) ==
    /\ req[r] = Idle
    /\ Cardinality(InFlight) + Cardinality(Live) < Cardinality(SessionIds)
    /\ \E email \in Emails :
        /\ Allowed(email, MaxAccount)
        /\ req' = [req EXCEPT ![r] = [pc |-> "lookup", email |-> email]]
    /\ UNCHANGED <<account, failures, sessions, view, sealing, changes, epoch, spent>>

\* What the row of the account makes of a password, right or wrong, and a code:
\* an address nobody has, a wrong password and a code of another secret are
\* failures alike; a disabled account, a missing code and a secret that is not
\* sealed are refusals that count as nothing.
Verdict(email, right, code) ==
    IF email # Known \/ ~right THEN "fail"
    ELSE IF account.disabled THEN "refuse"
    ELSE IF account.totp = 0 THEN "record"
    ELSE IF code = NoCode \/ ~account.sealed THEN "refuse"
    ELSE IF code.secret # account.totp THEN "fail"
    ELSE "match"

\* The client address's throttle is asked and the row is read (GetAdminByEmail).
\* The rest of the sign-in works with that row, which settles all of it but
\* whether the code's time step is a fresh one.
Lookup(r) ==
    /\ req[r].pc = "lookup"
    /\ IF Allowed(Address, MaxAddress)
       THEN \E right \in BOOLEAN, code \in Codes \cup {NoCode} :
              LET verdict == Verdict(req[r].email, right, code)
              IN  req' = [req EXCEPT ![r] =
                    [pc |-> "waiting", email |-> req[r].email, verdict |-> verdict, epoch |-> epoch,
                     step |-> IF verdict = "match" THEN code.step ELSE 0]]
       ELSE Answer(r)
    /\ UNCHANGED <<account, failures, sessions, view, sealing, changes, epoch, spent>>

Hashing == {r \in Requests : req[r].pc = "hash"}

\* verifyPassword takes one of the hash slots ...
Acquire(r) ==
    /\ req[r].pc = "waiting"
    /\ Cardinality(Hashing) < HashSlots
    /\ Goto(r, "hash")
    /\ UNCHANGED <<account, failures, sessions, view, sealing, changes, epoch, spent>>

\* ... or gives up: the wait is over or the client has gone.
NoSlot(r) ==
    /\ req[r].pc = "waiting"
    /\ Answer(r)
    /\ UNCHANGED <<account, failures, sessions, view, sealing, changes, epoch, spent>>

\* The password has been checked and the slot is given back.
Hashed(r) ==
    /\ req[r].pc = "hash"
    /\ IF req[r].verdict \in {"fail", "refuse"} THEN Answer(r) ELSE Goto(r, req[r].verdict)
    /\ failures' = IF req[r].verdict = "fail" THEN Fail(req[r].email) ELSE failures
    /\ UNCHANGED <<account, sessions, view, sealing, changes, epoch, spent>>

\* matchTOTP allows one step of skew either side of now.
MatchTOTP(step) == step \in -1..1

ClaimAnyStep(step) == TRUE

\* ClaimTOTPStep is a conditional update: only a step later than the last one.
ClaimTOTPStep(step) == account.last < step

\* The code's step is claimed in the row as it is now; a code that is too old
\* by now, or was used, is a failure.
Claim(r) ==
    LET step == req[r].step
    IN  /\ req[r].pc = "match"
        /\ IF MatchTOTP(step) /\ ClaimTOTPStep(step)
           THEN /\ account' = [account EXCEPT !.last = step]
                /\ spent' = spent \cup {step}
                /\ Goto(r, "record")
                /\ UNCHANGED failures
           ELSE /\ Answer(r) /\ failures' = Fail(req[r].email)
                /\ UNCHANGED <<account, spent>>
        /\ UNCHANGED <<sessions, view, sealing, changes, epoch>>

\* The account's failures are cleared, as far as the database lets them be, and
\* the sign-in is recorded and audited; when that fails, so does the sign-in.
Record(r) ==
    /\ req[r].pc = "record"
    /\ failures' \in {failures, ClearLoginFailures(req[r].email)}
    /\ Goto(r, "session") \/ Answer(r)
    /\ UNCHANGED <<account, sessions, view, sealing, changes, epoch, spent>>

Least(a, b) == IF a < b THEN a ELSE b

\* capped: an expiry stays within MaxSessionLifetime of the session's start.
Capped(lifetimeLeft) == Least(SessionTTL, lifetimeLeft)

\* CreateSession's row; which change of the account its sign-in had seen is
\* remembered with it.
NewSession(seen) ==
    [left |-> Capped(MaxSessionLifetime), lifetime |-> MaxSessionLifetime, idle |-> 0,
     epoch |-> seen, late |-> seen # epoch]

\* The handler of login makes the session once AuthenticateFrom has returned.
Login(r) ==
    /\ req[r].pc = "session"
    /\ \E s \in SessionIds \ Live : sessions' = [sessions EXCEPT ![s] = NewSession(req[r].epoch)]
    /\ Answer(r)
    /\ UNCHANGED <<account, failures, view, sealing, changes, epoch, spent>>

(***************************************************************************)
(* A browser uses a session.                                               *)
(***************************************************************************)

NoView == [sid |-> None]

DeleteSession(sid) == [sessions EXCEPT ![sid] = None]
DeleteSessionsForAdmin == [s \in SessionIds |-> None]

\* ValidateSession reads the session with its account and decides on what it
\* read: gone, expired, of a disabled account, due to be written again, or fine.
ValidateSession(sid) ==
    LET row == sessions[sid]
        verdict == IF row.left <= 0 THEN "expired"
                   ELSE IF account.disabled THEN "disabled"
                   ELSE "touch"
    IN  /\ view = NoView /\ sid \in Live
        /\ verdict = "touch" => row.idle >= TouchInterval
        /\ view' = [sid |-> sid, verdict |-> verdict, left |-> Capped(row.lifetime), idle |-> 0]
        /\ UNCHANGED <<account, failures, sessions, req, sealing, changes, epoch, spent>>

\* TouchSession is an update: a session deleted meanwhile stays deleted.
TouchSession(v) ==
    IF v.sid \in Live
    THEN [sessions EXCEPT ![v.sid].left = v.left, ![v.sid].idle = v.idle]
    ELSE sessions

\* The write that the verdict asks for.
FinishValidation ==
    /\ view # NoView
    /\ sessions' = CASE view.verdict = "expired" -> DeleteSession(view.sid)
                     [] view.verdict = "disabled" -> DeleteSessionsForAdmin
                     [] view.verdict = "touch" -> TouchSession(view)
    /\ view' = NoView
    /\ UNCHANGED <<account, failures, req, sealing, changes, epoch, spent>>

\* logout deletes the session of the cookie.
Logout(sid) ==
    /\ sid \in Live
    /\ sessions' = DeleteSession(sid)
    /\ UNCHANGED <<account, failures, req, view, sealing, changes, epoch, spent>>

\* The sweeper's DeleteExpiredSessions.
DeleteExpiredSessions ==
    /\ \E s \in Live : sessions[s].left <= 0
    /\ sessions' = [s \in SessionIds |->
                      IF s \in Live /\ sessions[s].left <= 0 THEN None ELSE sessions[s]]
    /\ UNCHANGED <<account, failures, req, view, sealing, changes, epoch, spent>>

(***************************************************************************)
(* The account changes.                                                    *)
(***************************************************************************)

Change == changes < MaxChanges /\ changes' = changes + 1

SignOutEverywhere == sessions' = DeleteSessionsForAdmin /\ epoch' = epoch + 1

SetPasswordOnly ==
    /\ Change
    /\ account' = [account EXCEPT !.password = @ + 1]
    /\ epoch' = epoch + 1
    /\ UNCHANGED <<failures, sessions, req, view, sealing, spent>>

\* SetPassword replaces the hash and deletes the account's sessions.
SetPassword ==
    /\ Change
    /\ account' = [account EXCEPT !.password = @ + 1]
    /\ SignOutEverywhere
    /\ UNCHANGED <<failures, req, view, sealing, spent>>

\* UpdateAdminTOTP also forgets which codes were used with the old secret.
UpdateAdminTOTP(secret, newest) ==
    /\ account' = [account EXCEPT !.totp = secret, !.sealed = TRUE, !.last = Floor, !.newest = newest]
    /\ spent' = {}

EnableTOTP ==
    /\ Change
    /\ UpdateAdminTOTP(account.newest + 1, account.newest + 1)
    /\ UNCHANGED <<failures, sessions, req, view, sealing, epoch>>

DisableTOTP ==
    /\ Change
    /\ UpdateAdminTOTP(0, account.newest)
    /\ UNCHANGED <<failures, sessions, req, view, sealing, epoch>>

\* setAdminTOTP of the console and the totp subcommand turn it on or off.
SetAdminTOTP(enabled) == IF enabled THEN EnableTOTP ELSE DisableTOTP

\* SetDisabled signs a disabled account out everywhere.
SetDisabled(disabled) ==
    /\ Change
    /\ account' = [account EXCEPT !.disabled = disabled]
    /\ IF disabled THEN SignOutEverywhere ELSE UNCHANGED <<sessions, epoch>>
    /\ UNCHANGED <<failures, req, view, sealing, spent>>

\* SealTOTPSecrets, at startup, lists the secrets an earlier version stored in
\* the clear ...
ListPlainTOTPSecrets ==
    /\ sealing = 0 /\ account.totp # 0 /\ ~account.sealed
    /\ sealing' = account.totp
    /\ UNCHANGED <<account, failures, sessions, req, view, changes, epoch, spent>>

StillPlain(secret) == account.totp = secret /\ ~account.sealed

\* ... and replaces each by its sealed form, if it is still the one it read.
ReplaceTOTPSecret ==
    /\ sealing # 0
    /\ account' = IF StillPlain(sealing) THEN [account EXCEPT !.totp = sealing, !.sealed = TRUE] ELSE account
    /\ sealing' = 0
    /\ UNCHANGED <<failures, sessions, req, view, changes, epoch, spent>>

(***************************************************************************)
(* Time.                                                                   *)
(***************************************************************************)

Down(n, floor) == IF n > floor THEN n - 1 ELSE floor

Aged(ages) == SelectSeq([i \in DOMAIN ages |-> ages[i] + 1], LAMBDA age : age < Window)

\* One time step passes for every row and every value held in memory.
Tick ==
    /\ failures' = [k \in Keys |-> Aged(failures[k])]
    /\ sessions' = [s \in SessionIds |->
          IF s \notin Live THEN None
          ELSE [sessions[s] EXCEPT !.left = Down(@, 0), !.lifetime = Down(@, 0),
                                   !.idle = Least(@ + 1, TouchInterval)]]
    /\ view' = IF view = NoView THEN NoView
               ELSE [view EXCEPT !.left = Down(@, 0), !.idle = Least(@ + 1, TouchInterval)]
    /\ account' = [account EXCEPT !.last = Down(@, Floor)]
    /\ spent' = {s - 1 : s \in spent} \cap (-1..1)
    /\ req' = [r \in Requests |-> 
                              IF req[r].pc \in {"waiting", "hash", "match"} /\ req[r].verdict = "match"
                              THEN [req[r] EXCEPT !.step = Down(@, Floor)] ELSE req[r]]
    /\ UNCHANGED <<sealing, changes, epoch>>

Init ==
    /\ account \in [password : {1}, totp : {0, 1}, sealed : BOOLEAN, last : {Floor},
                    disabled : {FALSE}, newest : {1}]
    /\ account.totp = 0 => account.sealed
    /\ failures = [k \in Keys |-> <<>>]
    /\ sessions = [s \in SessionIds |-> None]
    /\ req = [r \in Requests |-> Idle]
    /\ view = NoView
    /\ sealing = 0 /\ changes = 0 /\ epoch = 0 /\ spent = {}

Step(r) ==
    \/ Lookup(r) \/ Acquire(r) \/ NoSlot(r) \/ Hashed(r)
    \/ Claim(r) \/ Record(r) \/ Login(r)

Next ==
    \/ \E r \in Requests : Arrive(r) \/ Step(r)
    \/ \E s \in SessionIds : ValidateSession(s) \/ Logout(s)
    \/ FinishValidation \/ DeleteExpiredSessions
    \/ SetPassword \/ \E on \in BOOLEAN : SetAdminTOTP(on) \/ SetDisabled(on)
    \/ ListPlainTOTPSecrets \/ ReplaceTOTPSecret
    \/ Tick

Spec == Init /\ [][Next]_vars

(***************************************************************************)
(* Properties.                                                             *)
(***************************************************************************)

\* However many sign-ins run side by side, the failures an account can collect
\* within the window exceed the limit only by those that were already past the
\* check (AuthenticateFrom reads the count long before fail adds to it).
FailuresBounded ==
    \A email \in Emails :
        CountLoginFailures(email) <= MaxAccount + Cardinality(Requests) - 1

\* A session never lives past MaxSessionLifetime from its sign-in, however
\* often it is used and however late a use is written (capped, TouchSession).
SessionsEnd == \A s \in Live : sessions[s].left <= sessions[s].lifetime

\* Changing the password or disabling the account signs it out for good: no
\* session that was there, or was being used, survives or comes back, even when
\* the account is enabled again.  The exception is a sign-in that had read the
\* account before the change and makes its session after it.
SignedOutStays == \A s \in Live : sessions[s].epoch = epoch \/ sessions[s].late

\* An authenticator secret that was replaced never comes back, though
\* SealTOTPSecrets writes what it read earlier.
ReplacedSecretStays == account.totp \in {0, account.newest}

CodeUsedOnceStep ==
    \A r \in Requests :
       req[r].pc = "match" /\ req'[r].pc = "record" => req[r].step \notin spent

\* While an authenticator stands, each time step's code signs in once, two
\* sign-ins with the same code side by side included (ClaimTOTPStep).
CodeUsedOnce == [][CodeUsedOnceStep]_vars

=============================================================================
