----------------------------- MODULE SignInProofs -----------------------------
(***************************************************************************)
(* The theorems about SignIn, for any number of requests, sessions,        *)
(* changes and ticks: a session ends, a sign-out everywhere is final, a    *)
(* replaced authenticator secret stays replaced, a code signs in once and  *)
(* the password checks that run at once are bounded.                       *)
(*                                                                         *)
(* The inductive invariant has a part for the requests, one for the        *)
(* account and one for the sessions.  What it says besides the properties  *)
(* themselves: the write that a validated session still waits for never    *)
(* grants more than the session has left, and whatever code was claimed is *)
(* no later than the account's last claimed step.                          *)
(***************************************************************************)
EXTENDS SignIn, FiniteSetTheorems, TLAPS

Rows == [left : Int, lifetime : Int, idle : Int, epoch : Nat, late : BOOLEAN]

Views == [sid : SessionIds, verdict : {"expired", "disabled", "touch"}, left : Int, idle : Int]

Accounts == [password : Nat, totp : Nat, sealed : BOOLEAN, last : Int, disabled : BOOLEAN,
             newest : Nat]

Later == {"waiting", "hash", "match", "record", "session"}

\* A request that has read the account's row.
Decided == [pc : Later, email : Emails, verdict : {"fail", "refuse", "record", "match"},
            epoch : Nat, step : Int]

Asking == [pc : {"idle"}] \cup [pc : {"lookup"}, email : Emails]

\* Durations and limits are naturals, requests finitely many at a time, and
\* None is neither a row nor the name of one.
Sizes ==
    /\ SessionTTL \in Nat /\ MaxSessionLifetime \in Nat /\ TouchInterval \in Nat
    /\ HashSlots \in Nat /\ IsFiniteSet(Requests)
    /\ None \notin Rows /\ None \notin SessionIds

SlotsRespected == Cardinality(Hashing) <= HashSlots

RequestInv ==
    /\ req \in [Requests -> Asking \cup Decided]
    /\ epoch \in Nat
    /\ SlotsRespected

AccountInv ==
    /\ account \in Accounts
    /\ ReplacedSecretStays
    /\ account.last >= Floor
    /\ spent \subseteq Int /\ \A x \in spent : x <= account.last

LivesBounded ==
    \A s \in SessionIds : sessions[s] # None => sessions[s].lifetime <= MaxSessionLifetime

SessionInv ==
    /\ sessions \in [SessionIds -> Rows \cup {None}]
    /\ view \in Views \cup {NoView}
    /\ SessionsEnd /\ SignedOutStays /\ LivesBounded
    /\ view # NoView =>
         /\ view.left <= MaxSessionLifetime
         /\ sessions[view.sid] # None => view.left <= sessions[view.sid].lifetime

Inv == RequestInv /\ AccountInv /\ SessionInv

-------------------------------------------------------------------------------
(***************************************************************************)
(* The operators.                                                          *)
(***************************************************************************)

\* A request that moves on stays the request it was.
LEMMA Moves ==
    ASSUME NEW q \in Decided, NEW pc \in Later
    PROVE  /\ [q EXCEPT !.pc = pc] \in Decided
           /\ [q EXCEPT !.pc = pc].pc = pc
BY DEF Decided

\* Only a request that has read the row is past the lookup.
LEMMA PastLookup ==
    ASSUME NEW q \in Asking \cup Decided, q.pc \in Later
    PROVE  q \in Decided
BY DEF Asking, Decided, Later

\* An expiry never exceeds the life the session has left (capped).
LEMMA CappedBound ==
    ASSUME Sizes, NEW n \in Int
    PROVE  Capped(n) \in Int /\ Capped(n) <= n
BY DEF Sizes, Capped, Least

\* Time does not change which of two durations is the longer.
LEMMA DownMonotone ==
    ASSUME NEW a \in Int, NEW b \in Int, NEW floor \in Int
    PROVE  /\ Down(a, floor) \in Int /\ Down(a, floor) >= floor
           /\ a <= b => Down(a, floor) <= Down(b, floor)
           /\ b >= floor /\ a <= b => Down(a, floor) <= b
           /\ a <= b /\ a >= floor + 1 => a - 1 <= Down(b, floor)
BY DEF Down

\* A slot that is taken was free before; every other step of a request takes
\* none.
LEMMA Slots ==
    ASSUME Sizes, NEW S \in SUBSET Requests, NEW T \in SUBSET Requests, NEW r \in Requests,
           \/ T \subseteq S /\ Cardinality(S) <= HashSlots
           \/ T \subseteq S \cup {r} /\ Cardinality(S) < HashSlots
    PROVE  Cardinality(T) <= HashSlots
<1>1. IsFiniteSet(S) /\ IsFiniteSet(S \cup {r}) /\ IsFiniteSet(T)
    <2>1. IsFiniteSet(Requests)
        BY DEF Sizes
    <2>2. S \cup {r} \in SUBSET Requests
        OBVIOUS
    <2> QED
        BY <2>1, <2>2, FS_Subset
<1>2. Cardinality(S) \in Nat /\ Cardinality(T) \in Nat /\ Cardinality(S \cup {r}) \in Nat
    BY <1>1, FS_CardinalityType
<1>3. Cardinality(S \cup {r}) <= Cardinality(S) + 1
    BY <1>1, <1>2, FS_AddElement
<1>4. CASE T \subseteq S /\ Cardinality(S) <= HashSlots
    <2>1. Cardinality(T) <= Cardinality(S)
        BY <1>1, <1>4, FS_Subset
    <2> QED
        BY <2>1, <1>2, <1>4 DEF Sizes
<1>5. CASE T \subseteq S \cup {r} /\ Cardinality(S) < HashSlots
    <2>1. Cardinality(T) <= Cardinality(S \cup {r})
        BY <1>1, <1>5, FS_Subset
    <2> QED
        BY <2>1, <1>2, <1>3, <1>5 DEF Sizes
<1> QED
    BY Zenon, <1>4, <1>5

-------------------------------------------------------------------------------
(***************************************************************************)
(* The requests.                                                           *)
(***************************************************************************)

\* A step that leaves the requests and the epoch alone.
LEMMA RequestFrame ==
    ASSUME RequestInv, UNCHANGED req, epoch' \in Nat
    PROVE  RequestInv'
BY Zenon DEF RequestInv, SlotsRespected, Hashing

\* A step of one request that takes no slot, or takes one that is free.
LEMMA OneRequest ==
    ASSUME Sizes, RequestInv, NEW r \in Requests, NEW q \in Asking \cup Decided,
           req' = [req EXCEPT ![r] = q], UNCHANGED epoch,
           q.pc = "hash" => Cardinality(Hashing) < HashSlots
    PROVE  RequestInv'
<1>1. req' \in [Requests -> Asking \cup Decided]
    BY Zenon DEF RequestInv
<1>2. Hashing \in SUBSET Requests /\ Hashing' \in SUBSET Requests
    BY DEF Hashing
<1>3. \A s \in Requests : s # r => req'[s] = req[s]
    BY Zenon DEF RequestInv
<1>4. req'[r] = q
    BY DEF RequestInv
<1>5. CASE q.pc = "hash"
    <2>1. Hashing' \subseteq Hashing \cup {r}
        BY Zenon, <1>3 DEF Hashing
    <2>2. Cardinality(Hashing') <= HashSlots
        BY <1>2, <1>5, <2>1, Slots
    <2> QED
        BY Zenon, <1>1, <2>2 DEF RequestInv, SlotsRespected
<1>6. CASE q.pc # "hash"
    <2>1. Hashing' \subseteq Hashing
        BY Zenon, <1>3, <1>4, <1>6 DEF Hashing
    <2>2. Cardinality(Hashing') <= HashSlots
        BY Zenon, <1>2, <2>1, Slots DEF RequestInv, SlotsRespected
    <2> QED
        BY <1>1, <2>2 DEF RequestInv, SlotsRespected
<1> QED
    BY <1>5, <1>6

\* The two ways a request goes on.
LEMMA Going ==
    ASSUME Sizes, RequestInv, NEW r \in Requests, UNCHANGED epoch,
           \/ Answer(r)
           \/ \E pc \in Later :
                /\ req[r].pc \in Later /\ Goto(r, pc)
                /\ pc = "hash" => Cardinality(Hashing) < HashSlots
    PROVE  RequestInv'
<1>1. CASE Answer(r)
    <2>1. Idle \in Asking \cup Decided /\ Idle.pc # "hash"
        BY DEF Idle, Asking
    <2> QED
        BY Zenon, <1>1, <2>1, OneRequest DEF Answer
<1>2. ASSUME NEW pc \in Later, req[r].pc \in Later, Goto(r, pc),
             pc = "hash" => Cardinality(Hashing) < HashSlots
      PROVE  RequestInv'
    <2>1. req[r] \in Decided
        BY Zenon, <1>2, PastLookup DEF RequestInv
    <2> DEFINE q == [req[r] EXCEPT !.pc = pc]
    <2>2. q \in Decided /\ q.pc = pc
        BY <2>1, Moves
    <2>3. req' = [req EXCEPT ![r] = q]
        BY Zenon, <1>2 DEF Goto
    <2> QED
        BY Zenon, <1>2, <2>2, <2>3, OneRequest
<1> QED
    BY <1>1, <1>2

\* Every step keeps the requests well formed and the slots respected
\* (AuthenticateFrom, verifyPassword).
LEMMA RequestSteps ==
    ASSUME Sizes, RequestInv, [Next]_vars
    PROVE  RequestInv'
<1>1. ASSUME NEW r \in Requests, Arrive(r) PROVE RequestInv'
    <2>1. PICK email \in Emails : req' = [req EXCEPT ![r] = [pc |-> "lookup", email |-> email]]
        BY Zenon, <1>1 DEF Arrive
    <2>2. [pc |-> "lookup", email |-> email] \in Asking
        BY DEF Asking
    <2>3. UNCHANGED epoch
        BY Zenon, <1>1 DEF Arrive
    <2> QED
        BY Zenon, <2>1, <2>2, <2>3, OneRequest
<1>2. ASSUME NEW r \in Requests, Lookup(r) PROVE RequestInv'
    <2>1. UNCHANGED epoch /\ req[r].pc = "lookup"
        BY Zenon, <1>2 DEF Lookup
    <2>2. CASE Allowed(Address, MaxAddress)
        <3>1. PICK right \in BOOLEAN, code \in Codes \cup {NoCode} :
                LET verdict == Verdict(req[r].email, right, code)
                IN  req' = [req EXCEPT ![r] =
                      [pc |-> "waiting", email |-> req[r].email, verdict |-> verdict,
                       epoch |-> epoch,
                       step |-> IF verdict = "match" THEN code.step ELSE 0]]
            BY Zenon, <1>2, <2>2 DEF Lookup
        <3> DEFINE verdict == Verdict(req[r].email, right, code)
                   step == IF verdict = "match" THEN code.step ELSE 0
                   q == [pc |-> "waiting", email |-> req[r].email, verdict |-> verdict,
                         epoch |-> epoch, step |-> step]
        <3>2. verdict \in {"fail", "refuse", "record", "match"}
            BY Zenon DEF Verdict
        <3>3. step \in Int
            BY DEF Codes, NoCode
        <3>4. req[r].email \in Emails
            BY Zenon, <2>1 DEF RequestInv, Asking, Decided, Later
        <3>5. req' = [req EXCEPT ![r] = q]
            BY Zenon, <3>1
        <3> HIDE DEF verdict, step
        <3>6. q \in Decided /\ q.pc # "hash"
            BY Zenon, <3>2, <3>3, <3>4 DEF Decided, Later, RequestInv
        <3> QED
            BY Zenon, <2>1, <3>5, <3>6, OneRequest
    <2>3. CASE ~Allowed(Address, MaxAddress)
        BY <1>2, <2>1, <2>3, Going DEF Lookup
    <2> QED
        BY <2>2, <2>3
<1>3. ASSUME NEW r \in Requests, Acquire(r) PROVE RequestInv'
    BY <1>3, Going DEF Acquire, Later
<1>4. ASSUME NEW r \in Requests, NoSlot(r) PROVE RequestInv'
    BY Zenon, <1>4, Going DEF NoSlot
<1>5. ASSUME NEW r \in Requests, Hashed(r) PROVE RequestInv'
    <2>1. req[r].pc \in Later /\ UNCHANGED epoch
        BY <1>5 DEF Hashed, Later
    <2>2. req[r].verdict \in {"fail", "refuse", "record", "match"}
        BY <2>1, PastLookup DEF RequestInv, Decided
    <2>3. Answer(r) \/ \E pc \in {"record", "match"} : Goto(r, pc)
        BY Zenon, <1>5, <2>2 DEF Hashed
    <2> QED
        BY Zenon, <2>1, <2>3, Going DEF Later
<1>6. ASSUME NEW r \in Requests, Claim(r) PROVE RequestInv'
    <2>1. req[r].pc = "match" /\ UNCHANGED epoch /\ (Answer(r) \/ Goto(r, "record"))
        BY Zenon, <1>6 DEF Claim
    <2> QED
        BY Zenon, <2>1, Going DEF Later
<1>7. ASSUME NEW r \in Requests, Record(r) PROVE RequestInv'
    BY Zenon, <1>7, Going DEF Record, Later
<1>8. ASSUME NEW r \in Requests, Login(r) PROVE RequestInv'
    BY <1>8, Going DEF Login
<1>9. CASE Tick
    <2>1. UNCHANGED epoch /\ req' = [r \in Requests |->
                IF req[r].pc \in {"waiting", "hash", "match"} /\ req[r].verdict = "match"
                THEN [req[r] EXCEPT !.step = Down(@, Floor)] ELSE req[r]]
        BY Zenon, <1>9 DEF Tick
    <2>2. ASSUME NEW r \in Requests
          PROVE  req'[r] \in Asking \cup Decided /\ req'[r].pc = req[r].pc
        <3>1. CASE req[r].pc \in {"waiting", "hash", "match"} /\ req[r].verdict = "match"
            <4>1. req[r] \in Decided
                BY <3>1, PastLookup DEF RequestInv, Later
            <4>a. req[r].step \in Int /\ Floor \in Int
                BY <4>1 DEF Decided, Floor
            <4>2. Down(req[r].step, Floor) \in Int
                BY Zenon, <4>a, DownMonotone
            <4>3. req'[r] = [req[r] EXCEPT !.step = Down(req[r].step, Floor)]
                BY Zenon, <2>1, <3>1
            <4> QED
                BY <4>1, <4>2, <4>3 DEF Decided
        <3>2. CASE ~(req[r].pc \in {"waiting", "hash", "match"} /\ req[r].verdict = "match")
            <4>1. req'[r] = req[r]
                BY Zenon, <2>1, <3>2
            <4> QED
                BY Zenon, <4>1 DEF RequestInv
        <3> QED
            BY Zenon, <3>1, <3>2
    <2>3. req' \in [Requests -> Asking \cup Decided]
        BY Zenon, <2>1, <2>2
    <2>4. Hashing' = Hashing
        BY <2>2 DEF Hashing
    <2> QED
        BY Zenon, <2>1, <2>3, <2>4 DEF RequestInv, SlotsRespected
<1>10. ASSUME NEW s \in SessionIds, ValidateSession(s) \/ Logout(s) PROVE RequestInv'
    <2>1. UNCHANGED <<req, epoch>>
        BY Zenon, <1>10 DEF ValidateSession, Logout
    <2> QED
        BY Zenon, <2>1, RequestFrame DEF RequestInv
<1>11. CASE \/ FinishValidation \/ DeleteExpiredSessions \/ ListPlainTOTPSecrets
            \/ ReplaceTOTPSecret \/ UNCHANGED vars
    <2>1. UNCHANGED <<req, epoch>>
        BY Zenon, <1>11 DEF FinishValidation, DeleteExpiredSessions, ListPlainTOTPSecrets,
                     ReplaceTOTPSecret, vars
    <2> QED
        BY Zenon, <2>1, RequestFrame DEF RequestInv
<1>12. CASE SetPassword \/ \E on \in BOOLEAN : SetAdminTOTP(on) \/ SetDisabled(on)
    <2>1. UNCHANGED req /\ epoch' \in {epoch, epoch + 1}
        BY Zenon, <1>12 DEF SetPassword, SetAdminTOTP, EnableTOTP, DisableTOTP, SetDisabled,
                     SignOutEverywhere
    <2> QED
        BY <2>1, RequestFrame DEF RequestInv
<1> QED
    BY Zenon, <1>1, <1>2, <1>3, <1>4, <1>5, <1>6, <1>7, <1>8, <1>9, <1>10, <1>11, <1>12 DEF Next, Step

-------------------------------------------------------------------------------
(***************************************************************************)
(* The account.                                                            *)
(***************************************************************************)

LEMMA AccountFrame ==
    ASSUME AccountInv, UNCHANGED <<account, spent>>
    PROVE  AccountInv'
BY DEF AccountInv, ReplacedSecretStays

\* Every step keeps what the account's row says of its authenticator and of the
\* codes that were used (ClaimTOTPStep, UpdateAdminTOTP, ReplaceTOTPSecret).
LEMMA AccountSteps ==
    ASSUME RequestInv, AccountInv, [Next]_vars
    PROVE  AccountInv'
<1>1. ASSUME NEW r \in Requests, Claim(r) PROVE AccountInv'
    <2> DEFINE step == req[r].step
    <2>1. CASE MatchTOTP(step) /\ ClaimTOTPStep(step)
        <3>1. /\ account' = [account EXCEPT !.last = step]
              /\ spent' = spent \cup {step}
            BY Zenon, <1>1, <2>1 DEF Claim
        <3>2. step \in Int /\ step >= Floor /\ account.last < step
            BY <2>1 DEF MatchTOTP, ClaimTOTPStep, Floor
        <3>3. account' \in Accounts /\ account'.last = step /\ account'.totp = account.totp
              /\ account'.newest = account.newest
            BY Zenon, <3>1, <3>2 DEF AccountInv, Accounts
        <3>4. \A x \in spent' : x \in Int /\ x <= step
            BY <3>1, <3>2 DEF AccountInv, Accounts
        <3> QED
            BY Zenon, <3>2, <3>3, <3>4 DEF AccountInv, ReplacedSecretStays
    <2>2. CASE ~(MatchTOTP(step) /\ ClaimTOTPStep(step))
        BY Zenon, <1>1, <2>2, AccountFrame DEF Claim
    <2> QED
        BY <2>1, <2>2
<1>2. CASE SetPassword
    BY <1>2 DEF SetPassword, AccountInv, Accounts, ReplacedSecretStays
<1>3. ASSUME NEW on \in BOOLEAN, SetDisabled(on) PROVE AccountInv'
    BY <1>3 DEF SetDisabled, AccountInv, Accounts, ReplacedSecretStays
<1>4. ASSUME NEW on \in BOOLEAN, SetAdminTOTP(on) PROVE AccountInv'
    <2>1. PICK secret \in Nat, newest \in Nat :
            /\ secret \in {0, newest}
            /\ account' = [account EXCEPT !.totp = secret, !.sealed = TRUE, !.last = Floor,
                                          !.newest = newest]
            /\ spent' = {}
        <3>1. account.newest \in Nat /\ account.newest + 1 \in Nat
            BY DEF AccountInv, Accounts
        <3>2. CASE EnableTOTP
            BY Zenon, <3>1, <3>2 DEF EnableTOTP, UpdateAdminTOTP
        <3>3. CASE DisableTOTP
            BY Zenon, <3>1, <3>3 DEF DisableTOTP, UpdateAdminTOTP
        <3> QED
            BY Zenon, <1>4, <3>2, <3>3 DEF SetAdminTOTP
    <2>2. account' \in Accounts /\ account'.totp = secret /\ account'.newest = newest
          /\ account'.last = Floor
        <3>1. account \in Accounts /\ Floor \in Int
            BY DEF AccountInv, Floor
        <3> QED
            BY Zenon, <2>1, <3>1 DEF Accounts
    <2> QED
        BY <2>1, <2>2 DEF AccountInv, ReplacedSecretStays, Floor
<1>5. CASE ReplaceTOTPSecret
    <2>1. UNCHANGED spent
        BY <1>5 DEF ReplaceTOTPSecret
    <2>2. CASE StillPlain(sealing)
        <3>1. sealing = account.totp /\ account' = [account EXCEPT !.totp = sealing, !.sealed = TRUE]
            BY <1>5, <2>2 DEF ReplaceTOTPSecret, StillPlain
        <3>2. account' \in Accounts /\ account'.totp = account.totp
              /\ account'.newest = account.newest /\ account'.last = account.last
            BY Zenon, <3>1 DEF AccountInv, Accounts
        <3> QED
            BY <2>1, <3>2 DEF AccountInv, ReplacedSecretStays
    <2>3. CASE ~StillPlain(sealing)
        BY <1>5, <2>1, <2>3, AccountFrame DEF ReplaceTOTPSecret
    <2> QED
        BY Zenon, <2>2, <2>3
<1>6. CASE Tick
    <2>1. /\ account' = [account EXCEPT !.last = Down(account.last, Floor)]
          /\ spent' = {s - 1 : s \in spent} \cap (-1..1)
        BY Zenon, <1>6 DEF Tick
    <2>2. account.last \in Int /\ Floor \in Int
        BY DEF AccountInv, Accounts, Floor
    <2>3. Down(account.last, Floor) \in Int /\ Down(account.last, Floor) >= Floor
        BY Zenon, <2>2, DownMonotone
    <2>4. account' \in Accounts /\ account'.totp = account.totp
          /\ account'.newest = account.newest /\ account'.last = Down(account.last, Floor)
        BY Zenon, <2>1, <2>3 DEF AccountInv, Accounts
    <2>5. ASSUME NEW x \in spent' PROVE x \in Int /\ x <= account'.last
        <3>1. PICK s \in spent : x = s - 1 /\ x \in -1..1
            BY <2>1
        <3>2. s \in Int /\ s <= account.last
            BY DEF AccountInv
        <3>3. s >= Floor + 1
            BY <3>1, <3>2 DEF Floor
        <3>4. s - 1 <= Down(account.last, Floor)
            BY Zenon, <2>2, <3>2, <3>3, DownMonotone
        <3> QED
            BY <2>4, <3>1, <3>2, <3>4
    <2> QED
        BY <2>3, <2>4, <2>5 DEF AccountInv, ReplacedSecretStays
<1>7. ASSUME NEW r \in Requests,
             \/ Arrive(r) \/ Lookup(r) \/ Acquire(r) \/ NoSlot(r) \/ Hashed(r) \/ Record(r)
             \/ Login(r)
      PROVE  AccountInv'
    BY Zenon, <1>7, AccountFrame DEF Arrive, Lookup, Acquire, NoSlot, Hashed, Record, Login
<1>8. ASSUME NEW s \in SessionIds, ValidateSession(s) \/ Logout(s) PROVE AccountInv'
    BY <1>8, AccountFrame DEF ValidateSession, Logout
<1>9. CASE FinishValidation \/ DeleteExpiredSessions \/ ListPlainTOTPSecrets \/ UNCHANGED vars
    BY <1>9, AccountFrame DEF FinishValidation, DeleteExpiredSessions, ListPlainTOTPSecrets, vars
<1> QED
    BY Zenon, <1>1, <1>2, <1>3, <1>4, <1>5, <1>6, <1>7, <1>8, <1>9 DEF Next, Step

-------------------------------------------------------------------------------
(***************************************************************************)
(* The sessions.                                                           *)
(***************************************************************************)

LEMMA SessionFrame ==
    ASSUME SessionInv, UNCHANGED <<sessions, view, epoch>>
    PROVE  SessionInv'
BY Zenon DEF SessionInv, SessionsEnd, SignedOutStays, LivesBounded, Live

\* A step after which every session that is left was there before with as long
\* to live at least, and is no further from its end.
LEMMA FewerSessions ==
    ASSUME Sizes, SessionInv, view' \in {view, NoView}, UNCHANGED epoch,
           sessions' \in [SessionIds -> Rows \cup {None}],
           \A s \in SessionIds : sessions'[s] # None => sessions'[s] = sessions[s]
    PROVE  SessionInv'
<1>1. SessionsEnd' /\ SignedOutStays' /\ LivesBounded'
    BY Zenon DEF SessionInv, SessionsEnd, SignedOutStays, LivesBounded, Live
<1>2. view' # NoView => view' = view /\ view.sid \in SessionIds
    BY Zenon DEF SessionInv, Views
<1>3. view' \in Views \cup {NoView}
    BY Zenon DEF SessionInv
<1> QED
    BY <1>1, <1>2, <1>3 DEF SessionInv, NoView

\* A sign-out everywhere leaves no session, so none of an earlier epoch.
LEMMA NoSessions ==
    ASSUME Sizes, SessionInv, view' \in {view, NoView}, sessions' = DeleteSessionsForAdmin
    PROVE  SessionInv'
<1>1. \A s \in SessionIds : sessions'[s] = None
    BY Zenon DEF DeleteSessionsForAdmin
<1>2. sessions' \in [SessionIds -> Rows \cup {None}]
    BY Zenon DEF DeleteSessionsForAdmin
<1>3. view' # NoView => view' = view /\ view.sid \in SessionIds
    BY Zenon DEF SessionInv, Views
<1>4. view' \in Views \cup {NoView}
    BY DEF SessionInv
<1>5. SessionsEnd' /\ SignedOutStays' /\ LivesBounded'
    BY Zenon, <1>1 DEF SessionsEnd, SignedOutStays, LivesBounded, Live
<1> QED
    BY <1>1, <1>2, <1>3, <1>4, <1>5 DEF SessionInv, NoView

\* Every step keeps the sessions within their lives and the signed-out ones out
\* (capped, TouchSession, DeleteSessionsForAdmin).
LEMMA SessionSteps ==
    ASSUME Sizes, RequestInv, SessionInv, [Next]_vars
    PROVE  SessionInv'
<1>1. ASSUME NEW r \in Requests, Login(r) PROVE SessionInv'
    <2>1. PICK s \in SessionIds \ Live :
            sessions' = [sessions EXCEPT ![s] = NewSession(req[r].epoch)]
        BY Zenon, <1>1 DEF Login
    <2>2. UNCHANGED <<view, epoch>> /\ req[r].pc \in Later
        BY Zenon, <1>1 DEF Login, Later
    <2>3. req[r].epoch \in Nat /\ epoch \in Nat
        BY Zenon, <2>2, PastLookup DEF RequestInv, Decided
    <2>4. MaxSessionLifetime \in Int /\ Capped(MaxSessionLifetime) \in Int
          /\ Capped(MaxSessionLifetime) <= MaxSessionLifetime
        BY CappedBound DEF Sizes
    <2> DEFINE row == NewSession(req[r].epoch)
    <2>5. row \in Rows
        BY <2>3, <2>4 DEF NewSession, Rows
    <2>6. row.left <= row.lifetime /\ row.lifetime = MaxSessionLifetime
          /\ (row.epoch = epoch \/ row.late)
        BY Zenon, <2>4 DEF NewSession
    <2> HIDE DEF row
    <2>7. sessions' \in [SessionIds -> Rows \cup {None}]
        BY Zenon, <2>1, <2>5 DEF SessionInv, row
    <2>8. \A t \in SessionIds : sessions'[t] = IF t = s THEN row ELSE sessions[t]
        BY Zenon, <2>1 DEF SessionInv, row
    <2>9. SessionsEnd' /\ SignedOutStays' /\ LivesBounded'
        BY <2>2, <2>4, <2>6, <2>8 DEF SessionInv, SessionsEnd, SignedOutStays, LivesBounded, Live
    <2>10. view # NoView => view.sid \in SessionIds
        BY Zenon DEF SessionInv, Views
    <2> QED
        BY <2>2, <2>6, <2>7, <2>8, <2>9, <2>10 DEF SessionInv
<1>2. ASSUME NEW s \in SessionIds, ValidateSession(s) PROVE SessionInv'
    <2>1. sessions[s] \in Rows /\ sessions[s] # None
        BY Zenon, <1>2 DEF ValidateSession, Live, SessionInv
    <2>2. UNCHANGED <<sessions, epoch>>
        BY <1>2 DEF ValidateSession
    <2>3. PICK verdict \in {"expired", "disabled", "touch"} :
            view' = [sid |-> s, verdict |-> verdict, left |-> Capped(sessions[s].lifetime),
                     idle |-> 0]
        BY Zenon, <1>2 DEF ValidateSession
    <2>4. sessions[s].lifetime \in Int
        BY <2>1 DEF Rows
    <2>5. Capped(sessions[s].lifetime) \in Int
          /\ Capped(sessions[s].lifetime) <= sessions[s].lifetime
        BY Zenon, <2>4, CappedBound
    <2>6. view' \in Views /\ view'.sid = s /\ view'.left = Capped(sessions[s].lifetime)
        BY <2>3, <2>5 DEF Views
    <2>7. SessionsEnd' /\ SignedOutStays' /\ LivesBounded'
        BY Zenon, <2>2 DEF SessionInv, SessionsEnd, SignedOutStays, LivesBounded, Live
    <2>8. Capped(sessions[s].lifetime) <= MaxSessionLifetime
        BY <2>1, <2>4, <2>5 DEF SessionInv, LivesBounded, Sizes
    <2> QED
        BY <2>2, <2>5, <2>6, <2>7, <2>8 DEF SessionInv
<1>3. CASE FinishValidation
    <2>1. view \in Views /\ view' = NoView /\ UNCHANGED epoch
        BY Zenon, <1>3 DEF FinishValidation, SessionInv
    <2>2. view.sid \in SessionIds /\ view.left \in Int /\ view.idle \in Int
          /\ view.verdict \in {"expired", "disabled", "touch"}
        BY Zenon, <2>1 DEF Views
    <2>3. CASE view.verdict = "expired"
        <3>1. sessions' = [sessions EXCEPT ![view.sid] = None]
            BY <1>3, <2>3 DEF FinishValidation, DeleteSession
        <3>2. sessions' \in [SessionIds -> Rows \cup {None}]
              /\ \A s \in SessionIds : sessions'[s] # None => sessions'[s] = sessions[s]
            BY Zenon, <2>2, <3>1 DEF SessionInv
        <3> QED
            BY Zenon, <2>1, <3>2, FewerSessions
    <2>4. CASE view.verdict = "disabled"
        BY <1>3, <2>1, <2>4, NoSessions DEF FinishValidation
    <2>5. CASE view.verdict = "touch"
        <3>1. sessions' = TouchSession(view)
            BY <1>3, <2>5 DEF FinishValidation
        <3>2. CASE view.sid \notin Live
            <4>1. UNCHANGED sessions
                BY <3>1, <3>2 DEF TouchSession
            <4> QED
                BY Zenon, <2>1, <4>1, FewerSessions DEF SessionInv
        <3>3. CASE view.sid \in Live
            <4> DEFINE row == [sessions[view.sid] EXCEPT !.left = view.left, !.idle = view.idle]
            <4>1. sessions[view.sid] \in Rows
                BY Zenon, <2>2, <3>3 DEF Live, SessionInv
            <4>2. sessions' = [sessions EXCEPT ![view.sid] = row]
                BY Zenon, <2>2, <3>1, <3>3 DEF TouchSession, SessionInv
            <4>3. row \in Rows /\ row.left = view.left
                  /\ row.lifetime = sessions[view.sid].lifetime
                  /\ row.epoch = sessions[view.sid].epoch /\ row.late = sessions[view.sid].late
                BY Zenon, <2>2, <4>1 DEF Rows
            <4> HIDE DEF row
            <4>4. sessions' \in [SessionIds -> Rows \cup {None}]
                BY Zenon, <2>2, <4>2, <4>3 DEF SessionInv
            <4>5. \A t \in SessionIds :
                    sessions'[t] = IF t = view.sid THEN row ELSE sessions[t]
                BY <2>2, <4>2 DEF SessionInv
            <4>6. view # NoView /\ view.left <= sessions[view.sid].lifetime
                BY <1>3, <3>3 DEF FinishValidation, SessionInv, Live
            <4>7. SessionsEnd' /\ SignedOutStays' /\ LivesBounded'
                BY <2>1, <3>3, <4>3, <4>5, <4>6
                   DEF SessionInv, SessionsEnd, SignedOutStays, LivesBounded, Live
            <4> QED
                BY Zenon, <2>1, <4>4, <4>7 DEF SessionInv, NoView
        <3> QED
            BY <3>2, <3>3
    <2> QED
        BY <2>2, <2>3, <2>4, <2>5
<1>4. ASSUME NEW s \in SessionIds, Logout(s) PROVE SessionInv'
    <2>1. /\ sessions' = [sessions EXCEPT ![s] = None]
          /\ UNCHANGED <<view, epoch>>
        BY Zenon, <1>4 DEF Logout, DeleteSession
    <2>2. /\ sessions' \in [SessionIds -> Rows \cup {None}]
          /\ \A t \in SessionIds : sessions'[t] # None => sessions'[t] = sessions[t]
        BY Zenon, <2>1 DEF SessionInv
    <2> QED
        BY <2>1, <2>2, FewerSessions
<1>5. CASE DeleteExpiredSessions
    <2>1. /\ sessions' = [s \in SessionIds |->
                IF s \in Live /\ sessions[s].left <= 0 THEN None ELSE sessions[s]]
          /\ UNCHANGED <<view, epoch>>
        BY Zenon, <1>5 DEF DeleteExpiredSessions
    <2>2. /\ sessions' \in [SessionIds -> Rows \cup {None}]
          /\ \A t \in SessionIds : sessions'[t] # None => sessions'[t] = sessions[t]
        BY Zenon, <2>1 DEF SessionInv
    <2> QED
        BY Zenon, <2>1, <2>2, FewerSessions
<1>6. CASE SetPassword
    BY <1>6, NoSessions DEF SetPassword, SignOutEverywhere
<1>7. ASSUME NEW on \in BOOLEAN, SetDisabled(on) PROVE SessionInv'
    <2>1. CASE on
        BY <1>7, <2>1, NoSessions DEF SetDisabled, SignOutEverywhere
    <2>2. CASE ~on
        BY Zenon, <1>7, <2>2, SessionFrame DEF SetDisabled
    <2> QED
        BY <2>1, <2>2
<1>8. CASE Tick
    <2>1. UNCHANGED epoch
        BY Zenon, <1>8 DEF Tick
    <2>2. ASSUME NEW s \in SessionIds, sessions[s] # None
          PROVE  /\ sessions[s] \in Rows
                 /\ sessions'[s] \in Rows /\ sessions'[s] # None
                 /\ sessions'[s].left = Down(sessions[s].left, 0)
                 /\ sessions'[s].lifetime = Down(sessions[s].lifetime, 0)
                 /\ sessions'[s].epoch = sessions[s].epoch
                 /\ sessions'[s].late = sessions[s].late
        <3>1. sessions[s] \in Rows
            BY Zenon, <2>2 DEF SessionInv
        <3>2. sessions'[s] = [sessions[s] EXCEPT !.left = Down(sessions[s].left, 0),
                                                 !.lifetime = Down(sessions[s].lifetime, 0),
                                                 !.idle = Least(sessions[s].idle + 1, TouchInterval)]
            BY Zenon, <1>8, <2>2 DEF Tick, Live
        <3>3. Down(sessions[s].left, 0) \in Int /\ Down(sessions[s].lifetime, 0) \in Int
              /\ Least(sessions[s].idle + 1, TouchInterval) \in Int
            BY <3>1 DEF Rows, Down, Least, Sizes
        <3>4. sessions'[s] \in Rows
            BY Zenon, <3>1, <3>2, <3>3 DEF Rows
        <3>5. sessions'[s] # None
            BY <3>4 DEF Sizes
        <3> QED
            BY Zenon, <3>1, <3>2, <3>4, <3>5 DEF Rows
    <2>3. ASSUME NEW s \in SessionIds, sessions[s] = None PROVE sessions'[s] = None
        BY Zenon, <1>8, <2>3 DEF Tick, Live
    <2>4. sessions' \in [SessionIds -> Rows \cup {None}]
        <3>1. sessions' = [s \in SessionIds |-> sessions'[s]]
            BY Zenon, <1>8 DEF Tick
        <3> QED
            BY <2>2, <2>3, <3>1
    <2>5. SessionsEnd'
        <3> SUFFICES ASSUME NEW s \in SessionIds, sessions'[s] # None
                     PROVE  sessions'[s].left <= sessions'[s].lifetime
            BY Zenon DEF SessionsEnd, Live
        <3>1. sessions[s] # None
            BY <2>3
        <3>2. sessions[s].left \in Int /\ sessions[s].lifetime \in Int
              /\ sessions[s].left <= sessions[s].lifetime
            BY Zenon, <2>2, <3>1 DEF Rows, SessionInv, SessionsEnd, Live
        <3>3. Down(sessions[s].left, 0) <= Down(sessions[s].lifetime, 0)
            BY <3>2 DEF Down
        <3> QED
            BY Zenon, <2>2, <3>1, <3>3
    <2>6. SignedOutStays'
        BY Zenon, <2>1, <2>2, <2>3 DEF SessionInv, SignedOutStays, Live
    <2>7. LivesBounded'
        <3> SUFFICES ASSUME NEW s \in SessionIds, sessions'[s] # None
                     PROVE  sessions'[s].lifetime <= MaxSessionLifetime
            BY DEF LivesBounded
        <3>1. sessions[s] # None
            BY <2>3
        <3>2. sessions[s].lifetime \in Int /\ sessions[s].lifetime <= MaxSessionLifetime
            BY Zenon, <2>2, <3>1 DEF Rows, SessionInv, LivesBounded
        <3>3. Down(sessions[s].lifetime, 0) <= MaxSessionLifetime
            BY <3>2 DEF Down, Sizes
        <3> QED
            BY <2>2, <3>1, <3>3
    <2>8. CASE view = NoView
        <3>1. view' = NoView
            BY Zenon, <1>8, <2>8 DEF Tick
        <3> QED
            BY Zenon, <2>4, <2>5, <2>6, <2>7, <3>1 DEF SessionInv, NoView
    <2>9. CASE view # NoView
        <3>1. view \in Views
            BY <2>9 DEF SessionInv
        <3>2. view' = [view EXCEPT !.left = Down(view.left, 0),
                                   !.idle = Least(view.idle + 1, TouchInterval)]
            BY Zenon, <1>8, <2>9 DEF Tick
        <3>3. view.sid \in SessionIds /\ view.left \in Int /\ Down(view.left, 0) \in Int
              /\ Least(view.idle + 1, TouchInterval) \in Int
            BY <3>1 DEF Views, Down, Least, Sizes
        <3>4. view' \in Views /\ view'.sid = view.sid /\ view'.left = Down(view.left, 0)
            BY Zenon, <3>1, <3>2, <3>3 DEF Views
        <3>5. Down(view.left, 0) <= MaxSessionLifetime
            BY <2>9, <3>3 DEF SessionInv, Sizes, Down
        <3>6. ASSUME sessions'[view.sid] # None
              PROVE  Down(view.left, 0) <= sessions'[view.sid].lifetime
            <4>1. sessions[view.sid] # None
                BY Zenon, <2>3, <3>3, <3>6
            <4>2. sessions[view.sid].lifetime \in Int
                  /\ view.left <= sessions[view.sid].lifetime
                BY Zenon, <2>2, <2>9, <3>3, <4>1 DEF Rows, SessionInv
            <4>3. Down(view.left, 0) <= Down(sessions[view.sid].lifetime, 0)
                BY <3>3, <4>2 DEF Down
            <4> QED
                BY Zenon, <2>2, <3>3, <4>1, <4>3
        <3> QED
            BY <2>4, <2>5, <2>6, <2>7, <3>4, <3>5, <3>6 DEF SessionInv
    <2> QED
        BY <2>8, <2>9
<1>9. ASSUME NEW r \in Requests,
             \/ Arrive(r) \/ Lookup(r) \/ Acquire(r) \/ NoSlot(r) \/ Hashed(r) \/ Claim(r)
             \/ Record(r)
      PROVE  SessionInv'
    BY Zenon, <1>9, SessionFrame DEF Arrive, Lookup, Acquire, NoSlot, Hashed, Claim, Record
<1>10. ASSUME NEW on \in BOOLEAN, SetAdminTOTP(on) PROVE SessionInv'
    BY <1>10, SessionFrame DEF SetAdminTOTP, EnableTOTP, DisableTOTP
<1>11. CASE ListPlainTOTPSecrets \/ ReplaceTOTPSecret \/ UNCHANGED vars
    BY <1>11, SessionFrame DEF ListPlainTOTPSecrets, ReplaceTOTPSecret, vars
<1> QED
    BY <1>1, <1>2, <1>3, <1>4, <1>5, <1>6, <1>7, <1>8, <1>9, <1>10, <1>11 DEF Next, Step

-------------------------------------------------------------------------------
(***************************************************************************)
(* The theorems.                                                           *)
(***************************************************************************)

\* The invariant holds from the start and every step keeps it.
THEOREM Invariance == ASSUME Sizes PROVE Spec => []Inv
<1>1. Init => Inv
    <2> SUFFICES ASSUME Init PROVE Inv
        OBVIOUS
    <2>1. RequestInv
        <3>1. req = [r \in Requests |-> Idle] /\ epoch = 0
            BY DEF Init
        <3>2. Idle \in Asking /\ Idle.pc # "hash"
            BY DEF Idle, Asking
        <3>3. Hashing = {}
            BY <3>1, <3>2 DEF Hashing
        <3>4. Cardinality(Hashing) = 0
            BY Zenon, <3>3, FS_EmptySet
        <3> QED
            BY <3>1, <3>2, <3>4 DEF RequestInv, SlotsRespected, Sizes
    <2>2. AccountInv
        <3>1. Floor \in Int
            BY DEF Floor
        <3>2. /\ account \in [password : {1}, totp : {0, 1}, sealed : BOOLEAN, last : {Floor},
                              disabled : {FALSE}, newest : {1}]
              /\ spent = {}
            BY Zenon DEF Init
        <3>3. account.totp \in {0, 1} /\ account.newest = 1 /\ account.last = Floor
            BY <3>2
        <3>4. account \in Accounts
            <4>1. account = [password |-> account.password, totp |-> account.totp,
                             sealed |-> account.sealed, last |-> account.last,
                             disabled |-> account.disabled, newest |-> account.newest]
                BY Zenon, <3>2
            <4>2. account.password \in Nat /\ account.totp \in Nat /\ account.newest \in Nat
                  /\ account.last \in Int
                BY <3>1, <3>2
            <4>3. account.sealed \in BOOLEAN /\ account.disabled \in BOOLEAN
                BY <3>2, Zenon
            <4> QED
                BY <4>1, <4>2, <4>3 DEF Accounts
        <3> QED
            BY <3>1, <3>2, <3>3, <3>4 DEF AccountInv, ReplacedSecretStays
    <2>3. SessionInv
        BY DEF Init, SessionInv, SessionsEnd, SignedOutStays, LivesBounded, Live
    <2> QED
        BY <2>1, <2>2, <2>3 DEF Inv
<1>2. Inv /\ [Next]_vars => Inv'
    BY RequestSteps, AccountSteps, SessionSteps DEF Inv
<1> QED
    BY <1>1, <1>2, PTL DEF Spec

\* A session never outlives MaxSessionLifetime, however often it is used and
\* however late TouchSession writes.
THEOREM NeverPastItsLife == ASSUME Sizes PROVE Spec => []SessionsEnd
BY Invariance, PTL DEF Inv, SessionInv

\* Once a password change or SetDisabled has signed the account out, the only
\* sessions of before are those of a sign-in that had already read the row.
THEOREM SignedOutForGood == ASSUME Sizes PROVE Spec => []SignedOutStays
BY Invariance, PTL DEF Inv, SessionInv

\* SealTOTPSecrets never brings back a secret that was replaced meanwhile.
THEOREM SecretStaysReplaced == ASSUME Sizes PROVE Spec => []ReplacedSecretStays
BY Invariance, PTL DEF Inv, AccountInv

\* No more than hashSlots password checks ever run at once (verifyPassword).
THEOREM BoundedHashing == ASSUME Sizes PROVE Spec => []SlotsRespected
BY Invariance, PTL DEF Inv, RequestInv

\* A code signs in once, whatever sign-ins run beside it (ClaimTOTPStep).
THEOREM OneSignInPerCode == ASSUME Sizes PROVE Spec => CodeUsedOnce
<1>1. ASSUME Inv, [Next]_vars PROVE CodeUsedOnceStep
    <2> SUFFICES ASSUME NEW r \in Requests, req[r].pc = "match", req'[r].pc = "record"
                 PROVE  req[r].step \notin spent
        BY Zenon DEF CodeUsedOnceStep
    <2>1. req \in [Requests -> Asking \cup Decided]
        BY <1>1 DEF Inv, RequestInv
    <2>2. Claim(r)
        <3>1. CASE \E q \in Requests : Arrive(q) \/ Step(q)
            <4>1. PICK q \in Requests : Arrive(q) \/ Step(q)
                BY <3>1
            <4>2. q = r
                <5> SUFFICES ASSUME q # r PROVE req'[r] = req[r]
                    OBVIOUS
                <5> QED
                    BY Zenon, <2>1, <4>1 DEF Arrive, Step, Lookup, Acquire, NoSlot, Hashed, Claim,
                                      Record, Login, Goto, Answer
            <4> QED
                BY <4>1, <4>2 DEF Arrive, Step, Lookup, Acquire, NoSlot, Hashed, Record, Login,
                                  Idle
        <3>2. CASE Tick
            <4>1. req'[r].pc = req[r].pc
                <5>1. CASE req[r].verdict = "match"
                    <6>1. req'[r] = [req[r] EXCEPT !.step = Down(req[r].step, Floor)]
                        BY Zenon, <3>2, <5>1 DEF Tick
                    <6>2. req[r] \in Decided
                        BY Zenon, <2>1, PastLookup DEF Later
                    <6> QED
                        BY Zenon, <6>1, <6>2 DEF Decided
                <5>2. CASE req[r].verdict # "match"
                    BY Zenon, <3>2, <5>2 DEF Tick
                <5> QED
                    BY <5>1, <5>2
            <4> QED
                BY <4>1
        <3>3. CASE ~Tick /\ ~\E q \in Requests : Arrive(q) \/ Step(q)
            <4>1. UNCHANGED req
                BY Zenon, <1>1, <3>3 DEF Next, ValidateSession, Logout, FinishValidation,
                     DeleteExpiredSessions, SetPassword, SetAdminTOTP, EnableTOTP, DisableTOTP,
                     SetDisabled, ListPlainTOTPSecrets, ReplaceTOTPSecret, vars
            <4> QED
                BY <4>1
        <3> QED
            BY <3>1, <3>2, <3>3
    <2>3. account.last < req[r].step
        BY <2>1, <2>2 DEF Claim, Answer, ClaimTOTPStep, Idle
    <2>4. req[r] \in Decided
        BY <2>1, PastLookup DEF Later
    <2>5. req[r].step \in Int /\ account.last \in Int
        BY <1>1, <2>4 DEF Decided, Inv, AccountInv, Accounts
    <2> QED
        BY <1>1, <2>3, <2>5 DEF Inv, AccountInv
<1> QED
    BY <1>1, Invariance, PTL DEF Spec, CodeUsedOnce

===============================================================================
