------------------------------ MODULE Accounts ------------------------------
(***************************************************************************)
(* Administrators: their roles and device scopes, single sign-on, API      *)
(* tokens and what a request is granted (internal/server/auth,             *)
(* internal/server/adminapi, the admins, admin_scopes and api_tokens       *)
(* tables, and the admin subcommands of cmd/retune-server).                *)
(*                                                                         *)
(* Root and Other are local accounts, SSO the account of one subject of    *)
(* the identity provider.  Password sign-in is the subject of SignIn; here *)
(* a local account that is enabled can simply sign in.                     *)
(***************************************************************************)
EXTENDS Integers, FiniteSets

CONSTANTS
    None,       \* no row, no operation, no sign-in in progress
    Browsers,   \* sign-ins through the provider that may be in progress at once
    Operators,  \* administrators' operations that may be in progress at once
    TokenIds,   \* names for API tokens
    Groups,     \* the device groups there are at first
    Emails,     \* addresses accounts may have
    RootEmail,  \* the first account's
    NewRoles,   \* roles asked for in new accounts and tokens
    Claims,     \* what the provider may say of the subject's groups
    ScopesManaged, \* whether the provider's groups decide device scopes
    Overlap     \* whether transactions that change accounts may interleave

VARIABLES
    admins,    \* the admins table with each account's scope
    groups,    \* the device groups
    signedIn,  \* accounts with sessions
    tokens,    \* the api_tokens table
    browser,   \* sign-ins through the provider, in progress
    ops,       \* operations in progress
    refused,   \* history: the provider's last word on SSO was a refusal
    late       \* history: a session or token made by a request older than that

vars == <<admins, groups, signedIn, tokens, browser, ops, refused, late>>

Root == "root"
Other == "other"
SSO == "sso"
Accounts == {Root, Other, SSO}

RoleAdmin == "admin"
RoleHelpdesk == "helpdesk"
RoleReadOnly == "read_only"
NoRole == ""

RoleRank(role) ==
    CASE role = RoleAdmin -> 3 [] role = RoleHelpdesk -> 2 [] role = RoleReadOnly -> 1 [] OTHER -> 0

\* A scope is the whole fleet or a set of groups, the empty one included.
Fleet == [limited |-> FALSE, groups |-> {}]
Limited(gs) == [limited |-> TRUE, groups |-> gs]

Exists == {a \in Accounts : admins[a] # None}

\* isFleetAdmin
FleetAdmins == {a \in Exists : admins[a].role = RoleAdmin /\ ~admins[a].disabled /\ ~admins[a].scope.limited}

(***************************************************************************)
(* Single sign-on.                                                         *)
(***************************************************************************)

\* OIDC.role: the mapped group with the most access wins.
RoleOf(claim) ==
    IF "admins" \in claim THEN RoleAdmin
    ELSE IF "helpdesk" \in claim THEN RoleHelpdesk
    ELSE IF "readers" \in claim THEN RoleReadOnly
    ELSE NoRole

\* OIDC.scope: a fleet group wins; otherwise every device group that the
\* subject's groups map to.  Here a group of the provider maps to the device
\* group of the same name, which need not exist.
ScopeNames(claim) == claim \ {"admins", "helpdesk", "readers", "fleet"}

\* OIDC.Start: the browser leaves with a sealed cookie.
Start(b) ==
    /\ browser[b] = None
    /\ browser' = [browser EXCEPT ![b] = [pc |-> "away"]]
    /\ UNCHANGED <<admins, groups, signedIn, tokens, ops, refused, late>>

\* The provider sends the browser back with a code; what it will say of the
\* subject is fixed now.
ProviderAnswers(b) ==
    /\ browser[b] # None /\ browser[b].pc = "away"
    /\ \E claim \in Claims, email \in Emails :
        browser' = [browser EXCEPT ![b] = [pc |-> "back", claim |-> claim, email |-> email]]
    /\ UNCHANGED <<admins, groups, signedIn, tokens, ops, refused, late>>

\* Finish refuses before it looks for an account: an expired or foreign cookie,
\* a code the provider will not exchange, a token that does not verify, an
\* address that is missing or not verified, or the provider's own error.
FinishFails(b) ==
    /\ browser[b] # None /\ browser[b].pc \in {"away", "back"}
    /\ browser' = [browser EXCEPT ![b] = None]
    /\ UNCHANGED <<admins, groups, signedIn, tokens, ops, refused, late>>

\* applySSOScope: a device group that does not exist is skipped.
ApplySSOScope(claim, scope) ==
    IF ~ScopesManaged THEN scope
    ELSE IF "fleet" \in claim THEN Fleet
    ELSE Limited(ScopeNames(claim) \cap groups)

RevokeAPITokensForAdmin(a) ==
    [t \in TokenIds |-> IF tokens[t] # None /\ tokens[t].maker = a
                        THEN [tokens[t] EXCEPT !.revoked = TRUE] ELSE tokens[t]]

CutOffSessions ==
    /\ signedIn' = signedIn \ {SSO}
    /\ late' = {} /\ refused' = TRUE
    /\ UNCHANGED tokens

\* cutOff: sessions and tokens of the account go.
CutOff ==
    /\ signedIn' = signedIn \ {SSO}
    /\ tokens' = RevokeAPITokensForAdmin(SSO)
    /\ late' = {} /\ refused' = TRUE

\* Operations whose transaction has read and not yet written.
Deciding == {o \in Operators : ops[o] # None /\ ops[o].pc = "decided"}
MayInterleave == Overlap \/ Deciding = {}

EmailTaken(email) == \E a \in Exists \ {SSO} : admins[a].email = email

NoScope(claim) ==
    ScopesManaged /\ "fleet" \notin claim /\ ScopeNames(claim) = {}

\* In no group that is mapped to a role, or in none that is mapped to a scope.
Unmapped(claim) ==
    \/ RoleOf(claim) = NoRole
    \/ NoScope(claim)

\* signIn finds or creates the account in one transaction: someone in no mapped
\* group is cut off; a disabled account and a taken address are refused;
\* otherwise address, role and scope become what the provider says.
SignIn(b) ==
    LET claim == browser[b].claim
        email == browser[b].email
        found == SSO \in Exists
    IN  /\ browser[b] # None /\ browser[b].pc = "back" /\ MayInterleave
        /\ IF Unmapped(claim)
           THEN /\ CutOff
                /\ browser' = [browser EXCEPT ![b] = None]
                /\ UNCHANGED admins
           ELSE IF (found /\ admins[SSO].disabled) \/ EmailTaken(email)
           THEN /\ browser' = [browser EXCEPT ![b] = None]
                /\ UNCHANGED <<admins, signedIn, tokens, refused, late>>
           ELSE /\ admins' = [admins EXCEPT ![SSO] =
                     [role |-> RoleOf(claim), email |-> email, disabled |-> FALSE, sso |-> TRUE,
                      scope |-> ApplySSOScope(claim, IF found THEN admins[SSO].scope ELSE Fleet)]]
                /\ browser' = [browser EXCEPT ![b] = [pc |-> "in"]]
                /\ refused' = FALSE /\ late' = {}
                /\ UNCHANGED <<signedIn, tokens>>
        /\ UNCHANGED <<groups, ops>>

\* oidcCallback makes the session after signIn has committed.
Callback(b) ==
    /\ browser[b] # None /\ browser[b].pc = "in"
    /\ signedIn' = signedIn \cup {SSO}
    /\ late' = IF refused THEN late \cup {"session"} ELSE late
    /\ browser' = [browser EXCEPT ![b] = None]
    /\ UNCHANGED <<admins, groups, tokens, ops, refused>>

\* A local account signs in with its password (SignIn); any account signs out.
LocalLogin(a) ==
    /\ a \in Exists \ {SSO} /\ ~admins[a].disabled
    /\ signedIn' = signedIn \cup {a}
    /\ UNCHANGED <<admins, groups, tokens, browser, ops, refused, late>>

SignOut(a) ==
    /\ a \in signedIn
    /\ signedIn' = signedIn \ {a}
    /\ late' = late \ {"session"}
    /\ UNCHANGED <<admins, groups, tokens, browser, ops, refused>>

(***************************************************************************)
(* What a request is granted.                                              *)
(***************************************************************************)

\* The route's class: the least role, whether tokens may, whether scoped may.
WriteAdmin == [admin |-> TRUE, operate |-> FALSE, session |-> TRUE, fleet |-> TRUE]
Write == [admin |-> TRUE, operate |-> FALSE, session |-> FALSE, fleet |-> FALSE]
Operate == [admin |-> FALSE, operate |-> TRUE, session |-> FALSE, fleet |-> FALSE]

RoleSuffices(role, access) ==
    /\ access.admin => role = RoleAdmin
    /\ access.operate => RoleRank(role) >= RoleRank(RoleHelpdesk)

\* withScope: a fleet route refuses a scoped account.
WithScope(a, access) == access.fleet => ~admins[a].scope.limited

\* protect, for a session.
Protect(a, access) ==
    /\ a \in signedIn /\ ~admins[a].disabled
    /\ RoleSuffices(admins[a].role, access) /\ WithScope(a, access)

\* GetUsableAPIToken: live, its maker enabled, its role capped at the maker's.
Usable(t) == tokens[t] # None /\ ~tokens[t].revoked /\ ~admins[tokens[t].maker].disabled
CapRole(role, makerRole) == IF RoleRank(makerRole) < RoleRank(role) THEN makerRole ELSE role

\* withToken: what a request with the token is granted.
WithToken(t, access) ==
    /\ Usable(t) /\ ~access.session
    /\ RoleSuffices(CapRole(tokens[t].role, admins[tokens[t].maker].role), access)
    /\ WithScope(tokens[t].maker, access)

(***************************************************************************)
(* Operations on accounts: granted, read and decided, written.             *)
(***************************************************************************)

Console == Accounts
Cli == "cli"

\* setAdminDisabled, setAdminScope, createAdmin and createAPIToken of the console
\* and the admin subcommands of the server, which have no scope and no token.
AskDisabled == [kind : {"disable", "enable"}, target : Accounts, by : Console]
AskScope == [kind : {"scope"}, target : Accounts, by : Console,
             scope : {Fleet} \cup {Limited(gs) : gs \in SUBSET Groups}]
AskAdmin == [kind : {"create"}, target : {Other}, by : Console, role : NewRoles, email : Emails]
AskToken == [kind : {"token"}, target : {None}, by : Console, role : NewRoles]
AdminCmd ==
    [kind : {"disable", "enable"}, target : Accounts, by : {Cli}]
    \cup [kind : {"create"}, target : {Other}, by : {Cli}, role : NewRoles, email : Emails]

Petitions == AskDisabled \cup AskScope \cup AskAdmin \cup AskToken \cup AdminCmd

\* The console's routes for accounts and tokens are writeAdmin; the command
\* line asks nobody.  What the caller was is remembered, for a token's role.
Ask(o) ==
    /\ ops[o] = None
    /\ \E q \in Petitions :
        /\ q.by \in Accounts => q.by \in Exists /\ Protect(q.by, WriteAdmin)
        /\ ops' = [ops EXCEPT ![o] =
             [pc |-> "granted", q |-> q, role |-> IF q.by \in Accounts THEN admins[q.by].role ELSE NoRole]]
    /\ UNCHANGED <<admins, groups, signedIn, tokens, browser, refused, late>>

Done(o) == ops' = [ops EXCEPT ![o] = None]

IsLastOfAnyScope(a) ==
    \A b \in Exists \ {a} : admins[b].role # RoleAdmin \/ admins[b].disabled

\* fleetAdminsBesides(...) == 0 for an account that is one itself.
IsLast(a) == a \in FleetAdmins /\ FleetAdmins \ {a} = {}

\* SetDisabled keeps the last fleet admin.
MayDisable(a) == a \in Exists /\ ~IsLast(a)

\* SetScope keeps the last fleet admin and to groups that exist, and leaves to
\* the provider what it manages.
MayScope(a, scope) ==
    /\ a \in Exists
    /\ ~(ScopesManaged /\ admins[a].sso)
    /\ scope.limited => ~IsLast(a)
    /\ scope.groups \subseteq groups

\* CreateAdmin needs a free address, CreateAPIToken no more than the caller's role.
MayCreateAdmin(email) == Other \notin Exists /\ \A a \in Exists : admins[a].email # email
MayCreateToken(role, callerRole) == RoleRank(role) <= RoleRank(callerRole)

\* What the transaction reads decides whether it goes on.
Permitted(op) ==
    LET q == op.q
    IN  CASE q.kind = "disable" -> MayDisable(q.target)
          [] q.kind = "enable" -> q.target \in Exists
          [] q.kind = "scope" -> MayScope(q.target, q.scope)
          [] q.kind = "create" -> MayCreateAdmin(q.email)
          [] q.kind = "token" -> MayCreateToken(q.role, op.role)

Decide(o) ==
    /\ ops[o] # None /\ ops[o].pc = "granted" /\ MayInterleave
    /\ IF Permitted(ops[o]) THEN ops' = [ops EXCEPT ![o].pc = "decided"] ELSE Done(o)
    /\ UNCHANGED <<admins, groups, signedIn, tokens, browser, refused, late>>

\* SetDisabled: a disabled account loses its sessions, and keeps its tokens,
\* which do not work while it is disabled.
SetDisabled(a, disabled) ==
    /\ admins' = [admins EXCEPT ![a].disabled = disabled]
    /\ signedIn' = IF disabled THEN signedIn \ {a} ELSE signedIn
    /\ UNCHANGED <<tokens, late>>

\* SetScope; a group deleted since it was read fails the foreign key.
SetScope(a, scope) ==
    /\ admins' = IF scope.groups \subseteq groups THEN [admins EXCEPT ![a].scope = scope] ELSE admins
    /\ UNCHANGED <<signedIn, tokens, late>>

\* CreateAdmin; an address taken since fails the unique index.
CreateAdmin(a, role, email) ==
    /\ admins' = IF a \in Exists \/ \E b \in Exists : admins[b].email = email THEN admins
                 ELSE [admins EXCEPT ![a] = [role |-> role, email |-> email, disabled |-> FALSE,
                                             sso |-> FALSE, scope |-> Fleet]]
    /\ UNCHANGED <<signedIn, tokens, late>>

\* CreateAPIToken, while TokenIds has a name left.
CreateAPIToken(maker, role) ==
    /\ IF \E t \in TokenIds : tokens[t] = None
       THEN \E t \in TokenIds :
              /\ tokens[t] = None
              /\ tokens' = [tokens EXCEPT ![t] = [maker |-> maker, role |-> role, revoked |-> FALSE]]
       ELSE UNCHANGED tokens
    /\ late' = IF refused /\ maker = SSO THEN late \cup {"token"} ELSE late
    /\ UNCHANGED <<admins, signedIn>>

Perform(o) ==
    LET q == ops[o].q
    IN  /\ ops[o] # None /\ ops[o].pc = "decided"
        /\ CASE q.kind \in {"disable", "enable"} -> SetDisabled(q.target, q.kind = "disable")
             [] q.kind = "scope" -> SetScope(q.target, q.scope)
             [] q.kind = "create" -> CreateAdmin(q.target, q.role, q.email)
             [] q.kind = "token" -> CreateAPIToken(q.by, q.role)
        /\ Done(o)
        /\ UNCHANGED <<groups, browser, refused>>

\* RevokeAPIToken, by anyone who may.
RevokeAPIToken(t) ==
    /\ tokens[t] # None /\ ~tokens[t].revoked
    /\ \E a \in Exists : Protect(a, WriteAdmin)
    /\ tokens' = [tokens EXCEPT ![t].revoked = TRUE]
    /\ UNCHANGED <<admins, groups, signedIn, browser, ops, refused, late>>

\* Deleting a device group takes it out of every scope; the scoped column stays.
DeleteGroup(g) ==
    /\ g \in groups
    /\ groups' = groups \ {g}
    /\ admins' = [a \in Accounts |->
                    IF a \in Exists /\ admins[a].scope.limited
                    THEN [admins[a] EXCEPT !.scope = Limited(@.groups \ {g})] ELSE admins[a]]
    /\ UNCHANGED <<signedIn, tokens, browser, ops, refused, late>>

\* bootstrap-admin has made the first account.
Init ==
    /\ admins = [a \in Accounts |->
          IF a = Root THEN [role |-> RoleAdmin, email |-> RootEmail, disabled |-> FALSE, sso |-> FALSE, scope |-> Fleet]
          ELSE None]
    /\ groups = Groups
    /\ signedIn = {}
    /\ tokens = [t \in TokenIds |-> None]
    /\ browser = [b \in Browsers |-> None]
    /\ ops = [o \in Operators |-> None]
    /\ refused = FALSE /\ late = {}

Next ==
    \/ \E b \in Browsers : Start(b) \/ ProviderAnswers(b) \/ FinishFails(b) \/ SignIn(b) \/ Callback(b)
    \/ \E a \in Accounts : LocalLogin(a) \/ SignOut(a)
    \/ \E o \in Operators : Ask(o) \/ Decide(o) \/ Perform(o)
    \/ \E t \in TokenIds : RevokeAPIToken(t)
    \/ \E g \in Groups : DeleteGroup(g)

Spec == Init /\ [][Next]_vars

(***************************************************************************)
(* Properties.                                                             *)
(***************************************************************************)

LastFleetAdminStaysStep ==
    FleetAdmins # {} /\ FleetAdmins' = {} => \E b \in Browsers : SignIn(b)

\* Neither disabling accounts nor limiting their scope takes the last account
\* that can manage the whole fleet away; only a sign-in through the provider,
\* which sets a role without asking who else is left, can.
LastFleetAdminStays == [][LastFleetAdminStaysStep]_vars

\* Once the provider has said no, its account has no session, and none of its
\* tokens is granted anything (cutOff, withToken), except what a request made
\* that was let in before.
RefusedIsCutOff ==
    refused => /\ SSO \in signedIn => "session" \in late
               /\ \A t \in TokenIds, access \in {Write, Operate} :
                    tokens[t] # None /\ tokens[t].maker = SSO /\ WithToken(t, access) => "token" \in late

=============================================================================
