------------------------------ MODULE MCAccess ------------------------------
(***************************************************************************)
(* How administrators get in, for TLC: signing in with a password; and     *)
(* their accounts, sessions and tokens.                                    *)
(***************************************************************************)
EXTENDS SignIn, Naturals

CONSTANTS
    Off,   \* the value of a variable of a part that is left out
    b1, o1, t1

VARIABLES
    scene,   \* which of the parts this behaviour is about
    admins, groups, signedIn, tokens, browser, ops, refused, late

\* What the identity provider may say of somebody.
MCClaims == {{"fleet"}, {"admins"}, {"admins", "fleet"}, {"readers", "helpdesk", "east"}}

Acc == INSTANCE Accounts WITH
    Browsers <- {b1}, Operators <- {o1}, TokenIds <- {t1},
    Groups <- {"east"}, Emails <- {"x", "y"}, RootEmail <- "x",
    NewRoles <- {"admin", "helpdesk"}, Claims <- MCClaims,
    ScopesManaged <- TRUE, Overlap <- FALSE

accountsVars ==
    <<admins, groups, signedIn, tokens, browser, ops, refused, late>>

accountsOff ==
    admins = Off /\ groups = Off /\ signedIn = Off /\ tokens = Off /\
    browser = Off /\ ops = Off /\ refused = Off /\ late = Off

-----------------------------------------------------------------------------
\* A behaviour is about one part; the variables of the others are Off,
\* and those of SignIn stay as they start.
MCInit ==
    \/ /\ scene = "signin" /\ Init
       /\ accountsOff
    \/ /\ scene = "accounts" /\ Acc!Init
       /\ Init /\ account.totp = 0

InSignin ==
    /\ scene = "signin"
    /\ UNCHANGED <<scene, accountsVars>>
    /\ Next

InAccounts ==
    /\ scene = "accounts"
    /\ UNCHANGED <<scene, vars>>
    /\ Acc!Next

MCNext == InSignin \/ InAccounts

\* The account changes with a sign-in or with a use of a session under way, not
\* with both, and not among failures.
Few ==
    scene = "signin" =>
       \/ changes = 0
       \/ InFlight = {}
       \/ view = NoView /\ \A k \in DOMAIN failures : failures[k] = <<>>

-----------------------------------------------------------------------------
\* Neither disabling accounts nor limiting their scope takes the last account
\* that can manage the whole fleet away; only a sign-in through the provider,
\* which sets a role without asking who else is left, can.
LastFleetAdminStays ==
    [][scene = "accounts" => Acc!LastFleetAdminStaysStep]_accountsVars

\* Once the provider has said no, its account has no session, and none of its
\* tokens is granted anything (cutOff, withToken), except what a request made
\* that was let in before.
RefusedIsCutOff == scene = "accounts" => Acc!RefusedIsCutOff
=============================================================================
