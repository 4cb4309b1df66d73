------------------------------ MODULE Identity ------------------------------
(***************************************************************************)
(* How one machine gets, renews and loses its device identity: enrolment   *)
(* with a token (internal/server/enroll, internal/agent/enrollment and     *)
(* runner), renewal of the client certificate (session.maybeRenew against  *)
(* enroll.Renew), the check of a certificate in front of every request     *)
(* (agentapi.requireDevice), and retiring or unenrolling the device        *)
(* (internal/server/devices).                                              *)
(*                                                                         *)
(* The agent has two threads that send requests, the check-in loop and the *)
(* command worker. A request in front of requireDevice is three steps of   *)
(* the server, each a statement of its own: load the device, clear the     *)
(* superseded serial, run the handler. A client that gives up cancels its  *)
(* handler, unless the connection broke without the server noticing        *)
(* (HalfOpen): then the handler goes on as a "ghost".                      *)
(*                                                                         *)
(* A device is named by the number of its first certificate.  A            *)
(* certificate becomes due when thirty of its ninety days are left; it is  *)
(* assumed to be renewed before they are over.                             *)
(***************************************************************************)
EXTENDS Integers, FiniteSets

CONSTANTS MaxUses,     \* uses of the enrolment token
          Admins,      \* administrators who change the device's status
          HalfOpen,    \* may a handler outlive the client that gave it up?
          MaxAges,     \* how often a certificate becomes due
          MaxLost,     \* requests the client gives up on
          ClearMayFail, \* may clearing the superseded serial fail?
          MaxFaults,   \* failed writes, on the agent's disk or in the database
          MaxCrashes,  \* restarts of the agent
          None

VARIABLES token,    \* enrollment_tokens: uses so far, revoked
          devices,  \* devices: status, cert_serial, prev_cert_serial
          issued,   \* certificates issued so far
          adm,      \* the status change an administrator's transaction is in
          due,      \* certificates with less than thirty days left
          disk,     \* identity.json
          mem,      \* Session.id and Session.client
          spent,    \* agent.yaml holds no token any more
          loop,     \* where the check-in loop is
          next,     \* the renewed certificate that is not saved yet
          work,     \* the worker has something to do
          req,      \* the request of each thread, and a ghost's
          lost, faults, crashes

server == <<token, devices, issued>>
agent == <<disk, mem, spent, loop, next, work>>
budget == <<lost, faults, crashes>>
vars == <<token, devices, issued, adm, due, disk, mem, spent, loop, next, work,
          req, lost, faults, crashes>>

Status == {"active", "retired", "unenrolled"}
Kinds == {"enroll", "renew", "checkin", "work"}
Slots == {"loop", "worker", "ghost"}
Stages == {"sent", "clear", "body", "answered", "refused", "gone"}
Loops == {"start", "enrolling", "save first", "clear token", "idle", "renewing",
          "save", "switch", "checking", "off"}

Init ==
    /\ token = [uses |-> 0, revoked |-> FALSE]
    /\ devices = << >> /\ issued = 0
    /\ adm = [a \in Admins |-> None]
    /\ due = {}
    /\ disk = None /\ mem = None /\ spent = FALSE
    /\ loop = "start" /\ next = None /\ work = FALSE
    /\ req = [s \in Slots |-> None]
    /\ lost = 0 /\ faults = 0 /\ crashes = 0

(***************************************************************************)
(* The server: enrolment.                                                  *)
(***************************************************************************)
Answer(s, stage, got) ==
    req' = [req EXCEPT ![s].at = stage, ![s].got = got]

CheckUsable == ~token.revoked /\ token.uses < MaxUses

\* One transaction, with the token's row locked from the first statement on.
Enroll(s) ==
    /\ req[s] # None /\ req[s].kind = "enroll" /\ req[s].at = "sent"
    /\ IF CheckUsable
       THEN LET c == issued + 1 IN
            /\ issued' = c
            /\ devices' = [d \in DOMAIN devices \cup {c} |->
                             IF d = c
                             THEN [status |-> "active", cur |-> c, prev |-> None]
                             ELSE devices[d]]
            /\ token' = [token EXCEPT !.uses = @ + 1]
            /\ Answer(s, "answered", [dev |-> c, cert |-> c])
       ELSE Answer(s, "refused", None) /\ UNCHANGED server
    /\ UNCHANGED <<adm, due, agent, budget>>

RevokeToken ==
    /\ ~token.revoked
    /\ token' = [token EXCEPT !.revoked = TRUE]
    /\ UNCHANGED <<devices, issued, adm, due, agent, req, budget>>

(***************************************************************************)
(* The server: requireDevice and the handlers behind it.                   *)
(***************************************************************************)
Known(id) == id.cert \in {devices[id.dev].cur, devices[id.dev].prev}

AdmitNeverClears(id) ==
    IF Known(id) /\ devices[id.dev].status = "active" THEN "body"
    ELSE IF Known(id) /\ devices[id.dev].status = "unenrolled" THEN "gone" ELSE "refused"

Admit(id) ==
    LET d == devices[id.dev] IN
    CASE ~Known(id) -> "refused"
      [] Known(id) /\ d.status = "unenrolled" -> "gone"
      [] Known(id) /\ d.status = "retired" -> "refused"
      [] Known(id) /\ d.status = "active" ->
           IF id.cert = d.cur /\ d.prev # None THEN "clear" ELSE "body"

RequireDevice(s) ==
    /\ req[s] # None /\ req[s].kind # "enroll" /\ req[s].at = "sent"
    /\ Answer(s, Admit(req[s].id), None)
    /\ UNCHANGED <<server, adm, due, agent, budget>>

ClearPrevCertSerial(s) ==
    /\ req[s] # None /\ req[s].at = "clear"
    /\ \/ /\ devices' = [devices EXCEPT ![req[s].id.dev].prev = None]
          /\ UNCHANGED faults
       \/ /\ ClearMayFail /\ faults < MaxFaults /\ faults' = faults + 1
          /\ UNCHANGED devices
    /\ Answer(s, "body", None)
    /\ UNCHANGED <<token, issued, adm, due, agent, lost, crashes>>

UpdateDeviceCert(id, c) == [devices EXCEPT ![id.dev].cur = c, ![id.dev].prev = id.cert]

Renew(s) ==
    /\ req[s] # None /\ req[s].kind = "renew" /\ req[s].at = "body"
    /\ \/ /\ issued' = issued + 1
          /\ devices' = UpdateDeviceCert(req[s].id, issued + 1)
          /\ Answer(s, "answered", [req[s].id EXCEPT !.cert = issued + 1])
          /\ UNCHANGED faults
       \/ /\ faults < MaxFaults /\ faults' = faults + 1
          /\ Answer(s, "refused", None)
          /\ UNCHANGED <<devices, issued>>
    /\ UNCHANGED <<token, adm, due, agent, lost, crashes>>

\* The handlers that leave the identity alone: check-in, command start and result.
Serve(s) ==
    /\ req[s] # None /\ req[s].kind \in {"checkin", "work"} /\ req[s].at = "body"
    /\ Answer(s, "answered", None)
    /\ UNCHANGED <<server, adm, due, agent, budget>>

\* A ghost's answer goes nowhere.
Vanish ==
    /\ req["ghost"] # None /\ req["ghost"].at \in {"answered", "refused", "gone"}
    /\ req' = [req EXCEPT !["ghost"] = None]
    /\ UNCHANGED <<server, adm, due, agent, budget>>

(***************************************************************************)
(* The server: devices.transition reads the status and writes another,     *)
(* in one transaction that locks nothing in between.                       *)
(***************************************************************************)
From(to) == IF to = "retired" THEN {"active"} ELSE {"active", "retired"}

TransitionRead(a, d, to) ==
    /\ adm[a] = None /\ to \in {"retired", "unenrolled"}
    /\ devices[d].status \in From(to)
    /\ adm' = [adm EXCEPT ![a] = [dev |-> d, to |-> to]]
    /\ UNCHANGED <<server, due, agent, req, budget>>

SetDeviceStatus(a) ==
    /\ adm[a] # None
    /\ devices' = [devices EXCEPT ![adm[a].dev].status = adm[a].to]
    /\ adm' = [adm EXCEPT ![a] = None]
    /\ UNCHANGED <<token, issued, due, agent, req, budget>>

(***************************************************************************)
(* The agent: start and enrolment.                                         *)
(***************************************************************************)
Request(kind, id) == [kind |-> kind, id |-> id, at |-> "sent", got |-> None]
Send(s, kind, id) == req' = [req EXCEPT ![s] = Request(kind, id)]
Receive(s, stage) == req[s] # None /\ req[s].at = stage
Done(s) == req' = [req EXCEPT ![s] = None]

\* runner.Run: load the identity, or enrol from the installer's settings.
Start ==
    /\ loop = "start"
    /\ \/ /\ disk # None
          /\ mem' = disk /\ loop' = "idle"
          /\ UNCHANGED req
       \/ /\ disk = None /\ ~spent
          /\ Send("loop", "enroll", None) /\ loop' = "enrolling"
          /\ UNCHANGED mem
       \/ /\ disk = None /\ spent
          /\ loop' = "off"
          /\ UNCHANGED <<mem, req>>
    /\ UNCHANGED <<server, adm, due, work, disk, spent, next, budget>>

EnrollAnswered ==
    /\ loop = "enrolling"
    /\ \/ /\ Receive("loop", "answered")
          /\ next' = req["loop"].got /\ loop' = "save first"
       \/ /\ Receive("loop", "refused")
          /\ loop' = "off" /\ UNCHANGED next
    /\ Done("loop")
    /\ UNCHANGED <<server, adm, due, work, disk, mem, spent, budget>>

SaveFirst ==
    /\ loop = "save first"
    /\ \/ disk' = next /\ mem' = next /\ loop' = "clear token" /\ UNCHANGED faults
       \/ /\ faults < MaxFaults /\ faults' = faults + 1
          /\ loop' = "off" /\ UNCHANGED <<disk, mem>>
    /\ next' = None
    /\ UNCHANGED <<server, adm, due, work, spent, req, lost, crashes>>

ClearToken ==
    /\ loop = "clear token"
    /\ spent' = TRUE /\ loop' = "idle"
    /\ UNCHANGED <<server, adm, due, work, disk, mem, next, req, budget>>

(***************************************************************************)
(* The agent: one check-in cycle.                                          *)
(***************************************************************************)
SendCheckin(id) == Send("loop", "checkin", id) /\ loop' = "checking"

MaybeRenew ==
    /\ loop = "idle"
    /\ IF mem.cert \in due
       THEN Send("loop", "renew", mem) /\ loop' = "renewing"
       ELSE SendCheckin(mem)
    /\ UNCHANGED <<server, adm, due, work, disk, mem, spent, next, budget>>

RenewAnswered ==
    /\ loop = "renewing" /\ Receive("loop", "answered")
    /\ next' = req["loop"].got /\ loop' = "save"
    /\ Done("loop")
    /\ UNCHANGED <<server, adm, due, work, disk, mem, spent, budget>>

\* A refused renewal is a warning in the log; the check-in goes ahead.
RenewRefused ==
    /\ loop = "renewing" /\ (Receive("loop", "refused") \/ Receive("loop", "gone"))
    /\ SendCheckin(mem)
    /\ UNCHANGED <<server, adm, due, work, disk, mem, spent, next, budget>>

\* maybeRenew with its two last steps exchanged: the client is switched, and
\* the check-in sent, before the identity is saved.
SwitchUnsaved ==
    /\ loop = "save"
    /\ mem' = next /\ next' = None
    /\ SendCheckin(next)
    /\ UNCHANGED <<server, adm, due, work, disk, spent, budget>>

SaveRenewed ==
    /\ loop = "save"
    /\ \/ disk' = next /\ loop' = "switch" /\ UNCHANGED <<next, req, faults>>
       \/ /\ faults < MaxFaults /\ faults' = faults + 1
          /\ next' = None /\ SendCheckin(mem) /\ UNCHANGED disk
    /\ UNCHANGED <<server, adm, due, work, mem, spent, lost, crashes>>

Switch ==
    /\ loop = "switch"
    /\ mem' = next /\ next' = None
    /\ SendCheckin(next)
    /\ UNCHANGED <<server, adm, due, work, disk, spent, budget>>

CheckinAnswered ==
    /\ loop = "checking"
    /\ \/ Receive("loop", "answered") /\ work' \in {work, TRUE}
       \/ Receive("loop", "refused") /\ UNCHANGED work
    /\ loop' = "idle" /\ Done("loop")
    /\ UNCHANGED <<server, adm, due, disk, mem, spent, next, budget>>

WipeOn == {"gone"}

\* The identity is deleted, the loop returns ErrUnenrolled and the agent ends.
Wipe ==
    /\ loop = "checking" /\ \E stage \in WipeOn : Receive("loop", stage)
    /\ disk' = None /\ mem' = None /\ work' = FALSE /\ loop' = "off"
    /\ req' = [req EXCEPT !["loop"] = None, !["worker"] = None]
    /\ UNCHANGED <<server, adm, due, spent, next, budget>>

\* The worker has commands once a check-in was answered with some. It reports on
\* them; whatever the answer, it goes on.
WorkerSend ==
    /\ work /\ req["worker"] = None
    /\ Send("worker", "work", mem)
    /\ UNCHANGED <<server, adm, due, agent, budget>>

WorkerAnswered ==
    /\ \E stage \in {"answered", "refused", "gone"} : Receive("worker", stage)
    /\ Done("worker") /\ work' \in {work, FALSE}
    /\ UNCHANGED <<server, adm, due, disk, mem, spent, loop, next, budget>>

(***************************************************************************)
(* What goes wrong.                                                        *)
(***************************************************************************)
Unanswered(s) == req[s] # None /\ req[s].at \in {"sent", "clear", "body"}

\* Where a thread's request ends up when its client is gone.
Orphan(s) == IF HalfOpen /\ Unanswered(s) /\ req["ghost"] = None THEN req[s] ELSE req["ghost"]

\* The client's sixty seconds are over, or the connection broke.
GiveUp(s) ==
    /\ lost < MaxLost /\ lost' = lost + 1
    /\ req[s] # None
    /\ \/ /\ s = "worker" /\ UNCHANGED loop
          /\ req' = [req EXCEPT !["ghost"] = Orphan(s), ![s] = None]
       \/ /\ s = "loop" /\ req[s].kind = "enroll" /\ loop' = "off"
          /\ req' = [req EXCEPT !["ghost"] = Orphan(s), ![s] = None]
       \/ /\ s = "loop" /\ req[s].kind = "renew" /\ loop' = "checking"
          /\ req' = [req EXCEPT !["ghost"] = Orphan(s), ![s] = Request("checkin", mem)]
       \/ /\ s = "loop" /\ req[s].kind = "checkin" /\ loop' = "idle"
          /\ req' = [req EXCEPT !["ghost"] = Orphan(s), ![s] = None]
    /\ UNCHANGED <<server, adm, due, work, disk, mem, spent, next, faults, crashes>>

\* The agent stops at any point and is started again; only its files are left.
Crash ==
    /\ crashes < MaxCrashes /\ crashes' = crashes + 1
    /\ loop' = "start" /\ mem' = None /\ next' = None /\ work' = FALSE
    /\ req' = [s \in Slots |-> IF s = "ghost" THEN Orphan("loop") ELSE None]
    /\ UNCHANGED <<server, adm, due, disk, spent, lost, faults>>

\* Sixty days pass, on line or off: no request and no command lives that long.
Ages ==
    /\ Cardinality(due) < MaxAges
    /\ mem # None /\ loop = "idle" /\ mem.cert \notin due
    /\ ~work /\ \A s \in Slots : req[s] = None
    /\ due' = due \cup {mem.cert}
    /\ UNCHANGED <<server, adm, agent, req, budget>>

ServerStep(s) ==
    Enroll(s) \/ RequireDevice(s) \/ ClearPrevCertSerial(s) \/ Renew(s) \/ Serve(s)

LoopStep == Start \/ EnrollAnswered \/ SaveFirst \/ ClearToken \/ MaybeRenew
            \/ RenewAnswered \/ RenewRefused \/ SaveRenewed \/ Switch
            \/ CheckinAnswered \/ Wipe

AdminStep == \E a \in Admins :
    \/ \E d \in DOMAIN devices : \E to \in Status : TransitionRead(a, d, to)
    \/ SetDeviceStatus(a)

Next == (\E s \in Slots : ServerStep(s)) \/ Vanish \/ LoopStep \/ WorkerSend \/ WorkerAnswered
        \/ AdminStep \/ RevokeToken
        \/ (\E s \in {"loop", "worker"} : GiveUp(s)) \/ Crash \/ Ages

Spec == Init /\ [][Next]_vars

(***************************************************************************)
(* Properties.                                                             *)
(***************************************************************************)
\* The certificate the agent would come up with after a crash is one
\* requireDevice accepts, whatever was lost between the two while it was
\* renewed (the promise of enroll.Renew).
NotLockedOut == disk # None => Known(disk)

\* Once a request with the newest certificate has got past requireDevice, the
\* superseded one is no longer accepted, unless clearing it failed.
SupersededDies ==
    \A s \in Slots :
      (/\ faults = 0 /\ req[s] # None /\ req[s].kind \in {"checkin", "work"}
       /\ req[s].at = "answered" /\ req[s].id.cert = devices[req[s].id.dev].cur)
        => devices[req[s].id.dev].prev = None

\* No more devices come of a token than it has uses, however often an enrolment
\* is retried after a lost answer.
TokenBudget == Cardinality(DOMAIN devices) <= MaxUses

WipedWhenUnenrolledStep ==
    disk # None /\ disk' = None => devices[disk.dev].status = "unenrolled"

\* An agent deletes its identity only when an administrator unenrolled it: not
\* when it is retired, and not when its certificate is refused.
WipedWhenUnenrolled == [][WipedWhenUnenrolledStep]_vars

StatusOnlyForwardStep ==
    \A d \in DOMAIN devices :
      /\ devices[d].status = "unenrolled" => devices'[d].status = "unenrolled"
      /\ devices[d].status = "retired" => devices'[d].status # "active"

\* devices.transition: a device never leaves "unenrolled", and never becomes
\* active again; a renewal that was under way does not bring it back.
StatusOnlyForward == [][StatusOnlyForwardStep]_vars

=============================================================================
