---------------------------- MODULE IdentityProofs ----------------------------
(***************************************************************************)
(* The theorems about Identity.  For all constants: a token brings no more *)
(* devices than it has uses, and a superseded certificate dies.  With one  *)
(* administrator at a time: a device's status only moves forward, and only *)
(* an unenrolled agent wipes itself.  When, besides, no handler outlives   *)
(* its client and clearing the superseded serial does not fail: the agent  *)
(* is never locked out.                                                    *)
(*                                                                         *)
(* NotLockedOut is the hard one: the certificate on disk may be the        *)
(* superseded one, and a request of the worker that is about to clear the  *)
(* superseded serial would lock the agent out if the loop renewed just     *)
(* then.  That it cannot rests on when a certificate becomes due.          *)
(***************************************************************************)
EXTENDS Identity, FiniteSetTheorems, TLAPS

Ids == [dev : Nat, cert : Nat]
Changes == [dev : Nat, to : Status]
Requests == [kind : Kinds, id : Ids \cup {None}, at : Stages, got : Ids \cup {None}]

\* None is not a value of anything it stands for the absence of.
NoneApart ==
    /\ None \notin Nat /\ None \notin Ids /\ None \notin Changes /\ None \notin Requests

\* An identity the server issued.
Issued(id) == id \in Ids /\ id.dev \in DOMAIN devices /\ id.cert <= issued

\* A request that carries a certificate; the server issued it. Only such a request
\* gets to clear a serial.
Carries(r) == r # None /\ r.kind # "enroll"
CarriesIssued(r) == /\ Carries(r) => Issued(r.id)
                    /\ r # None /\ r.at = "clear" => Carries(r)

\* Past requireDevice, the newest certificate is the only one.
OnlyNewest(r) ==
    Carries(r) /\ r.at \in {"body", "answered"} /\ r.id.cert = devices[r.id.dev].cur
        => devices[r.id.dev].prev = None

\* A request that is about to clear the superseded serial has the newest one.
ClearsOlder(r) == Carries(r) /\ r.at = "clear" => r.id.cert = devices[r.id.dev].cur

\* A request that was told its device is unenrolled was told so rightly.
ToldRightly(r) == Carries(r) /\ r.at = "gone" => devices[r.id.dev].status = "unenrolled"

-------------------------------------------------------------------------------
(***************************************************************************)
(* The invariants.                                                         *)
(***************************************************************************)
\* The shape of the state.
TypeInv ==
    /\ token \in [uses : Nat, revoked : BOOLEAN] /\ issued \in Nat /\ faults \in Nat
    /\ devices \in [DOMAIN devices -> [status : Status, cur : Nat, prev : Nat \cup {None}]]
    /\ adm \in [Admins -> {None} \cup Changes]
    /\ disk \in Ids \cup {None} /\ mem \in Ids \cup {None} /\ next \in Ids \cup {None}
    /\ loop \in Loops /\ req \in [Slots -> {None} \cup Requests]

\* Each use of the token made one device.
TokenInv ==
    /\ DOMAIN devices \subseteq 1 .. issued
    /\ IsFiniteSet(DOMAIN devices) /\ Cardinality(DOMAIN devices) = token.uses
    /\ token.uses <= MaxUses

\* Every identity anybody holds was issued.
HeldInv ==
    /\ disk # None => Issued(disk)
    /\ mem # None => Issued(mem)
    /\ loop \in {"save", "switch", "save first"} => Issued(next)

RequestInv ==
    /\ \A d \in DOMAIN devices : devices[d].cur <= issued
    /\ \A s \in Slots : CarriesIssued(req[s])
    /\ faults = 0 => \A s \in Slots : OnlyNewest(req[s])

\* The request the loop waits for, and what its answer brings.
LoopInv ==
    /\ req["loop"] # None =>
         \/ req["loop"].kind = "enroll" /\ loop = "enrolling"
         \/ req["loop"].kind = "renew" /\ loop = "renewing"
         \/ req["loop"].kind = "checkin" /\ loop = "checking"
    /\ Carries(req["loop"]) => req["loop"].id = mem
    /\ req["loop"] # None /\ req["loop"].kind \in {"enroll", "renew"} /\ req["loop"].at = "answered"
         => Issued(req["loop"].got)
    /\ req["loop"] # None /\ req["loop"].kind = "renew" /\ req["loop"].at = "answered"
         => req["loop"].got.dev = mem.dev /\ req["loop"].got.cert > mem.cert

\* The loop and the worker work for the device on disk, and a certificate is saved
\* before it is used.
HolderInv ==
    /\ loop \in {"idle", "renewing", "save", "switch", "checking", "clear token"} => mem # None
    /\ loop \in {"start", "enrolling", "save first"} => mem = None
    /\ work \/ req["worker"] # None => mem # None
    /\ mem # None => disk # None /\ mem.dev = disk.dev /\ mem.cert <= disk.cert
    /\ mem # None /\ loop # "switch" => disk = mem
    /\ req["worker"] # None => /\ req["worker"].kind = "work"
                               /\ req["worker"].id.dev = mem.dev /\ req["worker"].id.cert <= mem.cert
    /\ loop \in {"save", "switch"} => next.dev = mem.dev /\ next.cert > mem.cert
    /\ loop = "switch" => disk = next

Inv == TypeInv /\ TokenInv /\ HeldInv /\ RequestInv /\ LoopInv /\ HolderInv

OneAdmin == \A a, b \in Admins : a = b

\* A single administrator's transaction finds the status as it read it, and an
\* agent that was told it is unenrolled is.
StatusInv ==
    /\ \A a \in Admins : adm[a] # None =>
         /\ adm[a].dev \in DOMAIN devices /\ adm[a].to \in {"retired", "unenrolled"}
         /\ devices[adm[a].dev].status \in From(adm[a].to)
    /\ \A s \in Slots : ToldRightly(req[s])

\* No handler outlives its client, and the superseded serial is always cleared.
Orderly == HalfOpen = FALSE /\ ClearMayFail = FALSE

\* What is about to be cleared was superseded by the certificate that asks for it.
ClearInv == \A s \in Slots : OnlyNewest(req[s]) /\ ClearsOlder(req[s])

\* What is on disk is accepted; what is on its way there is the newest certificate,
\* and not due; and the worker clears nothing while the loop renews.
NewestInv ==
    /\ req["ghost"] = None /\ due \subseteq 0 .. issued
    /\ disk # None => Known(disk) /\ disk.cert <= devices[disk.dev].cur
    /\ loop \in {"save", "switch", "save first"} =>
         next.cert = devices[next.dev].cur /\ next.cert \notin due
    /\ req["loop"] # None /\ req["loop"].kind \in {"enroll", "renew"} /\ req["loop"].at = "answered" =>
         req["loop"].got.cert = devices[req["loop"].got.dev].cur /\ req["loop"].got.cert \notin due
    /\ loop = "renewing" => mem.cert \in due
    /\ req["worker"] # None /\ req["worker"].at = "clear" => req["worker"].id.cert \notin due
    /\ work \/ req["worker"] # None =>
         (mem.cert \in due /\ mem.cert = devices[mem.dev].cur => devices[mem.dev].prev = None)

\* What a step keeps.
Kept == /\ Inv'
        /\ OneAdmin /\ StatusInv => StatusInv'
        /\ Orderly /\ ClearInv /\ NewestInv => ClearInv' /\ NewestInv'

-------------------------------------------------------------------------------
(***************************************************************************)
(* What the ways to change a request do.                                   *)
(***************************************************************************)
\* An answer changes the stage and the payload of one request.
LEMMA AnswerFacts ==
    ASSUME NoneApart, TypeInv, NEW s \in Slots, req[s] # None,
           NEW stage \in Stages, NEW got \in Ids \cup {None}, Answer(s, stage, got)
    PROVE  /\ req' \in [Slots -> {None} \cup Requests]
           /\ \A t \in Slots : t # s => req'[t] = req[t]
           /\ req'[s] # None /\ req'[s].kind = req[s].kind /\ req'[s].id = req[s].id
           /\ req'[s].at = stage /\ req'[s].got = got
  BY DEF NoneApart, TypeInv, Requests, Answer

\* A request that is sent carries what it was given.
LEMMA SendFacts ==
    ASSUME NoneApart, TypeInv, NEW s \in Slots, NEW kind \in Kinds, NEW id \in Ids \cup {None},
           Send(s, kind, id)
    PROVE  /\ req' \in [Slots -> {None} \cup Requests]
           /\ \A t \in Slots : t # s => req'[t] = req[t]
           /\ req'[s] # None /\ req'[s].kind = kind /\ req'[s].id = id
           /\ req'[s].at = "sent" /\ req'[s].got = None
  BY DEF NoneApart, TypeInv, Requests, Send, Request, Stages

\* A request that is done is gone, and the others are as they were.
LEMMA DoneFacts ==
    ASSUME TypeInv, NEW s \in Slots, Done(s)
    PROVE  /\ req' \in [Slots -> {None} \cup Requests]
           /\ \A t \in Slots : t # s => req'[t] = req[t]
           /\ req'[s] = None
  BY DEF TypeInv, Done

\* The agent's steps: a request is new, or one that was there before.
SentOrOld ==
    \A s \in Slots : \/ req'[s] = None \/ (\E t \in Slots : req'[s] = req[t])
                     \/ req'[s].at = "sent" /\ CarriesIssued(req'[s])

\* What a step of the agent keeps, whatever it does to the agent's own state.
LEMMA AgentFrame ==
    ASSUME Inv, SentOrOld, UNCHANGED <<token, devices, issued, adm>>, faults' \in {faults, faults + 1}
    PROVE  TokenInv' /\ RequestInv' /\ (StatusInv => StatusInv') /\ (ClearInv => ClearInv')
  <1> USE DEF Inv
  <1>1. TokenInv' BY Zenon DEF TokenInv
  <1>2. \A id : Issued(id)' <=> Issued(id) BY Zenon DEF Issued
  <1>3. RequestInv'
    <2>1. \A s \in Slots : CarriesIssued(req[s])'
      BY Zenon, <1>2 DEF RequestInv, SentOrOld, CarriesIssued, Carries
    <2>2. ASSUME faults' = 0, NEW s \in Slots PROVE OnlyNewest(req[s])'
      BY <2>2 DEF RequestInv, SentOrOld, OnlyNewest, Carries, TypeInv
    <2>3. QED BY Zenon, <2>1, <2>2 DEF RequestInv
  <1>4. ASSUME StatusInv PROVE StatusInv'
    BY <1>4 DEF StatusInv, SentOrOld, ToldRightly, Carries
  <1>5. ASSUME ClearInv PROVE ClearInv'
    BY <1>5 DEF ClearInv, SentOrOld, OnlyNewest, ClearsOlder, Carries
  <1>6. QED BY Zenon, <1>1, <1>3, <1>4, <1>5

\* The agent starts with the identity on disk, or enrols, or stays off.
LEMMA StartStep == ASSUME NoneApart, Inv, Start PROVE Kept
  <1> USE DEF Inv
  <1>1. loop = "start" /\ UNCHANGED <<token, devices, issued, adm, due, disk, next, work, faults>>
    BY DEF Start, server, agent, budget
  <1>2. CASE disk # None /\ mem' = disk /\ loop' = "idle" /\ UNCHANGED req
    <2>1. SentOrOld BY <1>1, <1>2 DEF SentOrOld, Slots, CarriesIssued, Carries, HeldInv
    <2>2. TokenInv' /\ RequestInv' /\ (StatusInv => StatusInv') /\ (ClearInv => ClearInv')
      BY Zenon, <1>1, <1>2, <2>1, AgentFrame
    <2>3. TypeInv' BY Zenon, <1>1, <1>2 DEF TypeInv, Loops
    <2>4. HeldInv' BY <1>1, <1>2 DEF HeldInv, Issued
    <2>5. LoopInv' BY Zenon, <1>1, <1>2 DEF LoopInv, Issued, Carries, Slots
    <2>6. HolderInv' BY <1>1, <1>2 DEF HolderInv, TypeInv, Ids, Slots
    <2>7. ASSUME Orderly, ClearInv, NewestInv PROVE NewestInv'
      BY Zenon, <1>1, <1>2, <2>7 DEF Orderly, NewestInv, HolderInv, HeldInv, TypeInv, Ids, Known, Slots
    <2>8. QED BY Zenon, <2>2, <2>3, <2>4, <2>5, <2>6, <2>7 DEF Kept
  <1>3. CASE Send("loop", "enroll", None) /\ loop' = "enrolling" /\ UNCHANGED mem
    <2>1. /\ req' \in [Slots -> {None} \cup Requests]
          /\ \A t \in Slots : t # "loop" => req'[t] = req[t]
          /\ req'["loop"] # None /\ req'["loop"].kind = "enroll" /\ req'["loop"].id = None
          /\ req'["loop"].at = "sent" /\ req'["loop"].got = None
      BY Zenon, <1>3, SendFacts DEF Slots, Kinds
    <2>2. SentOrOld BY <1>1, <1>3, <2>1 DEF SentOrOld, Slots, CarriesIssued, Carries, HeldInv
    <2>3. TokenInv' /\ RequestInv' /\ (StatusInv => StatusInv') /\ (ClearInv => ClearInv')
      BY Zenon, <1>1, <1>3, <2>1, <2>2, AgentFrame
    <2>4. TypeInv' BY Zenon, <1>1, <1>3, <2>1 DEF TypeInv, Loops
    <2>5. HeldInv' BY Zenon, <1>1, <1>3, <2>1 DEF HeldInv, Issued
    <2>6. LoopInv' BY Zenon, <1>1, <1>3, <2>1 DEF LoopInv, Issued, Carries, Slots
    <2>7. HolderInv' BY Zenon, <1>1, <1>3, <2>1 DEF HolderInv, TypeInv, Ids, Slots
    <2>8. ASSUME Orderly, ClearInv, NewestInv PROVE NewestInv'
      BY Zenon, <1>1, <1>3, <2>1, <2>8 DEF Orderly, NewestInv, HolderInv, HeldInv, TypeInv, Ids, Known, Slots
    <2>9. QED BY <2>3, <2>4, <2>5, <2>6, <2>7, <2>8 DEF Kept
  <1>4. CASE loop' = "off" /\ UNCHANGED <<mem, req>>
    <2>1. SentOrOld BY Zenon, <1>1, <1>4 DEF SentOrOld, Slots, CarriesIssued, Carries, HeldInv
    <2>2. TokenInv' /\ RequestInv' /\ (StatusInv => StatusInv') /\ (ClearInv => ClearInv')
      BY Zenon, <1>1, <1>4, <2>1, AgentFrame
    <2>3. TypeInv' BY Zenon, <1>1, <1>4 DEF TypeInv, Loops
    <2>4. HeldInv' BY <1>1, <1>4 DEF HeldInv, Issued
    <2>5. LoopInv' BY Zenon, <1>1, <1>4 DEF LoopInv, Issued, Carries, Slots
    <2>6. HolderInv' BY Zenon, <1>1, <1>4 DEF HolderInv, TypeInv, Ids, Slots
    <2>7. ASSUME Orderly, ClearInv, NewestInv PROVE NewestInv'
      BY Zenon, <1>1, <1>4, <2>7 DEF Orderly, NewestInv, HolderInv, HeldInv, TypeInv, Ids, Known, Slots
    <2>8. QED BY <2>2, <2>3, <2>4, <2>5, <2>6, <2>7 DEF Kept
  <1>5. QED BY Zenon, <1>1, <1>2, <1>3, <1>4 DEF Start

\* The enrolment's answer arrives.
LEMMA EnrollAnsweredStep == ASSUME NoneApart, Inv, EnrollAnswered PROVE Kept
  <1> USE DEF Inv
  <1>1. /\ req' \in [Slots -> {None} \cup Requests]
        /\ (\A t \in Slots : t # "loop" => req'[t] = req[t]) /\ req'["loop"] = None
    BY Zenon, DoneFacts DEF EnrollAnswered, Slots
  <1>2. loop = "enrolling" /\ UNCHANGED <<token, devices, issued, adm, due, disk, mem, work, faults>>
    BY Zenon DEF EnrollAnswered, server, agent, budget
  <1>3. CASE Receive("loop", "answered") /\ next' = req["loop"].got /\ loop' = "save first"
    <2>1. req["loop"] # None /\ req["loop"] \in Requests /\ req["loop"].at = "answered"
      BY Zenon, <1>3 DEF Receive, TypeInv, Slots
    <2>2. req["loop"].kind = "enroll" /\ Issued(next') /\ next' \in Ids
      BY Zenon, <1>2, <1>3, <2>1 DEF LoopInv, Issued
    <2>3. SentOrOld
      BY Zenon, <1>1, <1>2, <1>3, <2>1, <2>2 DEF SentOrOld, Slots, CarriesIssued, Carries, HeldInv
    <2>4. TokenInv' /\ RequestInv' /\ (StatusInv => StatusInv') /\ (ClearInv => ClearInv')
      BY Zenon, <1>1, <1>2, <1>3, <2>1, <2>2, <2>3, AgentFrame
    <2>5. TypeInv' BY Zenon, <1>1, <1>2, <1>3, <2>1, <2>2 DEF TypeInv, Loops
    <2>6. HeldInv' BY Zenon, <1>1, <1>2, <1>3, <2>1, <2>2 DEF HeldInv, Issued
    <2>7. LoopInv' BY Zenon, <1>1, <1>2, <1>3, <2>1, <2>2 DEF LoopInv, Issued, Carries, Slots
    <2>8. HolderInv' BY Zenon, <1>1, <1>2, <1>3, <2>1, <2>2 DEF HolderInv, TypeInv, Ids, Slots
    <2>9. ASSUME Orderly, ClearInv, NewestInv PROVE NewestInv'
      BY Zenon, <1>1, <1>2, <1>3, <2>1, <2>2, <2>9 DEF Orderly, NewestInv, HolderInv, HeldInv, TypeInv, Ids, Known, Slots
    <2>10. QED BY <2>4, <2>5, <2>6, <2>7, <2>8, <2>9 DEF Kept
  <1>4. CASE loop' = "off" /\ UNCHANGED next
    <2>1. SentOrOld BY <1>1, <1>2, <1>4 DEF SentOrOld, Slots, CarriesIssued, Carries, HeldInv
    <2>2. TokenInv' /\ RequestInv' /\ (StatusInv => StatusInv') /\ (ClearInv => ClearInv')
      BY <1>1, <1>2, <1>4, <2>1, AgentFrame
    <2>3. TypeInv' BY Zenon, <1>1, <1>2, <1>4 DEF TypeInv, Loops
    <2>4. HeldInv' BY Zenon, <1>1, <1>2, <1>4 DEF HeldInv, Issued
    <2>5. LoopInv' BY Zenon, <1>1, <1>2, <1>4 DEF LoopInv, Issued, Carries, Slots
    <2>6. HolderInv' BY Zenon, <1>1, <1>2, <1>4 DEF HolderInv, TypeInv, Ids, Slots
    <2>7. ASSUME Orderly, ClearInv, NewestInv PROVE NewestInv'
      BY Zenon, <1>1, <1>2, <1>4, <2>7 DEF Orderly, NewestInv, HolderInv, HeldInv, TypeInv, Ids, Known, Slots
    <2>8. QED BY Zenon, <2>2, <2>3, <2>4, <2>5, <2>6, <2>7 DEF Kept
  <1>5. QED BY Zenon, <1>1, <1>2, <1>3, <1>4 DEF EnrollAnswered

\* The first identity is saved.
LEMMA SaveFirstStep == ASSUME NoneApart, Inv, SaveFirst PROVE Kept
  <1> USE DEF Inv
  <1>1. loop = "save first" /\ next' = None /\ UNCHANGED <<token, devices, issued, adm, due, work, req>>
    BY Zenon DEF SaveFirst, server, agent, budget
  <1>2. Issued(next) /\ next \in Ids /\ next # None /\ mem = None
    BY Zenon, <1>1 DEF HeldInv, HolderInv, Issued, NoneApart
  <1>3. CASE disk' = next /\ mem' = next /\ loop' = "clear token" /\ UNCHANGED faults
    <2>1. req["worker"] = None BY Zenon, <1>2 DEF HolderInv
    <2>2. next.cert <= next.cert BY <1>2 DEF Ids
    <2>3. SentOrOld
      BY Zenon, <1>1, <1>2, <1>3, <2>1, <2>2 DEF SentOrOld, Slots, CarriesIssued, Carries, HeldInv
    <2>4. TokenInv' /\ RequestInv' /\ (StatusInv => StatusInv') /\ (ClearInv => ClearInv')
      BY Zenon, <1>1, <1>2, <1>3, <2>1, <2>2, <2>3, AgentFrame
    <2>5. TypeInv' BY Zenon, <1>1, <1>2, <1>3, <2>1, <2>2 DEF TypeInv, Loops
    <2>6. HeldInv' BY Zenon, <1>1, <1>2, <1>3, <2>1, <2>2 DEF HeldInv, Issued
    <2>7. LoopInv' BY Zenon, <1>1, <1>2, <1>3, <2>1, <2>2 DEF LoopInv, Issued, Carries, Slots
    <2>8. HolderInv' BY Zenon, <1>1, <1>2, <1>3, <2>1, <2>2 DEF HolderInv, TypeInv, Ids, Slots
    <2>9. ASSUME Orderly, ClearInv, NewestInv PROVE NewestInv'
      BY Zenon, <1>1, <1>2, <1>3, <2>1, <2>2, <2>9 DEF Orderly, NewestInv, HolderInv, HeldInv, TypeInv, Ids, Known, Slots
    <2>10. QED BY <2>4, <2>5, <2>6, <2>7, <2>8, <2>9 DEF Kept
  <1>4. CASE loop' = "off" /\ faults' = faults + 1 /\ UNCHANGED <<disk, mem>>
    <2>1. faults' \in Nat BY <1>4 DEF TypeInv
    <2>2. SentOrOld BY Zenon, <1>1, <1>2, <1>4, <2>1 DEF SentOrOld, Slots, CarriesIssued, Carries, HeldInv
    <2>3. TokenInv' /\ RequestInv' /\ (StatusInv => StatusInv') /\ (ClearInv => ClearInv')
      BY Zenon, <1>1, <1>2, <1>4, <2>1, <2>2, AgentFrame
    <2>4. TypeInv' BY Zenon, <1>1, <1>2, <1>4, <2>1 DEF TypeInv, Loops
    <2>5. HeldInv' BY Zenon, <1>1, <1>2, <1>4, <2>1 DEF HeldInv, Issued
    <2>6. LoopInv' BY Zenon, <1>1, <1>2, <1>4, <2>1 DEF LoopInv, Issued, Carries, Slots
    <2>7. HolderInv' BY Zenon, <1>1, <1>2, <1>4, <2>1 DEF HolderInv, TypeInv, Ids, Slots
    <2>8. ASSUME Orderly, ClearInv, NewestInv PROVE NewestInv'
      BY Zenon, <1>1, <1>2, <1>4, <2>1, <2>8 DEF Orderly, NewestInv, HolderInv, HeldInv, TypeInv, Ids, Known, Slots
    <2>9. QED BY Zenon, <2>3, <2>4, <2>5, <2>6, <2>7, <2>8 DEF Kept
  <1>5. QED BY Zenon, <1>1, <1>2, <1>3, <1>4 DEF SaveFirst

\* The token leaves agent.yaml.
LEMMA ClearTokenStep == ASSUME NoneApart, Inv, ClearToken PROVE Kept
  <1> USE DEF Inv
  <1>1. loop = "clear token" /\ loop' = "idle" /\ UNCHANGED <<token, devices, issued, adm, due, disk, mem, next, work, req, faults>>
    BY Zenon DEF ClearToken, server, agent, budget
  <1>2. SentOrOld BY Zenon, <1>1 DEF SentOrOld, Slots, CarriesIssued, Carries, HeldInv
  <1>3. TokenInv' /\ RequestInv' /\ (StatusInv => StatusInv') /\ (ClearInv => ClearInv')
    BY Zenon, <1>1, <1>2, AgentFrame
  <1>4. TypeInv' BY Zenon, <1>1 DEF TypeInv, Loops
  <1>5. HeldInv' BY Zenon, <1>1 DEF HeldInv, Issued
  <1>6. LoopInv' BY Zenon, <1>1 DEF LoopInv, Issued, Carries, Slots
  <1>7. HolderInv' BY Zenon, <1>1 DEF HolderInv, TypeInv, Ids, Slots
  <1>8. ASSUME Orderly, ClearInv, NewestInv PROVE NewestInv'
    BY Zenon, <1>1, <1>8 DEF Orderly, NewestInv, HolderInv, HeldInv, TypeInv, Ids, Known, Slots
  <1>9. QED BY <1>3, <1>4, <1>5, <1>6, <1>7, <1>8 DEF Kept

\* A cycle begins, with a renewal when one is due.
LEMMA MaybeRenewStep == ASSUME NoneApart, Inv, MaybeRenew PROVE Kept
  <1> USE DEF Inv
  <1>1. mem # None /\ mem \in Ids BY Zenon DEF MaybeRenew, HolderInv, TypeInv
  <1>2. loop = "idle" /\ UNCHANGED <<token, devices, issued, adm, due, disk, mem, next, work, faults>>
    BY Zenon DEF MaybeRenew, server, agent, budget
  <1>3. CASE mem.cert \in due /\ Send("loop", "renew", mem) /\ loop' = "renewing"
    <2>1. /\ req' \in [Slots -> {None} \cup Requests]
          /\ \A t \in Slots : t # "loop" => req'[t] = req[t]
          /\ req'["loop"] # None /\ req'["loop"].kind = "renew" /\ req'["loop"].id = mem
          /\ req'["loop"].at = "sent" /\ req'["loop"].got = None
      BY Zenon, <1>1, <1>3, SendFacts DEF Slots, Kinds
    <2>2. SentOrOld BY Zenon, <1>1, <1>2, <1>3, <2>1 DEF SentOrOld, Slots, CarriesIssued, Carries, HeldInv
    <2>3. TokenInv' /\ RequestInv' /\ (StatusInv => StatusInv') /\ (ClearInv => ClearInv')
      BY Zenon, <1>1, <1>2, <1>3, <2>1, <2>2, AgentFrame
    <2>4. TypeInv' BY Zenon, <1>1, <1>2, <1>3, <2>1 DEF TypeInv, Loops
    <2>5. HeldInv' BY <1>1, <1>2, <1>3, <2>1 DEF HeldInv, Issued
    <2>6. LoopInv' BY Zenon, <1>1, <1>2, <1>3, <2>1 DEF LoopInv, Issued, Carries, Slots
    <2>7. HolderInv' BY Zenon, <1>1, <1>2, <1>3, <2>1 DEF HolderInv, TypeInv, Ids, Slots
    <2>8. ASSUME Orderly, ClearInv, NewestInv PROVE NewestInv'
      BY Zenon, <1>1, <1>2, <1>3, <2>1, <2>8 DEF Orderly, NewestInv, HolderInv, HeldInv, TypeInv, Ids, Known, Slots
    <2>9. QED BY <2>3, <2>4, <2>5, <2>6, <2>7, <2>8 DEF Kept
  <1>4. CASE SendCheckin(mem)
    <2>1. /\ req' \in [Slots -> {None} \cup Requests]
          /\ \A t \in Slots : t # "loop" => req'[t] = req[t]
          /\ req'["loop"] # None /\ req'["loop"].kind = "checkin" /\ req'["loop"].id = mem
          /\ req'["loop"].at = "sent" /\ req'["loop"].got = None /\ loop' = "checking"
      BY Zenon, <1>1, <1>4, SendFacts DEF SendCheckin, Slots, Kinds
    <2>2. SentOrOld BY Zenon, <1>1, <1>2, <1>4, <2>1 DEF SentOrOld, Slots, CarriesIssued, Carries, HeldInv
    <2>3. TokenInv' /\ RequestInv' /\ (StatusInv => StatusInv') /\ (ClearInv => ClearInv')
      BY Zenon, <1>1, <1>2, <1>4, <2>1, <2>2, AgentFrame
    <2>4. TypeInv' BY Zenon, <1>1, <1>2, <1>4, <2>1 DEF TypeInv, Loops
    <2>5. HeldInv' BY <1>1, <1>2, <1>4, <2>1 DEF HeldInv, Issued
    <2>6. LoopInv' BY <1>1, <1>2, <1>4, <2>1 DEF LoopInv, Issued, Carries, Slots
    <2>7. HolderInv' BY Zenon, <1>1, <1>2, <1>4, <2>1 DEF HolderInv, TypeInv, Ids, Slots
    <2>8. ASSUME Orderly, ClearInv, NewestInv PROVE NewestInv'
      BY Zenon, <1>1, <1>2, <1>4, <2>1, <2>8 DEF Orderly, NewestInv, HolderInv, HeldInv, TypeInv, Ids, Known, Slots
    <2>9. QED BY Zenon, <2>3, <2>4, <2>5, <2>6, <2>7, <2>8 DEF Kept
  <1>5. QED BY <1>1, <1>2, <1>3, <1>4 DEF MaybeRenew

\* The renewed certificate arrives.
LEMMA RenewAnsweredStep == ASSUME NoneApart, Inv, RenewAnswered PROVE Kept
  <1> USE DEF Inv
  <1>1. /\ req' \in [Slots -> {None} \cup Requests]
        /\ (\A t \in Slots : t # "loop" => req'[t] = req[t]) /\ req'["loop"] = None
    BY DoneFacts DEF RenewAnswered, Slots
  <1>2. req["loop"] # None /\ req["loop"] \in Requests /\ req["loop"].at = "answered"
    BY DEF RenewAnswered, Receive, TypeInv, Slots
  <1>3. loop = "renewing" /\ next' = req["loop"].got /\ loop' = "save" /\ UNCHANGED <<token, devices, issued, adm, due, disk, mem, work, faults>>
    BY Zenon DEF RenewAnswered, server, agent, budget
  <1>4. req["loop"].kind = "renew" /\ Issued(next') /\ next' \in Ids /\ next'.dev = mem.dev /\ next'.cert > mem.cert
    BY <1>2, <1>3 DEF LoopInv, Issued
  <1>5. SentOrOld BY Zenon, <1>1, <1>2, <1>3, <1>4 DEF SentOrOld, Slots, CarriesIssued, Carries, HeldInv
  <1>6. TokenInv' /\ RequestInv' /\ (StatusInv => StatusInv') /\ (ClearInv => ClearInv')
    BY Zenon, <1>1, <1>2, <1>3, <1>4, <1>5, AgentFrame
  <1>7. TypeInv' BY Zenon, <1>1, <1>2, <1>3, <1>4 DEF TypeInv, Loops
  <1>8. HeldInv' BY Zenon, <1>1, <1>2, <1>3, <1>4 DEF HeldInv, Issued
  <1>9. LoopInv' BY Zenon, <1>1, <1>2, <1>3, <1>4 DEF LoopInv, Issued, Carries, Slots
  <1>10. HolderInv' BY Zenon, <1>1, <1>2, <1>3, <1>4 DEF HolderInv, TypeInv, Ids, Slots
  <1>11. ASSUME Orderly, ClearInv, NewestInv PROVE NewestInv'
    BY Zenon, <1>1, <1>2, <1>3, <1>4, <1>11 DEF Orderly, NewestInv, HolderInv, HeldInv, TypeInv, Ids, Known, Slots
  <1>12. QED BY Zenon, <1>6, <1>7, <1>8, <1>9, <1>10, <1>11 DEF Kept

\* The renewal is refused, and the check-in goes ahead.
LEMMA RenewRefusedStep == ASSUME NoneApart, Inv, RenewRefused PROVE Kept
  <1> USE DEF Inv
  <1>1. mem # None /\ mem \in Ids BY Zenon DEF RenewRefused, HolderInv, TypeInv
  <1>2. /\ req' \in [Slots -> {None} \cup Requests]
        /\ \A t \in Slots : t # "loop" => req'[t] = req[t]
        /\ req'["loop"] # None /\ req'["loop"].kind = "checkin" /\ req'["loop"].id = mem
        /\ req'["loop"].at = "sent" /\ req'["loop"].got = None /\ loop' = "checking"
    BY Zenon, <1>1, SendFacts DEF RenewRefused, SendCheckin, Slots, Kinds
  <1>3. loop = "renewing" /\ UNCHANGED <<token, devices, issued, adm, due, disk, mem, next, work, faults>>
    BY Zenon DEF RenewRefused, server, agent, budget
  <1>4. SentOrOld BY <1>1, <1>2, <1>3 DEF SentOrOld, Slots, CarriesIssued, Carries, HeldInv
  <1>5. TokenInv' /\ RequestInv' /\ (StatusInv => StatusInv') /\ (ClearInv => ClearInv')
    BY Zenon, <1>1, <1>2, <1>3, <1>4, AgentFrame
  <1>6. TypeInv' BY Zenon, <1>1, <1>2, <1>3 DEF TypeInv, Loops
  <1>7. HeldInv' BY <1>1, <1>2, <1>3 DEF HeldInv, Issued
  <1>8. LoopInv' BY Zenon, <1>1, <1>2, <1>3 DEF LoopInv, Issued, Carries, Slots
  <1>9. HolderInv' BY Zenon, <1>1, <1>2, <1>3 DEF HolderInv, TypeInv, Ids, Slots
  <1>10. ASSUME Orderly, ClearInv, NewestInv PROVE NewestInv'
    BY Zenon, <1>1, <1>2, <1>3, <1>10 DEF Orderly, NewestInv, HolderInv, HeldInv, TypeInv, Ids, Known, Slots
  <1>11. QED BY Zenon, <1>5, <1>6, <1>7, <1>8, <1>9, <1>10 DEF Kept

\* The renewed identity is saved.
LEMMA SaveRenewedStep == ASSUME NoneApart, Inv, SaveRenewed PROVE Kept
  <1> USE DEF Inv
  <1>1. loop = "save" /\ UNCHANGED <<token, devices, issued, adm, due, mem, work>>
    BY DEF SaveRenewed, server, agent, budget
  <1>2. mem # None /\ mem \in Ids /\ Issued(next) BY Zenon, <1>1 DEF HolderInv, HeldInv, TypeInv
  <1>3. next \in Ids /\ next # None BY Zenon, <1>2 DEF Issued, NoneApart
  <1>4. CASE disk' = next /\ loop' = "switch" /\ UNCHANGED <<next, req, faults>>
    <2>1. SentOrOld BY Zenon, <1>1, <1>2, <1>3, <1>4 DEF SentOrOld, Slots, CarriesIssued, Carries, HeldInv
    <2>2. TokenInv' /\ RequestInv' /\ (StatusInv => StatusInv') /\ (ClearInv => ClearInv')
      BY Zenon, <1>1, <1>2, <1>3, <1>4, <2>1, AgentFrame
    <2>3. TypeInv' BY Zenon, <1>1, <1>2, <1>3, <1>4 DEF TypeInv, Loops
    <2>4. HeldInv' BY Zenon, <1>1, <1>2, <1>3, <1>4 DEF HeldInv, Issued
    <2>5. LoopInv' BY Zenon, <1>1, <1>2, <1>3, <1>4 DEF LoopInv, Issued, Carries, Slots
    <2>6. HolderInv' BY <1>1, <1>2, <1>3, <1>4 DEF HolderInv, TypeInv, Ids, Slots
    <2>7. ASSUME Orderly, ClearInv, NewestInv PROVE NewestInv'
      BY <1>1, <1>2, <1>3, <1>4, <2>7 DEF Orderly, NewestInv, HolderInv, HeldInv, TypeInv, Ids, Known, Slots
    <2>8. QED BY <2>2, <2>3, <2>4, <2>5, <2>6, <2>7 DEF Kept
  <1>5. CASE SendCheckin(mem) /\ next' = None /\ faults' = faults + 1 /\ UNCHANGED disk
    <2>1. /\ req' \in [Slots -> {None} \cup Requests]
          /\ \A t \in Slots : t # "loop" => req'[t] = req[t]
          /\ req'["loop"] # None /\ req'["loop"].kind = "checkin" /\ req'["loop"].id = mem
          /\ req'["loop"].at = "sent" /\ req'["loop"].got = None /\ loop' = "checking"
      BY Zenon, <1>2, <1>5, SendFacts DEF SendCheckin, Slots, Kinds
    <2>2. SentOrOld
      BY <1>1, <1>2, <1>3, <1>5, <2>1 DEF SentOrOld, Slots, CarriesIssued, Carries, HeldInv
    <2>3. TokenInv' /\ RequestInv' /\ (StatusInv => StatusInv') /\ (ClearInv => ClearInv')
      BY Zenon, <1>1, <1>2, <1>3, <1>5, <2>1, <2>2, AgentFrame
    <2>4. TypeInv' BY <1>1, <1>2, <1>3, <1>5, <2>1 DEF TypeInv, Loops
    <2>5. HeldInv' BY <1>1, <1>2, <1>3, <1>5, <2>1 DEF HeldInv, Issued
    <2>6. LoopInv' BY Zenon, <1>1, <1>2, <1>3, <1>5, <2>1 DEF LoopInv, Issued, Carries, Slots
    <2>7. HolderInv' BY Zenon, <1>1, <1>2, <1>3, <1>5, <2>1 DEF HolderInv, TypeInv, Ids, Slots
    <2>8. ASSUME Orderly, ClearInv, NewestInv PROVE NewestInv'
      BY Zenon, <1>1, <1>2, <1>3, <1>5, <2>1, <2>8 DEF Orderly, NewestInv, HolderInv, HeldInv, TypeInv, Ids, Known, Slots
    <2>9. QED BY Zenon, <2>3, <2>4, <2>5, <2>6, <2>7, <2>8 DEF Kept
  <1>6. QED BY Zenon, <1>1, <1>2, <1>3, <1>4, <1>5 DEF SaveRenewed

\* The client is switched to it.
LEMMA SwitchStep == ASSUME NoneApart, Inv, Switch PROVE Kept
  <1> USE DEF Inv
  <1>1. Issued(next) /\ next \in Ids /\ next # None /\ mem # None
    BY Zenon DEF Switch, HeldInv, HolderInv, Issued, NoneApart
  <1>2. /\ req' \in [Slots -> {None} \cup Requests]
        /\ \A t \in Slots : t # "loop" => req'[t] = req[t]
        /\ req'["loop"] # None /\ req'["loop"].kind = "checkin" /\ req'["loop"].id = next
        /\ req'["loop"].at = "sent" /\ req'["loop"].got = None /\ loop' = "checking"
    BY Zenon, <1>1, SendFacts DEF Switch, SendCheckin, Slots, Kinds
  <1>3. next.cert \in Nat /\ mem.cert \in Nat /\ (req["worker"] # None => req["worker"].id.cert \in Nat)
    BY Zenon, <1>1 DEF TypeInv, Ids, RequestInv, CarriesIssued, Carries, Issued, HolderInv, Slots
  <1>4. loop = "switch" /\ mem' = next /\ next' = None /\ UNCHANGED <<token, devices, issued, adm, due, disk, work, faults>>
    BY DEF Switch, server, agent, budget
  <1>5. SentOrOld BY <1>1, <1>2, <1>3, <1>4 DEF SentOrOld, Slots, CarriesIssued, Carries, HeldInv
  <1>6. TokenInv' /\ RequestInv' /\ (StatusInv => StatusInv') /\ (ClearInv => ClearInv')
    BY <1>1, <1>2, <1>3, <1>4, <1>5, AgentFrame
  <1>7. TypeInv' BY Zenon, <1>1, <1>2, <1>3, <1>4 DEF TypeInv, Loops
  <1>8. HeldInv' BY Zenon, <1>1, <1>2, <1>3, <1>4 DEF HeldInv, Issued
  <1>9. LoopInv' BY <1>1, <1>2, <1>3, <1>4 DEF LoopInv, Issued, Carries, Slots
  <1>10. HolderInv' BY <1>1, <1>2, <1>3, <1>4 DEF HolderInv, TypeInv, Ids, Slots
  <1>11. ASSUME Orderly, ClearInv, NewestInv PROVE NewestInv'
    BY Zenon, <1>1, <1>2, <1>3, <1>4, <1>11 DEF Orderly, NewestInv, HolderInv, HeldInv, TypeInv, Ids, Known, Slots
  <1>12. QED BY Zenon, <1>6, <1>7, <1>8, <1>9, <1>10, <1>11 DEF Kept

\* The check-in is answered or refused.
LEMMA CheckinAnsweredStep == ASSUME NoneApart, Inv, CheckinAnswered PROVE Kept
  <1> USE DEF Inv
  <1>1. /\ req' \in [Slots -> {None} \cup Requests]
        /\ (\A t \in Slots : t # "loop" => req'[t] = req[t]) /\ req'["loop"] = None
    BY DoneFacts DEF CheckinAnswered, Slots
  <1>2. mem # None /\ mem \in Ids BY Zenon DEF CheckinAnswered, HolderInv, TypeInv
  <1>3. loop = "checking" /\ loop' = "idle" /\ UNCHANGED <<token, devices, issued, adm, due, disk, mem, next, faults>>
    BY DEF CheckinAnswered, server, agent, budget
  <1>4. CASE Receive("loop", "answered") /\ work' \in {work, TRUE}
    <2>1. OnlyNewest(req["loop"]) => (mem.cert = devices[mem.dev].cur => devices[mem.dev].prev = None)
      BY Zenon, <1>4, <1>3 DEF Receive, LoopInv, OnlyNewest, Carries
    <2>2. SentOrOld
      BY <1>1, <1>2, <1>3, <1>4, <2>1 DEF SentOrOld, Slots, CarriesIssued, Carries, HeldInv
    <2>3. TokenInv' /\ RequestInv' /\ (StatusInv => StatusInv') /\ (ClearInv => ClearInv')
      BY Zenon, <1>1, <1>2, <1>3, <1>4, <2>1, <2>2, AgentFrame
    <2>4. TypeInv' BY Zenon, <1>1, <1>2, <1>3, <1>4, <2>1 DEF TypeInv, Loops
    <2>5. HeldInv' BY Zenon, <1>1, <1>2, <1>3, <1>4, <2>1 DEF HeldInv, Issued
    <2>6. LoopInv' BY Zenon, <1>1, <1>2, <1>3, <1>4, <2>1 DEF LoopInv, Issued, Carries, Slots
    <2>7. HolderInv' BY Zenon, <1>1, <1>2, <1>3, <1>4, <2>1 DEF HolderInv, TypeInv, Ids, Slots
    <2>8. ASSUME Orderly, ClearInv, NewestInv PROVE NewestInv'
      BY Zenon, <1>1, <1>2, <1>3, <1>4, <2>1, <2>8 DEF Orderly, NewestInv, HolderInv, HeldInv, TypeInv, Ids, Known, Slots, ClearInv
    <2>9. QED BY <2>3, <2>4, <2>5, <2>6, <2>7, <2>8 DEF Kept
  <1>5. CASE UNCHANGED work
    <2>1. SentOrOld BY <1>1, <1>2, <1>3, <1>5 DEF SentOrOld, Slots, CarriesIssued, Carries, HeldInv
    <2>2. TokenInv' /\ RequestInv' /\ (StatusInv => StatusInv') /\ (ClearInv => ClearInv')
      BY Zenon, <1>1, <1>2, <1>3, <1>5, <2>1, AgentFrame
    <2>3. TypeInv' BY <1>1, <1>2, <1>3, <1>5 DEF TypeInv, Loops
    <2>4. HeldInv' BY <1>1, <1>2, <1>3, <1>5 DEF HeldInv, Issued
    <2>5. LoopInv' BY Zenon, <1>1, <1>2, <1>3, <1>5 DEF LoopInv, Issued, Carries, Slots
    <2>6. HolderInv' BY Zenon, <1>1, <1>2, <1>3, <1>5 DEF HolderInv, TypeInv, Ids, Slots
    <2>7. ASSUME Orderly, ClearInv, NewestInv PROVE NewestInv'
      BY Zenon, <1>1, <1>2, <1>3, <1>5, <2>7 DEF Orderly, NewestInv, HolderInv, HeldInv, TypeInv, Ids, Known, Slots
    <2>8. QED BY Zenon, <2>2, <2>3, <2>4, <2>5, <2>6, <2>7 DEF Kept
  <1>6. QED BY Zenon, <1>1, <1>2, <1>3, <1>4, <1>5 DEF CheckinAnswered

\* The agent is told that it is unenrolled, and wipes itself.
LEMMA WipeStep == ASSUME NoneApart, Inv, Wipe PROVE Kept
  <1> USE DEF Inv
  <1>1. disk' = None /\ mem' = None /\ work' = FALSE /\ loop' = "off" /\ UNCHANGED <<token, devices, issued, adm, due, next, faults>>
    BY Zenon DEF Wipe, server, agent, budget
  <1>2. /\ req' \in [Slots -> {None} \cup Requests] /\ req'["ghost"] = req["ghost"]
        /\ req'["loop"] = None /\ req'["worker"] = None
    BY Zenon DEF Wipe, TypeInv, Slots
  <1>3. SentOrOld BY Zenon, <1>1, <1>2 DEF SentOrOld, Slots, CarriesIssued, Carries, HeldInv
  <1>4. TokenInv' /\ RequestInv' /\ (StatusInv => StatusInv') /\ (ClearInv => ClearInv')
    BY Zenon, <1>1, <1>2, <1>3, AgentFrame
  <1>5. TypeInv' BY Zenon, <1>1, <1>2 DEF TypeInv, Loops
  <1>6. HeldInv' BY Zenon, <1>1, <1>2 DEF HeldInv, Issued
  <1>7. LoopInv' BY Zenon, <1>1, <1>2 DEF LoopInv, Issued, Carries, Slots
  <1>8. HolderInv' BY Zenon, <1>1, <1>2 DEF HolderInv, TypeInv, Ids, Slots
  <1>9. ASSUME Orderly, ClearInv, NewestInv PROVE NewestInv'
    BY Zenon, <1>1, <1>2, <1>9 DEF Orderly, NewestInv, HolderInv, HeldInv, TypeInv, Ids, Known, Slots
  <1>10. QED BY <1>4, <1>5, <1>6, <1>7, <1>8, <1>9 DEF Kept

\* The worker reports on a command.
LEMMA WorkerSendStep == ASSUME NoneApart, Inv, WorkerSend PROVE Kept
  <1> USE DEF Inv
  <1>1. mem # None /\ mem \in Ids BY Zenon DEF WorkerSend, HolderInv, TypeInv
  <1>2. mem.cert <= mem.cert BY <1>1 DEF Ids
  <1>3. /\ req' \in [Slots -> {None} \cup Requests]
        /\ \A t \in Slots : t # "worker" => req'[t] = req[t]
        /\ req'["worker"] # None /\ req'["worker"].kind = "work" /\ req'["worker"].id = mem
        /\ req'["worker"].at = "sent" /\ req'["worker"].got = None
    BY Zenon, <1>1, SendFacts DEF WorkerSend, Slots, Kinds
  <1>4. UNCHANGED <<token, devices, issued, adm, due, disk, mem, loop, next, work, faults>>
    BY DEF WorkerSend, server, agent, budget
  <1>5. NewestInv => (mem.cert \in due /\ mem.cert = devices[mem.dev].cur => devices[mem.dev].prev = None)
    BY Zenon DEF WorkerSend, NewestInv
  <1>6. SentOrOld
    BY Zenon, <1>1, <1>2, <1>3, <1>4, <1>5 DEF SentOrOld, Slots, CarriesIssued, Carries, HeldInv
  <1>7. TokenInv' /\ RequestInv' /\ (StatusInv => StatusInv') /\ (ClearInv => ClearInv')
    BY <1>1, <1>2, <1>3, <1>4, <1>5, <1>6, AgentFrame
  <1>8. TypeInv' BY Zenon, <1>1, <1>2, <1>3, <1>4, <1>5 DEF TypeInv, Loops
  <1>9. HeldInv' BY Zenon, <1>1, <1>2, <1>3, <1>4, <1>5 DEF HeldInv, Issued
  <1>10. LoopInv' BY <1>1, <1>2, <1>3, <1>4, <1>5 DEF LoopInv, Issued, Carries, Slots
  <1>11. HolderInv' BY Zenon, <1>1, <1>2, <1>3, <1>4, <1>5 DEF HolderInv, TypeInv, Ids, Slots
  <1>12. ASSUME Orderly, ClearInv, NewestInv PROVE NewestInv'
    BY Zenon, <1>1, <1>2, <1>3, <1>4, <1>5, <1>12 DEF NewestInv, Known, Slots
  <1>13. QED BY Zenon, <1>7, <1>8, <1>9, <1>10, <1>11, <1>12 DEF Kept

\* The worker goes on, whatever the answer.
LEMMA WorkerAnsweredStep == ASSUME NoneApart, Inv, WorkerAnswered PROVE Kept
  <1> USE DEF Inv
  <1>1. /\ req' \in [Slots -> {None} \cup Requests]
        /\ (\A t \in Slots : t # "worker" => req'[t] = req[t]) /\ req'["worker"] = None
    BY DoneFacts DEF WorkerAnswered, Slots
  <1>2. work' \in {work, FALSE} /\ req["worker"] # None /\ UNCHANGED <<token, devices, issued, adm, due, disk, mem, loop, next, faults>>
    BY Zenon DEF WorkerAnswered, server, agent, budget, Receive
  <1>3. SentOrOld BY Zenon, <1>1, <1>2 DEF SentOrOld, Slots, CarriesIssued, Carries, HeldInv
  <1>4. TokenInv' /\ RequestInv' /\ (StatusInv => StatusInv') /\ (ClearInv => ClearInv')
    BY Zenon, <1>1, <1>2, <1>3, AgentFrame
  <1>5. TypeInv' BY Zenon, <1>1, <1>2 DEF TypeInv, Loops
  <1>6. HeldInv' BY Zenon, <1>1, <1>2 DEF HeldInv, Issued
  <1>7. LoopInv' BY Zenon, <1>1, <1>2 DEF LoopInv, Issued, Carries, Slots
  <1>8. HolderInv' BY Zenon, <1>1, <1>2 DEF HolderInv, TypeInv, Ids, Slots
  <1>9. ASSUME Orderly, ClearInv, NewestInv PROVE NewestInv'
    BY Zenon, <1>1, <1>2, <1>9 DEF Orderly, NewestInv, HolderInv, HeldInv, TypeInv, Ids, Known, Slots
  <1>10. QED BY <1>4, <1>5, <1>6, <1>7, <1>8, <1>9 DEF Kept

\* A client gives up, and its handler is cancelled or lives on as a ghost.
LEMMA GiveUpStep == ASSUME NoneApart, Inv, NEW s \in {"loop", "worker"}, GiveUp(s) PROVE Kept
  <1> USE DEF Inv
  <1>1. req[s] # None /\ UNCHANGED <<token, devices, issued, adm, due, disk, mem, next, work, faults>>
    BY Zenon DEF GiveUp, server, agent, budget
  <1>2. CASE s = "worker" /\ UNCHANGED loop /\ req' = [req EXCEPT !["ghost"] = Orphan(s), ![s] = None]
    <2>1. /\ req' \in [Slots -> {None} \cup Requests]
          /\ req'["worker"] = None /\ req'["loop"] = req["loop"]
          /\ \/ req'["ghost"] = req["ghost"]
             \/ HalfOpen /\ req'["ghost"] = req[s]
      BY <1>2, <1>1 DEF Orphan, TypeInv, Slots
    <2>2. SentOrOld BY Zenon, <1>1, <1>2, <2>1 DEF SentOrOld, Slots, CarriesIssued, Carries, HeldInv
    <2>3. TokenInv' /\ RequestInv' /\ (StatusInv => StatusInv') /\ (ClearInv => ClearInv')
      BY Zenon, <1>1, <1>2, <2>1, <2>2, AgentFrame
    <2>4. TypeInv' BY Zenon, <1>1, <1>2, <2>1 DEF TypeInv, Loops
    <2>5. HeldInv' BY Zenon, <1>1, <1>2, <2>1 DEF HeldInv, Issued
    <2>6. LoopInv' BY Zenon, <1>1, <1>2, <2>1 DEF LoopInv, Issued, Carries, Slots
    <2>7. HolderInv' BY Zenon, <1>1, <1>2, <2>1 DEF HolderInv, TypeInv, Ids, Slots
    <2>8. ASSUME Orderly, ClearInv, NewestInv PROVE NewestInv'
      BY Zenon, <1>1, <1>2, <2>1, <2>8 DEF Orderly, NewestInv, HolderInv, HeldInv, TypeInv, Ids, Known, Slots
    <2>9. QED BY <2>3, <2>4, <2>5, <2>6, <2>7, <2>8 DEF Kept
  <1>3. CASE /\ s = "loop" /\ loop' \in {"off", "idle"} /\ (loop' = "idle" => req[s].kind = "checkin")
            /\ req' = [req EXCEPT !["ghost"] = Orphan(s), ![s] = None]
    <2>1. /\ req' \in [Slots -> {None} \cup Requests]
          /\ req'["loop"] = None /\ req'["worker"] = req["worker"]
          /\ \/ req'["ghost"] = req["ghost"]
             \/ HalfOpen /\ req'["ghost"] = req[s]
      BY <1>3, <1>1 DEF Orphan, TypeInv, Slots
    <2>2. loop' \in {"off", "idle"} /\ (loop' = "idle" => loop = "checking") /\ loop \in {"enrolling", "renewing", "checking"}
      BY Zenon, <1>1, <1>3 DEF LoopInv
    <2>3. SentOrOld BY Zenon, <1>1, <1>3, <2>1, <2>2 DEF SentOrOld, Slots, CarriesIssued, Carries, HeldInv
    <2>4. TokenInv' /\ RequestInv' /\ (StatusInv => StatusInv') /\ (ClearInv => ClearInv')
      BY Zenon, <1>1, <1>3, <2>1, <2>2, <2>3, AgentFrame
    <2>5. TypeInv' BY Zenon, <1>1, <1>3, <2>1, <2>2 DEF TypeInv, Loops
    <2>6. HeldInv' BY Zenon, <1>1, <1>3, <2>1, <2>2 DEF HeldInv, Issued
    <2>7. LoopInv' BY <1>1, <1>3, <2>1, <2>2 DEF LoopInv, Issued, Carries, Slots
    <2>8. HolderInv' BY Zenon, <1>1, <1>3, <2>1, <2>2 DEF HolderInv, TypeInv, Ids, Slots
    <2>9. ASSUME Orderly, ClearInv, NewestInv PROVE NewestInv'
      BY Zenon, <1>1, <1>3, <2>1, <2>2, <2>9 DEF Orderly, NewestInv, HolderInv, HeldInv, TypeInv, Ids, Known, Slots
    <2>10. QED BY Zenon, <2>4, <2>5, <2>6, <2>7, <2>8, <2>9 DEF Kept
  <1>4. CASE /\ s = "loop" /\ loop' = "checking" /\ req[s].kind = "renew"
              /\ req' = [req EXCEPT !["ghost"] = Orphan(s), ![s] = Request("checkin", mem)]
    <2>1. loop = "renewing" /\ mem # None /\ mem \in Ids
      BY Zenon, <1>1, <1>4 DEF LoopInv, HolderInv, TypeInv
    <2>2. Request("checkin", mem) \in Requests /\ Request("checkin", mem) # None
      BY <2>1 DEF Request, Requests, Kinds, Stages, NoneApart
    <2>3. /\ req' \in [Slots -> {None} \cup Requests]
          /\ req'["loop"] = Request("checkin", mem) /\ req'["worker"] = req["worker"]
          /\ \/ req'["ghost"] = req["ghost"]
             \/ HalfOpen /\ req'["ghost"] = req[s]
      BY Zenon, <1>4, <1>1, <2>2 DEF Orphan, TypeInv, Slots
    <2>4. /\ req'["loop"] # None /\ req'["loop"].kind = "checkin" /\ req'["loop"].id = mem
          /\ req'["loop"].at = "sent" /\ req'["loop"].got = None
      BY <2>2, <2>3 DEF Request
    <2>5. SentOrOld
      BY Zenon, <1>1, <1>4, <2>1, <2>2, <2>3, <2>4 DEF SentOrOld, Slots, CarriesIssued, Carries, HeldInv
    <2>6. TokenInv' /\ RequestInv' /\ (StatusInv => StatusInv') /\ (ClearInv => ClearInv')
      BY Zenon, <1>1, <1>4, <2>1, <2>2, <2>3, <2>4, <2>5, AgentFrame
    <2>7. TypeInv' BY Zenon, <1>1, <1>4, <2>1, <2>2, <2>3, <2>4 DEF TypeInv, Loops
    <2>8. HeldInv' BY Zenon, <1>1, <1>4, <2>1, <2>2, <2>3, <2>4 DEF HeldInv, Issued
    <2>9. LoopInv' BY Zenon, <1>1, <1>4, <2>1, <2>2, <2>3, <2>4 DEF LoopInv, Issued, Carries, Slots
    <2>10. HolderInv' BY Zenon, <1>1, <1>4, <2>1, <2>2, <2>3, <2>4 DEF HolderInv, TypeInv, Ids, Slots
    <2>11. ASSUME Orderly, ClearInv, NewestInv PROVE NewestInv'
      BY Zenon, <1>1, <1>4, <2>1, <2>2, <2>3, <2>4, <2>11 DEF Orderly, NewestInv, HolderInv, HeldInv, TypeInv, Ids, Known, Slots
    <2>12. QED BY <2>6, <2>7, <2>8, <2>9, <2>10, <2>11 DEF Kept
  <1>5. QED BY <1>1, <1>2, <1>3, <1>4 DEF GiveUp

\* The agent crashes.
LEMMA CrashStep == ASSUME NoneApart, Inv, Crash PROVE Kept
  <1> USE DEF Inv
  <1>1. loop' = "start" /\ mem' = None /\ next' = None /\ work' = FALSE /\ UNCHANGED <<token, devices, issued, adm, due, disk, faults>>
    BY Zenon DEF Crash, server, agent, budget
  <1>2. /\ req' \in [Slots -> {None} \cup Requests]
        /\ req'["loop"] = None /\ req'["worker"] = None
        /\ \/ req'["ghost"] = req["ghost"]
           \/ HalfOpen /\ req'["ghost"] = req["loop"]
    BY Zenon DEF Crash, Orphan, TypeInv, Slots
  <1>3. SentOrOld BY Zenon, <1>1, <1>2 DEF SentOrOld, Slots, CarriesIssued, Carries, HeldInv
  <1>4. TokenInv' /\ RequestInv' /\ (StatusInv => StatusInv') /\ (ClearInv => ClearInv')
    BY <1>1, <1>2, <1>3, AgentFrame
  <1>5. TypeInv' BY Zenon, <1>1, <1>2 DEF TypeInv, Loops
  <1>6. HeldInv' BY Zenon, <1>1, <1>2 DEF HeldInv, Issued
  <1>7. LoopInv' BY <1>1, <1>2 DEF LoopInv, Issued, Carries, Slots
  <1>8. HolderInv' BY Zenon, <1>1, <1>2 DEF HolderInv, TypeInv, Ids, Slots
  <1>9. ASSUME Orderly, ClearInv, NewestInv PROVE NewestInv'
    BY Zenon, <1>1, <1>2, <1>9 DEF Orderly, NewestInv, HolderInv, HeldInv, TypeInv, Ids, Known, Slots
  <1>10. QED BY <1>4, <1>5, <1>6, <1>7, <1>8, <1>9 DEF Kept

\* A certificate becomes due.
LEMMA AgesStep == ASSUME NoneApart, Inv, Ages PROVE Kept
  <1> USE DEF Inv
  <1>1. mem # None /\ mem \in Ids BY Zenon DEF Ages, HolderInv, TypeInv
  <1>2. /\ loop = "idle" /\ ~work /\ (\A t \in Slots : req[t] = None) /\ due' = due \cup {mem.cert}
        /\ UNCHANGED <<token, devices, issued, adm, disk, mem, loop, next, work, req, faults>>
    BY DEF Ages, server, agent, budget
  <1>3. SentOrOld BY Zenon, <1>1, <1>2 DEF SentOrOld, Slots, CarriesIssued, Carries, HeldInv
  <1>4. TokenInv' /\ RequestInv' /\ (StatusInv => StatusInv') /\ (ClearInv => ClearInv')
    BY <1>1, <1>2, <1>3, AgentFrame
  <1>5. TypeInv' BY <1>1, <1>2 DEF TypeInv, Loops
  <1>6. HeldInv' BY Zenon, <1>1, <1>2 DEF HeldInv, Issued
  <1>7. LoopInv' BY <1>1, <1>2 DEF LoopInv, Issued, Carries, Slots
  <1>8. HolderInv' BY Zenon, <1>1, <1>2 DEF HolderInv, TypeInv, Ids, Slots
  <1>9. ASSUME Orderly, ClearInv, NewestInv PROVE NewestInv'
    BY <1>1, <1>2, <1>9 DEF Orderly, NewestInv, HolderInv, HeldInv, TypeInv, Ids, Known, Slots, Issued, TokenInv
  <1>10. QED BY Zenon, <1>4, <1>5, <1>6, <1>7, <1>8, <1>9 DEF Kept

\* A ghost ends.
LEMMA VanishStep == ASSUME NoneApart, Inv, Vanish PROVE Kept
  <1> USE DEF Inv
  <1>1. UNCHANGED <<token, devices, issued, adm, due, disk, mem, loop, next, work, faults>>
    BY Zenon DEF Vanish, server, agent, budget
  <1>2. /\ req' \in [Slots -> {None} \cup Requests]
        /\ (\A t \in Slots : t # "ghost" => req'[t] = req[t]) /\ req'["ghost"] = None
    BY Zenon DEF Vanish, TypeInv, Slots
  <1>3. SentOrOld BY Zenon, <1>1, <1>2 DEF SentOrOld, Slots, CarriesIssued, Carries, HeldInv
  <1>4. TokenInv' /\ RequestInv' /\ (StatusInv => StatusInv') /\ (ClearInv => ClearInv')
    BY Zenon, <1>1, <1>2, <1>3, AgentFrame
  <1>5. TypeInv' BY Zenon, <1>1, <1>2 DEF TypeInv, Loops
  <1>6. HeldInv' BY Zenon, <1>1, <1>2 DEF HeldInv, Issued
  <1>7. LoopInv' BY Zenon, <1>1, <1>2 DEF LoopInv, Issued, Carries, Slots
  <1>8. HolderInv' BY Zenon, <1>1, <1>2 DEF HolderInv, TypeInv, Ids, Slots
  <1>9. ASSUME Orderly, ClearInv, NewestInv PROVE NewestInv'
    BY Zenon, <1>1, <1>2, <1>9 DEF Orderly, NewestInv, HolderInv, HeldInv, TypeInv, Ids, Known, Slots
  <1>10. QED BY Zenon, <1>4, <1>5, <1>6, <1>7, <1>8, <1>9 DEF Kept

-------------------------------------------------------------------------------
(***************************************************************************)
(* The server's steps.                                                     *)
(***************************************************************************)
\* What requireDevice decides.
LEMMA AdmitFacts ==
    ASSUME TypeInv, NEW id, Issued(id)
    PROVE  /\ Admit(id) \in Stages
           /\ Admit(id) = "clear" => id.cert = devices[id.dev].cur /\ devices[id.dev].prev # None
           /\ Admit(id) = "body" => id.cert # devices[id.dev].cur \/ devices[id.dev].prev = None
           /\ Admit(id) = "gone" => devices[id.dev].status = "unenrolled"
           /\ Admit(id) # "answered"
  <1>1. devices[id.dev].status \in {"active", "retired", "unenrolled"}
    BY Zenon DEF TypeInv, Issued, Status
  <1>2. QED BY Zenon, <1>1 DEF Admit, Stages, Known

\* What a step of the server keeps of the agent's state, when the identities issued
\* before stay issued and an answer to the loop is what the loop asked for.
LEMMA ServerFrame ==
    ASSUME NoneApart, Inv, NEW s \in Slots, req[s] # None, NEW stage \in Stages, NEW got \in Ids \cup {None},
           Answer(s, stage, got), UNCHANGED <<disk, mem, loop, next, work>>,
           \A id : Issued(id) => Issued(id)', stage = "clear" => Carries(req[s]),
           stage = "answered" /\ req[s].kind \in {"enroll", "renew"} => Issued(got)',
           s = "loop" /\ stage = "answered" /\ req[s].kind = "renew" => got.dev = mem.dev /\ got.cert > mem.cert
    PROVE  HeldInv' /\ LoopInv' /\ HolderInv' /\ (\A t \in Slots : CarriesIssued(req[t]))'
  <1> USE DEF Inv
  <1>1. /\ \A t \in Slots : t # s => req'[t] = req[t]
        /\ req'[s] # None /\ req'[s].kind = req[s].kind /\ req'[s].id = req[s].id
        /\ req'[s].at = stage /\ req'[s].got = got
    BY AnswerFacts
  <1>2. HeldInv' BY Zenon DEF HeldInv
  <1>3. \A t \in Slots : (req'[t] = None <=> req[t] = None) /\ req'[t].kind = req[t].kind /\ req'[t].id = req[t].id
    BY Zenon, <1>1
  <1>4. LoopInv' BY <1>1, <1>3 DEF LoopInv, Carries, Slots
  <1>5. HolderInv' BY Zenon, <1>3 DEF HolderInv, Slots
  <1>6. (\A t \in Slots : CarriesIssued(req[t]))' BY <1>1, <1>3 DEF RequestInv, CarriesIssued, Carries
  <1>7. QED BY <1>2, <1>4, <1>5, <1>6

\* The requests the server does not touch in a step that leaves the devices alone.
LEMMA AnswerFrame ==
    ASSUME NoneApart, Inv, NEW s \in Slots, req[s] # None, NEW stage \in Stages,
           Answer(s, stage, None), UNCHANGED <<token, devices, issued, adm, disk, mem, loop, next, work>>,
           faults' \in {faults, faults + 1}, req[s].kind \in {"enroll", "renew"} => stage # "answered",
           stage = "clear" => Carries(req[s]), OnlyNewest(req'[s]) \/ faults' # 0
    PROVE  /\ Inv'
           /\ StatusInv /\ ToldRightly(req'[s]) => StatusInv'
           /\ ClearInv /\ OnlyNewest(req'[s]) /\ ClearsOlder(req'[s]) => ClearInv'
  <1> USE DEF Inv
  <1>1. \A id : Issued(id) <=> Issued(id)' BY Zenon DEF Issued
  <1>2. /\ req' \in [Slots -> {None} \cup Requests]
        /\ \A t \in Slots : t # s => req'[t] = req[t]
    BY Zenon, AnswerFacts
  <1>3. TypeInv' BY <1>2 DEF TypeInv
  <1>4. TokenInv' BY DEF TokenInv
  <1>5. HeldInv' /\ LoopInv' /\ HolderInv' /\ (\A t \in Slots : CarriesIssued(req[t]))'
    BY Zenon, <1>1, ServerFrame
  <1>6. RequestInv'
    <2>1. ASSUME faults' = 0, NEW t \in Slots PROVE OnlyNewest(req[t])'
      BY <2>1, <1>2 DEF RequestInv, OnlyNewest, Carries, TypeInv
    <2>2. QED BY <1>5, <2>1 DEF RequestInv
  <1>7. StatusInv /\ ToldRightly(req'[s]) => StatusInv'
    BY Zenon, <1>2 DEF StatusInv, ToldRightly
  <1>8. ClearInv /\ OnlyNewest(req'[s]) /\ ClearsOlder(req'[s]) => ClearInv'
    BY <1>2 DEF ClearInv, OnlyNewest, ClearsOlder
  <1>9. QED BY Zenon, <1>3, <1>4, <1>5, <1>6, <1>7, <1>8

\* Nobody of the agent is ahead of the disk, and the disk is not ahead of the server.
LEMMA Ahead ==
    ASSUME NoneApart, Inv, NewestInv, NEW s \in Slots, Carries(req[s])
    PROVE  /\ s \in {"loop", "worker"} /\ mem # None /\ disk # None
           /\ req[s].id.dev = mem.dev /\ mem.dev = disk.dev /\ disk.dev \in DOMAIN devices
           /\ req[s].id.cert \in Nat /\ mem.cert \in Nat /\ disk.cert \in Nat
           /\ devices[disk.dev].cur \in Nat
           /\ req[s].id.cert <= mem.cert /\ mem.cert <= disk.cert
           /\ disk.cert <= devices[disk.dev].cur
  <1> USE DEF Inv
  <1>1. s \in {"loop", "worker"} BY Zenon DEF NewestInv, Carries, Slots
  <1>2. Issued(req[s].id) BY Zenon DEF RequestInv, CarriesIssued
  <1>3. req[s].id \in Ids /\ req[s].id # None BY <1>2 DEF Issued, NoneApart
  <1>4. mem # None
    <2>1. CASE s = "loop" BY Zenon, <2>1, <1>3 DEF LoopInv
    <2>2. CASE s = "worker" BY Zenon, <2>2 DEF HolderInv, Carries
    <2>3. QED BY Zenon, <1>1, <2>1, <2>2
  <1>5. disk # None /\ mem.dev = disk.dev /\ mem.cert <= disk.cert BY Zenon, <1>4 DEF HolderInv
  <1>6. mem \in Ids /\ Issued(disk) BY Zenon, <1>4, <1>5 DEF TypeInv, HeldInv
  <1>7. /\ disk.dev \in DOMAIN devices /\ disk.cert \in Nat /\ mem.cert \in Nat
        /\ req[s].id.cert \in Nat
    BY Zenon, <1>3, <1>6 DEF Issued, Ids
  <1>8. devices[disk.dev].cur \in Nat BY <1>7 DEF TypeInv
  <1>9. req[s].id.dev = mem.dev /\ req[s].id.cert <= mem.cert
    <2>1. CASE s = "loop" BY <2>1, <1>7 DEF LoopInv
    <2>2. CASE s = "worker" BY Zenon, <2>2 DEF HolderInv, Carries
    <2>3. QED BY Zenon, <1>1, <2>1, <2>2
  <1>10. disk.cert <= devices[disk.dev].cur BY Zenon, <1>5 DEF NewestInv
  <1>11. QED BY <1>1, <1>4, <1>5, <1>7, <1>8, <1>9, <1>10

\* A request that is not let in leaves everything else alone; one that is about to
\* clear the superseded serial does not hold a certificate that is due.
LEMMA RequireDeviceStep == ASSUME NoneApart, Inv, NEW s \in Slots, RequireDevice(s) PROVE Kept
  <1> USE DEF Inv
  <1>1. /\ Carries(req[s]) /\ Issued(req[s].id) /\ Answer(s, Admit(req[s].id), None)
        /\ UNCHANGED <<token, devices, issued, adm, due, disk, mem, loop, next, work, faults>>
    BY DEF RequireDevice, Carries, RequestInv, CarriesIssued, server, agent, budget
  <1> DEFINE id == req[s].id
  <1>2. /\ Admit(id) \in Stages /\ Admit(id) # "answered"
        /\ Admit(id) = "clear" => id.cert = devices[id.dev].cur /\ devices[id.dev].prev # None
        /\ Admit(id) = "body" => id.cert # devices[id.dev].cur \/ devices[id.dev].prev = None
        /\ Admit(id) = "gone" => devices[id.dev].status = "unenrolled"
    BY Zenon, <1>1, AdmitFacts
  <1>3. /\ \A t \in Slots : t # s => req'[t] = req[t]
        /\ req'[s] # None /\ req'[s].kind = req[s].kind /\ req'[s].id = id /\ req'[s].at = Admit(id)
    BY Zenon, <1>1, <1>2, AnswerFacts DEF Carries
  <1> HIDE DEF id
  <1>4. OnlyNewest(req'[s]) /\ ClearsOlder(req'[s]) /\ ToldRightly(req'[s])
    BY Zenon, <1>2, <1>3 DEF OnlyNewest, ClearsOlder, ToldRightly
  <1>5. /\ Inv' /\ (StatusInv => StatusInv') /\ (ClearInv => ClearInv')
    BY Zenon, <1>1, <1>2, <1>4, AnswerFrame DEF Carries, id
  <1>6. ASSUME NewestInv PROVE NewestInv'
    <2>1. s = "worker" /\ Admit(id) = "clear" => id.cert \notin due
      <3> SUFFICES ASSUME s = "worker", Admit(id) = "clear", id.cert \in due PROVE FALSE
        OBVIOUS
      <3>1. id.cert = mem.cert /\ mem.cert = devices[mem.dev].cur /\ id.dev = mem.dev
        BY <1>1, <1>2, <1>6, Ahead DEF id
      <3>2. QED BY Zenon, <1>1, <1>2, <1>6, <3>1 DEF NewestInv, Carries
    <2>2. QED BY Zenon, <1>1, <1>2, <1>3, <1>6, <2>1 DEF NewestInv, Known, Carries, Slots, id
  <1>7. QED BY <1>5, <1>6 DEF Kept

\* A handler that leaves the identity alone answers.
LEMMA ServeStep == ASSUME NoneApart, Inv, NEW s \in Slots, Serve(s) PROVE Kept
  <1> USE DEF Inv
  <1>1. /\ req[s] # None /\ req[s].kind \in {"checkin", "work"} /\ req[s].at = "body"
        /\ Answer(s, "answered", None) /\ "answered" \in Stages
        /\ UNCHANGED <<token, devices, issued, adm, due, disk, mem, loop, next, work, faults>>
    BY DEF Serve, server, agent, budget, Stages
  <1>2. /\ \A t \in Slots : t # s => req'[t] = req[t]
        /\ req'[s] # None /\ req'[s].kind = req[s].kind /\ req'[s].id = req[s].id
        /\ req'[s].at = "answered"
    BY <1>1, AnswerFacts
  <1>3. ClearsOlder(req'[s]) /\ ToldRightly(req'[s]) /\ (OnlyNewest(req[s]) => OnlyNewest(req'[s]))
    BY Zenon, <1>1, <1>2 DEF OnlyNewest, ClearsOlder, ToldRightly, Carries
  <1>4. OnlyNewest(req'[s]) \/ faults' # 0 BY Zenon, <1>1, <1>3 DEF RequestInv
  <1>5. /\ Inv' /\ (StatusInv => StatusInv') /\ (ClearInv => ClearInv')
    BY Zenon, <1>1, <1>3, <1>4, AnswerFrame DEF ClearInv
  <1>6. ASSUME NewestInv PROVE NewestInv'
    BY Zenon, <1>1, <1>2, <1>6 DEF NewestInv, Known, Slots
  <1>7. QED BY <1>5, <1>6 DEF Kept

\* The superseded serial is cleared, or that fails.  What is on disk is the newest
\* certificate when it is: the request that clears holds that one, and the disk is
\* never behind a request of the agent.
LEMMA ClearPrevCertSerialStep ==
    ASSUME NoneApart, Inv, NEW s \in Slots, ClearPrevCertSerial(s) PROVE Kept
  <1> USE DEF Inv
  <1>1. /\ req[s] # None /\ req[s].at = "clear" /\ Answer(s, "body", None) /\ "body" \in Stages
        /\ UNCHANGED <<token, issued, adm, due, disk, mem, loop, next, work>>
    BY Zenon DEF ClearPrevCertSerial, agent, Stages
  <1>2. /\ req' \in [Slots -> {None} \cup Requests]
        /\ \A t \in Slots : t # s => req'[t] = req[t]
        /\ req'[s] # None /\ req'[s].kind = req[s].kind /\ req'[s].id = req[s].id
        /\ req'[s].at = "body"
    BY <1>1, AnswerFacts
  <1>3. CASE devices' = [devices EXCEPT ![req[s].id.dev].prev = None] /\ UNCHANGED faults
    <2> DEFINE dev == req[s].id.dev
    <2>1. /\ DOMAIN devices' = DOMAIN devices
          /\ devices' \in [DOMAIN devices -> [status : Status, cur : Nat, prev : Nat \cup {None}]]
          /\ \A d \in DOMAIN devices :
               /\ devices'[d].cur = devices[d].cur /\ devices'[d].status = devices[d].status
               /\ devices'[d].prev = IF d = dev THEN None ELSE devices[d].prev
      BY Zenon, <1>3 DEF TypeInv
    <2> HIDE DEF dev
    <2>2. TypeInv' BY Zenon, <1>1, <1>2, <1>3, <2>1 DEF TypeInv
    <2>3. TokenInv' BY Zenon, <1>1, <2>1 DEF TokenInv
    <2>4. \A id : Issued(id) <=> Issued(id)' BY Zenon, <1>1, <2>1 DEF Issued
    <2>5. HeldInv' /\ LoopInv' /\ HolderInv' /\ (\A t \in Slots : CarriesIssued(req[t]))'
      BY Zenon, <1>1, <2>4, ServerFrame
    <2>6. \A t \in Slots : OnlyNewest(req[t]) \/ t = s => OnlyNewest(req[t])'
      BY <1>2, <2>1, <2>5 DEF OnlyNewest, CarriesIssued, Issued, RequestInv, Carries, dev
    <2>7. RequestInv' BY <1>1, <1>3, <2>1, <2>5, <2>6 DEF RequestInv
    <2>8. ASSUME StatusInv PROVE StatusInv'
      <3>1. (\A t \in Slots : ToldRightly(req[t]))'
        BY <2>8, <1>2, <2>1, <2>5 DEF StatusInv, ToldRightly, CarriesIssued, Issued, Carries
      <3>2. QED BY Zenon, <2>8, <1>1, <2>1, <3>1 DEF StatusInv
    <2>9. ASSUME ClearInv, NewestInv PROVE ClearInv' /\ NewestInv'
      <3>1. ClearInv'
        BY <2>9, <1>2, <2>1, <2>5, <2>6 DEF ClearInv, ClearsOlder, CarriesIssued, Issued, Carries
      <3>2. (disk # None => Known(disk) /\ disk.cert <= devices[disk.dev].cur)'
        <4>1. disk.dev = dev => disk.cert = devices[disk.dev].cur
          BY <2>9, <1>1, Ahead DEF ClearInv, ClearsOlder, RequestInv, CarriesIssued, dev
        <4>2. disk # None => disk.dev \in DOMAIN devices /\ disk.cert <= devices[disk.dev].cur /\ Known(disk)
          BY Zenon, <2>9 DEF NewestInv, HeldInv, Issued
        <4>3. QED BY Zenon, <1>1, <2>1, <4>1, <4>2 DEF Known
      <3>3. (loop \in {"save", "switch", "save first"} =>
               next.cert = devices[next.dev].cur /\ next.cert \notin due)'
        BY Zenon, <2>9, <1>1, <2>1 DEF NewestInv, HeldInv, Issued
      <3>4. (req["loop"] # None /\ req["loop"].kind \in {"enroll", "renew"} /\ req["loop"].at = "answered" =>
               req["loop"].got.cert = devices[req["loop"].got.dev].cur /\ req["loop"].got.cert \notin due)'
        BY Zenon, <2>9, <1>1, <1>2, <2>1 DEF NewestInv, LoopInv, Issued, Slots
      <3>5. (work \/ req["worker"] # None =>
               (mem.cert \in due /\ mem.cert = devices[mem.dev].cur => devices[mem.dev].prev = None))'
        BY Zenon, <2>9, <1>1, <1>2, <2>1 DEF NewestInv, HolderInv, HeldInv, Issued, Slots
      <3>6. QED BY Zenon, <2>9, <1>1, <1>2, <3>1, <3>2, <3>3, <3>4, <3>5 DEF NewestInv, Slots
    <2>10. QED BY <2>2, <2>3, <2>5, <2>7, <2>8, <2>9 DEF Kept
  <1>4. CASE UNCHANGED devices /\ ClearMayFail /\ faults' = faults + 1
    <2>1. faults' # 0 /\ faults' \in {faults, faults + 1} BY <1>4 DEF TypeInv
    <2>2. ToldRightly(req'[s]) BY <1>2 DEF ToldRightly
    <2>3. Inv' /\ (StatusInv => StatusInv') BY <1>1, <1>4, <2>1, <2>2, AnswerFrame
    <2>4. QED BY Zenon, <1>4, <2>3 DEF Kept, Orderly
  <1>5. QED BY Zenon, <1>3, <1>4 DEF ClearPrevCertSerial

\* The certificate is renewed, or the database fails.  The one on disk becomes the
\* superseded one, and nobody is about to clear that: a request of the worker that
\* were would hold the certificate that is due.
LEMMA RenewStep == ASSUME NoneApart, Inv, NEW s \in Slots, Renew(s) PROVE Kept
  <1> USE DEF Inv
  <1>1. /\ Carries(req[s]) /\ req[s] # None /\ req[s].kind = "renew" /\ req[s].at = "body"
        /\ "answered" \in Stages /\ "refused" \in Stages
        /\ UNCHANGED <<token, adm, due, disk, mem, loop, next, work>>
    BY Zenon DEF Renew, Carries, agent, Stages
  <1>2. Issued(req[s].id) BY Zenon, <1>1 DEF RequestInv, CarriesIssued
  <1>3. CASE /\ issued' = issued + 1 /\ devices' = UpdateDeviceCert(req[s].id, issued + 1)
             /\ Answer(s, "answered", [req[s].id EXCEPT !.cert = issued + 1]) /\ UNCHANGED faults
    <2> DEFINE id == req[s].id
               got == [dev |-> id.dev, cert |-> issued + 1]
    <2>1. /\ issued \in Nat /\ issued + 1 \in Nat /\ id \in Ids /\ id.dev \in DOMAIN devices
          /\ id.cert \in Nat /\ id.dev \in Nat
      BY <1>2 DEF Issued, Ids, TypeInv
    <2>2. [id EXCEPT !.cert = issued + 1] = got /\ got \in Ids BY <2>1 DEF Ids
    <2>3. /\ req' \in [Slots -> {None} \cup Requests]
          /\ \A t \in Slots : t # s => req'[t] = req[t]
          /\ req'[s] # None /\ req'[s].kind = "renew" /\ req'[s].id = id
          /\ req'[s].at = "answered" /\ req'[s].got = got
      BY <1>1, <1>3, <2>2, AnswerFacts
    <2>4. /\ DOMAIN devices' = DOMAIN devices
          /\ devices' \in [DOMAIN devices -> [status : Status, cur : Nat, prev : Nat \cup {None}]]
          /\ \A d \in DOMAIN devices :
               /\ devices'[d].status = devices[d].status
               /\ devices'[d].cur = IF d = id.dev THEN issued + 1 ELSE devices[d].cur
               /\ devices'[d].prev = IF d = id.dev THEN id.cert ELSE devices[d].prev
      BY <1>3, <2>1 DEF TypeInv, UpdateDeviceCert
    <2>5. \A c \in Nat : c <= issued => c <= issued' /\ c # issued + 1 BY <1>3, <2>1
    <2> HIDE DEF id, got
    <2>6. TypeInv' BY Zenon, <1>1, <1>3, <2>1, <2>3, <2>4 DEF TypeInv
    <2>7. TokenInv' BY <1>1, <1>3, <2>1, <2>4 DEF TokenInv
    <2>8. \A i : Issued(i) => Issued(i)' BY <2>4, <2>5 DEF Issued, Ids
    <2>9. got.dev = id.dev /\ got.cert = issued + 1 /\ \A g : g = got => Issued(g)'
      BY <1>3, <2>1, <2>2, <2>4 DEF Issued, got
    <2>10. s = "loop" => id = mem /\ id.cert <= issued /\ got.dev = mem.dev /\ got.cert > mem.cert
      BY <1>1, <1>2, <2>1, <2>9 DEF LoopInv, Issued, id
    <2>11. Answer(s, "answered", got) BY <1>3, <2>2 DEF id
    <2>12. HeldInv' /\ LoopInv' /\ HolderInv' /\ (\A t \in Slots : CarriesIssued(req[t]))'
      BY Zenon, <1>1, <2>2, <2>8, <2>9, <2>10, <2>11, ServerFrame
    <2>13. \A t \in Slots : OnlyNewest(req[t]) => OnlyNewest(req[t])'
      <3> SUFFICES ASSUME NEW t \in Slots, OnlyNewest(req[t]), Carries(req[t]) PROVE OnlyNewest(req[t])'
        BY Zenon, <1>1, <2>3 DEF OnlyNewest, Carries
      <3>1. Issued(req[t].id) BY Zenon DEF RequestInv, CarriesIssued
      <3>2. req[t].id.cert # issued + 1 /\ req[t].id.dev \in DOMAIN devices
        BY <2>5, <3>1 DEF Issued, Ids
      <3>3. req'[t].id = req[t].id BY Zenon, <2>3 DEF id
      <3>4. CASE t = s BY Zenon, <2>3, <2>4, <3>2, <3>3, <3>4 DEF OnlyNewest, id
      <3>5. CASE t # s BY <2>3, <2>4, <3>2, <3>3, <3>5 DEF OnlyNewest, Carries
      <3>6. QED BY <3>4, <3>5
    <2>14. RequestInv'
      <3>1. \A d \in DOMAIN devices' : devices'[d].cur <= issued'
        BY <1>3, <2>1, <2>4, <2>5 DEF RequestInv, TypeInv
      <3>2. QED BY Zenon, <1>3, <2>12, <2>13, <3>1 DEF RequestInv
    <2>15. ASSUME StatusInv PROVE StatusInv'
      <3>1. (\A t \in Slots : ToldRightly(req[t]))'
        BY <2>15, <2>3, <2>4, <2>12 DEF StatusInv, ToldRightly, CarriesIssued, Issued, RequestInv, Carries
      <3>2. QED BY Zenon, <2>15, <1>1, <2>4, <3>1 DEF StatusInv
    <2>16. ASSUME ClearInv, NewestInv PROVE ClearInv' /\ NewestInv'
      <3>1. /\ s = "loop" /\ loop = "renewing" /\ disk = mem /\ mem = id /\ mem.cert \in due
            /\ mem # None /\ issued + 1 \notin due
        <4>1. s = "loop" /\ mem # None
          BY Zenon, <2>16, <1>1, Ahead DEF HolderInv
        <4>2. loop = "renewing" /\ mem = id BY <1>1, <4>1 DEF LoopInv, id
        <4>3. disk = mem /\ mem.cert \in due BY Zenon, <2>16, <4>1, <4>2 DEF HolderInv, NewestInv
        <4>4. issued + 1 \notin due
          <5>1. issued + 1 \notin 0 .. issued BY <2>1
          <5>2. QED BY Zenon, <2>16, <5>1 DEF NewestInv
        <4>5. QED BY <4>1, <4>2, <4>3, <4>4
      <3>2. req["worker"] # None => /\ Carries(req["worker"]) /\ req["worker"].id.dev = id.dev
                                    /\ req["worker"].at # "clear"
        <4> SUFFICES ASSUME req["worker"] # None
                     PROVE  /\ Carries(req["worker"]) /\ req["worker"].id.dev = id.dev
                            /\ req["worker"].at # "clear"
          OBVIOUS
        <4>1. Carries(req["worker"]) BY Zenon DEF HolderInv, Carries
        <4>2. req["worker"].id.dev = id.dev BY Zenon, <3>1 DEF HolderInv
        <4>3. req["worker"].id.cert = devices[req["worker"].id.dev].cur => req["worker"].id.cert = mem.cert
          BY <2>16, <4>1, Ahead DEF Slots
        <4>4. QED BY Zenon, <2>16, <3>1, <4>1, <4>2, <4>3 DEF ClearInv, ClearsOlder, NewestInv, Slots
      <3>3. ClearInv'
        <4>1. (\A t \in Slots : ClearsOlder(req[t]))'
          BY <2>16, <2>3, <3>1, <3>2 DEF ClearsOlder, NewestInv, Carries, Slots
        <4>2. QED BY <2>16, <2>13, <4>1 DEF ClearInv
      <3>4. (disk # None => Known(disk) /\ disk.cert <= devices[disk.dev].cur)'
        BY <1>1, <2>1, <2>4, <2>10, <3>1 DEF Known
      <3>5. (req["loop"] # None /\ req["loop"].kind \in {"enroll", "renew"} /\ req["loop"].at = "answered" =>
               req["loop"].got.cert = devices[req["loop"].got.dev].cur /\ req["loop"].got.cert \notin due)'
        BY Zenon, <1>1, <2>1, <2>3, <2>4, <2>9, <3>1
      <3>6. mem.cert # devices'[mem.dev].cur BY <2>1, <2>4, <2>5, <2>10, <3>1
      <3>7. req'["worker"] = req["worker"] /\ req'["ghost"] = None
        BY Zenon, <2>16, <2>3, <3>1 DEF NewestInv, Slots
      <3>8. due' \subseteq 0 .. issued'
        <4>1. 0 .. issued \subseteq 0 .. (issued + 1) BY <2>1
        <4>2. QED BY Zenon, <2>16, <1>1, <1>3, <4>1 DEF NewestInv
      <3>9. QED BY Zenon, <2>16, <1>1, <3>1, <3>3, <3>4, <3>5, <3>6, <3>7, <3>8 DEF NewestInv
    <2>17. QED BY Zenon, <2>6, <2>7, <2>12, <2>14, <2>15, <2>16 DEF Kept
  <1>4. CASE faults' = faults + 1 /\ Answer(s, "refused", None) /\ UNCHANGED <<devices, issued>>
    <2>1. /\ \A t \in Slots : t # s => req'[t] = req[t]
          /\ req'[s] # None /\ req'[s].kind = req[s].kind /\ req'[s].at = "refused"
      BY Zenon, <1>1, <1>4, AnswerFacts
    <2>2. OnlyNewest(req'[s]) /\ ClearsOlder(req'[s]) /\ ToldRightly(req'[s])
      BY <2>1 DEF OnlyNewest, ClearsOlder, ToldRightly
    <2>3. Inv' /\ (StatusInv => StatusInv') /\ (ClearInv => ClearInv')
      BY Zenon, <1>1, <1>4, <2>2, AnswerFrame
    <2>4. ASSUME NewestInv PROVE NewestInv'
      BY Zenon, <2>4, <1>1, <1>4, <2>1 DEF NewestInv, Known, Slots
    <2>5. QED BY <2>3, <2>4 DEF Kept
  <1>5. QED BY Zenon, <1>3, <1>4 DEF Renew

\* The token is used for a new device, or refused.
LEMMA EnrollStep == ASSUME NoneApart, MaxUses \in Nat, Inv, NEW s \in Slots, Enroll(s) PROVE Kept
  <1> USE DEF Inv
  <1>1. /\ req[s] # None /\ req[s].kind = "enroll" /\ req[s].at = "sent"
        /\ "answered" \in Stages /\ "refused" \in Stages
        /\ UNCHANGED <<adm, due, disk, mem, loop, next, work, faults>>
    BY Zenon DEF Enroll, agent, budget, Stages
  <1>2. CASE CheckUsable
    <2> DEFINE c == issued + 1
               got == [dev |-> c, cert |-> c]
    <2>1. issued \in Nat /\ c \in Nat /\ got \in Ids /\ c \notin DOMAIN devices /\ c > issued
      BY DEF Ids, TypeInv, TokenInv
    <2>2. Answer(s, "answered", got) /\ issued' = c BY <1>2 DEF Enroll
    <2>3. /\ req' \in [Slots -> {None} \cup Requests]
          /\ \A t \in Slots : t # s => req'[t] = req[t]
          /\ req'[s] # None /\ req'[s].kind = "enroll" /\ req'[s].id = req[s].id
          /\ req'[s].at = "answered" /\ req'[s].got = got
      BY <1>1, <2>1, <2>2, AnswerFacts
    <2>4. /\ DOMAIN devices' = DOMAIN devices \cup {c}
          /\ \A d \in DOMAIN devices : devices'[d] = devices[d]
          /\ devices'[c] = [status |-> "active", cur |-> c, prev |-> None]
          /\ devices' \in [DOMAIN devices' -> [status : Status, cur : Nat, prev : Nat \cup {None}]]
      BY <1>2, <2>1 DEF Enroll, TypeInv, Status
    <2>5. /\ token' \in [uses : Nat, revoked : BOOLEAN] /\ token'.uses = token.uses + 1
          /\ token.uses \in Nat /\ token.uses < MaxUses
      BY <1>2 DEF Enroll, CheckUsable, TypeInv
    <2>6. got.dev = c /\ got.cert = c OBVIOUS
    <2>7. \A n \in Nat : n <= issued => n <= c BY <2>1
    <2> HIDE DEF c, got
    <2>8. TypeInv' BY Zenon, <1>1, <2>1, <2>2, <2>3, <2>4, <2>5 DEF TypeInv
    <2>9. TokenInv'
      <3>1. IsFiniteSet(DOMAIN devices') /\ Cardinality(DOMAIN devices') = token.uses + 1
        BY <2>1, <2>4, FS_AddElement DEF TokenInv
      <3>2. DOMAIN devices' \subseteq 1 .. issued'
        BY <2>1, <2>2, <2>4 DEF TokenInv
      <3>3. QED BY <2>5, <3>1, <3>2 DEF TokenInv
    <2>10. \A i : Issued(i) => Issued(i)' BY Zenon, <2>2, <2>4, <2>7 DEF Issued, Ids
    <2>11. \A g : g = got => Issued(g)' BY <2>1, <2>2, <2>4, <2>6 DEF Issued
    <2>12. HeldInv' /\ LoopInv' /\ HolderInv' /\ (\A t \in Slots : CarriesIssued(req[t]))'
      BY Zenon, <1>1, <2>1, <2>2, <2>10, <2>11, ServerFrame
    <2>13. \A t \in Slots : Carries(req'[t]) => /\ t # s /\ req'[t] = req[t] /\ req[t].id.dev \in DOMAIN devices
                                                /\ Carries(req[t])
      BY Zenon, <2>3 DEF Carries, RequestInv, CarriesIssued, Issued
    <2>14. RequestInv'
      <3>1. \A d \in DOMAIN devices' : devices'[d].cur <= issued'
        BY <2>1, <2>2, <2>4, <2>7 DEF RequestInv, TypeInv
      <3>2. faults' = 0 => \A t \in Slots : OnlyNewest(req[t])'
        BY <1>1, <2>4, <2>13 DEF RequestInv, OnlyNewest
      <3>3. QED BY Zenon, <2>12, <3>1, <3>2 DEF RequestInv
    <2>15. ASSUME StatusInv PROVE StatusInv'
      <3>1. (\A t \in Slots : ToldRightly(req[t]))'
        BY <2>15, <2>4, <2>13 DEF StatusInv, ToldRightly
      <3>2. QED BY Zenon, <2>15, <1>1, <2>4, <3>1 DEF StatusInv
    <2>16. ASSUME ClearInv, NewestInv PROVE ClearInv' /\ NewestInv'
      <3>1. ClearInv'
        BY <2>16, <2>4, <2>13 DEF ClearInv, OnlyNewest, ClearsOlder
      <3>2. (disk # None => Known(disk) /\ disk.cert <= devices[disk.dev].cur)'
        BY Zenon, <2>16, <1>1, <2>4 DEF NewestInv, HeldInv, Issued, Known
      <3>3. c \notin due /\ s # "ghost"
        <4>1. c \notin 0 .. issued BY <2>1
        <4>2. QED BY Zenon, <2>16, <1>1, <4>1 DEF NewestInv
      <3>4. mem = None BY Zenon, <1>1, <3>3 DEF LoopInv, HolderInv, Slots
      <3>5. s = "loop" /\ loop = "enrolling" BY Zenon, <1>1, <3>3 DEF LoopInv, HolderInv, Slots
      <3>6. (req["loop"] # None /\ req["loop"].kind \in {"enroll", "renew"} /\ req["loop"].at = "answered" =>
               req["loop"].got.cert = devices[req["loop"].got.dev].cur /\ req["loop"].got.cert \notin due)'
        BY <1>1, <2>3, <2>4, <2>6, <3>3, <3>5
      <3>7. due' \subseteq 0 .. issued'
        <4>1. 0 .. issued \subseteq 0 .. c BY <2>1, <2>7
        <4>2. QED BY Zenon, <2>16, <1>1, <2>2, <4>1 DEF NewestInv
      <3>8. req'["worker"] = req["worker"] /\ req'["ghost"] = None
        BY Zenon, <2>16, <2>3, <3>5 DEF NewestInv, Slots
      <3>9. ~(work \/ req["worker"] # None) BY Zenon, <3>4 DEF HolderInv
      <3>10. QED BY <1>1, <3>1, <3>2, <3>5, <3>6, <3>7, <3>8, <3>9 DEF NewestInv
    <2>17. QED BY Zenon, <2>8, <2>9, <2>12, <2>14, <2>15, <2>16 DEF Kept
  <1>3. CASE ~CheckUsable
    <2>1. Answer(s, "refused", None) /\ UNCHANGED <<token, devices, issued>>
      BY Zenon, <1>3 DEF Enroll, server
    <2>2. /\ \A t \in Slots : t # s => req'[t] = req[t]
          /\ req'[s] # None /\ req'[s].kind = req[s].kind /\ req'[s].at = "refused"
      BY Zenon, <1>1, <2>1, AnswerFacts
    <2>3. OnlyNewest(req'[s]) /\ ClearsOlder(req'[s]) /\ ToldRightly(req'[s])
      BY Zenon, <2>2 DEF OnlyNewest, ClearsOlder, ToldRightly
    <2>4. Inv' /\ (StatusInv => StatusInv') /\ (ClearInv => ClearInv')
      BY Zenon, <1>1, <2>1, <2>3, AnswerFrame
    <2>5. ASSUME NewestInv PROVE NewestInv'
      BY Zenon, <2>5, <1>1, <2>1, <2>2 DEF NewestInv, Known, Slots
    <2>6. QED BY <2>4, <2>5 DEF Kept
  <1>4. QED BY Zenon, <1>2, <1>3

\* The token is revoked, or nothing happens.
LEMMA TokenOnlyStep ==
    ASSUME Inv, token' \in [uses : Nat, revoked : BOOLEAN], token'.uses = token.uses,
           UNCHANGED <<devices, issued, adm, due, disk, mem, loop, next, work, req, faults>>
    PROVE  Kept
  <1> USE DEF Inv
  <1>1. TypeInv' BY Zenon DEF TypeInv
  <1>2. TokenInv' BY DEF TokenInv
  <1>3. HeldInv' BY Zenon DEF HeldInv, Issued
  <1>4. RequestInv' BY Zenon DEF RequestInv, CarriesIssued, Issued, Carries, OnlyNewest
  <1>5. LoopInv' BY Zenon DEF LoopInv, Issued, Carries
  <1>6. HolderInv' BY Zenon DEF HolderInv
  <1>7. StatusInv => StatusInv' BY Zenon DEF StatusInv, ToldRightly, Carries
  <1>8. ClearInv => ClearInv' BY Zenon DEF ClearInv, OnlyNewest, ClearsOlder, Carries
  <1>9. NewestInv => NewestInv' BY Zenon DEF NewestInv, Known
  <1>10. QED BY <1>1, <1>2, <1>3, <1>4, <1>5, <1>6, <1>7, <1>8, <1>9 DEF Kept

\* An administrator's transaction reads the status.
LEMMA TransitionReadStep ==
    ASSUME NoneApart, Inv, NEW a \in Admins, NEW d \in DOMAIN devices, NEW to \in Status,
           TransitionRead(a, d, to)
    PROVE  Kept
  <1> USE DEF Inv
  <1>1. d \in Nat BY DEF TokenInv, TypeInv
  <1>2. /\ adm' \in [Admins -> {None} \cup Changes]
        /\ adm'[a].dev = d /\ adm'[a].to = to /\ \A b \in Admins : b # a => adm'[b] = adm[b]
    BY <1>1 DEF TransitionRead, TypeInv, Changes
  <1>3. /\ to \in {"retired", "unenrolled"} /\ devices[d].status \in From(to)
        /\ UNCHANGED <<token, devices, issued, due, disk, mem, loop, next, work, req, faults>>
    BY Zenon DEF TransitionRead, server, agent, budget
  <1>4. TypeInv' BY <1>2, <1>3 DEF TypeInv
  <1>5. TokenInv' BY Zenon, <1>3 DEF TokenInv
  <1>6. HeldInv' BY Zenon, <1>3 DEF HeldInv, Issued
  <1>7. RequestInv' BY Zenon, <1>3 DEF RequestInv, CarriesIssued, Issued, Carries, OnlyNewest
  <1>8. LoopInv' BY Zenon, <1>3 DEF LoopInv, Issued, Carries
  <1>9. HolderInv' BY Zenon, <1>3 DEF HolderInv
  <1>10. StatusInv => StatusInv' BY Zenon, <1>2, <1>3 DEF StatusInv, ToldRightly, Carries
  <1>11. ClearInv => ClearInv' BY Zenon, <1>3 DEF ClearInv, OnlyNewest, ClearsOlder, Carries
  <1>12. NewestInv => NewestInv' BY Zenon, <1>3 DEF NewestInv, Known
  <1>13. QED BY <1>4, <1>5, <1>6, <1>7, <1>8, <1>9, <1>10, <1>11, <1>12 DEF Kept

\* It writes another; no other transaction has read the old one.
LEMMA SetDeviceStatusStep ==
    ASSUME NoneApart, Inv, NEW a \in Admins, SetDeviceStatus(a)
    PROVE  Kept
  <1> USE DEF Inv
  <1>1. /\ adm[a] # None /\ devices' = [devices EXCEPT ![adm[a].dev].status = adm[a].to]
        /\ adm' = [adm EXCEPT ![a] = None]
        /\ UNCHANGED <<token, issued, due, disk, mem, loop, next, work, req, faults>>
    BY Zenon DEF SetDeviceStatus, agent, budget
  <1>2. adm[a] \in Changes /\ adm' \in [Admins -> {None} \cup Changes] /\ adm'[a] = None
    BY <1>1 DEF TypeInv
  <1>3. adm[a].to \in Status BY Zenon, <1>2 DEF Changes
  <1>4. /\ DOMAIN devices' = DOMAIN devices
        /\ devices' \in [DOMAIN devices -> [status : Status, cur : Nat, prev : Nat \cup {None}]]
        /\ \A d \in DOMAIN devices :
             /\ devices'[d].cur = devices[d].cur /\ devices'[d].prev = devices[d].prev
             /\ devices'[d].status = IF d = adm[a].dev THEN adm[a].to ELSE devices[d].status
    BY Zenon, <1>1, <1>3 DEF TypeInv
  <1>5. TypeInv' BY Zenon, <1>1, <1>2, <1>4 DEF TypeInv
  <1>6. TokenInv' BY Zenon, <1>1, <1>4 DEF TokenInv
  <1>7. \A id : Issued(id)' <=> Issued(id) BY Zenon, <1>1, <1>4 DEF Issued
  <1>8. HeldInv' BY Zenon, <1>1, <1>7 DEF HeldInv
  <1>9. \A s \in Slots : Carries(req[s]) => req[s].id.dev \in DOMAIN devices
    BY Zenon DEF RequestInv, CarriesIssued, Issued
  <1>10. \A s \in Slots : OnlyNewest(req[s])' <=> OnlyNewest(req[s])
    BY Zenon, <1>1, <1>4, <1>9 DEF OnlyNewest, Carries
  <1>11. RequestInv' BY <1>1, <1>4, <1>7, <1>10 DEF RequestInv, CarriesIssued, Carries
  <1>12. LoopInv' BY Zenon, <1>1, <1>7 DEF LoopInv, Carries
  <1>13. HolderInv' BY Zenon, <1>1 DEF HolderInv
  <1>14. OneAdmin /\ StatusInv => StatusInv'
    <2> SUFFICES ASSUME OneAdmin, StatusInv PROVE StatusInv'
      OBVIOUS
    <2>1. \A b \in Admins : adm'[b] = None BY Zenon, <1>2 DEF OneAdmin
    <2>2. devices[adm[a].dev].status = "unenrolled" => FALSE
      BY Zenon, <1>1 DEF StatusInv, From
    <2>3. (\A s \in Slots : ToldRightly(req[s]))'
      BY <1>1, <1>4, <1>9, <2>2 DEF StatusInv, ToldRightly, Carries
    <2>4. QED BY Zenon, <2>1, <2>3 DEF StatusInv
  <1>15. ClearInv => ClearInv'
    BY Zenon, <1>1, <1>4, <1>9, <1>10 DEF ClearInv, ClearsOlder, Carries
  <1>16. NewestInv => NewestInv'
    <2> SUFFICES ASSUME NewestInv PROVE NewestInv'
      OBVIOUS
    <2>1. (disk # None => Known(disk) /\ disk.cert <= devices[disk.dev].cur)'
      BY Zenon, <1>1, <1>4 DEF NewestInv, HeldInv, Issued, Known
    <2>2. (loop \in {"save", "switch", "save first"} =>
             next.cert = devices[next.dev].cur /\ next.cert \notin due)'
      BY Zenon, <1>1, <1>4 DEF NewestInv, HeldInv, Issued
    <2>3. (req["loop"] # None /\ req["loop"].kind \in {"enroll", "renew"} /\ req["loop"].at = "answered" =>
             req["loop"].got.cert = devices[req["loop"].got.dev].cur /\ req["loop"].got.cert \notin due)'
      BY Zenon, <1>1, <1>4 DEF NewestInv, LoopInv, Issued
    <2>4. (work \/ req["worker"] # None =>
             (mem.cert \in due /\ mem.cert = devices[mem.dev].cur => devices[mem.dev].prev = None))'
      BY Zenon, <1>1, <1>4 DEF NewestInv, HolderInv, HeldInv, Issued
    <2>5. QED BY Zenon, <1>1, <2>1, <2>2, <2>3, <2>4 DEF NewestInv
  <1>17. QED BY <1>5, <1>6, <1>8, <1>11, <1>12, <1>13, <1>14, <1>15, <1>16 DEF Kept

-------------------------------------------------------------------------------
(***************************************************************************)
(* The theorems.                                                           *)
(***************************************************************************)
\* Every step keeps the invariants.
LEMMA NextStep == ASSUME NoneApart, MaxUses \in Nat, Inv, [Next]_vars PROVE Kept
  <1>1. CASE UNCHANGED vars BY Zenon, <1>1, TokenOnlyStep DEF vars, Inv, TypeInv
  <1>2. CASE RevokeToken
    <2>1. /\ token' \in [uses : Nat, revoked : BOOLEAN] /\ token'.uses = token.uses
          /\ UNCHANGED <<devices, issued, adm, due, disk, mem, loop, next, work, req, faults>>
      BY Zenon, <1>2 DEF RevokeToken, Inv, TypeInv, agent, budget
    <2>2. QED BY Zenon, <2>1, TokenOnlyStep
  <1>3. ASSUME NEW s \in Slots, ServerStep(s) PROVE Kept
    BY <1>3, EnrollStep, RequireDeviceStep, ClearPrevCertSerialStep, RenewStep, ServeStep DEF ServerStep
  <1>4. CASE LoopStep
    BY <1>4, StartStep, EnrollAnsweredStep, SaveFirstStep, ClearTokenStep, MaybeRenewStep,
       RenewAnsweredStep, RenewRefusedStep, SaveRenewedStep, SwitchStep, CheckinAnsweredStep, WipeStep
       DEF LoopStep
  <1>5. CASE AdminStep BY Zenon, <1>5, TransitionReadStep, SetDeviceStatusStep DEF AdminStep
  <1>6. QED
    BY Zenon, <1>1, <1>2, <1>3, <1>4, <1>5, VanishStep, WorkerSendStep, WorkerAnsweredStep, GiveUpStep,
       CrashStep, AgesStep DEF Next

\* The initial state satisfies the invariants.
LEMMA InitInv == ASSUME NoneApart, MaxUses \in Nat, Init PROVE Inv /\ StatusInv /\ ClearInv /\ NewestInv
  <1> USE DEF Init
  <1>1. DOMAIN devices = {} OBVIOUS
  <1>2. TypeInv
    <2>1. devices \in [DOMAIN devices -> [status : Status, cur : Nat, prev : Nat \cup {None}]] BY <1>1
    <2>2. QED BY <2>1 DEF TypeInv, Loops
  <1>3. TokenInv BY <1>1, FS_EmptySet DEF TokenInv
  <1>4. HeldInv BY DEF HeldInv
  <1>5. \A s \in Slots : req[s] = None OBVIOUS
  <1>6. RequestInv BY <1>1, <1>5 DEF RequestInv, CarriesIssued, Carries, OnlyNewest
  <1>7. LoopInv BY Zenon, <1>5 DEF LoopInv, Carries, Slots
  <1>8. HolderInv BY <1>5 DEF HolderInv, Slots
  <1>9. StatusInv BY <1>5 DEF StatusInv, ToldRightly, Carries
  <1>10. ClearInv BY Zenon, <1>5 DEF ClearInv, OnlyNewest, ClearsOlder, Carries
  <1>11. NewestInv BY Zenon, <1>5 DEF NewestInv, Slots
  <1>12. QED BY <1>2, <1>3, <1>4, <1>6, <1>7, <1>8, <1>9, <1>10, <1>11 DEF Inv

\* The invariant holds in every reachable state, whatever is lost, fails, crashes or
\* goes on behind the client's back.
THEOREM Invariance == ASSUME NoneApart, MaxUses \in Nat PROVE Spec => []Inv
  <1>1. Init => Inv BY InitInv
  <1>2. Inv /\ [Next]_vars => Inv' BY NextStep DEF Kept
  <1>3. QED BY <1>1, <1>2, PTL DEF Spec

\* No more devices come of an enrolment token than it has uses (enroll.Enroll under
\* the token's row lock), however many answers are lost and retried.
THEOREM TokenIsBounded == ASSUME NoneApart, MaxUses \in Nat PROVE Spec => []TokenBudget
  <1>1. Inv => TokenBudget BY DEF Inv, TokenInv, TokenBudget, TypeInv
  <1>2. QED BY <1>1, Invariance, PTL

\* Once a request with the newest certificate was answered, requireDevice accepts no
\* older one, unless clearing it failed.
THEOREM SupersededIsDead == ASSUME NoneApart, MaxUses \in Nat PROVE Spec => []SupersededDies
  <1>1. Inv => SupersededDies BY DEF Inv, RequestInv, OnlyNewest, Carries, SupersededDies
  <1>2. QED BY <1>1, Invariance, PTL

\* With one administrator at a time, the status a transaction of devices.transition
\* read is still there when it writes, and an agent told "unenrolled" is.
THEOREM StatusInvariance ==
    ASSUME NoneApart, MaxUses \in Nat, OneAdmin PROVE Spec => [](Inv /\ StatusInv)
  <1>1. Init => Inv /\ StatusInv BY InitInv
  <1>2. Inv /\ StatusInv /\ [Next]_vars => (Inv /\ StatusInv)' BY NextStep DEF Kept
  <1>3. QED BY <1>1, <1>2, PTL DEF Spec

\* A device never leaves "unenrolled" and never becomes active again: no renewal, no
\* enrolment and no transition that was under way brings it back.
THEOREM ForwardOnly ==
    ASSUME NoneApart, MaxUses \in Nat, OneAdmin PROVE Spec => StatusOnlyForward
  <1>1. Inv /\ StatusInv /\ [Next]_vars => [StatusOnlyForwardStep]_vars
    <2> SUFFICES ASSUME Inv, StatusInv, Next PROVE StatusOnlyForwardStep
      BY Zenon DEF StatusOnlyForwardStep, vars
    <2> USE DEF Inv
    <2>1. ASSUME UNCHANGED devices PROVE StatusOnlyForwardStep
      BY <2>1 DEF StatusOnlyForwardStep
    <2>2. ASSUME NEW s \in Slots, Enroll(s) PROVE StatusOnlyForwardStep
      <3>1. CASE UNCHANGED devices BY Zenon, <2>1, <3>1
      <3>2. CASE CheckUsable
        <4>1. issued + 1 \notin DOMAIN devices BY DEF TokenInv, TypeInv
        <4>2. \A d \in DOMAIN devices : devices'[d] = devices[d] BY <2>2, <3>2, <4>1 DEF Enroll
        <4>3. QED BY <4>2 DEF StatusOnlyForwardStep
      <3>3. QED BY Zenon, <2>2, <3>1, <3>2 DEF Enroll, server
    <2>3. ASSUME NEW s \in Slots, ClearPrevCertSerial(s) PROVE StatusOnlyForwardStep
      <3>1. \A d \in DOMAIN devices : devices'[d].status = devices[d].status
        BY <2>3 DEF ClearPrevCertSerial, TypeInv
      <3>2. QED BY <3>1 DEF StatusOnlyForwardStep
    <2>4. ASSUME NEW s \in Slots, Renew(s) PROVE StatusOnlyForwardStep
      <3>1. \A d \in DOMAIN devices : devices'[d].status = devices[d].status
        BY <2>4 DEF Renew, UpdateDeviceCert, TypeInv
      <3>2. QED BY Zenon, <3>1 DEF StatusOnlyForwardStep
    <2>5. ASSUME NEW a \in Admins, SetDeviceStatus(a) PROVE StatusOnlyForwardStep
      <3>1. \A d \in DOMAIN devices :
              devices'[d].status = IF d = adm[a].dev THEN adm[a].to ELSE devices[d].status
        BY Zenon, <2>5 DEF SetDeviceStatus, TypeInv
      <3>2. QED BY <2>5, <3>1 DEF SetDeviceStatus, StatusInv, From, StatusOnlyForwardStep
    <2>6. ASSUME NEW s \in Slots, ServerStep(s) PROVE StatusOnlyForwardStep
      BY Zenon, <2>1, <2>2, <2>3, <2>4, <2>6 DEF ServerStep, RequireDevice, Serve, server
    <2>7. CASE LoopStep
      BY Zenon, <2>1, <2>7 DEF LoopStep, Start, EnrollAnswered, SaveFirst, ClearToken, MaybeRenew,
         RenewAnswered, RenewRefused, SaveRenewed, Switch, CheckinAnswered, Wipe, server
    <2>8. CASE AdminStep BY Zenon, <2>1, <2>5, <2>8 DEF AdminStep, TransitionRead, server
    <2>9. QED
      BY Zenon, <2>1, <2>6, <2>7, <2>8 DEF Next, Vanish, WorkerSend, WorkerAnswered, RevokeToken, GiveUp,
         Crash, Ages, server
  <1>2. QED BY <1>1, StatusInvariance, PTL DEF Spec, StatusOnlyForward

\* The agent deletes its identity only when its device is unenrolled: never because
\* it is retired, and never because its certificate was refused.
THEOREM WipesOnlyWhenUnenrolled ==
    ASSUME NoneApart, MaxUses \in Nat, OneAdmin PROVE Spec => WipedWhenUnenrolled
  <1>1. Inv /\ StatusInv /\ [Next]_vars => [WipedWhenUnenrolledStep]_vars
    <2> SUFFICES ASSUME Inv, StatusInv, Next PROVE WipedWhenUnenrolledStep
      BY DEF WipedWhenUnenrolledStep, vars
    <2>1. ASSUME UNCHANGED disk PROVE WipedWhenUnenrolledStep
      BY <2>1 DEF WipedWhenUnenrolledStep
    <2>2. CASE Wipe
      <3>1. req["loop"] # None /\ req["loop"].at = "gone" /\ loop = "checking"
        BY <2>2 DEF Wipe, WipeOn, Receive
      <3>2. Carries(req["loop"]) /\ req["loop"].id = mem BY <3>1 DEF Inv, LoopInv, Carries
      <3>3. disk = mem BY Zenon, <3>1 DEF Inv, HolderInv
      <3>4. QED BY <3>1, <3>2, <3>3 DEF StatusInv, ToldRightly, WipedWhenUnenrolledStep, Slots
    <2>3. CASE SaveFirst \/ SaveRenewed
      <3>1. loop \in {"save first", "save"} /\ disk' \in {disk, next}
        BY Zenon, <2>3 DEF SaveFirst, SaveRenewed
      <3>2. next # None BY Zenon, <3>1 DEF Inv, HeldInv, Issued, NoneApart
      <3>3. QED BY Zenon, <3>1, <3>2 DEF WipedWhenUnenrolledStep
    <2>4. CASE LoopStep
      BY Zenon, <2>1, <2>2, <2>3, <2>4 DEF LoopStep, Start, EnrollAnswered, ClearToken, MaybeRenew,
         RenewAnswered, RenewRefused, Switch, CheckinAnswered
    <2>5. ASSUME NEW s \in Slots, ServerStep(s) PROVE WipedWhenUnenrolledStep
      BY Zenon, <2>1, <2>5 DEF ServerStep, Enroll, RequireDevice, ClearPrevCertSerial, Renew, Serve, agent
    <2>6. CASE AdminStep BY Zenon, <2>1, <2>6 DEF AdminStep, TransitionRead, SetDeviceStatus, agent
    <2>7. QED
      BY Zenon, <2>1, <2>4, <2>5, <2>6 DEF Next, Vanish, WorkerSend, WorkerAnswered, RevokeToken, GiveUp,
         Crash, Ages, agent
  <1>2. QED BY <1>1, StatusInvariance, PTL DEF Spec, WipedWhenUnenrolled

\* When every handler ends with its client and the superseded serial can be cleared,
\* the certificate on disk is one requireDevice accepts in every state the agent may
\* crash in: the promise of enroll.Renew.
THEOREM NeverLockedOut ==
    ASSUME NoneApart, MaxUses \in Nat, Orderly PROVE Spec => []NotLockedOut
  <1>1. Init => Inv /\ ClearInv /\ NewestInv BY InitInv
  <1>2. Inv /\ ClearInv /\ NewestInv /\ [Next]_vars => (Inv /\ ClearInv /\ NewestInv)'
    BY NextStep DEF Kept
  <1>3. NewestInv => NotLockedOut BY DEF NewestInv, NotLockedOut
  <1>4. QED BY <1>1, <1>2, <1>3, PTL DEF Spec

===============================================================================
