--------------------------- MODULE ApprovalsProofs ----------------------------
(***************************************************************************)
(* The theorems about Approvals, for any number of administrators,         *)
(* devices, groups and approvals, any threshold, and handlers that are cut *)
(* off anywhere: an approved request is carried out at most once and by a  *)
(* second person, and what more devices run than one person may reach      *)
(* alone does not stand by one person's word.                              *)
(*                                                                         *)
(* CarriedOutOnce needs to know who is carrying an approval out: the row   *)
(* names them, so that there is one of them at most, and it has not been   *)
(* carried out until they do it (ReplayInv).  TwoPeople is inductive given *)
(* the types, among them that only a static group gains a member.          *)
(***************************************************************************)
EXTENDS Approvals, FiniteSetTheorems, TLAPS

Statuses == {"pending", "expired", "approved", "rejected", "failed"}

\* Requests as they are asked for, or what is left of a run of commands; a version
\* that is held goes by its number.
Commands == [kind : {"command"}, type : {"run_powershell", "wipe"}, ds : SUBSET Devices]
Asked == Ops \cup Commands
Numbered == [kind : {"version"}, version : Nat]
Requests == Asked \cup Numbered

Rows ==
    [op : Requests, requester : Admins, status : Statuses, overdue : BOOLEAN,
     by : Admins \cup {None}, result : {None, "recorded"}]

Facts ==
    {<<"version">>} \cup {<<"include", g>> : g \in Groups} \cup {<<"rule", g>> : g \in Groups}
        \cup {<<"member", g, d>> : g \in Static, d \in Devices}

Asking    == [pc : {"hold", "act"}, op : Asked] \cup [pc : {"stored"}, op : Numbered]
Carrying  == [pc : {"replay"}, id : Ids, saw : SUBSET Facts]
Recording == [pc : {"result"}, id : Ids, status : {"approved", "failed"}]
Calls == {Idle} \cup Asking \cup Carrying \cup Recording

Items == [current : Nat, versions : Seq([content : Contents, by : Admins])]

TypeInv ==
    /\ item \in Items \cup {None}
    /\ groups \subseteq Groups
    /\ members \in [Static -> SUBSET Devices]
    /\ approvals \in [Ids -> Rows \cup {None}]
    /\ call \in [Admins -> Calls]
    /\ runs \in [Ids -> Nat]
    /\ lone \subseteq Facts

\* None is not a row of the table.
NoneApart == None \notin Rows

\* Whoever carries an approval out is the one it names, and not its requester; it
\* stays approved meanwhile, and was not carried out before.
ReplayInv ==
    \A p \in Admins : call[p].pc \in {"replay", "result"} =>
        LET row == approvals[call[p].id] IN
        /\ row \in Rows
        /\ row.status = "approved" /\ row.by = p /\ row.requester # p
        /\ call[p].pc = "replay" => runs[call[p].id] = 0

\* An approval that was carried out is a row.
RanInv == \A a \in Ids : runs[a] > 0 => approvals[a] \in Rows

OnceInv == TypeInv /\ ReplayInv /\ RanInv /\ CarriedOutOnce

-------------------------------------------------------------------------------
(* Types. *)

\* What a request carries, by its kind.
LEMMA RequestFacts ==
    ASSUME NEW op \in Requests
    PROVE  /\ op.kind = "assignment" => op.g \in Groups
           /\ op.kind = "group_member" => op.g \in Static /\ op.d \in Devices
           /\ op.kind = "group_rule" => op.g \in Dynamic
           /\ op.kind = "command" => op \in Commands
           /\ op.kind = "version" /\ op \in Asked => op.content \in Contents
<1>0. CASE op \in Numbered
  <2>1. op.kind = "version"
    BY <1>0 DEF Numbered
  <2>2. op \in Asked => op.content \in Contents
    <3>1. op \in Asked /\ op.kind = "version" => op \in [kind : {"version"}, content : Contents]
      BY DEF Asked, Ops, Commands
    <3> QED BY <2>1, <3>1
  <2> QED BY <2>1, <2>2
<1>1. CASE op \in [kind : {"version"}, content : Contents]
  BY <1>1
<1>2. CASE op \in [kind : {"assignment"}, g : Groups, mode : Modes]
  BY <1>2
<1>3. CASE op \in [kind : {"group_member"}, g : Static, d : Devices]
  BY <1>3
<1>4. CASE op \in [kind : {"group_rule"}, g : Dynamic, changed : BOOLEAN]
  BY <1>4
<1>5. CASE op \in [kind : {"command"}, type : {"run_powershell"}, ds : SUBSET Devices \ {{}}]
  BY <1>5 DEF Commands
<1>6. CASE op \in [kind : {"command"}, type : {"wipe"}, ds : {{d} : d \in Devices}]
  BY <1>6 DEF Commands
<1>7. CASE op \in Commands
  BY <1>7 DEF Commands
<1> QED BY Zenon, <1>0, <1>1, <1>2, <1>3, <1>4, <1>5, <1>6, <1>7 DEF Requests, Asked, Ops

\* What a call in flight carries, by how far it has come.
LEMMA CallFacts ==
    ASSUME TypeInv, NEW p \in Admins
    PROVE  /\ call[p].pc \in {"hold", "act"} => call[p] \in Asking /\ call[p].op \in Asked
           /\ call[p].pc = "stored" => call[p] \in Asking /\ call[p].op \in Numbered
           /\ call[p].pc = "replay" => call[p] \in Carrying /\ call[p].id \in Ids
           /\ call[p].pc = "result" => call[p] \in Recording /\ call[p].id \in Ids
<1>1. call[p] \in Calls
  BY Zenon DEF TypeInv
<1> QED BY <1>1 DEF Calls, Idle, Asking, Carrying, Recording

\* A call that ends or goes on leaves the others alone.
LEMMA CallMoves ==
    ASSUME TypeInv, NEW p \in Admins,
           NEW c \in Calls,
           call' = [call EXCEPT ![p] = c]
    PROVE  /\ call' \in [Admins -> Calls]
           /\ \A q \in Admins : call'[q] = IF q = p THEN c ELSE call[q]
BY Zenon DEF TypeInv
-------------------------------------------------------------------------------
(* The steps that carry nothing out and decide nothing. *)

Quiet ==
    /\ UNCHANGED <<approvals, runs>>
    /\ \A q \in Admins : call'[q] = call[q] \/ call'[q].pc \notin {"replay", "result"}

LEMMA OnceFrame ==
    ASSUME OnceInv, TypeInv', Quiet
    PROVE  OnceInv'
<1>1. ReplayInv'
  BY Zenon DEF OnceInv, ReplayInv, Quiet
<1>2. RanInv' /\ CarriedOutOnce'
  BY DEF OnceInv, RanInv, CarriedOutOnce, Quiet
<1> QED BY <1>1, <1>2 DEF OnceInv

\* A call that ends, or that asks, carries nothing out.
LEMMA QuietCall ==
    ASSUME TypeInv, NEW p \in Admins, NEW c \in {Idle} \cup Asking,
           call' = [call EXCEPT ![p] = c], UNCHANGED <<approvals, runs>>
    PROVE  Quiet /\ call' \in [Admins -> Calls]
<1>1. c.pc \notin {"replay", "result"}
  BY DEF Idle, Asking
<1>2. c \in Calls
  BY DEF Calls
<1>3. /\ call' \in [Admins -> Calls]
      /\ \A q \in Admins : call'[q] = IF q = p THEN c ELSE call[q]
  BY Zenon, <1>2, CallMoves
<1> QED BY Zenon, <1>1, <1>3 DEF Quiet

LEMMA AnswerCall ==
    ASSUME TypeInv, NEW p \in Admins, Answer(p), UNCHANGED <<approvals, runs>>
    PROVE  Quiet /\ call' \in [Admins -> Calls]
BY Zenon, QuietCall DEF Answer

LEMMA AskStep ==
    ASSUME TypeInv, NEW p \in Admins, NEW op \in Ops, Ask(p, op)
    PROVE  TypeInv' /\ Quiet
<1>1. Checked(p, op)
  BY Zenon DEF Ask, AskVersion, AskAssignment, AskMember, AskRule, AskCommand
<1>2. PICK pc \in {"hold", "act"} : call' = [call EXCEPT ![p] = [pc |-> pc, op |-> op]]
  BY Zenon, <1>1 DEF Checked
<1>3. [pc |-> pc, op |-> op] \in Asking
  BY DEF Asking, Asked
<1>4. UNCHANGED <<data, approvals, runs, lone>>
  BY <1>1 DEF Checked
<1>5. Quiet /\ call' \in [Admins -> Calls]
  BY Zenon, <1>2, <1>3, <1>4, QuietCall
<1> QED BY <1>4, <1>5 DEF TypeInv, data

LEMMA StoredType ==
    ASSUME TypeInv, item # None, NEW p \in Admins, NEW content \in Contents, NEW hold \in BOOLEAN
    PROVE  Stored(p, content, hold) \in Items /\ Latest + 1 \in Nat
<1>1. item \in Items
  BY DEF TypeInv
<1> QED BY <1>1 DEF Items, Stored, Latest

LEMMA UpdateHeldStep ==
    ASSUME TypeInv, NEW p \in Admins, UpdateHeld(p)
    PROVE  TypeInv' /\ Quiet
<1>1. call[p].pc = "hold" /\ call[p].op.kind = "version"
  BY DEF UpdateHeld
<1>2. call[p].op.content \in Contents
  BY <1>1, CallFacts, RequestFacts DEF Requests
<1>3. UNCHANGED <<groups, members, approvals, runs, lone>>
  BY DEF UpdateHeld
<1>4. CASE item # None /\ IsNew(call[p].op.content)
  <2>1. /\ item' = Stored(p, call[p].op.content, TRUE)
        /\ call' = [call EXCEPT ![p] =
              [pc |-> "stored", op |-> [kind |-> "version", version |-> Latest + 1]]]
    BY Zenon, <1>4 DEF UpdateHeld
  <2>2. item' \in Items /\ Latest + 1 \in Nat
    BY Zenon, <1>2, <1>4, <2>1, StoredType
  <2>3. [pc |-> "stored", op |-> [kind |-> "version", version |-> Latest + 1]] \in Asking
    BY <2>2 DEF Asking, Numbered
  <2>4. Quiet /\ call' \in [Admins -> Calls]
    BY Zenon, <1>3, <2>1, <2>3, QuietCall
  <2> QED BY <1>3, <2>2, <2>4 DEF TypeInv
<1>5. CASE ~(item # None /\ IsNew(call[p].op.content))
  <2>1. UNCHANGED item /\ Answer(p)
    BY Zenon, <1>5 DEF UpdateHeld
  <2> QED BY <1>3, <2>1, AnswerCall DEF TypeInv
<1> QED BY <1>4, <1>5

LEMMA UpdateStep ==
    ASSUME TypeInv, NEW p \in Admins, Update(p)
    PROVE  TypeInv' /\ Quiet
<1>1. call[p].pc = "act" /\ call[p].op.kind = "version"
  BY DEF Update, Acting
<1>2. call[p].op.content \in Contents
  BY <1>1, CallFacts, RequestFacts DEF Requests
<1>3. UNCHANGED <<groups, members, approvals, runs>> /\ Answer(p)
  BY DEF Update
<1>4. item' \in Items \cup {None} /\ lone' \subseteq Facts
  <2>1. CASE item # None /\ IsNew(call[p].op.content)
    <3>1. item' = Stored(p, call[p].op.content, FALSE) /\ lone' = lone \cup {<<"version">>}
      BY Zenon, <2>1 DEF Update
    <3>2. item' \in Items
      BY Zenon, <1>2, <2>1, <3>1, StoredType
    <3>3. <<"version">> \in Facts
      BY DEF Facts
    <3> QED BY Zenon, <3>1, <3>2, <3>3 DEF TypeInv
  <2>2. CASE ~(item # None /\ IsNew(call[p].op.content))
    BY Zenon, <2>2 DEF Update, TypeInv
  <2> QED BY <2>1, <2>2
<1> QED BY <1>3, <1>4, AnswerCall DEF TypeInv

LEMMA CreateAssignmentStep ==
    ASSUME TypeInv, NEW p \in Admins, CreateAssignment(p)
    PROVE  TypeInv' /\ Quiet
<1>1. call[p].pc = "act" /\ call[p].op.kind = "assignment"
  BY DEF CreateAssignment, Acting
<1>2. call[p].op.g \in Groups
  BY <1>1, CallFacts, RequestFacts DEF Requests
<1>3. UNCHANGED <<item, groups, members, approvals, runs>> /\ Answer(p)
  BY DEF CreateAssignment
<1>4. lone' = lone \/ lone' = lone \cup {<<"include", call[p].op.g>>}
  BY DEF CreateAssignment
<1>5. lone' \subseteq Facts
  BY <1>2, <1>4 DEF TypeInv, Facts
<1> QED BY <1>3, <1>5, AnswerCall DEF TypeInv

LEMMA AddMemberStep ==
    ASSUME TypeInv, NEW p \in Admins, AddMember(p)
    PROVE  TypeInv' /\ Quiet
<1>1. call[p].pc = "act" /\ call[p].op.kind = "group_member"
  BY DEF AddMember, Acting
<1>2. call[p].op.g \in Static /\ call[p].op.d \in Devices
  BY <1>1, CallFacts, RequestFacts DEF Requests
<1>3. UNCHANGED <<item, groups, approvals, runs>> /\ Answer(p)
  BY DEF AddMember
<1>4. lone' = lone \/ lone' = lone \cup {<<"member", call[p].op.g, call[p].op.d>>}
  BY DEF AddMember
<1>5. members' = members \/ members' = [members EXCEPT ![call[p].op.g] = @ \cup {call[p].op.d}]
  BY DEF AddMember, AddGroupMember
<1>6. lone' \subseteq Facts /\ members' \in [Static -> SUBSET Devices]
  BY <1>2, <1>4, <1>5 DEF TypeInv, Facts
<1> QED BY <1>3, <1>6, AnswerCall DEF TypeInv

LEMMA UpdateGroupStep ==
    ASSUME TypeInv, NEW p \in Admins, UpdateGroup(p)
    PROVE  TypeInv' /\ Quiet
<1>1. call[p].pc = "act" /\ call[p].op.kind = "group_rule"
  BY DEF UpdateGroup, Acting
<1>2. call[p].op.g \in Groups
  BY <1>1, CallFacts, RequestFacts DEF Requests, Groups
<1>3. UNCHANGED <<item, groups, members, approvals, runs>> /\ Answer(p)
  BY DEF UpdateGroup, data
<1>4. lone' = lone \/ lone' = lone \cup {<<"rule", call[p].op.g>>}
  BY DEF UpdateGroup
<1>5. lone' \subseteq Facts
  BY <1>2, <1>4 DEF TypeInv, Facts
<1> QED BY <1>3, <1>5, AnswerCall DEF TypeInv

LEMMA QueueCommandsStep ==
    ASSUME TypeInv, NEW p \in Admins, QueueCommands(p)
    PROVE  TypeInv' /\ Quiet
<1>1. call[p].pc = "act" /\ call[p].op.kind = "command"
  BY DEF QueueCommands, Acting
<1>2. call[p] \in [pc : {"act"}, op : Commands]
  BY <1>1, CallFacts, RequestFacts DEF Requests, Asking
<1>3. UNCHANGED <<item, groups, members, approvals, runs, lone>>
  BY DEF QueueCommands
<1>4. Answer(p) \/ \E d \in Devices : call' = [call EXCEPT ![p].op.ds = @ \ {d}]
  BY <1>2 DEF QueueCommands, Commands
<1>5. CASE Answer(p)
  BY <1>3, <1>5, AnswerCall DEF TypeInv
<1>6. CASE ~Answer(p)
  <2>1. PICK d \in Devices : call' = [call EXCEPT ![p].op.ds = @ \ {d}]
    BY <1>4, <1>6
  <2>2. [call[p] EXCEPT !.op.ds = @ \ {d}] \in Asking
    BY <1>2 DEF Asking, Asked, Commands
  <2>3. call' = [call EXCEPT ![p] = [call[p] EXCEPT !.op.ds = @ \ {d}]]
    BY <2>1
  <2>4. Quiet /\ call' \in [Admins -> Calls]
    BY Zenon, <1>3, <2>2, <2>3, QuietCall
  <2> QED BY <1>3, <2>4 DEF TypeInv
<1> QED BY <1>5, <1>6
LEMMA AdminEdits ==
    ASSUME TypeInv,
           \/ Delete
           \/ \E g \in Groups, mode \in Modes : DeleteAssignment(g, mode)
           \/ \E g \in Static, d \in Devices : RemoveMember(g, d)
           \/ \E g \in Groups : DeleteGroup(g)
           \/ \E d \in Devices : Retire(d)
           \/ HourPasses
    PROVE  TypeInv' /\ Quiet
<1>1. CASE Delete
  BY Zenon, <1>1 DEF Delete, TypeInv, Quiet
<1>2. ASSUME NEW g \in Groups, NEW mode \in Modes, DeleteAssignment(g, mode) PROVE TypeInv' /\ Quiet
  BY <1>2 DEF DeleteAssignment, TypeInv, Quiet
<1>3. ASSUME NEW g \in Static, NEW d \in Devices, RemoveMember(g, d) PROVE TypeInv' /\ Quiet
  BY <1>3 DEF RemoveMember, TypeInv, Quiet
<1>4. ASSUME NEW g \in Groups, DeleteGroup(g) PROVE TypeInv' /\ Quiet
  BY <1>4 DEF DeleteGroup, TypeInv, Quiet
<1>5. ASSUME NEW d \in Devices, Retire(d) PROVE TypeInv' /\ Quiet
  BY <1>5 DEF Retire, TypeInv, Quiet
<1>6. CASE HourPasses
  BY <1>6 DEF HourPasses, TypeInv, Quiet
<1> QED BY <1>1, <1>2, <1>3, <1>4, <1>5, <1>6

LEMMA CutStep ==
    ASSUME TypeInv, NEW p \in Admins, Cut(p)
    PROVE  TypeInv' /\ Quiet
BY AnswerCall DEF Cut, TypeInv, data

-------------------------------------------------------------------------------
(* Approvals: asked for, lapsed, decided, carried out, recorded. *)

LEMMA HoldStep ==
    ASSUME NoneApart, OnceInv, NEW p \in Admins, NEW a \in Ids, HoldForApproval(p, a)
    PROVE  OnceInv'
<1> DEFINE row == [op |-> call[p].op, requester |-> p, status |-> "pending", overdue |-> FALSE,
                   by |-> None, result |-> None]
<1>1. approvals[a] = None /\ approvals' = [approvals EXCEPT ![a] = row]
  BY DEF HoldForApproval, CreateApproval
<1>2. row \in Rows
  <2>1. call[p].op \in Requests
    BY CallFacts DEF HoldForApproval, OnceInv, Requests
  <2> QED BY <2>1 DEF Rows, Statuses
<1> HIDE DEF row
<1>3. /\ approvals' \in [Ids -> Rows \cup {None}]
      /\ \A b \in Ids : approvals'[b] = IF b = a THEN row ELSE approvals[b]
  BY <1>1, <1>2 DEF OnceInv, TypeInv
<1>4. UNCHANGED <<data, runs, lone>> /\ call' = [call EXCEPT ![p] = Idle]
  BY DEF HoldForApproval, Answer
<1>5. /\ call' \in [Admins -> Calls]
      /\ \A q \in Admins : call'[q] = IF q = p THEN Idle ELSE call[q]
  BY Zenon, <1>4, CallMoves DEF OnceInv, Calls
<1>6. TypeInv'
  BY <1>3, <1>4, <1>5 DEF OnceInv, TypeInv, data
<1>7. runs[a] = 0
  BY <1>1 DEF OnceInv, TypeInv, RanInv, NoneApart
<1>8. RanInv' /\ CarriedOutOnce'
  BY <1>3, <1>4, <1>7 DEF OnceInv, RanInv, CarriedOutOnce
<1>9. ReplayInv'
  <2> SUFFICES ASSUME NEW q \in Admins, call'[q].pc \in {"replay", "result"}
               PROVE  /\ q # p /\ call'[q] = call[q]
                      /\ call[q].id \in Ids /\ call[q].id # a
    BY <1>3, <1>4 DEF OnceInv, ReplayInv
  <2>1. q # p /\ call'[q] = call[q]
    BY <1>5 DEF Idle
  <2>2. call[q].id \in Ids /\ approvals[call[q].id] \in Rows
    BY <2>1, CallFacts DEF OnceInv, ReplayInv
  <2> QED BY <1>1, <2>1, <2>2 DEF NoneApart
<1> QED BY <1>6, <1>8, <1>9 DEF OnceInv

\* A pending approval has not been carried out and nobody is about to.
LEMMA PendingUntouched ==
    ASSUME OnceInv, NEW a \in Ids, approvals[a].status = "pending"
    PROVE  /\ runs[a] = 0
           /\ \A q \in Admins : call[q].pc \in {"replay", "result"} => call[q].id # a
<1>1. runs[a] = 0
  BY DEF OnceInv, TypeInv, CarriedOutOnce
<1> QED BY <1>1 DEF OnceInv, ReplayInv

\* Rows that are pending may change, the others do not.
LEMMA PendingChanges ==
    ASSUME OnceInv, UNCHANGED <<data, call, runs, lone>>,
           approvals' \in [Ids -> Rows \cup {None}],
           \A a \in Ids : approvals'[a] = approvals[a] \/ approvals[a].status = "pending"
    PROVE  OnceInv'
<1>1. TypeInv'
  BY DEF OnceInv, TypeInv, data
<1>2. RanInv' /\ CarriedOutOnce'
  BY PendingUntouched DEF OnceInv, RanInv, CarriedOutOnce
<1>3. ReplayInv'
  <2>1. ASSUME NEW q \in Admins, call[q].pc \in {"replay", "result"}
        PROVE  call[q].id \in Ids /\ approvals'[call[q].id] = approvals[call[q].id]
    BY <2>1, CallFacts, PendingUntouched DEF OnceInv
  <2> QED BY <2>1 DEF OnceInv, ReplayInv
<1> QED BY <1>1, <1>2, <1>3 DEF OnceInv

LEMMA LapseStep ==
    ASSUME OnceInv, NEW a \in Ids, Lapse(a)
    PROVE  OnceInv'
<1>1. approvals[a] \in Rows
  BY DEF Lapse, OnceInv, TypeInv
<1>2. [approvals[a] EXCEPT !.overdue = TRUE] \in Rows
  BY Zenon, <1>1 DEF Rows
<1>3. /\ approvals' \in [Ids -> Rows \cup {None}]
      /\ \A b \in Ids : b # a => approvals'[b] = approvals[b]
  BY <1>2 DEF Lapse, OnceInv, TypeInv
<1> QED BY <1>3, PendingChanges DEF Lapse

LEMMA ExpireStep ==
    ASSUME OnceInv, ExpireApprovals
    PROVE  OnceInv'
<1> DEFINE due == {a \in Ids : approvals[a] # None /\ approvals[a].status = "pending"
                                                   /\ approvals[a].overdue}
<1>1. approvals' = [a \in Ids |->
           IF a \in due THEN [approvals[a] EXCEPT !.status = "expired"] ELSE approvals[a]]
  BY Zenon DEF ExpireApprovals
<1>2. \A a \in due : approvals[a] \in Rows
  BY DEF OnceInv, TypeInv
<1>3. \A a \in due : [approvals[a] EXCEPT !.status = "expired"] \in Rows
  BY <1>2 DEF Rows, Statuses
<1>4. \A a \in Ids : approvals'[a] = approvals[a] \/ approvals[a].status = "pending"
  BY <1>1
<1>5. approvals' \in [Ids -> Rows \cup {None}]
  BY <1>1, <1>3 DEF OnceInv, TypeInv
<1> QED BY <1>4, <1>5, PendingChanges DEF ExpireApprovals
LEMMA DecideStep ==
    ASSUME NoneApart, OnceInv, NEW p \in Admins, NEW a \in Ids, NEW approve \in BOOLEAN,
           Decide(p, a, approve)
    PROVE  OnceInv'
<1> DEFINE status == IF approve THEN "approved" ELSE "rejected"
           row == [approvals[a] EXCEPT !.status = status, !.by = p]
<1>1. /\ approvals[a] # None /\ approvals[a].status = "pending"
      /\ approve => approvals[a].requester # p
      /\ call[p] = Idle
      /\ UNCHANGED <<data, runs, lone>>
  BY DEF Decide, MayDecide, DecideApproval
<1>2. approvals' = [approvals EXCEPT ![a] = row]
  BY Zenon DEF Decide, DecideApproval
<1>3. approvals[a] \in Rows
  BY <1>1 DEF OnceInv, TypeInv
<1>4. /\ row \in Rows /\ row.status = status /\ row.by = p
      /\ row.requester = approvals[a].requester
  BY Zenon, <1>3 DEF Rows, Statuses
<1> HIDE DEF row
<1>5. /\ approvals' \in [Ids -> Rows \cup {None}]
      /\ \A b \in Ids : approvals'[b] = IF b = a THEN row ELSE approvals[b]
  BY Zenon, <1>2, <1>4 DEF OnceInv, TypeInv
<1>6. runs[a] = 0 /\ \A q \in Admins : call[q].pc \in {"replay", "result"} => call[q].id # a
  BY <1>1, PendingUntouched
<1>7. CASE ~approve
  <2>1. call' = call
    BY <1>7 DEF Decide
  <2> QED BY <1>1, <1>5, <2>1, PendingChanges
<1>8. CASE approve
  <2> DEFINE c == [pc |-> "replay", id |-> a, saw |-> lone]
  <2>1. call' = [call EXCEPT ![p] = c]
    BY <1>8 DEF Decide
  <2>2. c \in Calls
    BY DEF OnceInv, TypeInv, Calls, Carrying
  <2>3. c.pc = "replay" /\ c.id = a
    OBVIOUS
  <2> HIDE DEF c
  <2>4. /\ call' \in [Admins -> Calls]
        /\ \A q \in Admins : call'[q] = IF q = p THEN c ELSE call[q]
    BY Zenon, <2>1, <2>2, CallMoves DEF OnceInv
  <2>5. TypeInv'
    BY <1>1, <1>5, <2>4 DEF OnceInv, TypeInv, data
  <2>6. RanInv' /\ CarriedOutOnce'
    BY <1>1, <1>5, <1>6 DEF OnceInv, RanInv, CarriedOutOnce
  <2>7. ASSUME NEW q \in Admins, call'[q].pc \in {"replay", "result"}
        PROVE  LET r == approvals'[call'[q].id] IN
               /\ r \in Rows
               /\ r.status = "approved" /\ r.by = q /\ r.requester # q
               /\ call'[q].pc = "replay" => runs'[call'[q].id] = 0
    <3>1. CASE q = p
      <4>1. call'[q].id = a /\ approvals'[a] = row /\ runs'[a] = 0
        BY <1>1, <1>5, <1>6, <2>3, <2>4, <3>1
      <4>2. row.status = "approved" /\ row.requester # p
        BY <1>1, <1>4, <1>8
      <4> QED BY Zenon, <1>4, <3>1, <4>1, <4>2
    <3>2. CASE q # p
      <4>1. call'[q] = call[q]
        BY <2>4, <3>2
      <4>2. call[q].id \in Ids /\ call[q].id # a
        BY <1>6, <2>7, <4>1, CallFacts DEF OnceInv
      <4>3. approvals'[call[q].id] = approvals[call[q].id] /\ runs' = runs
        BY <1>1, <1>5, <4>2
      <4>4. /\ approvals[call[q].id] \in Rows
            /\ approvals[call[q].id].status = "approved" /\ approvals[call[q].id].by = q
            /\ approvals[call[q].id].requester # q
            /\ call[q].pc = "replay" => runs[call[q].id] = 0
        BY Zenon, <2>7, <4>1 DEF OnceInv, ReplayInv
      <4> QED BY <4>1, <4>3, <4>4
    <3> QED BY <3>1, <3>2
  <2>8. ReplayInv'
    BY Zenon, <2>7 DEF ReplayInv
  <2> QED BY <2>5, <2>6, <2>8 DEF OnceInv
<1> QED BY <1>7, <1>8

\* The approval is carried out, well or not: by the one it names, for the first time.
LEMMA CarryOnce ==
    ASSUME OnceInv, TypeInv', NEW p \in Admins, NEW status \in {"approved", "failed"},
           call[p].pc = "replay", UNCHANGED approvals,
           runs' = [runs EXCEPT ![call[p].id] = @ + 1], Replayed(p, status)
    PROVE  OnceInv'
<1> DEFINE a == call[p].id
           c == [pc |-> "result", id |-> a, status |-> status]
<1>1. a \in Ids
  BY CallFacts DEF OnceInv
<1>2. /\ approvals[a] \in Rows /\ approvals[a].status = "approved"
      /\ approvals[a].by = p /\ approvals[a].requester # p /\ runs[a] = 0
  BY Zenon DEF OnceInv, ReplayInv
<1>3. \A b \in Ids : runs'[b] = IF b = a THEN 1 ELSE runs[b]
  BY <1>1, <1>2 DEF OnceInv, TypeInv
<1>4. RanInv' /\ CarriedOutOnce'
  BY <1>2, <1>3 DEF OnceInv, RanInv, CarriedOutOnce
<1>5. \A q \in Admins : call'[q] = IF q = p THEN c ELSE call[q]
  <2>1. c \in Calls
    BY <1>1 DEF Calls, Recording
  <2>2. call' = [call EXCEPT ![p] = c]
    BY DEF Replayed
  <2> HIDE DEF c
  <2> QED BY Zenon, <2>1, <2>2, CallMoves DEF OnceInv
<1>6. c.pc = "result" /\ c.id = a
  OBVIOUS
<1> HIDE DEF a, c
<1>7. ASSUME NEW q \in Admins, call'[q].pc \in {"replay", "result"}
      PROVE  LET r == approvals'[call'[q].id] IN
             /\ r \in Rows
             /\ r.status = "approved" /\ r.by = q /\ r.requester # q
             /\ call'[q].pc = "replay" => runs'[call'[q].id] = 0
  <2>1. CASE q = p
    BY <1>2, <1>5, <1>6, <2>1
  <2>2. CASE q # p
    <3>1. call'[q] = call[q]
      BY <1>5, <2>2
    <3>2. /\ approvals[call[q].id] \in Rows
          /\ approvals[call[q].id].status = "approved" /\ approvals[call[q].id].by = q
          /\ approvals[call[q].id].requester # q
          /\ call[q].pc = "replay" => runs[call[q].id] = 0
      BY Zenon, <1>7, <3>1 DEF OnceInv, ReplayInv
    <3>3. call[q].id \in Ids /\ call[q].id # a
      BY <1>2, <1>7, <2>2, <3>1, <3>2, CallFacts DEF OnceInv
    <3> QED BY <1>3, <3>1, <3>2, <3>3
  <2> QED BY <2>1, <2>2
<1>8. ReplayInv'
  BY Zenon, <1>7 DEF ReplayInv
<1> QED BY <1>4, <1>8 DEF OnceInv
LEMMA CarriedType ==
    ASSUME OnceInv, NEW p \in Admins, call[p].pc = "replay", NEW status \in {"approved", "failed"},
           runs' = [runs EXCEPT ![call[p].id] = @ + 1], Replayed(p, status)
    PROVE  /\ call[p].id \in Ids /\ approvals[call[p].id].op \in Requests
           /\ call' \in [Admins -> Calls] /\ runs' \in [Ids -> Nat]
<1>1. call[p].id \in Ids
  BY CallFacts DEF OnceInv
<1>2. approvals[call[p].id] \in Rows
  BY Zenon DEF OnceInv, ReplayInv
<1>3. approvals[call[p].id].op \in Requests
  BY <1>2 DEF Rows
<1>4. [pc |-> "result", id |-> call[p].id, status |-> status] \in Calls
  BY <1>1 DEF Calls, Recording
<1>5. call' \in [Admins -> Calls]
  BY Zenon, <1>4, CallMoves DEF OnceInv, Replayed
<1>6. runs' \in [Ids -> Nat]
  BY <1>1 DEF OnceInv, TypeInv
<1> QED BY <1>1, <1>3, <1>5, <1>6

LEMMA ReplayVersionStep ==
    ASSUME OnceInv, NEW p \in Admins, ReplayVersion(p)
    PROVE  OnceInv'
<1>1. /\ call[p].pc = "replay" /\ UNCHANGED approvals
      /\ runs' = [runs EXCEPT ![call[p].id] = @ + 1]
      /\ approvals[call[p].id].op.kind = "version"
  BY DEF ReplayVersion, Replaying
<1> DEFINE v == approvals[call[p].id].op.version
<1>2. PICK status \in {"approved", "failed"} : Replayed(p, status)
  BY DEF ReplayVersion, CarriedOut, Failed
<1>3. UNCHANGED <<groups, members>> /\ lone' \subseteq lone
  BY DEF ReplayVersion, CarriedOut, Failed, Seconded, data
<1>4. item' \in Items \cup {None}
  <2>1. CASE Promote(v)
    <3>1. item' = [item EXCEPT !.current = v]
      BY <2>1 DEF ReplayVersion
    <3>2. item \in Items /\ v \in 1 .. Len(item.versions)
      BY <2>1 DEF Promote, Latest, OnceInv, TypeInv
    <3> QED BY <3>1, <3>2 DEF Items
  <2>2. CASE ~Promote(v)
    BY <2>2 DEF ReplayVersion, Failed, data, OnceInv, TypeInv
  <2> QED BY <2>1, <2>2
<1>5. TypeInv'
  BY Zenon, <1>1, <1>2, <1>3, <1>4, CarriedType DEF OnceInv, TypeInv
<1> QED BY Zenon, <1>1, <1>2, <1>5, CarryOnce

LEMMA ReplayAssignmentStep ==
    ASSUME OnceInv, NEW p \in Admins, ReplayAssignment(p)
    PROVE  OnceInv'
<1>1. /\ call[p].pc = "replay" /\ UNCHANGED approvals
      /\ runs' = [runs EXCEPT ![call[p].id] = @ + 1]
  BY DEF ReplayAssignment, Replaying
<1>2. PICK status \in {"approved", "failed"} : Replayed(p, status)
  BY DEF ReplayAssignment, CarriedOut, Failed
<1>3. UNCHANGED <<item, groups, members>> /\ lone' \subseteq lone
  BY DEF ReplayAssignment, CarriedOut, Failed, Seconded, data
<1>4. TypeInv'
  BY Zenon, <1>1, <1>2, <1>3, CarriedType DEF OnceInv, TypeInv
<1> QED BY Zenon, <1>1, <1>2, <1>4, CarryOnce

LEMMA ReplayGroupMemberStep ==
    ASSUME OnceInv, NEW p \in Admins, ReplayGroupMember(p)
    PROVE  OnceInv'
<1> DEFINE op == approvals[call[p].id].op
<1>1. /\ call[p].pc = "replay" /\ UNCHANGED approvals /\ op.kind = "group_member"
      /\ runs' = [runs EXCEPT ![call[p].id] = @ + 1]
  BY DEF ReplayGroupMember, Replaying
<1>2. PICK status \in {"approved", "failed"} : Replayed(p, status)
  BY DEF ReplayGroupMember, CarriedOut, Failed
<1>3. UNCHANGED <<item, groups>> /\ lone' \subseteq lone
  BY DEF ReplayGroupMember, CarriedOut, Failed, Seconded, data
<1>4. members' = members \/ members' = [members EXCEPT ![op.g] = @ \cup {op.d}]
  BY DEF ReplayGroupMember, Failed, AddGroupMember, data
<1>5. op.g \in Static /\ op.d \in Devices
  BY Zenon, <1>1, <1>2, CarriedType, RequestFacts
<1>6. members' \in [Static -> SUBSET Devices]
  BY <1>4, <1>5 DEF OnceInv, TypeInv
<1>7. TypeInv'
  BY Zenon, <1>1, <1>2, <1>3, <1>6, CarriedType DEF OnceInv, TypeInv
<1> QED BY Zenon, <1>1, <1>2, <1>7, CarryOnce

LEMMA ReplayGroupRuleStep ==
    ASSUME OnceInv, NEW p \in Admins, ReplayGroupRule(p)
    PROVE  OnceInv'
<1>1. /\ call[p].pc = "replay" /\ UNCHANGED approvals
      /\ runs' = [runs EXCEPT ![call[p].id] = @ + 1]
  BY DEF ReplayGroupRule, Replaying
<1>2. PICK status \in {"approved", "failed"} : Replayed(p, status)
  BY DEF ReplayGroupRule, CarriedOut, Failed
<1>3. UNCHANGED data /\ lone' \subseteq lone
  BY DEF ReplayGroupRule, CarriedOut, Failed, Seconded
<1>4. TypeInv'
  BY Zenon, <1>1, <1>2, <1>3, CarriedType DEF OnceInv, TypeInv, data
<1> QED BY Zenon, <1>1, <1>2, <1>4, CarryOnce

LEMMA ReplayCommandStep ==
    ASSUME OnceInv, NEW p \in Admins, ReplayCommand(p)
    PROVE  OnceInv'
<1>1. /\ call[p].pc = "replay" /\ UNCHANGED approvals
      /\ runs' = [runs EXCEPT ![call[p].id] = @ + 1]
  BY DEF ReplayCommand, Replaying
<1>2. PICK status \in {"approved", "failed"} : Replayed(p, status)
  BY DEF ReplayCommand
<1>3. UNCHANGED <<item, groups, members, lone>>
  BY DEF ReplayCommand
<1>4. TypeInv'
  BY Zenon, <1>1, <1>2, <1>3, CarriedType DEF OnceInv, TypeInv
<1> QED BY Zenon, <1>1, <1>2, <1>4, CarryOnce

\* The result is recorded by the one who carried it out, and by nobody after them.
LEMMA SetApprovalResultStep ==
    ASSUME OnceInv, NEW p \in Admins, SetApprovalResult(p)
    PROVE  OnceInv'
<1> DEFINE a == call[p].id
           row == [approvals[a] EXCEPT !.status = call[p].status, !.result = "recorded"]
<1>1. call[p].pc = "result" /\ a \in Ids /\ call[p].status \in {"approved", "failed"}
  BY CallFacts DEF OnceInv, SetApprovalResult, Recording
<1>2. approvals[a] \in Rows /\ approvals[a].by = p /\ approvals[a].requester # p
  BY Zenon, <1>1 DEF OnceInv, ReplayInv
<1>3. approvals' = [approvals EXCEPT ![a] = row] /\ UNCHANGED <<data, runs, lone>>
  BY Zenon DEF SetApprovalResult
<1>4. /\ row \in Rows /\ row.status \in {"approved", "failed"}
      /\ row.by = p /\ row.requester # p
  BY Zenon, <1>1, <1>2 DEF Rows, Statuses
<1> HIDE DEF a, row
<1>5. /\ approvals' \in [Ids -> Rows \cup {None}]
      /\ \A b \in Ids : approvals'[b] = IF b = a THEN row ELSE approvals[b]
  BY Zenon, <1>3, <1>4 DEF OnceInv, TypeInv
<1>6. /\ call' \in [Admins -> Calls]
      /\ \A q \in Admins : call'[q] = IF q = p THEN Idle ELSE call[q]
  BY Zenon, CallMoves DEF OnceInv, SetApprovalResult, Answer, Calls
<1>7. TypeInv'
  BY <1>3, <1>5, <1>6 DEF OnceInv, TypeInv, data
<1>8. RanInv' /\ CarriedOutOnce'
  BY <1>3, <1>4, <1>5 DEF OnceInv, RanInv, CarriedOutOnce
<1>9. ASSUME NEW q \in Admins, call'[q].pc \in {"replay", "result"}
      PROVE  /\ call'[q] = call[q]
             /\ approvals'[call[q].id] = approvals[call[q].id]
  <2>1. q # p /\ call'[q] = call[q]
    BY <1>6, <1>9 DEF Idle
  <2>2. call[q].id \in Ids
    BY <1>9, <2>1, CallFacts DEF OnceInv
  <2>3. approvals[call[q].id].by = q
    BY Zenon, <1>9, <2>1 DEF OnceInv, ReplayInv
  <2> QED BY <1>2, <1>5, <2>1, <2>2, <2>3
<1>10. ReplayInv'
  BY <1>3, <1>9 DEF OnceInv, ReplayInv
<1> QED BY <1>7, <1>8, <1>10 DEF OnceInv
LEMMA OnceInit == Init => OnceInv
<1> SUFFICES ASSUME Init PROVE OnceInv
  OBVIOUS
<1>1. TypeInv
  <2>1. item \in Items
    <3>1. PICK p \in Admins : item = [current |-> 1, versions |-> <<[content |-> "x", by |-> p]>>]
      BY DEF Init
    <3> QED BY <3>1 DEF Items, Contents
  <2>2. lone \subseteq Facts
    BY DEF Init, Facts
  <2>3. /\ groups \subseteq Groups /\ members \in [Static -> SUBSET Devices]
        /\ approvals \in [Ids -> Rows \cup {None}] /\ runs \in [Ids -> Nat]
        /\ call \in [Admins -> Calls]
    BY DEF Init, Calls
  <2> QED BY <2>1, <2>2, <2>3 DEF TypeInv
<1>2. ReplayInv
  BY DEF Init, Idle, ReplayInv
<1>3. RanInv /\ CarriedOutOnce
  BY DEF Init, RanInv, CarriedOutOnce
<1> QED BY <1>1, <1>2, <1>3 DEF OnceInv

LEMMA OnceStep == ASSUME NoneApart, OnceInv, [Next]_vars PROVE OnceInv'
<1> USE DEF OnceInv
<1>1. CASE \E p \in Admins, op \in Ops : Ask(p, op)
  BY <1>1, AskStep, OnceFrame
<1>2. ASSUME NEW p \in Admins, Handle(p) PROVE OnceInv'
  <2>1. CASE UpdateHeld(p)
    BY <2>1, UpdateHeldStep, OnceFrame
  <2>2. CASE Update(p)
    BY <2>2, UpdateStep, OnceFrame
  <2>3. CASE CreateAssignment(p)
    BY <2>3, CreateAssignmentStep, OnceFrame
  <2>4. CASE AddMember(p)
    BY <2>4, AddMemberStep, OnceFrame
  <2>5. CASE UpdateGroup(p)
    BY <2>5, UpdateGroupStep, OnceFrame
  <2>6. CASE QueueCommands(p)
    BY <2>6, QueueCommandsStep, OnceFrame
  <2>7. CASE Cut(p)
    BY <2>7, CutStep, OnceFrame
  <2> QED BY <1>2, <2>1, <2>2, <2>3, <2>4, <2>5, <2>6, <2>7, ReplayVersionStep,
             ReplayAssignmentStep, ReplayGroupMemberStep, ReplayGroupRuleStep,
             ReplayCommandStep, SetApprovalResultStep DEF Handle
<1>3. CASE ApprovalSteps
  BY <1>3, HoldStep, DecideStep, LapseStep, ExpireStep DEF ApprovalSteps
<1>4. CASE \/ Delete
           \/ \E g \in Groups, mode \in Modes : DeleteAssignment(g, mode)
           \/ \E g \in Static, d \in Devices : RemoveMember(g, d)
           \/ \E g \in Groups : DeleteGroup(g)
           \/ \E d \in Devices : Retire(d)
           \/ HourPasses
  BY <1>4, AdminEdits, OnceFrame
<1>5. CASE UNCHANGED vars
  <2>1. TypeInv' /\ Quiet
    BY <1>5 DEF TypeInv, Quiet, vars, data
  <2> QED BY <2>1, OnceFrame
<1> QED BY Zenon, <1>1, <1>2, <1>3, <1>4, <1>5 DEF Next, StepsOver

\* The types, and who may be carrying an approval out, hold in every state.
THEOREM Invariance == ASSUME NoneApart PROVE Spec => []OnceInv
<1>1. Init => OnceInv
  BY OnceInit
<1>2. OnceInv /\ [Next]_vars => OnceInv'
  BY OnceStep
<1> QED BY <1>1, <1>2, PTL DEF Spec

\* decideApproval and replayApproval carry an approval out at most once and never
\* by the word of the person who asked, wherever a handler is cut off.
THEOREM ApprovedOnce == ASSUME NoneApart PROVE Spec => []CarriedOutOnce
<1>1. OnceInv => CarriedOutOnce
  BY DEF OnceInv
<1> QED BY <1>1, Invariance, PTL
-------------------------------------------------------------------------------
(* What one person chose alone. *)

\* Members of a group are finitely many, and so are those one person added.
LEMMA MembersFinite ==
    ASSUME TypeInv, NEW g \in Static, NEW T \in SUBSET members[g]
    PROVE  /\ IsFiniteSet(members[g]) /\ Cardinality(members[g]) \in Nat
           /\ IsFiniteSet(T) /\ Cardinality(T) \in Nat
           /\ Cardinality(T) <= Cardinality(members[g])
<1>1. members[g] \in SUBSET Devices
  BY DEF TypeInv
<1>2. IsFiniteSet(members[g])
  BY Zenon, <1>1, FS_Subset, DevicesAssumption
<1> QED BY <1>2, FS_Subset, FS_CardinalityType

LEMMA FactsDiffer ==
    ASSUME NEW g, NEW h, NEW d, NEW e
    PROVE  /\ <<"version">> # <<"include", g>> /\ <<"version">> # <<"rule", g>>
           /\ <<"version">> # <<"member", g, d>>
           /\ <<"include", h>> # <<"rule", g>> /\ <<"include", h>> # <<"member", g, d>>
           /\ <<"rule", h>> # <<"member", g, d>>
           /\ h # g => <<"include", h>> # <<"include", g>> /\ <<"rule", h>> # <<"rule", g>>
                       /\ <<"member", h, e>> # <<"member", g, d>>
           /\ e # d => <<"member", g, e>> # <<"member", g, d>>
OBVIOUS

\* Nothing comes to the group: no code, no member, and nothing that stands by one
\* person's word.
Calm(h) ==
    /\ item' # None => item # None
    /\ HasCode(h)' => HasCode(h)
    /\ h \in Static => members'[h] \subseteq members[h]
    /\ \A f \in lone' \ lone :
         /\ f # <<"version">> /\ f # <<"include", h>> /\ f # <<"rule", h>>
         /\ \A d \in Devices : f # <<"member", h, d>>

LEMMA CalmKeeps ==
    ASSUME TypeInv, TypeInv', NEW h \in Groups, Overseen(h), Calm(h)
    PROVE  Overseen(h)'
<1> DEFINE Alone == {d \in members[h] : <<"member", h, d>> \in lone}
<1> SUFFICES ASSUME item' # None, HasCode(h)', Wide(h)'
             PROVE  /\ <<"version">> \notin lone'
                    /\ h \in Dynamic => {<<"include", h>>, <<"rule", h>>} \cap lone' = {}
                    /\ h \in Static =>
                         \/ <<"include", h>> \notin lone'
                         \/ Cardinality({d \in members'[h] : <<"member", h, d>> \in lone'}) <= Threshold
  BY DEF Overseen
<1>1. item # None /\ HasCode(h)
  BY DEF Calm
<1>2. Wide(h)
  <2>1. ASSUME h \in Static PROVE Cardinality(members[h]) > Threshold
    <3>1. Cardinality(members'[h]) > Threshold
      BY <2>1 DEF Wide
    <3>2. Cardinality(members'[h]) \in Nat /\ Cardinality(members[h]) \in Nat
          /\ Cardinality(members'[h]) <= Cardinality(members[h])
      BY <2>1, MembersFinite DEF Calm
    <3> QED BY <3>1, <3>2, ThresholdAssumption
  <2> QED BY <2>1 DEF Wide
<1>3. /\ <<"version">> \notin lone
      /\ h \in Dynamic => {<<"include", h>>, <<"rule", h>>} \cap lone = {}
      /\ h \in Static => <<"include", h>> \notin lone \/ Cardinality(Alone) <= Threshold
  BY <1>1, <1>2 DEF Overseen
<1>4. /\ <<"version">> \in lone' => <<"version">> \in lone
      /\ <<"include", h>> \in lone' => <<"include", h>> \in lone
      /\ <<"rule", h>> \in lone' => <<"rule", h>> \in lone
      /\ \A d \in Devices : <<"member", h, d>> \in lone' => <<"member", h, d>> \in lone
  BY Zenon DEF Calm
<1>5. ASSUME h \in Static, Cardinality(Alone) <= Threshold
      PROVE  Cardinality({d \in members'[h] : <<"member", h, d>> \in lone'}) <= Threshold
  <2> DEFINE Now == {d \in members'[h] : <<"member", h, d>> \in lone'}
  <2>1. members'[h] \subseteq members[h] /\ members[h] \subseteq Devices
    BY <1>5 DEF Calm, TypeInv
  <2>2. Now \in SUBSET Alone
    BY Zenon, <1>4, <2>1
  <2>3. IsFiniteSet(Alone) /\ Cardinality(Alone) \in Nat
    BY Zenon, <1>5, MembersFinite
  <2> HIDE DEF Now, Alone
  <2>4. Cardinality(Now) \in Nat /\ Cardinality(Now) <= Cardinality(Alone)
    BY <2>2, <2>3, FS_Subset, FS_CardinalityType
  <2>5. Cardinality(Now) <= Threshold
    BY <1>5, <2>3, <2>4, ThresholdAssumption
  <2> QED BY <2>5 DEF Now
<1> HIDE DEF Alone
<1>6. h \in Dynamic => {<<"include", h>>, <<"rule", h>>} \cap lone' = {}
  BY Zenon, <1>3, <1>4
<1> QED BY Zenon, <1>3, <1>4, <1>5, <1>6

LEMMA SmallIsFree ==
    ASSUME NEW h \in Static, ~(Cardinality(members'[h]) > Threshold)
    PROVE  Overseen(h)'
BY DEF Overseen, Wide
\* Nothing comes to any group.
LEMMA AllCalm ==
    ASSUME TypeInv, TypeInv', TwoPeople, raced => raced', groups' \subseteq groups,
           ~raced' => \A h \in groups' : Calm(h)
    PROVE  TwoPeople'
<1> SUFFICES ASSUME ~raced', NEW h \in groups' PROVE Overseen(h)'
  BY DEF TwoPeople
<1>1. h \in groups /\ h \in Groups
  BY DEF TypeInv
<1>2. Overseen(h)
  BY <1>1 DEF TwoPeople
<1> QED BY <1>1, <1>2, CalmKeeps

LEMMA SameCalm ==
    ASSUME TypeInv, TypeInv', TwoPeople, raced => raced',
           UNCHANGED <<groups, assigned, members>>, lone' \subseteq lone,
           item' # None => item # None
    PROVE  TwoPeople'
<1>1. \A h \in groups' : Calm(h)
  BY DEF Calm, HasCode
<1> QED BY <1>1, AllCalm

\* A version made current at once reaches no more devices than the threshold, as
\* ItemNeedsApproval found.
LEMMA UpdateOverseen ==
    ASSUME TypeInv, TypeInv', TwoPeople, NEW p \in Admins, Update(p)
    PROVE  TwoPeople'
<1>0. /\ raced' = (raced \/ NeedsApproval(p, call[p].op)) /\ call[p].op.kind = "version"
      /\ UNCHANGED <<groups, assigned, members>>
  BY DEF Update, Acting
<1> SUFFICES ASSUME ~raced', NEW h \in groups', HasCode(h)' PROVE Overseen(h)'
  BY Zenon DEF TwoPeople, Overseen
<1>1. ~ItemNeedsApproval
  BY Zenon, <1>0 DEF NeedsApproval
<1> DEFINE in == {g \in groups : HasCode(g)}
           Reached == UNION {members[g] : g \in in \cap Static}
<1>2. in \cap Dynamic = {} /\ ~(Cardinality(Reached) > Threshold)
  BY Zenon, <1>1 DEF ItemNeedsApproval, ItemReach
<1>3. h \in in
  BY <1>0 DEF HasCode
<1>4. h \in Static
  BY <1>2, <1>3 DEF TypeInv, Groups
<1>5. members[h] \in SUBSET Reached
  BY Zenon, <1>3, <1>4
<1>6. Reached \in SUBSET Devices
  BY DEF TypeInv
<1> HIDE DEF Reached
<1>7. IsFiniteSet(Reached)
  BY Zenon, <1>6, FS_Subset, DevicesAssumption
<1>8. Cardinality(Reached) \in Nat /\ Cardinality(members[h]) \in Nat
      /\ Cardinality(members[h]) <= Cardinality(Reached)
  BY <1>5, <1>7, FS_Subset, FS_CardinalityType
<1>9. ~(Cardinality(members[h]) > Threshold)
  BY <1>2, <1>8, ThresholdAssumption
<1> QED BY <1>0, <1>4, <1>9, SmallIsFree

\* An include made at once is of a small static group.
LEMMA CreateAssignmentOverseen ==
    ASSUME TypeInv, TypeInv', TwoPeople, NEW p \in Admins, CreateAssignment(p)
    PROVE  TwoPeople'
<1> DEFINE op == call[p].op
<1>0. /\ raced' = (raced \/ NeedsApproval(p, op)) /\ op.kind = "assignment"
      /\ UNCHANGED <<item, groups, members>>
  BY DEF CreateAssignment, Acting
<1>1. \/ assigned' = assigned /\ lone' = lone
      \/ /\ assigned' = assigned \cup {<<op.g, op.mode>>}
         /\ lone' = IF op.mode = "include" THEN lone \cup {<<"include", op.g>>} ELSE lone
  BY DEF CreateAssignment, SaveAssignment
<1> HIDE DEF op
<1> SUFFICES ASSUME ~raced', NEW h \in groups' PROVE Overseen(h)'
  BY Zenon DEF TwoPeople
<1>2. h \in Groups /\ Overseen(h)
  BY Zenon, <1>0 DEF TypeInv, TwoPeople
<1>3. CASE h = op.g /\ op.mode = "include"
  <2>1. h \in Static /\ ~(Cardinality(members[h]) > Threshold)
    BY Zenon, <1>0, <1>3 DEF NeedsApproval, AssignmentNeedsApproval
  <2> QED BY <1>0, <2>1, SmallIsFree
<1>4. CASE ~(h = op.g /\ op.mode = "include")
  <2>1. HasCode(h)' => HasCode(h)
    BY <1>1, <1>4 DEF HasCode
  <2>2. \A f \in lone' : f \in lone \/ (f = <<"include", op.g>> /\ h # op.g)
    BY <1>1, <1>4
  <2>3. Calm(h)
    BY <1>0, <2>1, <2>2, FactsDiffer DEF Calm
  <2> QED BY <1>2, <2>3, CalmKeeps
<1> QED BY <1>3, <1>4

\* A member added at once leaves a group with code small.
LEMMA AddMemberOverseen ==
    ASSUME TypeInv, TypeInv', TwoPeople, NEW p \in Admins, AddMember(p)
    PROVE  TwoPeople'
<1> DEFINE op == call[p].op
<1>0. /\ raced' = (raced \/ NeedsApproval(p, op)) /\ op.kind = "group_member"
      /\ call[p].pc = "act"
      /\ UNCHANGED <<item, groups, assigned>>
  BY DEF AddMember, Acting
<1>1. op.g \in Static /\ op.d \in Devices
  BY <1>0, CallFacts, RequestFacts DEF Requests
<1>2. \/ members' = members /\ lone' = lone
      \/ /\ members' = [members EXCEPT ![op.g] = @ \cup {op.d}]
         /\ lone' = IF op.d \in members[op.g] THEN lone ELSE lone \cup {<<"member", op.g, op.d>>}
  BY DEF AddMember, AddGroupMember
<1> HIDE DEF op
<1>3. \A g \in Static : g # op.g => members'[g] = members[g]
  BY <1>1, <1>2 DEF TypeInv
<1>4. members'[op.g] \in {members[op.g], members[op.g] \cup {op.d}}
  BY <1>1, <1>2 DEF TypeInv
<1> SUFFICES ASSUME ~raced', NEW h \in groups' PROVE Overseen(h)'
  BY Zenon DEF TwoPeople
<1>5. h \in Groups /\ Overseen(h)
  BY Zenon, <1>0 DEF TypeInv, TwoPeople
<1>6. CASE h # op.g
  <2>1. \A f \in lone' : f \in lone \/ f = <<"member", op.g, op.d>>
    BY <1>2
  <2>2. Calm(h)
    BY <1>0, <1>3, <1>6, <2>1, FactsDiffer DEF Calm, HasCode
  <2> QED BY <1>5, <2>2, CalmKeeps
<1>7. CASE h = op.g /\ ~HasCode(h)
  BY <1>0, <1>7 DEF Overseen, HasCode
<1>8. CASE h = op.g /\ op.d \in members[h]
  <2>1. lone' = lone /\ members'[h] = members[h]
    BY <1>1, <1>2, <1>4, <1>8
  <2>2. Calm(h)
    BY <1>0, <2>1 DEF Calm, HasCode
  <2> QED BY <1>5, <2>2, CalmKeeps
<1>9. CASE h = op.g /\ HasCode(h) /\ op.d \notin members[h]
  <2>1. ~(Cardinality(members[h]) + 1 > Threshold)
    BY Zenon, <1>0, <1>1, <1>9 DEF NeedsApproval, MemberNeedsApproval
  <2>2. IsFiniteSet(members[h]) /\ Cardinality(members[h]) \in Nat
    BY <1>1, <1>9, MembersFinite
  <2>3. Cardinality(members[h] \cup {op.d}) = Cardinality(members[h]) + 1
    BY Zenon, <1>9, <2>2, FS_AddElement
  <2>4. ~(Cardinality(members'[h]) > Threshold)
    BY <1>4, <1>9, <2>1, <2>2, <2>3, ThresholdAssumption
  <2> QED BY <1>1, <1>9, <2>4, SmallIsFree
<1> QED BY <1>6, <1>7, <1>8, <1>9

\* A rule changed at once has no code behind it.
LEMMA UpdateGroupOverseen ==
    ASSUME TypeInv, TypeInv', TwoPeople, NEW p \in Admins, UpdateGroup(p)
    PROVE  TwoPeople'
<1> DEFINE op == call[p].op
<1>0. /\ raced' = (raced \/ NeedsApproval(p, op)) /\ op.kind = "group_rule"
      /\ call[p].pc = "act"
      /\ UNCHANGED <<item, groups, assigned, members>>
  BY DEF UpdateGroup, Acting, data
<1>1. lone' = lone \/ (op.changed /\ lone' = lone \cup {<<"rule", op.g>>})
  BY DEF UpdateGroup
<1>2. op.g \in Dynamic
  BY <1>0, CallFacts, RequestFacts DEF Requests
<1> HIDE DEF op
<1> SUFFICES ASSUME ~raced', NEW h \in groups' PROVE Overseen(h)'
  BY Zenon DEF TwoPeople
<1>3. h \in Groups /\ Overseen(h)
  BY Zenon, <1>0 DEF TypeInv, TwoPeople
<1>4. CASE h # op.g \/ lone' = lone
  <2>1. \A f \in lone' : f \in lone \/ (f = <<"rule", op.g>> /\ h # op.g)
    BY <1>1, <1>4
  <2>2. Calm(h)
    BY <1>0, <2>1, FactsDiffer DEF Calm, HasCode
  <2> QED BY <1>3, <2>2, CalmKeeps
<1>5. CASE h = op.g /\ op.changed
  <2>1. ~HasCode(h)
    BY Zenon, <1>0, <1>2, <1>5 DEF NeedsApproval, RuleNeedsApproval
  <2> QED BY <1>0, <2>1 DEF Overseen, HasCode
<1> QED BY <1>1, <1>4, <1>5
LEMMA AdminEditsOverseen ==
    ASSUME TypeInv, TypeInv', TwoPeople,
           \/ Delete
           \/ \E g \in Groups, mode \in Modes : DeleteAssignment(g, mode)
           \/ \E g \in Static, d \in Devices : RemoveMember(g, d)
           \/ \E g \in Groups : DeleteGroup(g)
           \/ \E d \in Devices : Retire(d)
           \/ HourPasses
    PROVE  TwoPeople'
<1>1. CASE Delete
  BY <1>1 DEF Delete, TwoPeople, Overseen
<1>2. ASSUME NEW g \in Groups, NEW mode \in Modes, DeleteAssignment(g, mode) PROVE TwoPeople'
  <2>1. UNCHANGED <<item, groups, members, raced>> /\ lone' \subseteq lone /\ assigned' \subseteq assigned
    BY <1>2 DEF DeleteAssignment
  <2>2. \A h \in groups' : Calm(h)
    BY <2>1 DEF Calm, HasCode
  <2> QED BY <2>1, <2>2, AllCalm
<1>3. ASSUME NEW g \in Static, NEW d \in Devices, RemoveMember(g, d) PROVE TwoPeople'
  <2>1. UNCHANGED <<item, groups, assigned, raced>> /\ lone' \subseteq lone
    BY <1>3 DEF RemoveMember
  <2>2. \A h \in Static : members'[h] \subseteq members[h]
    BY <1>3 DEF RemoveMember, TypeInv
  <2>3. \A h \in groups' : Calm(h)
    BY <2>1, <2>2 DEF Calm, HasCode
  <2> QED BY <2>1, <2>3, AllCalm
<1>4. ASSUME NEW g \in Groups, DeleteGroup(g) PROVE TwoPeople'
  <2>1. /\ UNCHANGED <<item, raced>> /\ lone' \subseteq lone /\ assigned' \subseteq assigned
        /\ groups' \subseteq groups
    BY <1>4 DEF DeleteGroup
  <2>2. \A h \in Static : members'[h] \subseteq members[h]
    BY <1>4 DEF DeleteGroup, TypeInv
  <2>3. \A h \in groups' : Calm(h)
    BY <2>1, <2>2 DEF Calm, HasCode
  <2> QED BY <2>1, <2>3, AllCalm
<1>5. ASSUME NEW d \in Devices, Retire(d) PROVE TwoPeople'
  BY <1>5, SameCalm DEF Retire
<1>6. CASE HourPasses
  BY <1>6, SameCalm DEF HourPasses
<1> QED BY <1>1, <1>2, <1>3, <1>4, <1>5, <1>6

\* The second person lets the include, the version and the rule through together.
LEMMA ReplayAssignmentOverseen ==
    ASSUME TypeInv, TypeInv', TwoPeople, NEW p \in Admins, ReplayAssignment(p)
    PROVE  TwoPeople'
<1> DEFINE op == approvals[call[p].id].op
<1>0. UNCHANGED <<item, groups, members>> /\ (raced => raced') /\ op.kind = "assignment"
  BY Zenon DEF ReplayAssignment, Replaying, CarriedOut, Failed, Seconded, data
<1>1. CASE op.g \in groups
  <2>1. /\ assigned' = assigned \cup {<<op.g, op.mode>>}
        /\ lone' = lone \ (Makes(op) \cup RestsOn(op))
    BY <1>1 DEF ReplayAssignment, SaveAssignment, CarriedOut, Seconded
  <2>2. Makes(op) = {<<"include", op.g>>} /\ RestsOn(op) = {<<"version">>, <<"rule", op.g>>}
    BY <1>0 DEF Makes, RestsOn
  <2>3. lone' = lone \ {<<"include", op.g>>, <<"version">>, <<"rule", op.g>>}
    BY <2>1, <2>2
  <2> HIDE DEF op
  <2> SUFFICES ASSUME ~raced', NEW h \in groups' PROVE Overseen(h)'
    BY Zenon DEF TwoPeople
  <2>4. h \in Groups /\ Overseen(h)
    BY <1>0 DEF TypeInv, TwoPeople
  <2>5. CASE h # op.g
    <3>1. Calm(h)
      BY <1>0, <2>1, <2>3, <2>5 DEF Calm, HasCode
    <3> QED BY <2>4, <3>1, CalmKeeps
  <2>6. CASE h = op.g
    <3>1. <<"version">> \notin lone' /\ <<"include", h>> \notin lone' /\ <<"rule", h>> \notin lone'
      BY <2>3, <2>6
    <3> QED BY Zenon, <3>1 DEF Overseen
  <2> QED BY <2>5, <2>6
<1>2. CASE op.g \notin groups
  BY <1>2, SameCalm DEF ReplayAssignment, Failed, data
<1> QED BY <1>1, <1>2

\* The second person lets the member and the version through; the members one
\* person added alone are those that were there, which the group had the right to.
LEMMA ReplayGroupMemberOverseen ==
    ASSUME OnceInv, TypeInv', TwoPeople, NEW p \in Admins, ReplayGroupMember(p)
    PROVE  TwoPeople'
<1> DEFINE op == approvals[call[p].id].op
<1>0. /\ UNCHANGED <<item, groups, assigned>> /\ (raced => raced') /\ op.kind = "group_member"
      /\ call[p].pc = "replay"
  BY Zenon DEF ReplayGroupMember, Replaying, CarriedOut, Failed, Seconded, data
<1>a. TypeInv
  BY DEF OnceInv
<1>b. op.g \in Static /\ op.d \in Devices
  <2>1. approvals[call[p].id] \in Rows
    BY Zenon, <1>0 DEF OnceInv, ReplayInv
  <2>2. op \in Requests
    BY <2>1 DEF Rows
  <2> QED BY <1>0, <2>2, RequestFacts
<1>1. CASE op.g \in groups
  <2>1. /\ members' = [members EXCEPT ![op.g] = @ \cup {op.d}]
        /\ lone' = lone \ (Makes(op) \cup RestsOn(op))
    BY <1>1 DEF ReplayGroupMember, AddGroupMember, CarriedOut, Seconded
  <2>2. Makes(op) = {<<"member", op.g, op.d>>} /\ RestsOn(op) = {<<"version">>}
    BY <1>0 DEF Makes, RestsOn
  <2>3. lone' = lone \ {<<"member", op.g, op.d>>, <<"version">>}
    BY <2>1, <2>2
  <2> HIDE DEF op
  <2>4. /\ \A g \in Static : g # op.g => members'[g] = members[g]
        /\ members'[op.g] = members[op.g] \cup {op.d}
    BY <1>a, <1>b, <2>1 DEF TypeInv
  <2> SUFFICES ASSUME ~raced', NEW h \in groups' PROVE Overseen(h)'
    BY Zenon DEF TwoPeople
  <2>5. h \in Groups /\ Overseen(h)
    BY <1>0, <1>a DEF TypeInv, TwoPeople
  <2>6. CASE h # op.g
    <3>1. Calm(h)
      BY <1>0, <2>3, <2>4, <2>6 DEF Calm, HasCode
    <3> QED BY <1>a, <2>5, <3>1, CalmKeeps
  <2>7. CASE h = op.g
    <3> DEFINE Alone == {d \in members[h] : <<"member", h, d>> \in lone}
               Now == {d \in members'[h] : <<"member", h, d>> \in lone'}
    <3> SUFFICES ASSUME item' # None, HasCode(h)', <<"include", h>> \in lone'
                 PROVE  Cardinality(Now) <= Threshold
      <4>1. <<"version">> \notin lone' /\ h \notin Dynamic
        BY <1>b, <2>3, <2>7, GroupsAssumption
      <4> QED BY Zenon, <4>1 DEF Overseen
    <3>1. Now \in SUBSET Alone
      BY <2>3, <2>4, <2>7
    <3>2. Alone \in SUBSET members[h] /\ h \in Static
      BY <1>b, <2>7
    <3>3. item # None /\ HasCode(h) /\ <<"include", h>> \in lone
      BY <1>0, <2>3 DEF HasCode
    <3>4. Wide(h) => Cardinality(Alone) <= Threshold
      BY Zenon, <2>5, <3>2, <3>3 DEF Overseen
    <3> HIDE DEF Now, Alone
    <3>5. /\ Cardinality(members[h]) \in Nat
          /\ IsFiniteSet(Alone) /\ Cardinality(Alone) \in Nat
          /\ Cardinality(Alone) <= Cardinality(members[h])
      BY <1>a, <3>2, MembersFinite
    <3>6. Cardinality(Alone) <= Threshold
      BY <3>2, <3>4, <3>5, ThresholdAssumption DEF Wide
    <3>7. Cardinality(Now) \in Nat /\ Cardinality(Now) <= Cardinality(Alone)
      BY <3>1, <3>5, FS_Subset, FS_CardinalityType
    <3> QED BY <3>5, <3>6, <3>7, ThresholdAssumption
  <2> QED BY <2>6, <2>7
<1>2. CASE op.g \notin groups
  BY <1>2, <1>a, SameCalm DEF ReplayGroupMember, Failed, data
<1> QED BY <1>1, <1>2

LEMMA HandleOverseen ==
    ASSUME OnceInv, TypeInv', TwoPeople, NEW p \in Admins, Handle(p)
    PROVE  TwoPeople'
<1>a. TypeInv
  BY DEF OnceInv
<1>1. CASE UpdateHeld(p)
  <2>1. UNCHANGED <<groups, assigned, members, lone, raced>> /\ (item' # None => item # None)
    BY Zenon, <1>1 DEF UpdateHeld
  <2> QED BY <1>a, <2>1, SameCalm
<1>2. CASE QueueCommands(p)
  BY Zenon, <1>2, <1>a, SameCalm DEF QueueCommands, Acting
<1>3. CASE ReplayVersion(p)
  <2>1. /\ UNCHANGED <<groups, assigned, members>> /\ lone' \subseteq lone
        /\ (raced => raced') /\ (item' # None => item # None)
    BY Zenon, <1>3 DEF ReplayVersion, Promote, CarriedOut, Failed, Seconded, data
  <2> QED BY <1>a, <2>1, SameCalm
<1>4. CASE ReplayGroupRule(p)
  <2>1. UNCHANGED data /\ lone' \subseteq lone /\ (raced => raced')
    BY Zenon, <1>4 DEF ReplayGroupRule, CarriedOut, Failed, Seconded
  <2> QED BY <1>a, <2>1, SameCalm DEF data
<1>5. CASE ReplayCommand(p)
  BY <1>5, <1>a, SameCalm DEF ReplayCommand
<1>6. CASE SetApprovalResult(p) \/ Cut(p)
  BY <1>6, <1>a, SameCalm DEF SetApprovalResult, Cut, data
<1> QED BY Zenon, <1>a, <1>1, <1>2, <1>3, <1>4, <1>5, <1>6, UpdateOverseen,
           CreateAssignmentOverseen, AddMemberOverseen, UpdateGroupOverseen,
           ReplayAssignmentOverseen, ReplayGroupMemberOverseen DEF Handle

\* One person alone never gets what reaches many devices: what runs in a dynamic
\* group, or in one over the threshold, was let through by a second person, unless
\* a request acted on a check that a concurrent one had made stale.
THEOREM SecondPerson == ASSUME NoneApart PROVE Spec => []TwoPeople
<1>1. Init => TwoPeople
  <2> SUFFICES ASSUME Init, NEW g \in groups, HasCode(g), Wide(g) PROVE Overseen(g)
    BY Zenon DEF TwoPeople, Overseen
  <2>1. assigned # {}
    BY DEF HasCode
  <2>2. lone = {}
    BY <2>1 DEF Init
  <2>3. g \in Dynamic
    BY DEF Init, HasCode
  <2> QED BY <2>2, <2>3, GroupsAssumption DEF Overseen
<1>2. ASSUME OnceInv, OnceInv', TwoPeople, [Next]_vars PROVE TwoPeople'
  <2>a. TypeInv /\ TypeInv'
    BY <1>2 DEF OnceInv
  <2>1. CASE \E p \in Admins, op \in Ops : Ask(p, op)
    <3>1. UNCHANGED <<data, lone, raced>>
      BY <2>1 DEF Ask, AskVersion, AskAssignment, AskMember, AskRule, AskCommand, Checked
    <3> QED BY <1>2, <2>a, <3>1, SameCalm DEF data
  <2>2. CASE \E p \in Admins : Handle(p)
    BY <1>2, <2>a, <2>2, HandleOverseen
  <2>3. CASE ApprovalSteps
    <3>1. UNCHANGED <<data, lone, raced>>
      BY <2>3 DEF ApprovalSteps, HoldForApproval, Decide, Lapse, ExpireApprovals
    <3> QED BY <1>2, <2>a, <3>1, SameCalm DEF data
  <2>4. CASE \/ Delete
             \/ \E g \in Groups, mode \in Modes : DeleteAssignment(g, mode)
             \/ \E g \in Static, d \in Devices : RemoveMember(g, d)
             \/ \E g \in Groups : DeleteGroup(g)
             \/ \E d \in Devices : Retire(d)
             \/ HourPasses
    BY <1>2, <2>a, <2>4, AdminEditsOverseen
  <2>5. CASE UNCHANGED vars
    BY <1>2, <2>a, <2>5, SameCalm DEF vars, data
  <2> QED BY Zenon, <1>2, <2>1, <2>2, <2>3, <2>4, <2>5 DEF Next, StepsOver
<1> QED BY <1>1, <1>2, Invariance, PTL DEF Spec

=============================================================================
