------------------------------ MODULE Members -------------------------------
(***************************************************************************)
(* Who may act: staff, the people of a client account, sign-in, sessions   *)
(* and the gates of the two planes (becca/web/auth.py, sessions.py,        *)
(* deps.py, console_plane/staff.py, console_plane/clients.py).             *)
(*                                                                         *)
(* A session is a signed cookie that names a row by id; nothing on the     *)
(* server can withdraw it, so every request derives the identity again in  *)
(* a transaction of its own, its gate, and acts in a later one. A statement*)
(* that writes is taken with its COMMIT. Ids are drawn in order and never  *)
(* used again, as UUIDs are not.                                           *)
(***************************************************************************)
EXTENDS Integers, FiniteSets

CONSTANTS
  Emails,
  Seeded,   \* addresses the configuration names as staff
  Clients,  \* client accounts that exist or may be created
  Desks,    \* requests at work at the same time
  MaxRequests \* bound: requests ever made

ASSUME MembersAssumption ==
  /\ Seeded \subseteq Emails /\ MaxRequests \in Nat /\ "none" \notin Emails \cup Clients

VARIABLES
  staff,    \* ids of becca_staff
  users,    \* ids of app_user
  person,   \* id -> the row's address, client and role
  clients,  \* client accounts
  noted,    \* telnyx_account_note.noted_by_staff_id, REFERENCES becca_staff
  cookies,  \* the sessions handed out
  work,     \* what the request at each desk is doing
  stage,    \* how far it is
  lost,     \* rows removed by others since its gate
  made      \* requests made so far

tables == <<staff, users, person, clients, noted>>
membersVars == <<tables, cookies, work, stage, lost, made>>

\* Every request creates one row at most.
Ids == 1..(4 + MaxRequests)
NoPerson == [email |-> "none", client |-> "none", role |-> "none"]
NoWork == [actor |-> 0, email |-> "none", target |-> 0, saw |-> {}]

Used == {i \in Ids : person[i] # NoPerson}
Fresh == Cardinality(Used) + 1
OwnersOf(c) == {i \in users : person[i].client = c /\ person[i].role = "owner"}
StaffRow(e) == {i \in staff : person[i].email = e}
UserRow(e) == {i \in users : person[i].email = e}

\* One client with two owners and two staff members, all signed in.
MembersInit ==
  \E mail \in [1..4 -> Emails], c \in Clients :
    /\ \A i, j \in 1..4 : i # j => mail[i] # mail[j]
    /\ staff = {1, 2} /\ users = {3, 4} /\ clients = {c}
    /\ person = [i \in Ids |->
         IF i \in 1..4 THEN [email  |-> mail[i],
                             client |-> IF i > 2 THEN c ELSE "none",
                             role   |-> IF i > 2 THEN "owner" ELSE "none"]
         ELSE NoPerson]
    /\ noted = 0
    /\ cookies = {[id |-> i, kind |-> IF i > 2 THEN "user" ELSE "staff", entered |-> "none"] :
                    i \in 1..4}
    /\ work = [d \in Desks |-> NoWork] /\ stage = [d \in Desks |-> "idle"]
    /\ lost = [d \in Desks |-> {}] /\ made = 0

Begins(d, to) ==
  /\ stage[d] = "idle" /\ stage' = [stage EXCEPT ![d] = to]
  /\ made < MaxRequests /\ made' = made + 1
Step(d, from, to) ==
  stage[d] = from /\ stage' = [stage EXCEPT ![d] = to] /\ UNCHANGED made
Ends(d, from) == Step(d, from, "idle") /\ work' = [work EXCEPT ![d] = NoWork]

Insert(e, c, r) ==
  person' = [person EXCEPT ![Fresh] = [email |-> e, client |-> c, role |-> r]]

\* The others learn nothing of a removal; lost keeps it for the properties.
Removed(d, i) == lost' = [f \in Desks |-> IF f = d THEN lost[f] ELSE lost[f] \cup {i}]

-----------------------------------------------------------------------------
(* Signing in: resolve_membership.                                         *)

SignInLook(d) ==
  /\ Begins(d, "looked")
  /\ \E e \in Emails :
       work' = [work EXCEPT ![d] = [NoWork EXCEPT !.email = e, !.saw = StaffRow(e)]]
  /\ UNCHANGED <<tables, cookies, lost>>

Grant(i, kind) == cookies' = cookies \cup {[id |-> i, kind |-> kind, entered |-> "none"]}

SignInStaff(d) ==
  /\ Ends(d, "looked")
  /\ \E i \in work[d].saw : Grant(i, "staff")
  /\ UNCHANGED <<tables, lost>>

\* A seeded address gets its row at the first sign-in; the second of two that
\* both looked too early runs into the UNIQUE address and fails.
SignInSeeded(d) ==
  LET e == work[d].email IN
  /\ Ends(d, "looked")
  /\ work[d].saw = {} /\ e \in Seeded
  /\ IF StaffRow(e) = {}
       THEN Insert(e, "none", "none") /\ staff' = staff \cup {Fresh} /\ Grant(Fresh, "staff")
       ELSE UNCHANGED <<person, staff, cookies>>
  /\ UNCHANGED <<users, clients, noted, lost>>

SignInUser(d) ==
  LET e == work[d].email IN
  /\ Ends(d, "looked")
  /\ work[d].saw = {} /\ e \notin Seeded
  /\ IF UserRow(e) = {} THEN UNCHANGED cookies
     ELSE \E i \in UserRow(e) : Grant(i, "user")
  /\ UNCHANGED <<tables, lost>>

-----------------------------------------------------------------------------
(* The gates. Mutant: the signed cookie is believed.                       *)

RowIsBelieved(c) == c.id \in Ids
RowIsThere(c) == c.id \in (IF c.kind = "staff" THEN staff ELSE users)

Admit(d, c, to) ==
  /\ Begins(d, to)
  /\ RowIsThere(c)
  /\ work' = [work EXCEPT ![d] = [NoWork EXCEPT !.actor = c.id]]
  /\ lost' = [lost EXCEPT ![d] = {}]
  /\ UNCHANGED <<tables, cookies>>

RequireStaff(d) ==
  \E c \in cookies : c.kind = "staff" /\ Admit(d, c, "staff")

\* require_owner: an owner, or staff who Entered a client that exists.
RequireOwner(d) ==
  \E c \in cookies :
    /\ IF c.kind = "staff" THEN c.entered \in clients ELSE person[c.id].role = "owner"
    /\ Admit(d, c, "owner")

\* A launch, an acknowledgement: what only an owner may do.
OwnerActs(d) == Ends(d, "owner") /\ UNCHANGED <<tables, cookies, lost>>

-----------------------------------------------------------------------------
(* Staff.                                                                  *)

AddStaff(d) ==
  /\ Ends(d, "staff")
  /\ \E e \in Emails :
       IF StaffRow(e) = {} THEN Insert(e, "none", "none") /\ staff' = staff \cup {Fresh}
       ELSE UNCHANGED <<person, staff>>
  /\ UNCHANGED <<users, clients, noted, cookies, lost>>

\* The member to remove is read first. Mutant: one may remove oneself.
RemoveAnyStaffRead(d) ==
  \E i \in staff :
    /\ Step(d, "staff", "removing")
    /\ person[i].email \notin Seeded
    /\ work' = [work EXCEPT ![d].target = i]
    /\ UNCHANGED <<tables, cookies, lost>>

RemoveStaffRead(d) ==
  \E i \in staff \ {work[d].actor} :
    /\ Step(d, "staff", "removing")
    /\ person[i].email \notin Seeded
    /\ work' = [work EXCEPT ![d].target = i]
    /\ UNCHANGED <<tables, cookies, lost>>

\* Oneself, somebody seeded, nobody.
RemoveStaffRefused(d) == Ends(d, "staff") /\ UNCHANGED <<tables, cookies, lost>>

\* The DELETE; the author of the account note is held by the foreign key. Mutant:
\* a member signed in at the moment is kept as well.
RemoveStaffSpares(d) ==
  LET i == work[d].target IN
  /\ Ends(d, "removing")
  /\ IF i = noted \/ \E f \in Desks : work[f].actor = i
       THEN UNCHANGED <<staff, lost>>
       ELSE staff' = staff \ {i} /\ Removed(d, i)
  /\ UNCHANGED <<users, person, clients, noted, cookies>>

RemoveStaffDelete(d) ==
  LET i == work[d].target IN
  /\ Ends(d, "removing")
  /\ IF i = noted THEN UNCHANGED <<staff, lost>>
     ELSE staff' = staff \ {i} /\ Removed(d, i)
  /\ UNCHANGED <<users, person, clients, noted, cookies>>

\* save_account_note; an author removed since the gate fails the foreign key.
SaveNote(d) ==
  /\ Ends(d, "staff")
  /\ noted' = IF work[d].actor \in staff THEN work[d].actor ELSE noted
  /\ UNCHANGED <<staff, users, person, clients, cookies, lost>>

-----------------------------------------------------------------------------
(* Clients and their people.                                               *)

\* The account and its owner, or neither when the address is taken.
CreateClient(d) ==
  /\ Ends(d, "staff")
  /\ \E c \in Clients \ clients, e \in Emails :
       IF UserRow(e) = {}
         THEN Insert(e, c, "owner") /\ users' = users \cup {Fresh} /\ clients' = clients \cup {c}
         ELSE UNCHANGED <<users, person, clients>>
  /\ UNCHANGED <<staff, noted, cookies, lost>>

\* Mutant: without ON CONFLICT.
AddPersonAgain(d) ==
  /\ Ends(d, "staff")
  /\ \E c \in clients, e \in Emails, r \in {"owner", "member"} :
       Insert(e, c, r) /\ users' = users \cup {Fresh}
  /\ UNCHANGED <<staff, clients, noted, cookies, lost>>

AddPerson(d) ==
  /\ Ends(d, "staff")
  /\ \E c \in clients, e \in Emails, r \in {"owner", "member"} :
       IF UserRow(e) = {} THEN Insert(e, c, r) /\ users' = users \cup {Fresh}
       ELSE UNCHANGED <<users, person>>
  /\ UNCHANGED <<staff, clients, noted, cookies, lost>>

\* The role, and for an owner the count. Mutant: the last owner passes.
RemoveLastPersonRead(d) ==
  \E i \in users :
    LET seen == IF person[i].role = "owner" THEN OwnersOf(person[i].client) ELSE {} IN
    /\ Step(d, "staff", "leaving")
    /\ person[i].role = "owner" => Cardinality(seen) > 0
    /\ work' = [work EXCEPT ![d].target = i, ![d].saw = seen]
    /\ UNCHANGED <<tables, cookies, lost>>

RemovePersonRead(d) ==
  \E i \in users :
    LET seen == IF person[i].role = "owner" THEN OwnersOf(person[i].client) ELSE {} IN
    /\ Step(d, "staff", "leaving")
    /\ person[i].role = "owner" => Cardinality(seen) > 1
    /\ work' = [work EXCEPT ![d].target = i, ![d].saw = seen]
    /\ UNCHANGED <<tables, cookies, lost>>

RemovePersonDelete(d) ==
  LET i == work[d].target IN
  /\ Ends(d, "leaving")
  /\ users' = users \ {i} /\ Removed(d, i)
  /\ UNCHANGED <<staff, person, clients, noted, cookies>>

\* The cookie of a staff member who Entered a client.
EnterClient(d) ==
  /\ Ends(d, "staff")
  /\ \E c \in clients :
       cookies' = cookies \cup {[id |-> work[d].actor, kind |-> "staff", entered |-> c]}
  /\ UNCHANGED <<tables, lost>>

MembersNext ==
  \E d \in Desks :
    \/ SignInLook(d) \/ SignInStaff(d) \/ SignInSeeded(d) \/ SignInUser(d)
    \/ RequireStaff(d) \/ RequireOwner(d) \/ OwnerActs(d)
    \/ AddStaff(d) \/ RemoveStaffRead(d) \/ RemoveStaffRefused(d) \/ RemoveStaffDelete(d)
    \/ SaveNote(d)
    \/ CreateClient(d) \/ AddPerson(d) \/ RemovePersonRead(d) \/ RemovePersonDelete(d)
    \/ EnterClient(d)

MembersSpec == MembersInit /\ [][MembersNext]_membersVars

-----------------------------------------------------------------------------
(* Properties.                                                             *)

\* Type correctness; an address is one staff member and one person at most, and
\* the note's author has a row.
MembersTypeOK ==
  /\ staff \subseteq Ids /\ users \subseteq Ids /\ staff \cap users = {}
  /\ clients \subseteq Clients /\ noted \in staff \cup {0}
  /\ person \in [Ids -> [email : Emails \cup {"none"}, client : Clients \cup {"none"},
                         role : {"owner", "member", "none"}]]
  /\ cookies \subseteq [id : Ids, kind : {"staff", "user"}, entered : Clients \cup {"none"}]
  /\ work \in [Desks -> [actor : Ids \cup {0}, email : Emails \cup {"none"},
                         target : Ids \cup {0}, saw : SUBSET Ids]]
  /\ stage \in [Desks -> {"idle", "looked", "staff", "owner", "removing", "leaving"}]
  /\ lost \in [Desks -> SUBSET Ids]
  /\ \A e \in Emails : Cardinality(StaffRow(e)) <= 1 /\ Cardinality(UserRow(e)) <= 1

\* "Never leaves the account ownerless": an account loses its last owner only to
\* two removals that counted each other's owner.
OwnerlessOnlyIfMissed ==
  \A d \in Desks : stage[d] = "leaving" /\ stage'[d] = "idle" =>
    \A c \in clients :
      OwnersOf(c) # {} /\ OwnersOf(c)' = {} =>
        \E o \in work[d].saw \ {work[d].target} : o \in lost[d]

\* "Locking yourself out is never what was meant": the last staff member is removed
\* only by a request whose own author was removed after its gate.
StafflessOnlyIfMissed ==
  \A d \in Desks : staff # {} /\ staff' = {} /\ stage[d] = "removing" /\ stage'[d] = "idle"
    => work[d].actor \in lost[d]

\* "A removed membership refuses the next request", though its cookies stay valid:
\* who acts has a row, or lost it after the gate of this very request.
RemovedOnlyFinishes ==
  \A d \in Desks :
    stage[d] \in {"staff", "owner", "removing", "leaving"} /\ stage'[d] = "idle"
    => work[d].actor \in staff \cup users \cup lost[d]

\* A staff removal that was not refused removes: it leaves the member in place
\* only when the account note still names them.
RemovedUnlessNoted ==
  \A d \in Desks : stage[d] = "removing" /\ stage'[d] = "idle" =>
    work[d].target \notin staff' \/ noted = work[d].target

\* Removals lock nobody out and let nobody stay: owners and staff remain, removed
\* members are refused, removals remove, but for what a request already past its gate
\* or its count could not see.
RemovalsUnlessMissed ==
  [][/\ OwnerlessOnlyIfMissed /\ StafflessOnlyIfMissed
     /\ RemovedOnlyFinishes /\ RemovedUnlessNoted]_membersVars
=============================================================================
