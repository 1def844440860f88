------------------------------ MODULE Workspaces ------------------------------
(***************************************************************************)
(* Businesses, their owners and members, and the roles of users.            *)
(* Ownership is in three places: the owner of a business, the role of a       *)
(* membership and the role of a user, which for whoever owns something is     *)
(* "stuff", or "owner" in version 1 of the endpoints, served beside version  *)
(* 2 on the same tables.  A request reads what it checks and commits what it *)
(* changes, with nothing to keep others off in between.  Who asks is left     *)
(* out: a superuser may ask for all of it.  A business that exists is one of *)
(* Businesses with a status; a user who is registered has a role.           *)
(***************************************************************************)
EXTENDS Integers, FiniteSets, Orm

CONSTANTS
  Threads,
  Users,
  Businesses,
  Limits,       \* values of max_users
  MaxRequests,  \* bound: requests that begin
  None

(* Assumed of the constants wherever the module is instantiated.            *)
ConstantsOK ==
  /\ Limits \subseteq Nat \ {0}
  /\ IsFiniteSet(Users) /\ IsFiniteSet(Threads) /\ Threads # {}
  /\ None \notin Users \cup Businesses \cup Limits

VARIABLES
  role,       \* users: "none" before they are registered
  status,     \* businesses: "none" before they are created
  owner,      \* businesses: owner_user_id
  limit,      \* businesses: max_users of their settings, or None
  member,     \* the memberships, by business and user
  req,        \* what each thread is doing, with its local variables
  begun,      \* history: how many requests have begun
  raced,      \* history: users and businesses of requests that overlapped
  unchecked,  \* history: businesses whose members or limit changed unchecked
  gave,       \* history: users who have transferred a business
  legacy      \* history: businesses and users that version 1 set apart

vars == <<role, status, owner, limit, member, req, begun, raced, unchecked, gave, legacy>>

-----------------------------------------------------------------------------
(* "admin" stands for the four roles that can be given, "inactive" for what   *)
(* is not active.  Version 1 gives users the roles of members, and members   *)
(* the role owner too.                                                      *)
ASSIGNABLE_MEMBER_ROLES == {"admin"}
VALID_MEMBER_ROLES == {"owner", "admin"}
USER_ROLES == {"superuser", "stuff", "general"} \cup VALID_MEMBER_ROLES
VALID_MEMBER_STATUSES == {"active", "inactive"}
VALID_BUSINESS_STATUSES == {"active", "inactive", "deleted"}

NoMember == [role |-> "none", status |-> "none"]
Member(r, s) == [role |-> r, status |-> s]
NewMembers == [role : ASSIGNABLE_MEMBER_ROLES, status : VALID_MEMBER_STATUSES]

Idle == [pc |-> "idle", b |-> None, u |-> None, prev |-> None, demote |-> "none",
         row |-> NoMember, prevRow |-> NoMember, new |-> NoMember, from |-> None, to |-> None]

IsMember(b, u) == member[b][u] # NoMember
ActiveUsers(b) == {u \in Users : member[b][u].status = "active"}

(* The requests that found room for a user of the business, and add one.     *)
Joining(b) == {t \in Threads : req[t].pc = "user" /\ req[t].b = b}

(* require_business_access: nothing is done in a business but an active one. *)
Accessible(b) == status[b] = "active"

Owned(u) == {b \in Businesses : owner[b] = u /\ status[b] # "deleted"}

(* Rows as sequences of requests leave them that never overlap: the states   *)
(* a deployment is found in.                                                *)
Settled ==
  /\ \A b \in Businesses, u \in Users :
       /\ owner[b] = u =>
            role[u] \in {"stuff", "owner"} /\ member[b][u] = Member("owner", "active")
       /\ member[b][u].role = "owner" => owner[b] = u
       /\ IsMember(b, u) => status[b] # "none" /\ role[u] \notin {"none", "superuser"}
  /\ \A b \in Businesses : status[b] = "none" => owner[b] = None

Init ==
  /\ role \in [Users -> {"none"} \cup USER_ROLES]
  /\ status \in [Businesses -> {"none", "active"}]
  /\ owner \in [Businesses -> Users \cup {None}]
  /\ limit = [b \in Businesses |-> None]
  /\ member \in [Businesses -> [Users ->
       {NoMember, Member("owner", "active"), Member("admin", "active")}]]
  /\ Settled
  /\ req = [t \in Threads |-> Idle]
  /\ begun = 0
  /\ raced = {}
  /\ unchecked = {}
  /\ gave = {}
  /\ legacy = {}

(* What a request is about: requests that share some of it race.             *)
About(r) == {r.b, r.u, r.prev} \ {None}

Begin(t, r, pc) ==
  LET others == {u \in Threads : req[u].pc # "idle" /\ About(req[u]) \cap About(r) # {}} IN
  /\ req[t].pc = "idle"
  /\ begun < MaxRequests
  /\ begun' = begun + 1
  /\ req' = [req EXCEPT ![t] = [r EXCEPT !.pc = pc]]
  /\ raced' = raced \cup UNION {About(req[u]) \cup About(r) : u \in others}
  /\ UNCHANGED <<role, status, owner, limit, member, unchecked, gave, legacy>>

End(t) ==
  /\ req' = [req EXCEPT ![t] = Idle]
  /\ UNCHANGED <<begun, raced>>

-----------------------------------------------------------------------------
(* Users and businesses *)

(* Whoever registers is one of the stuff or general; a superuser is made once *)
(* or by another.                                                           *)
RegisterUser(u) ==
  \E r \in {"superuser", "stuff", "general"} :
    /\ role[u] = "none"
    /\ \A t \in Threads : req[t].u # u
    /\ begun < MaxRequests
    /\ begun' = begun + 1
    /\ role' = [role EXCEPT ![u] = r]
    /\ UNCHANGED <<status, owner, limit, member, req, raced, unchecked, gave, legacy>>

(* Slip: one more than the limit.                                           *)
CanAddOneMore(b) == limit[b] # None => Cardinality(ActiveUsers(b)) <= limit[b]

CanAddUserToBusiness(b) == limit[b] # None => Cardinality(ActiveUsers(b)) < limit[b]

(* A general user, with a membership.                                       *)
CreateUserByActor(t, b, u) ==
  \E r \in ASSIGNABLE_MEMBER_ROLES :
    /\ role[u] = "none"
    /\ status[b] \in {"active", "inactive"}
    /\ CanAddUserToBusiness(b)
    /\ Begin(t, [Idle EXCEPT !.b = b, !.u = u, !.new = Member(r, "active"), !.to = "general"],
             "user")

(* The e-mail address is unique.                                            *)
SaveUser(t) ==
  LET r == req[t] IN
  /\ r.pc = "user"
  /\ role[r.u] = "none"
  /\ role' = [role EXCEPT ![r.u] = r.to]
  /\ member' = [member EXCEPT ![r.b][r.u] = r.new]
  /\ legacy' = IF r.new.role = "owner" THEN legacy \cup {r.b} ELSE legacy
  /\ End(t)
  /\ UNCHANGED <<status, owner, limit, unchecked, gave>>

(* By one of the stuff, or by a superuser for nobody.                        *)
CreateBusiness(t, b) ==
  \E u \in Users \cup {None} :
    /\ status[b] = "none"
    /\ u # None => role[u] = "stuff"
    /\ Begin(t, [Idle EXCEPT !.b = b, !.u = u, !.new =
                    IF u = None THEN NoMember ELSE Member("owner", "active")], "business")

(* The slug is unique.                                                      *)
SaveBusiness(t) ==
  LET r == req[t] IN
  /\ r.pc = "business"
  /\ status[r.b] = "none"
  /\ status' = [status EXCEPT ![r.b] = "active"]
  /\ owner' = [owner EXCEPT ![r.b] = r.u]
  /\ member' = IF r.new = NoMember THEN member ELSE [member EXCEPT ![r.b][r.u] = r.new]
  /\ legacy' = IF r.u # None /\ r.new = NoMember THEN legacy \cup {r.b} ELSE legacy
  /\ End(t)
  /\ UNCHANGED <<role, limit, unchecked, gave>>

(* PATCH with a status, or DELETE.                                          *)
UpdateBusiness(t, b) ==
  \E s \in VALID_BUSINESS_STATUSES :
    /\ Accessible(b)
    /\ Begin(t, [Idle EXCEPT !.b = b, !.from = status[b], !.to = s], "status")

SaveStatus(t) ==
  LET r == req[t] IN
  /\ r.pc = "status"
  /\ status' = [status EXCEPT ![r.b] = IF r.to # r.from THEN r.to ELSE @]
  /\ End(t)
  /\ UNCHANGED <<role, owner, limit, member, unchecked, gave, legacy>>

UpdateBusinessSettings(b) ==
  \E n \in Limits \cup {None} :
    /\ Accessible(b)
    /\ begun < MaxRequests
    /\ begun' = begun + 1
    /\ limit' = [limit EXCEPT ![b] = n]
    /\ unchecked' = IF n = None THEN unchecked
                    ELSE IF Cardinality(ActiveUsers(b)) + Cardinality(Joining(b)) > n
                      THEN unchecked \cup {b} ELSE unchecked
    /\ raced' = IF \E t \in Threads : req[t].b = b THEN raced \cup {b} ELSE raced
    /\ UNCHANGED <<role, status, owner, member, req, gave, legacy>>

-----------------------------------------------------------------------------
(* Memberships *)

AddMember(t, b, u) ==
  \E new \in NewMembers :
    /\ Accessible(b)
    /\ role[u] \notin {"none", "superuser"}
    /\ ~ IsMember(b, u)
    /\ Begin(t, [Idle EXCEPT !.b = b, !.u = u, !.row = member[b][u], !.new = new], "member")

UpdateMember(t, b, u) ==
  \E r \in ASSIGNABLE_MEMBER_ROLES \cup {member[b][u].role} : \E s \in VALID_MEMBER_STATUSES :
    /\ Accessible(b)
    /\ IsMember(b, u)
    /\ member[b][u].role = "owner" => r = "owner"
    /\ Begin(t, [Idle EXCEPT !.b = b, !.u = u, !.row = member[b][u], !.new = Member(r, s)], "member")

(* POST /users/<id>/membership: of any business, whatever its status.        *)
AssignGeneralMembership(t, b, u) ==
  \E new \in NewMembers :
    /\ status[b] # "none"
    /\ role[u] = "general"
    /\ Begin(t, [Idle EXCEPT !.b = b, !.u = u, !.row = member[b][u], !.new = new], "member")

(* A row is inserted where there is none, as one pair has one row; where one  *)
(* was read its columns are written.                                        *)
SaveMember(t) ==
  LET r == req[t]
      row == Written(member[r.b][r.u], r.row, r.new)
  IN
  /\ r.pc = "member"
  /\ IsMember(r.b, r.u) <=> r.row # NoMember
  /\ member' = [member EXCEPT ![r.b][r.u] = row]
  /\ unchecked' = IF row.status = "active" /\ member[r.b][r.u].status # "active"
                    THEN unchecked \cup {r.b} ELSE unchecked
  /\ legacy' = IF r.new.role = "owner" /\ owner[r.b] # r.u THEN legacy \cup {r.b} ELSE legacy
  /\ End(t)
  /\ UNCHANGED <<role, status, owner, limit, gave>>

RemoveMember(t, b, u) ==
  /\ Accessible(b)
  /\ IsMember(b, u)
  /\ owner[b] # u
  /\ Begin(t, [Idle EXCEPT !.b = b, !.u = u], "remove")

RemoveGeneralMembership(t, b, u) ==
  /\ role[u] = "general"
  /\ IsMember(b, u)
  /\ Begin(t, [Idle EXCEPT !.b = b, !.u = u], "remove")

SaveRemoval(t) ==
  LET r == req[t] IN
  /\ r.pc = "remove"
  /\ member' = [member EXCEPT ![r.b][r.u] = NoMember]
  /\ End(t)
  /\ UNCHANGED <<role, status, owner, limit, unchecked, gave, legacy>>

-----------------------------------------------------------------------------
(* POST /<id>/transfer-ownership *)

(* All rows are read first: what the previous owner still owns, too.         *)
BeginTransfer(t, b, u, new, to, demote) ==
  LET p == owner[b] IN
  Begin(t, [Idle EXCEPT !.b = b, !.u = u, !.row = member[b][u], !.new = new, !.to = to,
                        !.prev = IF p = u THEN None ELSE p,
                        !.prevRow = IF p \in {u, None} THEN NoMember ELSE member[b][p],
                        !.demote = IF p \in {u, None} THEN "none" ELSE demote], "transfer")

TransferOwnership(t, b, u) ==
  /\ Accessible(b)
  /\ member[b][u].status = "active"
  /\ role[u] # "superuser"
  /\ BeginTransfer(t, b, u, Member("owner", "active"), "stuff",
                   IF Owned(owner[b]) \subseteq {b} THEN "general" ELSE "none")

(* Slip: the previous owner keeps the role.                                 *)
SaveTransferAndRole(t) ==
  LET r == req[t]
      members == [member EXCEPT ![r.b][r.u] = Written(@, r.row, r.new)]
  IN
  /\ r.pc = "transfer"
  /\ IsMember(r.b, r.u)
  /\ owner' = [owner EXCEPT ![r.b] = r.u]
  /\ role' = [role EXCEPT ![r.u] = r.to]
  /\ member' = IF r.prevRow = NoMember THEN members
               ELSE [members EXCEPT ![r.b][r.prev] = Written(@, r.prevRow, [r.prevRow EXCEPT !.role = "admin"])]
  /\ gave' = gave \cup {r.prev}
  /\ End(t)
  /\ UNCHANGED <<status, limit, unchecked, legacy>>

(* A row that has been deleted meanwhile makes the commit fail.              *)
SaveTransfer(t) ==
  LET r == req[t]
      demoted == IF r.demote = "none" THEN {} ELSE {r.prev}
      members == [member EXCEPT ![r.b][r.u] = Written(@, r.row, r.new)]
  IN
  /\ r.pc = "transfer"
  /\ IsMember(r.b, r.u)
  /\ r.prevRow # NoMember => IsMember(r.b, r.prev)
  /\ owner' = [owner EXCEPT ![r.b] = r.u]
  /\ role' = [u \in Users |-> IF u = r.u THEN r.to ELSE IF u \in demoted THEN r.demote ELSE role[u]]
  /\ member' = IF r.prevRow = NoMember THEN members
               ELSE [members EXCEPT ![r.b][r.prev] = Written(@, r.prevRow, [r.prevRow EXCEPT !.role = "admin"])]
  /\ gave' = gave \cup {r.prev}
  /\ legacy' = IF r.demote = "admin" /\ Owned(r.prev) \ {r.b} # {}
                 THEN legacy \cup {r.prev} ELSE legacy
  /\ End(t)
  /\ UNCHANGED <<status, limit, unchecked>>

-----------------------------------------------------------------------------
(* Version 1, as far as it differs *)

(* POST /auth/register: an owner with a business.                           *)
RegisterOwner(t, b, u) ==
  /\ role[u] = "none"
  /\ status[b] = "none"
  /\ Begin(t, [Idle EXCEPT !.b = b, !.u = u], "register")

SaveOwner(t) ==
  LET r == req[t] IN
  /\ r.pc = "register"
  /\ role[r.u] = "none"
  /\ status[r.b] = "none"
  /\ role' = [role EXCEPT ![r.u] = "owner"]
  /\ status' = [status EXCEPT ![r.b] = "active"]
  /\ owner' = [owner EXCEPT ![r.b] = r.u]
  /\ member' = [member EXCEPT ![r.b][r.u] = Member("owner", "active")]
  /\ End(t)
  /\ UNCHANGED <<limit, unchecked, gave, legacy>>

(* A user with a role of members, and a membership of that role.             *)
CreateMember(t, b, u) ==
  \E r \in VALID_MEMBER_ROLES :
    /\ role[u] = "none"
    /\ status[b] # "none"
    /\ CanAddUserToBusiness(b)
    /\ Begin(t, [Idle EXCEPT !.b = b, !.u = u, !.new = Member(r, "active"), !.to = r], "user")

(* The owner is whom the request names, and no member.                      *)
CreateBusinessOf(t, b) ==
  \E u \in Users \cup {None} :
    /\ status[b] = "none"
    /\ u # None => role[u] # "none"
    /\ Begin(t, [Idle EXCEPT !.b = b, !.u = u, !.new = NoMember], "business")

AddAnyMember(t, b, u) ==
  \E r \in VALID_MEMBER_ROLES : \E s \in VALID_MEMBER_STATUSES :
    /\ Accessible(b)
    /\ role[u] # "none"
    /\ ~ IsMember(b, u)
    /\ Begin(t, [Idle EXCEPT !.b = b, !.u = u, !.row = member[b][u], !.new = Member(r, s)], "member")

(* The owner's own membership is only activated.                            *)
UpdateAnyMember(t, b, u) ==
  \E r \in VALID_MEMBER_ROLES : \E s \in VALID_MEMBER_STATUSES :
    /\ Accessible(b)
    /\ IsMember(b, u)
    /\ owner[b] = u => r = member[b][u].role /\ s \in {"active", member[b][u].status}
    /\ Begin(t, [Idle EXCEPT !.b = b, !.u = u, !.row = member[b][u], !.new = Member(r, s)], "member")

(* To any member; the previous owner is a user with the role admin from then  *)
(* on, whatever else they own.                                              *)
TransferToAnyMember(t, b, u) ==
  /\ Accessible(b)
  /\ IsMember(b, u)
  /\ BeginTransfer(t, b, u, [member[b][u] EXCEPT !.role = "owner"], "owner", "admin")

-----------------------------------------------------------------------------
(* A commit that fails, or the end of the process.                          *)
Abort(t) ==
  /\ req[t].pc # "idle"
  /\ End(t)
  /\ UNCHANGED <<role, status, owner, limit, member, unchecked, gave, legacy>>

Next ==
  \/ \E u \in Users : RegisterUser(u)
  \/ \E b \in Businesses : UpdateBusinessSettings(b)
  \/ \E t \in Threads :
       \/ \E b \in Businesses : CreateBusiness(t, b) \/ UpdateBusiness(t, b) \/ CreateBusinessOf(t, b)
       \/ \E b \in Businesses, u \in Users :
            \/ CreateUserByActor(t, b, u)
            \/ AddMember(t, b, u) \/ UpdateMember(t, b, u) \/ RemoveMember(t, b, u)
            \/ AssignGeneralMembership(t, b, u) \/ RemoveGeneralMembership(t, b, u)
            \/ TransferOwnership(t, b, u)
            \/ RegisterOwner(t, b, u) \/ CreateMember(t, b, u)
            \/ AddAnyMember(t, b, u) \/ UpdateAnyMember(t, b, u)
            \/ TransferToAnyMember(t, b, u)
       \/ SaveUser(t) \/ SaveBusiness(t) \/ SaveStatus(t) \/ SaveOwner(t)
       \/ SaveMember(t) \/ SaveRemoval(t) \/ SaveTransfer(t) \/ Abort(t)

Spec == Init /\ [][Next]_vars

-----------------------------------------------------------------------------
(* Rows have their types; members are users of businesses.                   *)
TypeOK ==
  /\ role \in [Users -> {"none"} \cup USER_ROLES]
  /\ status \in [Businesses -> {"none"} \cup VALID_BUSINESS_STATUSES]
  /\ owner \in [Businesses -> Users \cup {None}]
  /\ limit \in [Businesses -> Limits \cup {None}]
  /\ \A b \in Businesses, u \in Users :
       IsMember(b, u) =>
         /\ member[b][u].role \in VALID_MEMBER_ROLES
         /\ member[b][u].status \in VALID_MEMBER_STATUSES
         /\ status[b] # "none" /\ role[u] # "none"

(* The owner of a business that is not deleted has the membership with the   *)
(* role owner, and nobody else has, unless requests overlapped, or version 1 *)
(* made a business with an owner or gave that role to somebody else.         *)
OwnerIsTheOwner ==
  \A b \in Businesses \ (raced \cup legacy) : status[b] \notin {"none", "deleted"} =>
    \A u \in Users : member[b][u].role = "owner" <=> owner[b] = u

(* Whoever owns a business that is not deleted is one of the stuff or an      *)
(* owner, or was made an admin by a transfer of version 1 of another of       *)
(* theirs; businesses excepted as above.                                    *)
OwnersAreStuff ==
  \A b \in Businesses \ (raced \cup legacy) : \A u \in Users :
    owner[b] = u /\ status[b] # "deleted" =>
      role[u] \in {"stuff", "owner"} \/ (u \in legacy /\ role[u] = "admin")

(* Whoever has given a business away and is still one of the stuff, or an     *)
(* owner, owns another, or did until it was deleted, unless requests         *)
(* overlapped.                                                              *)
GiversAreDemoted ==
  \A u \in gave \ (raced \cup {None}) :
    role[u] \in {"stuff", "owner"} => \E b \in Businesses : owner[b] = u

(* A business has no more active members than its limit, unless members were *)
(* added or activated otherwise, or the limit was set below those there are   *)
(* or about to be; where requests overlap it may have one more for each      *)
(* request that found room beside another.                                  *)
LimitIsKept ==
  \A b \in Businesses \ unchecked : limit[b] # None =>
    /\ Cardinality(ActiveUsers(b)) < limit[b] + Cardinality(Threads)
    /\ b \notin raced => Cardinality(ActiveUsers(b)) <= limit[b]

(* The three places that say who owns a business agree: its row, the        *)
(* memberships and the roles of the users, those who gave one away          *)
(* included; version 1 sets them apart only where it is told to.             *)
OwnershipIsOne == TypeOK /\ OwnerIsTheOwner /\ OwnersAreStuff /\ GiversAreDemoted
=============================================================================
