---------------------------- MODULE AccessTokens ----------------------------
(***************************************************************************)
(* The access tokens of businesses: members with the permission create,     *)
(* revoke and delete them, and programs make requests with them.  A request *)
(* of a member is let in by a permission in the business it names, or else  *)
(* in the one the member joined first; what the service then does is        *)
(* decided by memberships it reads anew.  A request with a token is let in  *)
(* by the token as it was read, and served once its use is recorded.        *)
(***************************************************************************)
EXTENDS Integers, Sequences, SequencesExt

CONSTANTS
  Threads,
  Keys,         \* rows of business_access_tokens
  Old,          \* those there are at first, of the business First
  Users,
  Stuff,        \* users with the platform role "stuff"; the others are general
  Businesses,
  First,        \* the business everyone joined first, and manages
  Second,       \* the business the stuff users only view
  MaxRequests,  \* bound: requests
  MaxChanges,   \* bound: changes of memberships
  None

ConstantsOK ==
  /\ Stuff \subseteq Users /\ Old \subseteq Keys
  /\ IsFiniteSet(Threads)
  /\ First \in Businesses /\ Second \in Businesses \ {First}
  /\ None \notin Keys \cup Users \cup Businesses
  /\ MaxRequests \in Nat /\ MaxChanges \in Nat

VARIABLES
  key,       \* the rows of business_access_tokens
  joined,    \* [Users -> active memberships, in the order of joining]
  open,      \* businesses that are active
  req,       \* what each thread is doing, with its local variables
  requests,  \* history: how many requests have begun
  changes,   \* history: how many memberships have changed
  late       \* history: requests served with a token that was void by then

vars == <<key, joined, open, req, requests, changes, late>>

-----------------------------------------------------------------------------
NoKey ==
  [status |-> "none", business |-> None, active |-> FALSE, expired |-> FALSE, managed |-> FALSE]

(* managed: history, whether the creator could manage the tokens of the       *)
(* business when the row was inserted, or memberships changed meanwhile.     *)
NewKey(b, m) ==
  [status |-> "row", business |-> b, active |-> TRUE, expired |-> FALSE, managed |-> m]

Idle == [pc |-> "idle", user |-> None, key |-> None, business |-> None, since |-> 0, todo |-> None]

Member(b, role) == [business |-> b, role |-> role]

Init ==
  /\ key = [k \in Keys |-> IF k \in Old THEN NewKey(First, TRUE) ELSE NoKey]
  /\ joined = [u \in Users |-> <<Member(First, "manager")>> \o
                 IF u \in Stuff THEN <<Member(Second, "viewer")>> ELSE <<>>]
  /\ open = Businesses
  /\ req = [t \in Threads |-> Idle]
  /\ requests = 0
  /\ changes = 0
  /\ late = [k \in Keys |-> 0]

RoleAmong(memberships, b) ==
  LET found == SelectSeq(memberships, LAMBDA m : m.business = b)
  IN  IF found = <<>> THEN "none" ELSE found[1].role

RoleIn(u, b) == RoleAmong(joined[u], b)

(* get_primary_business_id                                                  *)
Primary(u) == IF joined[u] = <<>> THEN None ELSE joined[u][1].business

(* Slip: the permission is looked for where the user joined first.          *)
PermittedAtHome(u, b) == Primary(u) # None /\ RoleIn(u, Primary(u)) = "manager"

(* require_permission("access_tokens.manage"), in the business named.       *)
Permitted(u, b) ==
  LET target == IF b = None THEN Primary(u) ELSE b
  IN  target # None /\ RoleIn(u, target) = "manager"

Set(t, r) == req' = [req EXCEPT ![t] = r]

Begin(t, r) ==
  /\ req[t].pc = "idle"
  /\ requests < MaxRequests
  /\ requests' = requests + 1
  /\ Set(t, r)
  /\ UNCHANGED <<key, joined, open, changes, late>>

Refuse(t) == Set(t, Idle) /\ UNCHANGED <<key, joined, open, requests, changes, late>>

-----------------------------------------------------------------------------
(* POST /access-tokens *)
BeginCreate(t, u, b) ==
  /\ Permitted(u, b)
  /\ Begin(t, [Idle EXCEPT !.pc = "create", !.user = u, !.business = b, !.since = changes])

(* _resolve_target_business: the business the token will be of, if any.     *)
Target(u, b) ==
  IF u \in Stuff
  THEN {x \in Businesses : /\ x = IF b = None THEN Primary(u) ELSE b
                           /\ RoleIn(u, x) # "none" \/ Primary(u) = x}
  ELSE {x \in Businesses : x = b /\ RoleIn(u, x) # "none"}

Resolve(t) ==
  LET r == req[t] IN
  /\ r.pc = "create"
  /\ IF Target(r.user, r.business) = {} THEN Set(t, Idle)
     ELSE \E b \in Target(r.user, r.business) :
            Set(t, [r EXCEPT !.pc = "insert", !.business = b])
  /\ UNCHANGED <<key, joined, open, requests, changes, late>>

Insert(t) ==
  LET r == req[t] IN
  /\ r.pc = "insert"
  /\ \E k \in Keys :
       /\ key[k] = NoKey
       /\ key' = [key EXCEPT ![k] =
                    NewKey(r.business, RoleIn(r.user, r.business) = "manager" \/ changes # r.since)]
  /\ Set(t, Idle)
  /\ UNCHANGED <<joined, open, requests, changes, late>>

-----------------------------------------------------------------------------
(* POST /access-tokens/<id>/revoke and DELETE /access-tokens/<id> *)
BeginChange(t, u, b, k, todo) ==
  /\ key[k] # NoKey
  /\ Permitted(u, b)
  /\ Begin(t, [Idle EXCEPT !.pc = "check", !.user = u, !.key = k, !.todo = todo])

(* A general user has to be a member of the business of the token; with      *)
(* others it has to be the one they joined first.                           *)
Check(t) ==
  LET r == req[t]
      b == key[r.key].business
  IN
  /\ r.pc = "check"
  /\ key[r.key].status = "row"
  /\ IF r.user \in Stuff THEN b = Primary(r.user) ELSE RoleIn(r.user, b) # "none"
  /\ Set(t, [r EXCEPT !.pc = r.todo])
  /\ UNCHANGED <<key, joined, open, requests, changes, late>>

(* An update of a row that is gone fails.                                   *)
Revoke(t) ==
  LET k == req[t].key IN
  /\ req[t].pc = "revoke"
  /\ key[k].status = "row"
  /\ key' = [key EXCEPT ![k].active = FALSE]
  /\ Set(t, Idle)
  /\ UNCHANGED <<joined, open, requests, changes, late>>

(* A deletion of one is only warned of.                                     *)
Delete(t) ==
  /\ req[t].pc = "delete"
  /\ key' = [key EXCEPT ![req[t].key].status = "deleted"]
  /\ Set(t, Idle)
  /\ UNCHANGED <<joined, open, requests, changes, late>>

-----------------------------------------------------------------------------
(* Slip: whether the token has expired is not looked at.                    *)
IsGoodOrExpired(k) ==
  key[k].status = "row" /\ key[k].active /\ key[k].business \in open

(* Of the scopes only that they do not change matters: a request asks for    *)
(* one the token has.                                                       *)
IsGood(k) ==
  key[k].status = "row" /\ key[k].active /\ ~ key[k].expired /\ key[k].business \in open

(* A request with a token is let in.                                        *)
BeginUse(t, k) ==
  /\ IsGood(k)
  /\ Begin(t, [Idle EXCEPT !.pc = "use", !.key = k])

Void(k) == ~ (key[k].active /\ ~ key[k].expired /\ key[k].business \in open)

(* last_used_at is committed, in a row that must be there; then the request  *)
(* is served.                                                               *)
Serve(t) ==
  LET k == req[t].key IN
  /\ req[t].pc = "use"
  /\ key[k].status = "row"
  /\ late' = [late EXCEPT ![k] = IF Void(k) THEN @ + 1 ELSE @]
  /\ Set(t, Idle)
  /\ UNCHANGED <<key, joined, open, requests, changes>>

-----------------------------------------------------------------------------
(* A request is refused, a commit fails, or the process ends.               *)
Abort(t) == req[t].pc # "idle" /\ Refuse(t)

Expire(k) ==
  /\ key[k].status = "row" /\ ~ key[k].expired
  /\ key' = [key EXCEPT ![k].expired = TRUE]
  /\ UNCHANGED <<joined, open, req, requests, changes, late>>

(* What Workspaces does: a business is closed for good, a membership begins, *)
(* ends or has another role.                                                *)
Close(b) ==
  /\ b \in open
  /\ open' = open \ {b}
  /\ UNCHANGED <<key, joined, req, requests, changes, late>>

ChangeMembership(u, b) ==
  /\ changes < MaxChanges
  /\ changes' = changes + 1
  /\ joined' = [joined EXCEPT ![u] =
                  IF RoleIn(u, b) = "none" THEN Append(@, Member(b, "viewer"))
                  ELSE SelectSeq(@, LAMBDA m : m.business # b)]
  /\ UNCHANGED <<key, open, req, requests, late>>

Promote(u, b) ==
  /\ changes < MaxChanges
  /\ RoleIn(u, b) = "viewer"
  /\ changes' = changes + 1
  /\ joined' = [joined EXCEPT ![u] =
                  [i \in DOMAIN @ |-> IF @[i].business = b THEN Member(b, "manager") ELSE @[i]]]
  /\ UNCHANGED <<key, open, req, requests, late>>

Next ==
  \/ \E t \in Threads :
       \/ \E u \in Users, b \in Businesses \cup {None} :
            \/ BeginCreate(t, u, b)
            \/ \E k \in Keys, todo \in {"revoke", "delete"} : BeginChange(t, u, b, k, todo)
       \/ \E k \in Keys : BeginUse(t, k)
       \/ Resolve(t) \/ Insert(t) \/ Check(t) \/ Revoke(t) \/ Delete(t) \/ Serve(t) \/ Abort(t)
  \/ \E k \in Keys : Expire(k)
  \/ \E b \in Businesses : Close(b)
  \/ \E u \in Users, b \in Businesses : ChangeMembership(u, b) \/ Promote(u, b)

Spec == Init /\ [][Next]_vars

-----------------------------------------------------------------------------
(* A token was created by someone who could manage those of its business,    *)
(* whichever business the request named and however the service found it,   *)
(* unless memberships changed while the request was served.                 *)
CreatorsManage == \A k \in Keys : key[k] # NoKey => key[k].business \in Businesses /\ key[k].managed

(* Once a token is void - revoked, expired, or of a closed business - it      *)
(* serves those requests only that had been let in before: no more than      *)
(* there are threads.                                                       *)
VoidServesFew == \A k \in Keys : late[k] <= Cardinality(Threads)
=============================================================================
