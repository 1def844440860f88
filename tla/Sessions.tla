------------------------------- MODULE Sessions -------------------------------
(***************************************************************************)
(* The sessions of one user: logging in, the refresh tokens that keep a       *)
(* session going, each good for one use, and logging out; and the list of     *)
(* failed logins, kept in the memory of the process, that limits how often    *)
(* a password can be tried.  A request reads a token, or the list, and        *)
(* writes it back later, with nothing to keep others off in between.          *)
(***************************************************************************)
EXTENDS Integers, FiniteSets

CONSTANTS
  Threads,
  Ids,         \* rows of refresh_tokens
  MaxLogins,   \* bound: login requests
  MaxTime,     \* bound: the time
  Window,      \* LOGIN_RATE_LIMIT_WINDOW_MINUTES
  MaxAttempts, \* LOGIN_MAX_FAILED_ATTEMPTS
  None

ASSUME SessionsAssumption ==
  /\ Window \in Nat /\ MaxTime \in Nat /\ MaxLogins \in Nat
  /\ MaxAttempts \in Nat \ {0}
  /\ None \notin Ids
  /\ IsFiniteSet(Threads) /\ IsFiniteSet(Ids)

VARIABLES
  token,      \* the rows of refresh_tokens
  attempts,   \* FAILED_LOGIN_ATTEMPTS of the user's address: the list, as a set
  now,
  req,        \* what each thread is doing, with its local variables
  logins,     \* history: how many login requests have begun
  raced,      \* history: sessions of which requests overlapped
  ended,      \* history: sessions that were logged out of
  overlapped, \* history: whether login requests overlapped in this process
  failed      \* history: wrong passwords since the last login or restart

vars == <<token, attempts, now, req, logins, raced, ended, overlapped, failed>>
limiter == <<attempts, now, logins, overlapped, failed>>
tokens == <<token, raced, ended>>

-----------------------------------------------------------------------------
(* The session of a token is named by the token of its login, and the parent  *)
(* is the token it was refreshed from.                                       *)
NoToken == [session |-> None, parent |-> None, status |-> "none"]
Token(s, p) == [session |-> s, parent |-> p, status |-> "live"]

Idle == [pc |-> "idle", token |-> None, login |-> 0, list |-> {}, at |-> 0]

(* A failed login: when, and of which request, so that each is one of its    *)
(* own.  The order of the list is nothing to those who read it.             *)
Failure(time, login) == [at |-> time, login |-> login]

Issued(k) == token[k] # NoToken
OfSession(s) == {k \in Ids : Issued(k) /\ token[k].session = s}

(* _cleanup_old_login_attempts, of what is in the list.                      *)
Recent(list, time) == {f \in list : time - f.at <= Window}

Init ==
  /\ token = [k \in Ids |-> NoToken]
  /\ attempts = {}
  /\ now = 0
  /\ req = [t \in Threads |-> Idle]
  /\ logins = 0
  /\ raced = {}
  /\ ended = {}
  /\ overlapped = FALSE
  /\ failed = {}

Set(t, r) == req' = [req EXCEPT ![t] = r]

-----------------------------------------------------------------------------
(* POST /login *)

LoggingIn == {t \in Threads : req[t].pc \in {"check", "password", "failed", "append", "success"}}

(* _is_login_rate_limited reads the list ...                                 *)
BeginLogin(t) ==
  /\ req[t].pc = "idle"
  /\ logins < MaxLogins
  /\ logins' = logins + 1
  /\ overlapped' = (overlapped \/ LoggingIn # {})
  /\ Set(t, [Idle EXCEPT !.pc = "check", !.login = logins', !.list = Recent(attempts, now)])
  /\ UNCHANGED <<attempts, now, failed, tokens>>

(* Slip: one attempt too many is let through.                                *)
IsLimitedLate(list) == Cardinality(list) > MaxAttempts

IsLimited(list) == Cardinality(list) >= MaxAttempts

(* ... and puts what is left of it back.                                     *)
CheckLimit(t) ==
  /\ req[t].pc = "check"
  /\ attempts' = req[t].list
  /\ Set(t, IF IsLimited(req[t].list) THEN Idle
            ELSE [Idle EXCEPT !.pc = "password", !.login = req[t].login])
  /\ UNCHANGED <<now, logins, overlapped, failed, tokens>>

(* _register_failed_login: the same once more ...                            *)
WrongPassword(t) ==
  /\ req[t].pc = "password"
  /\ Set(t, [req[t] EXCEPT !.pc = "failed", !.list = Recent(attempts, now), !.at = now])
  /\ UNCHANGED <<limiter, tokens>>

CleanUp(t) ==
  /\ req[t].pc = "failed"
  /\ attempts' = req[t].list
  /\ Set(t, [req[t] EXCEPT !.pc = "append"])
  /\ UNCHANGED <<now, logins, overlapped, failed, tokens>>

(* ... and the list with the failure takes the place of what is there.       *)
RegisterFailure(t) ==
  /\ req[t].pc = "append"
  /\ attempts' = req[t].list \cup {Failure(req[t].at, req[t].login)}
  /\ failed' = failed \cup {Failure(req[t].at, req[t].login)}
  /\ Set(t, Idle)
  /\ UNCHANGED <<now, logins, overlapped, tokens>>

RightPassword(t) ==
  \E k \in Ids :
    /\ req[t].pc = "password"
    /\ ~ Issued(k)
    /\ token' = [token EXCEPT ![k] = Token(k, None)]
    /\ Set(t, [Idle EXCEPT !.pc = "success"])
    /\ UNCHANGED <<limiter, raced, ended>>

(* After the commit, the failures are forgotten.                             *)
PopAttempts(t) ==
  /\ req[t].pc = "success"
  /\ attempts' = {}
  /\ failed' = {}
  /\ Set(t, Idle)
  /\ UNCHANGED <<now, logins, overlapped, tokens>>

-----------------------------------------------------------------------------
(* POST /refresh and POST /logout *)

Begin(t, k, pc) ==
  LET s == token[k].session
      others == {u \in Threads : req[u].token \in OfSession(s)}
  IN
  /\ req[t].pc = "idle"
  /\ Set(t, [Idle EXCEPT !.pc = pc, !.token = k])
  /\ raced' = IF others = {} THEN raced ELSE raced \cup {s}
  /\ UNCHANGED <<limiter, token, ended>>

BeginRefresh(t, k) ==
  /\ token[k].status = "live"
  /\ Begin(t, k, "refresh")

(* One commit revokes the token, whatever it is by now, and inserts the next. *)
Refresh(t) ==
  LET k == req[t].token IN
  \E j \in Ids :
    /\ req[t].pc = "refresh"
    /\ ~ Issued(j)
    /\ token' = [token EXCEPT ![k].status = "revoked", ![j] = Token(token[k].session, k)]
    /\ Set(t, Idle)
    /\ UNCHANGED <<limiter, raced, ended>>

BeginLogout(t, k) ==
  /\ token[k].status \in {"live", "expired"}
  /\ Begin(t, k, "logout")

(* Slip: logging out is noted, and the token left.                           *)
LogoutOnly(t) ==
  LET k == req[t].token IN
  /\ req[t].pc = "logout"
  /\ ended' = ended \cup {token[k].session}
  /\ Set(t, Idle)
  /\ UNCHANGED <<limiter, token, raced>>

Logout(t) ==
  LET k == req[t].token IN
  /\ req[t].pc = "logout"
  /\ token' = [token EXCEPT ![k].status = "revoked"]
  /\ ended' = ended \cup {token[k].session}
  /\ Set(t, Idle)
  /\ UNCHANGED <<limiter, raced>>

-----------------------------------------------------------------------------
(* A commit that fails, or a login refused after the password was right:      *)
(* nothing is written.                                                       *)
Abort(t) ==
  /\ req[t].pc \in {"password", "refresh", "logout"}
  /\ Set(t, Idle)
  /\ UNCHANGED <<limiter, tokens>>

Expire(k) ==
  /\ token[k].status = "live"
  /\ token' = [token EXCEPT ![k].status = "expired"]
  /\ UNCHANGED <<limiter, req, raced, ended>>

Tick ==
  /\ now < MaxTime
  /\ now' = now + 1
  /\ UNCHANGED <<attempts, logins, overlapped, failed, req, tokens>>

(* The process ends, and another starts with no failures.                    *)
Restart ==
  /\ attempts' = {}
  /\ failed' = {}
  /\ overlapped' = FALSE
  /\ req' = [t \in Threads |-> Idle]
  /\ UNCHANGED <<now, logins, tokens>>

Next ==
  \/ \E t \in Threads :
       \/ BeginLogin(t) \/ CheckLimit(t) \/ WrongPassword(t) \/ CleanUp(t)
       \/ RegisterFailure(t) \/ RightPassword(t) \/ PopAttempts(t)
       \/ \E k \in Ids : BeginRefresh(t, k) \/ BeginLogout(t, k)
       \/ Refresh(t) \/ Logout(t) \/ Abort(t)
  \/ \E k \in Ids : Expire(k)
  \/ Tick
  \/ Restart

Spec == Init /\ [][Next]_vars

-----------------------------------------------------------------------------
(* Tokens and requests have their types, and a token comes from a revoked one *)
(* of its session, or names its session.                                     *)
TypeOK ==
  /\ \A k \in Ids : Issued(k) =>
       /\ token[k].status \in {"live", "expired", "revoked"}
       /\ token[k].session \in Ids
       /\ IF token[k].parent = None THEN token[k].session = k
          ELSE /\ token[token[k].parent].session = token[k].session
               /\ token[token[k].parent].status = "revoked"
  /\ \A t \in Threads : req[t].pc \in {"refresh", "logout"} <=> req[t].token # None

(* A session has one token that is not revoked at most, unless requests about *)
(* the session overlapped.                                                  *)
OneTokenIsGood ==
  \A s \in Ids \ raced : \A j, k \in OfSession(s) :
    token[j].status # "revoked" /\ token[k].status # "revoked" => j = k

(* Logging out ends a session, unless a request overlapped that can then      *)
(* refresh it.                                                              *)
LogoutEnds ==
  \A s \in ended \ raced : \A k \in OfSession(s) : token[k].status = "revoked"

(* However requests overlap, a token is used by those only that read it       *)
(* before the first use was committed: no more often than there are threads. *)
UsesAreBounded ==
  \A k \in Ids :
    Cardinality({j \in Ids : Issued(j) /\ token[j].parent = k}) <= Cardinality(Threads)

(* No more wrong passwords are looked at within the window than the limit,    *)
(* unless login requests overlapped: then one puts the list back without the *)
(* failures of another.                                                      *)
TriesAreLimited == ~ overlapped => Cardinality(Recent(failed, now)) <= MaxAttempts

(* What the list holds are the recent failures since the last login, unless   *)
(* login requests overlapped: nobody is refused for what has been forgiven.  *)
ListIsExact == ~ overlapped => Recent(attempts, now) = Recent(failed, now)

(* A session is one chain of tokens, of which the last is good until it is  *)
(* logged out; requests that overlap may fork it, but no further than there *)
(* are threads.                                                             *)
SessionsHold == TypeOK /\ OneTokenIsGood /\ LogoutEnds /\ UsesAreBounded

(* Wrong passwords are counted, no more and no less, unless login requests  *)
(* overlapped.                                                              *)
TriesAreCounted ==
  /\ attempts \cup failed \subseteq [at : 0 .. now, login : 1 .. logins]
  /\ TriesAreLimited /\ ListIsExact
=============================================================================
