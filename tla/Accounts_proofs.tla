---------------------------- MODULE Accounts_proofs ----------------------------
(***************************************************************************)
(* Theorems about the failed logins and the refresh tokens of Sessions and    *)
(* the access tokens of AccessTokens, for any number of threads, tokens,      *)
(* logins, users and businesses.  MCSessions runs the two side by side, so   *)
(* that a behaviour of it is one of each.                                   *)
(***************************************************************************)
EXTENDS MCSessions, FiniteSetTheorems, TLAPS

-----------------------------------------------------------------------------
(* The list of failed logins                                                *)
Failures == [at : 0 .. now, login : 1 .. logins]

Steps == {"check", "password", "failed", "append", "success"}

Requests ==
  [pc : Steps \cup {"idle", "refresh", "logout"}, token : Ids \cup {None}, login : 0 .. logins,
   list : SUBSET Failures, at : 0 .. now]

LimiterTypes ==
  /\ now \in Nat /\ logins \in Nat /\ overlapped \in BOOLEAN
  /\ attempts \in SUBSET Failures /\ failed \in SUBSET Failures
  /\ IsFiniteSet(attempts) /\ IsFiniteSet(failed)
  /\ req \in [Threads -> Requests]
  /\ \A t \in Threads :
       /\ IsFiniteSet(req[t].list)
       /\ req[t].pc \in Steps \ {"success"} => req[t].login # 0

(* What a login has read of the list is what has failed since, and once it    *)
(* has been let through there is room for another failure.                  *)
Counts(r) ==
  /\ r.pc \in {"check", "failed", "append"} => Recent(r.list, now) = Recent(failed, now)
  /\ r.pc \in {"password", "failed", "append"} => Cardinality(Recent(failed, now)) < MaxAttempts

LoginsAreAlone == \A t, u \in Threads : req[t].pc \in Steps /\ req[u].pc \in Steps => t = u

LimiterHolds ==
  /\ LimiterTypes
  /\ TriesAreLimited /\ ListIsExact
  /\ ~ overlapped => LoginsAreAlone /\ \A t \in Threads : Counts(req[t])

LEMMA RecentIsPart ==
  ASSUME NEW list, NEW time, IsFiniteSet(list)
  PROVE  /\ Recent(list, time) \subseteq list /\ IsFiniteSet(Recent(list, time))
         /\ Cardinality(Recent(list, time)) \in Nat
         /\ Cardinality(Recent(list, time)) <= Cardinality(list)
<1>1. Recent(list, time) \subseteq list
  BY DEF Recent
<1>2. QED
  BY <1>1, FS_Subset, FS_CardinalityType

(* What has been dropped once would be dropped later.                       *)
LEMMA RecentLater ==
  ASSUME NEW list, NEW m \in Nat, NEW n \in Nat, m <= n, \A f \in list : f.at \in Nat
  PROVE  Recent(Recent(list, m), n) = Recent(list, n)
BY SessionsAssumption DEF Recent

(* Nothing of the limiter is touched by a step of a request but its place.  *)
LEMMA OtherStep ==
  ASSUME LimiterHolds, UNCHANGED limiter, NEW t \in Threads, NEW r \in Requests,
         IsFiniteSet(r.list), r.pc \in Steps => req[t].pc \in Steps,
         r.pc \in Steps \ {"success"} => r.login # 0,
         ~ overlapped => Counts(r), Set(t, r)
  PROVE  LimiterHolds'
<1>1. /\ req' \in [Threads -> Requests]
      /\ req'[t] = r /\ \A u \in Threads \ {t} : req'[u] = req[u]
  BY DEF LimiterHolds, LimiterTypes, Set
<1>2. LimiterTypes'
  BY <1>1 DEF LimiterHolds, LimiterTypes, limiter, Failures, Requests
<1>3. TriesAreLimited' /\ ListIsExact'
  BY DEF LimiterHolds, TriesAreLimited, ListIsExact, Recent, limiter
<1>4. ASSUME ~ overlapped
      PROVE  LoginsAreAlone' /\ \A u \in Threads : Counts(req[u])'
  <2>1. LoginsAreAlone'
    BY <1>1, <1>4 DEF LimiterHolds, LoginsAreAlone
  <2>2. ASSUME NEW u \in Threads
        PROVE  Counts(req[u])'
    BY <1>1, <1>4, <2>2 DEF LimiterHolds, Counts, Recent, limiter
  <2>3. QED
    BY <2>1, <2>2
<1>5. QED
  BY <1>2, <1>3, <1>4 DEF LimiterHolds, limiter

LEMMA IdleIsFine ==
  ASSUME LimiterHolds
  PROVE  /\ Idle \in Requests /\ IsFiniteSet(Idle.list) /\ Idle.pc \notin Steps
         /\ Counts(Idle)
  BY FS_EmptySet DEF LimiterHolds, LimiterTypes, Idle, Requests, Steps, Counts

LEMMA BeginLoginKeeps ==
  ASSUME LimiterHolds, NEW t \in Threads, BeginLogin(t)
  PROVE  LimiterHolds'
<1> PICK r : r = [Idle EXCEPT !.pc = "check", !.login = logins + 1, !.list = Recent(attempts, now)]
  OBVIOUS
<1>1. /\ req[t].pc = "idle" /\ logins' = logins + 1 /\ UNCHANGED <<attempts, now, failed>>
      /\ overlapped' = (overlapped \/ LoggingIn # {})
      /\ req' = [req EXCEPT ![t] = r]
  BY DEF BeginLogin, Set
<1>2. /\ now \in Nat /\ logins \in Nat /\ overlapped \in BOOLEAN
      /\ attempts \in SUBSET Failures /\ failed \in SUBSET Failures
      /\ IsFiniteSet(attempts) /\ IsFiniteSet(failed) /\ req \in [Threads -> Requests]
  BY DEF LimiterHolds, LimiterTypes
<1>3. Failures \subseteq Failures'
  BY <1>1, <1>2 DEF Failures
<1>4. IsFiniteSet(Recent(attempts, now)) /\ Recent(attempts, now) \subseteq Failures'
  BY <1>2, <1>3, RecentIsPart
<1>5. r \in Requests' /\ r.list = Recent(attempts, now) /\ r.pc = "check" /\ r.login = logins + 1
  <2>1. r = [pc |-> "check", token |-> None, login |-> logins + 1,
             list |-> Recent(attempts, now), at |-> 0]
    BY DEF Idle
  <2>2. logins + 1 \in 0 .. logins' /\ 0 \in 0 .. now'
    BY <1>1, <1>2
  <2>3. Recent(attempts, now) \in SUBSET Failures'
    BY <1>4
  <2>4. QED
    BY <2>1, <2>2, <2>3 DEF Requests, Steps
<1>6. Requests \subseteq Requests'
  BY <1>1, <1>2, <1>3 DEF Requests
<1>7. req'[t] = r /\ \A u \in Threads \ {t} : req'[u] = req[u]
  BY <1>1, <1>2
<1>8. LimiterTypes'
  <2>1. req' \in [Threads -> Requests']
    BY <1>1, <1>2, <1>5, <1>6
  <2>2. \A u \in Threads : /\ IsFiniteSet(req'[u].list)
                           /\ req'[u].pc \in Steps \ {"success"} => req'[u].login # 0
    <3>1. IsFiniteSet(r.list) /\ r.login # 0
      BY <1>2, <1>4, <1>5
    <3>2. \A u \in Threads : /\ IsFiniteSet(req[u].list)
                             /\ req[u].pc \in Steps \ {"success"} => req[u].login # 0
      BY DEF LimiterHolds, LimiterTypes
    <3>3. QED
      BY <1>7, <3>1, <3>2
  <2>3. overlapped' \in BOOLEAN
    BY <1>1, <1>2
  <2>4. QED
    BY <1>1, <1>2, <1>3, <2>1, <2>2, <2>3 DEF LimiterTypes
<1>9. TriesAreLimited' /\ ListIsExact'
  BY <1>1 DEF LimiterHolds, TriesAreLimited, ListIsExact, Recent
<1>10. ASSUME ~ overlapped'
       PROVE  LoginsAreAlone' /\ \A u \in Threads : Counts(req[u])'
  <2>1. ~ overlapped /\ \A u \in Threads : req[u].pc \notin Steps
    BY <1>1, <1>10 DEF LoggingIn, Steps
  <2>2. LoginsAreAlone'
    BY <1>7, <2>1 DEF LoginsAreAlone
  <2>3. Recent(r.list, now) = Recent(failed, now)
    <3>1. Recent(r.list, now) = Recent(attempts, now)
      BY <1>5 DEF Recent
    <3>2. QED
      BY <2>1, <3>1 DEF LimiterHolds, ListIsExact
  <2>4. ASSUME NEW u \in Threads
        PROVE  Counts(req[u])'
    <3>1. CASE u = t
      BY <1>1, <1>5, <1>7, <2>3, <3>1 DEF Counts, Recent
    <3>2. CASE u # t
      BY <1>1, <1>7, <2>1, <3>2 DEF Counts, Steps
    <3>3. QED
      BY <3>1, <3>2
  <2>5. QED
    BY <2>2, <2>4
<1>11. QED
  BY <1>8, <1>9, <1>10 DEF LimiterHolds

(* The list as the request has it is put back.                              *)
LEMMA PutBackKeeps ==
  ASSUME LimiterHolds, NEW t \in Threads, req[t].pc \in {"check", "failed"},
         attempts' = req[t].list, UNCHANGED <<now, logins, overlapped, failed>>,
         NEW r \in Requests, IsFiniteSet(r.list),
         r.pc \in Steps \ {"success"} => r.login # 0,
         ~ overlapped => Counts(r), Set(t, r)
  PROVE  LimiterHolds'
<1>1. /\ req' \in [Threads -> Requests]
      /\ req'[t] = r /\ \A u \in Threads \ {t} : req'[u] = req[u]
  BY DEF LimiterHolds, LimiterTypes, Set
<1>2. req[t] \in Requests /\ IsFiniteSet(req[t].list)
  BY DEF LimiterHolds, LimiterTypes
<1>3. LimiterTypes'
  BY <1>1, <1>2 DEF LimiterHolds, LimiterTypes, Failures, Requests
<1>4. TriesAreLimited'
  BY DEF LimiterHolds, TriesAreLimited, Recent
<1>5. ASSUME ~ overlapped
      PROVE  LoginsAreAlone' /\ ListIsExact' /\ \A u \in Threads : Counts(req[u])'
  <2>1. LoginsAreAlone'
    BY <1>1, <1>5 DEF LimiterHolds, LoginsAreAlone, Steps
  <2>2. ListIsExact'
    BY <1>5 DEF LimiterHolds, ListIsExact, Counts, Recent
  <2>3. ASSUME NEW u \in Threads
        PROVE  Counts(req[u])'
    BY <1>1, <1>5, <2>3 DEF LimiterHolds, Counts, Recent
  <2>4. QED
    BY <2>1, <2>2, <2>3
<1>6. QED
  BY <1>3, <1>4, <1>5 DEF LimiterHolds, ListIsExact

LEMMA CheckLimitKeeps ==
  ASSUME LimiterHolds, NEW t \in Threads, CheckLimit(t)
  PROVE  LimiterHolds'
<1>1. /\ req[t] \in Requests /\ IsFiniteSet(req[t].list) /\ req[t].pc = "check"
      /\ req[t].login # 0 /\ now \in Nat /\ \A f \in req[t].list : f.at \in Nat
  BY DEF LimiterHolds, LimiterTypes, CheckLimit, Steps, Requests, Failures
<1>2. PICK r : r = IF IsLimited(req[t].list) THEN Idle
                   ELSE [Idle EXCEPT !.pc = "password", !.login = req[t].login]
  OBVIOUS
<1>3. r \in Requests /\ IsFiniteSet(r.list) /\ (r.pc \in Steps \ {"success"} => r.login # 0)
  BY <1>1, <1>2, IdleIsFine, FS_EmptySet DEF Requests, Idle, Steps
<1>4. ASSUME ~ overlapped
      PROVE  Counts(r)
  <2>1. CASE IsLimited(req[t].list)
    BY <1>2, <2>1, IdleIsFine
  <2>2. CASE ~ IsLimited(req[t].list)
    <3>1. /\ Cardinality(Recent(req[t].list, now)) \in Nat /\ Cardinality(req[t].list) \in Nat
          /\ Cardinality(Recent(req[t].list, now)) <= Cardinality(req[t].list)
      BY <1>1, RecentIsPart, FS_CardinalityType
    <3>2. Recent(req[t].list, now) = Recent(failed, now)
      BY <1>1, <1>4 DEF LimiterHolds, Counts
    <3>3. Cardinality(Recent(failed, now)) < MaxAttempts
      BY <2>2, <3>1, <3>2, SessionsAssumption DEF IsLimited
    <3>4. r.pc = "password"
      BY <1>2, <2>2 DEF Idle
    <3>5. QED
      BY <3>3, <3>4 DEF Counts
  <2>3. QED
    BY <2>1, <2>2
<1>5. QED
  BY <1>1, <1>2, <1>3, <1>4, PutBackKeeps DEF CheckLimit

LEMMA CleanUpKeeps ==
  ASSUME LimiterHolds, NEW t \in Threads, CleanUp(t)
  PROVE  LimiterHolds'
<1>1. req[t] \in Requests /\ req[t].pc = "failed" /\ IsFiniteSet(req[t].list) /\ req[t].login # 0
  BY DEF LimiterHolds, LimiterTypes, CleanUp, Steps
<1>2. PICK r : r = [req[t] EXCEPT !.pc = "append"]
  OBVIOUS
<1>3. /\ r \in Requests /\ r.pc = "append" /\ r.list = req[t].list /\ r.login = req[t].login
  BY <1>1, <1>2 DEF Requests, Steps
<1>4. ~ overlapped => Counts(r)
  BY <1>1, <1>3 DEF LimiterHolds, Counts
<1>5. QED
  BY <1>1, <1>2, <1>3, <1>4, PutBackKeeps DEF CleanUp

LEMMA WrongPasswordKeeps ==
  ASSUME LimiterHolds, NEW t \in Threads, WrongPassword(t)
  PROVE  LimiterHolds'
<1>1. /\ req[t] \in Requests /\ req[t].pc = "password" /\ req[t].login # 0
      /\ now \in Nat /\ logins \in Nat
      /\ attempts \in SUBSET Failures /\ IsFiniteSet(attempts)
  BY DEF LimiterHolds, LimiterTypes, WrongPassword, Steps
<1>2. PICK r : r = [req[t] EXCEPT !.pc = "failed", !.list = Recent(attempts, now), !.at = now]
  OBVIOUS
<1>3. Recent(attempts, now) \in SUBSET Failures /\ IsFiniteSet(Recent(attempts, now))
  BY <1>1, RecentIsPart
<1>4. /\ r \in Requests /\ r.pc = "failed" /\ r.list = Recent(attempts, now)
      /\ r.login = req[t].login
  <2>1. r = [pc |-> "failed", token |-> req[t].token, login |-> req[t].login,
             list |-> Recent(attempts, now), at |-> now]
    BY <1>1, <1>2 DEF Requests
  <2>2. req[t].token \in Ids \cup {None} /\ req[t].login \in 0 .. logins /\ now \in 0 .. now
    BY <1>1 DEF Requests
  <2>3. QED
    BY <1>3, <2>1, <2>2 DEF Requests, Steps
<1>5. ASSUME ~ overlapped
      PROVE  Counts(r)
  <2>1. Recent(r.list, now) = Recent(failed, now)
    BY <1>4, <1>5 DEF LimiterHolds, ListIsExact, Recent
  <2>2. Cardinality(Recent(failed, now)) < MaxAttempts
    BY <1>1, <1>5 DEF LimiterHolds, Counts
  <2>3. QED
    BY <2>1, <2>2, <1>4 DEF Counts
<1>6. QED
  BY <1>1, <1>2, <1>3, <1>4, <1>5, OtherStep DEF WrongPassword, limiter, Steps

LEMMA RegisterFailureKeeps ==
  ASSUME LimiterHolds, NEW t \in Threads, RegisterFailure(t)
  PROVE  LimiterHolds'
<1>1. /\ req[t] \in Requests /\ req[t].pc = "append" /\ req[t].login # 0
      /\ now \in Nat /\ logins \in Nat /\ IsFiniteSet(req[t].list)
      /\ failed \in SUBSET Failures /\ IsFiniteSet(failed) /\ req \in [Threads -> Requests]
  BY DEF LimiterHolds, LimiterTypes, RegisterFailure, Steps
<1>2. PICK f : f = Failure(req[t].at, req[t].login)
  OBVIOUS
<1>3. /\ attempts' = req[t].list \cup {f} /\ failed' = failed \cup {f}
      /\ UNCHANGED <<now, logins, overlapped>> /\ Set(t, Idle)
  BY <1>2 DEF RegisterFailure
<1>4. f \in Failures
  BY <1>1, <1>2 DEF Failures, Failure, Requests
<1>5. /\ req' \in [Threads -> Requests]
      /\ req'[t] = Idle /\ \A u \in Threads \ {t} : req'[u] = req[u]
  BY <1>1, <1>3, IdleIsFine DEF Set
<1>6. IsFiniteSet(attempts') /\ IsFiniteSet(failed')
  BY <1>1, <1>3, FS_AddElement
<1>7. LimiterTypes'
  <2>1. attempts' \in SUBSET Failures /\ failed' \in SUBSET Failures
    BY <1>1, <1>3, <1>4 DEF Requests
  <2>2. \A u \in Threads : /\ IsFiniteSet(req'[u].list)
                           /\ req'[u].pc \in Steps \ {"success"} => req'[u].login # 0
    BY <1>5, IdleIsFine DEF LimiterHolds, LimiterTypes
  <2>3. Failures' = Failures /\ Requests' = Requests
    BY <1>3 DEF Failures, Requests
  <2>4. QED
    BY <1>1, <1>3, <1>5, <1>6, <2>1, <2>2, <2>3 DEF LimiterHolds, LimiterTypes
<1>8. ASSUME ~ overlapped
      PROVE  /\ TriesAreLimited' /\ ListIsExact' /\ LoginsAreAlone'
             /\ \A u \in Threads : Counts(req[u])'
  <2>1. /\ Recent(req[t].list, now) = Recent(failed, now)
        /\ Cardinality(Recent(failed, now)) < MaxAttempts
    BY <1>1, <1>8 DEF LimiterHolds, Counts
  <2>2. \A u \in Threads : req'[u].pc \notin Steps
    BY <1>1, <1>5, <1>8, IdleIsFine DEF LimiterHolds, LoginsAreAlone, Steps
  <2>3. Recent(failed, now)' \subseteq Recent(failed, now) \cup {f}
    BY <1>3 DEF Recent
  <2>4. Cardinality(Recent(failed, now)') <= MaxAttempts
    <3>1. IsFiniteSet(Recent(failed, now)) /\ Cardinality(Recent(failed, now)) \in Nat
      BY <1>1, RecentIsPart
    <3>2. /\ IsFiniteSet(Recent(failed, now) \cup {f})
          /\ Cardinality(Recent(failed, now) \cup {f}) \in
               {Cardinality(Recent(failed, now)), Cardinality(Recent(failed, now)) + 1}
      BY <3>1, FS_AddElement
    <3>3. /\ Cardinality(Recent(failed, now)') <= Cardinality(Recent(failed, now) \cup {f})
          /\ Cardinality(Recent(failed, now)') \in Nat
      BY <2>3, <3>2, FS_Subset, FS_CardinalityType
    <3>4. QED
      BY <2>1, <3>1, <3>2, <3>3, SessionsAssumption
  <2>5. ListIsExact'
    BY <1>3, <2>1 DEF ListIsExact, Recent
  <2>6. QED
    BY <2>2, <2>4, <2>5 DEF TriesAreLimited, LoginsAreAlone, Counts, Steps
<1>9. QED
  BY <1>3, <1>7, <1>8 DEF LimiterHolds, TriesAreLimited, ListIsExact

LEMMA TickKeeps ==
  ASSUME LimiterHolds, Tick
  PROVE  LimiterHolds'
<1>1. now' = now + 1 /\ UNCHANGED <<attempts, logins, overlapped, failed, req>>
  BY DEF Tick
<1>2. /\ now \in Nat /\ logins \in Nat /\ overlapped \in BOOLEAN
      /\ attempts \in SUBSET Failures /\ failed \in SUBSET Failures
      /\ IsFiniteSet(failed) /\ req \in [Threads -> Requests]
  BY DEF LimiterHolds, LimiterTypes
<1>3. Failures \subseteq Failures'
  BY <1>1, <1>2 DEF Failures
<1>4. Requests \subseteq Requests'
  BY <1>1, <1>2, <1>3 DEF Requests
<1>5. LimiterTypes'
  BY <1>1, <1>2, <1>3, <1>4 DEF LimiterHolds, LimiterTypes
<1>6. ASSUME NEW list \in SUBSET Failures, NEW other \in SUBSET Failures,
             Recent(list, now) = Recent(other, now)
      PROVE  Recent(list, now') = Recent(other, now')
  <2>1. \A f \in list \cup other : f.at \in Nat
    BY <1>2 DEF Failures
  <2>2. /\ Recent(Recent(list, now), now') = Recent(list, now')
        /\ Recent(Recent(other, now), now') = Recent(other, now')
    BY <1>1, <1>2, <2>1, RecentLater
  <2>3. QED
    BY <1>6, <2>2
<1>7. /\ Cardinality(Recent(failed, now')) <= Cardinality(Recent(failed, now))
      /\ Cardinality(Recent(failed, now')) \in Nat /\ Cardinality(Recent(failed, now)) \in Nat
  <2>1. Recent(failed, now') \subseteq Recent(failed, now)
    BY <1>1, <1>2, SessionsAssumption DEF Recent, Failures
  <2>2. IsFiniteSet(Recent(failed, now))
    BY <1>2, RecentIsPart
  <2>3. QED
    BY <2>1, <2>2, FS_Subset, FS_CardinalityType
<1>8. TriesAreLimited'
  <2> SUFFICES ASSUME ~ overlapped
               PROVE  Cardinality(Recent(failed, now')) <= MaxAttempts
    BY <1>1 DEF TriesAreLimited
  <2>1. QED
    BY <1>7, SessionsAssumption DEF LimiterHolds, TriesAreLimited
<1>9. ListIsExact'
  BY <1>1, <1>2, <1>6 DEF LimiterHolds, ListIsExact
<1>10. ASSUME ~ overlapped
       PROVE  LoginsAreAlone' /\ \A u \in Threads : Counts(req[u])'
  <2>1. LoginsAreAlone'
    BY <1>1, <1>10 DEF LimiterHolds, LoginsAreAlone
  <2>2. ASSUME NEW u \in Threads
        PROVE  Counts(req[u])'
    <3>1. Counts(req[u]) /\ req[u].list \in SUBSET Failures
      BY <1>2, <1>10 DEF LimiterHolds, Requests
    <3>2. req[u].pc \in {"check", "failed", "append"} =>
            Recent(req[u].list, now') = Recent(failed, now')
      BY <1>2, <1>6, <3>1 DEF Counts
    <3>3. req[u].pc \in {"password", "failed", "append"} =>
            Cardinality(Recent(failed, now')) < MaxAttempts
      BY <1>7, <3>1, SessionsAssumption DEF Counts
    <3>4. QED
      BY <1>1, <3>2, <3>3 DEF Counts
  <2>3. QED
    BY <2>1, <2>2
<1>11. QED
  BY <1>1, <1>5, <1>8, <1>9, <1>10 DEF LimiterHolds

LEMMA ForgettingKeeps ==
  ASSUME LimiterHolds, attempts' = {}, failed' = {}, UNCHANGED <<now, logins>>,
         overlapped' \in BOOLEAN, req' \in [Threads -> Requests],
         \A u \in Threads : req'[u] = req[u] \/ req'[u] = Idle,
         ~ overlapped' => \A u \in Threads : req'[u].pc \notin Steps
  PROVE  LimiterHolds'
<1>1. LimiterTypes'
  BY IdleIsFine, FS_EmptySet DEF LimiterHolds, LimiterTypes, Failures, Requests
<1>2. Recent(failed, now)' = {} /\ Recent(attempts, now)' = {} /\ Cardinality({}) = 0
  BY FS_EmptySet DEF Recent
<1>3. TriesAreLimited' /\ ListIsExact'
  BY <1>2, SessionsAssumption DEF TriesAreLimited, ListIsExact
<1>4. ~ overlapped' => LoginsAreAlone' /\ \A u \in Threads : Counts(req[u])'
  BY DEF LoginsAreAlone, Counts, Steps
<1>5. QED
  BY <1>1, <1>3, <1>4 DEF LimiterHolds

LEMMA PopAttemptsKeeps ==
  ASSUME LimiterHolds, NEW t \in Threads, PopAttempts(t)
  PROVE  LimiterHolds'
<1>1. /\ req[t].pc = "success" /\ attempts' = {} /\ failed' = {}
      /\ UNCHANGED <<now, logins, overlapped>> /\ req' = [req EXCEPT ![t] = Idle]
      /\ overlapped \in BOOLEAN /\ req \in [Threads -> Requests]
  BY DEF PopAttempts, Set, LimiterHolds, LimiterTypes
<1>2. ~ overlapped => \A u \in Threads : req'[u].pc \notin Steps
  BY <1>1, IdleIsFine DEF LimiterHolds, LoginsAreAlone, Steps
<1>3. QED
  BY <1>1, <1>2, IdleIsFine, ForgettingKeeps

LEMMA RestartKeeps ==
  ASSUME LimiterHolds, Restart
  PROVE  LimiterHolds'
BY IdleIsFine, ForgettingKeeps DEF Restart

(* Requests about tokens have none of the list, and those that end none.    *)
LEMMA TokenStepKeeps ==
  ASSUME LimiterHolds, UNCHANGED limiter, NEW t \in Threads, NEW r,
         r = Idle \/ (\E k \in Ids, pc \in {"refresh", "logout"} :
                       r = [Idle EXCEPT !.pc = pc, !.token = k])
           \/ (r = [Idle EXCEPT !.pc = "success"] /\ req[t].pc = "password"),
         Set(t, r)
  PROVE  LimiterHolds'
<1>1. r \in Requests /\ r.list = {} /\ r.pc \in {"idle", "refresh", "logout", "success"}
      /\ (r.pc = "success" => req[t].pc = "password")
  <2>1. Idle \in Requests /\ Idle.list = {} /\ Idle.pc = "idle"
    BY IdleIsFine DEF Idle
  <2>2. ASSUME NEW k \in Ids, NEW pc \in {"refresh", "logout"},
               r = [Idle EXCEPT !.pc = pc, !.token = k]
        PROVE  r \in Requests /\ r.list = {} /\ r.pc \in {"refresh", "logout"}
    BY <2>1, <2>2 DEF Requests
  <2>3. ASSUME r = [Idle EXCEPT !.pc = "success"]
        PROVE  r \in Requests /\ r.list = {} /\ r.pc = "success"
    BY <2>1, <2>3 DEF Requests, Steps
  <2>4. QED
    BY <2>1, <2>2, <2>3
<1>2. Counts(r)
  BY <1>1 DEF Counts
<1>3. QED
  BY <1>1, <1>2, OtherStep, FS_EmptySet DEF Steps

LEMMA AsideKeeps ==
  ASSUME LimiterHolds, UNCHANGED <<limiter, req>>
  PROVE  LimiterHolds'
BY DEF LimiterHolds, LimiterTypes, TriesAreLimited, ListIsExact, LoginsAreAlone, Counts, Recent,
       limiter, Failures, Requests

LEMMA LimiterStepKeeps ==
  ASSUME LimiterHolds, [Next]_vars
  PROVE  LimiterHolds'
<1>1. ASSUME NEW t \in Threads, RightPassword(t)
      PROVE  LimiterHolds'
  BY <1>1, TokenStepKeeps DEF RightPassword
<1>2. ASSUME NEW t \in Threads, NEW k \in Ids, BeginRefresh(t, k) \/ BeginLogout(t, k)
      PROVE  LimiterHolds'
  BY <1>2, TokenStepKeeps DEF BeginRefresh, BeginLogout, Begin
<1>3. ASSUME NEW t \in Threads, Refresh(t) \/ Logout(t) \/ Abort(t)
      PROVE  LimiterHolds'
  BY <1>3, TokenStepKeeps DEF Refresh, Logout, Abort
<1>4. ASSUME NEW k \in Ids, Expire(k)
      PROVE  LimiterHolds'
  BY <1>4, AsideKeeps DEF Expire
<1>5. CASE UNCHANGED vars
  BY <1>5, AsideKeeps DEF vars, limiter
<1>6. QED
  BY <1>1, <1>2, <1>3, <1>4, <1>5, BeginLoginKeeps, CheckLimitKeeps, WrongPasswordKeeps,
     CleanUpKeeps, RegisterFailureKeeps, PopAttemptsKeeps, TickKeeps, RestartKeeps DEF Next

LEMMA LimiterIsKept == Spec => []LimiterHolds
<1>1. Init => LimiterHolds
  <2> SUFFICES ASSUME Init PROVE LimiterHolds
    OBVIOUS
  <2>1. Recent(failed, now) = {} /\ Recent(attempts, now) = {} /\ Cardinality({}) = 0
    BY FS_EmptySet DEF Init, Recent
  <2>2. LimiterTypes
    <3>1. now \in Nat /\ logins \in Nat /\ 0 \in 0 .. logins /\ 0 \in 0 .. now
      BY DEF Init
    <3>2. Idle \in Requests /\ Idle.list = {} /\ Idle.pc = "idle"
      BY <3>1 DEF Idle, Requests, Steps
    <3>3. req \in [Threads -> Requests] /\ \A t \in Threads : req[t] = Idle
      BY <3>2 DEF Init
    <3>4. QED
      BY <3>1, <3>2, <3>3, FS_EmptySet DEF Init, LimiterTypes, Steps
  <2>3. QED
    BY <2>1, <2>2, SessionsAssumption
    DEF Init, Idle, LimiterHolds, TriesAreLimited, ListIsExact, LoginsAreAlone, Counts, Steps
<1>2. QED
  BY <1>1, LimiterStepKeeps, PTL DEF Spec

(* For any number of threads, logins and failures, and any window and limit:  *)
(* unless login requests overlap, the list says what has failed of late, and  *)
(* no more passwords are tried in a window than the limit.  A request that   *)
(* was let through is the only one, and has left room for its failure.       *)
THEOREM TriesStayCounted == Spec => []TriesAreCounted
<1>1. LimiterHolds => TriesAreCounted
  BY DEF LimiterHolds, LimiterTypes, TriesAreCounted, Failures
<1>2. QED
  BY <1>1, LimiterIsKept, PTL

-----------------------------------------------------------------------------
(* The refresh tokens                                                       *)
Rows ==
  [session : Ids \cup {None}, parent : Ids \cup {None},
   status : {"none", "live", "expired", "revoked"}]

Holds(t) == req[t].pc \in {"refresh", "logout"}

TypesHold ==
  /\ token \in [Ids -> Rows]
  /\ \A k \in Ids : Issued(k) => token[k].status # "none"
  /\ DOMAIN req = Threads /\ req = [t \in Threads |-> req[t]]
  /\ \A t \in Threads : IF Holds(t) THEN req[t].token \in Ids /\ Issued(req[t].token)
                                   ELSE req[t].token = None
  /\ raced \subseteq Ids

(* Where the tokens of a session come from.                                 *)
TokensFormChains ==
  \A k \in Ids : Issued(k) =>
    /\ token[k].session \in Ids /\ Issued(token[k].session)
    /\ token[k].parent = None => token[k].session = k
    /\ token[k].parent # None =>
         /\ token[k].parent \in Ids
         /\ token[token[k].parent].session = token[k].session
         /\ token[token[k].parent].status = "revoked"

(* A session that has not raced has one request at most, and that holds a    *)
(* token that is not revoked.                                               *)
RequestsAreAlone ==
  \A s \in Ids \ raced : \A t \in Threads : Holds(t) /\ token[req[t].token].session = s =>
    /\ token[req[t].token].status # "revoked"
    /\ \A u \in Threads : Holds(u) /\ token[req[u].token].session = s => u = t

EndedIsIssued == \A s \in ended : s \in Ids /\ Issued(s)

Refreshing(k) == {t \in Threads : req[t].pc = "refresh" /\ req[t].token = k}
Children(k) == {j \in Ids : Issued(j) /\ token[j].parent = k}

(* A token that is not revoked has not been used; the uses there are, and     *)
(* those still to come, are of different threads.                           *)
UsesAreOfThreads ==
  \A k \in Ids :
    /\ token[k].status # "revoked" => Children(k) = {}
    /\ Cardinality(Children(k)) + Cardinality(Refreshing(k)) <= Cardinality(Threads)

IInv ==
  /\ TypesHold /\ TokensFormChains /\ RequestsAreAlone /\ EndedIsIssued
  /\ OneTokenIsGood /\ LogoutEnds /\ UsesAreOfThreads

-----------------------------------------------------------------------------
LEMMA SetsAreFinite ==
  ASSUME NEW k
  PROVE  /\ IsFiniteSet(Refreshing(k)) /\ Cardinality(Refreshing(k)) \in Nat
         /\ IsFiniteSet(Children(k)) /\ Cardinality(Children(k)) \in Nat
         /\ Cardinality(Threads) \in Nat
         /\ Cardinality(Refreshing(k)) <= Cardinality(Threads)
<1>1. IsFiniteSet(Threads) /\ IsFiniteSet(Ids)
  BY SessionsAssumption
<1>2. Refreshing(k) \subseteq Threads /\ Children(k) \subseteq Ids
  BY DEF Refreshing, Children
<1>3. QED
  BY <1>1, <1>2, FS_Subset, FS_CardinalityType

LEMMA InitHolds == Init => IInv
<1> SUFFICES ASSUME Init PROVE IInv
  OBVIOUS
<1>1. token = [k \in Ids |-> NoToken] /\ req = [t \in Threads |-> Idle] /\ raced = {} /\ ended = {}
  BY DEF Init
<1>2. \A k \in Ids : ~ Issued(k)
  BY <1>1 DEF Issued
<1>3. TypesHold
  BY <1>1, <1>2 DEF TypesHold, NoToken, Rows, Idle, Holds
<1>4. UsesAreOfThreads
  <2>1. \A k \in Ids : Children(k) = {} /\ Refreshing(k) = {}
    BY <1>1, <1>2 DEF Children, Refreshing, Idle
  <2>2. Cardinality(Threads) \in Nat
    BY SetsAreFinite
  <2>3. QED
    BY <2>1, <2>2, FS_EmptySet DEF UsesAreOfThreads
<1>5. QED
  BY <1>1, <1>2, <1>3, <1>4
  DEF IInv, TokensFormChains, RequestsAreAlone, EndedIsIssued, OneTokenIsGood, LogoutEnds,
      OfSession, Idle, Holds

(* Steps after which threads hold the tokens they held before, or none.      *)
LEMMA LettingGoKeeps ==
  ASSUME IInv, UNCHANGED tokens,
         DOMAIN req' = Threads, req' = [t \in Threads |-> req'[t]],
         \A t \in Threads :
           \/ req'[t] = req[t]
           \/ req'[t].pc \notin {"refresh", "logout"} /\ req'[t].token = None
  PROVE  IInv'
<1>1. token' = token /\ raced' = raced /\ ended' = ended
  BY DEF tokens
<1>2. \A k \in Ids : Issued(k)' <=> Issued(k)
  BY <1>1 DEF Issued
<1>3. \A t \in Threads : Holds(t)' => Holds(t) /\ req'[t] = req[t]
  BY DEF Holds
<1>4. TypesHold'
  BY <1>1, <1>2, <1>3 DEF IInv, TypesHold, Holds
<1>5. TokensFormChains' /\ EndedIsIssued'
  BY <1>1, <1>2 DEF IInv, TokensFormChains, EndedIsIssued
<1>6. RequestsAreAlone'
  BY <1>1, <1>3 DEF IInv, RequestsAreAlone
<1>7. OneTokenIsGood' /\ LogoutEnds'
  BY <1>1 DEF IInv, OneTokenIsGood, LogoutEnds, OfSession, Issued
<1>8. UsesAreOfThreads'
  <2>1. SUFFICES ASSUME NEW k \in Ids
                 PROVE  /\ token'[k].status # "revoked" => Children(k)' = {}
                        /\ Cardinality(Children(k)') + Cardinality(Refreshing(k)') <= Cardinality(Threads)
    BY DEF UsesAreOfThreads
  <2>2. Children(k)' = Children(k)
    BY <1>1, <1>2 DEF Children
  <2>3. Refreshing(k)' \subseteq Refreshing(k)
    BY DEF Refreshing
  <2>4. /\ Cardinality(Refreshing(k)') \in Nat
        /\ Cardinality(Refreshing(k)') <= Cardinality(Refreshing(k))
    BY <2>3, SetsAreFinite, FS_Subset, FS_CardinalityType
  <2>5. QED
    BY <1>1, <2>2, <2>4, SetsAreFinite DEF IInv, UsesAreOfThreads
<1>9. QED
  BY <1>4, <1>5, <1>6, <1>7, <1>8 DEF IInv

(* A request that reads a token which is not revoked.                       *)
LEMMA BeginKeeps ==
  ASSUME IInv, NEW t \in Threads, NEW k \in Ids, NEW pc \in {"refresh", "logout"},
         Begin(t, k, pc), token[k].status \in {"live", "expired"}
  PROVE  IInv'
<1> DEFINE s == token[k].session
           r == [Idle EXCEPT !.pc = pc, !.token = k]
           others == {u \in Threads : req[u].token \in OfSession(s)}
<1>1. /\ token' = token /\ ended' = ended
      /\ req' = [req EXCEPT ![t] = r]
      /\ raced' = IF others = {} THEN raced ELSE raced \cup {s}
  BY DEF Begin, Set
<1>2. r.pc = pc /\ r.token = k
  BY DEF Idle
<1>3. Issued(k) /\ s \in Ids
  <2>1. Issued(k)
    BY DEF Issued, NoToken
  <2>2. QED
    BY <2>1 DEF IInv, TokensFormChains
<1>4. \A x \in Ids : Issued(x)' <=> Issued(x)
  BY <1>1 DEF Issued
<1> HIDE DEF r
<1>5. \A u \in Threads : req'[u] = IF u = t THEN r ELSE req[u]
  BY <1>1 DEF IInv, TypesHold
<1>6. TypesHold'
  BY <1>1, <1>2, <1>3, <1>4, <1>5 DEF IInv, TypesHold, Holds
<1>7. TokensFormChains' /\ EndedIsIssued'
  BY <1>1, <1>4 DEF IInv, TokensFormChains, EndedIsIssued
<1>8. RequestsAreAlone'
  <2>1. SUFFICES ASSUME NEW x \in Ids \ raced', NEW v \in Threads,
                        Holds(v)', token[req'[v].token].session = x
                 PROVE  /\ token[req'[v].token].status # "revoked"
                        /\ \A u \in Threads : Holds(u)' /\ token[req'[u].token].session = x => u = v
    BY <1>1 DEF RequestsAreAlone
  <2>2. x \notin raced
    BY <1>1
  <2>3. CASE x = s
    <3>1. others = {}
      BY <1>1, <2>1, <2>3
    <3>2. \A u \in Threads : Holds(u) => token[req[u].token].session # s
      BY <3>1 DEF IInv, TypesHold, OfSession
    <3>3. \A u \in Threads : u # t /\ Holds(u)' => token[req'[u].token].session # s
      BY <1>5, <3>2 DEF Holds
    <3>4. v = t
      BY <2>1, <2>3, <3>3
    <3>5. QED
      BY <1>2, <1>5, <2>3, <3>3, <3>4
  <2>4. CASE x # s
    <3>1. \A u \in Threads : Holds(u)' /\ token[req'[u].token].session = x =>
                             Holds(u) /\ req'[u] = req[u]
      BY <1>2, <1>5, <2>4 DEF Holds
    <3>2. QED
      BY <2>1, <2>2, <3>1 DEF IInv, RequestsAreAlone
  <2>5. QED
    BY <2>3, <2>4
<1>9. OneTokenIsGood' /\ LogoutEnds'
  BY <1>1 DEF IInv, OneTokenIsGood, LogoutEnds, OfSession, Issued
<1>10. UsesAreOfThreads'
  <2>1. SUFFICES ASSUME NEW x \in Ids
                 PROVE  /\ token'[x].status # "revoked" => Children(x)' = {}
                        /\ Cardinality(Children(x)') + Cardinality(Refreshing(x)') <= Cardinality(Threads)
    BY DEF UsesAreOfThreads
  <2>2. Children(x)' = Children(x)
    BY <1>1, <1>4 DEF Children
  <2>3. CASE x = k
    <3>1. Children(x) = {}
      BY <2>3 DEF IInv, UsesAreOfThreads
    <3>2. Refreshing(x)' \subseteq Threads /\ IsFiniteSet(Threads)
      BY SessionsAssumption DEF Refreshing
    <3>3. Cardinality(Refreshing(x)') \in Nat /\ Cardinality(Refreshing(x)') <= Cardinality(Threads)
      BY <3>2, FS_Subset, FS_CardinalityType
    <3>4. QED
      BY <2>2, <3>1, <3>3, FS_EmptySet
  <2>4. CASE x # k
    <3>1. Refreshing(x)' \subseteq Refreshing(x)
      BY <1>2, <1>5, <2>4 DEF Refreshing
    <3>2. /\ Cardinality(Refreshing(x)') \in Nat
          /\ Cardinality(Refreshing(x)') <= Cardinality(Refreshing(x))
      BY <3>1, SetsAreFinite, FS_Subset, FS_CardinalityType
    <3>3. QED
      BY <1>1, <2>2, <3>2, SetsAreFinite DEF IInv, UsesAreOfThreads
  <2>5. QED
    BY <2>3, <2>4
<1>11. QED
  BY <1>6, <1>7, <1>8, <1>9, <1>10 DEF IInv

(* What a request that ends lets go of.                                     *)
LEMMA OneEnds ==
  ASSUME TypesHold, NEW t \in Threads, NEW r, r.pc \notin {"refresh", "logout"}, r.token = None,
         Set(t, r)
  PROVE  /\ DOMAIN req' = Threads /\ req' = [u \in Threads |-> req'[u]]
         /\ \A u \in Threads : req'[u] = IF u = t THEN r ELSE req[u]
         /\ ~ Holds(t)'
         /\ \A u \in Threads : Holds(u)' <=> Holds(u) /\ u # t
         /\ \A k : Refreshing(k)' = Refreshing(k) \ {t}
<1>1. \A u \in Threads : req'[u] = IF u = t THEN r ELSE req[u]
  BY DEF TypesHold, Set
<1>2. DOMAIN req' = Threads /\ req' = [u \in Threads |-> req'[u]]
  BY DEF TypesHold, Set
<1>3. \A k : Refreshing(k)' = Refreshing(k) \ {t}
  BY <1>1 DEF Refreshing
<1>4. QED
  BY <1>1, <1>2, <1>3 DEF Holds

-----------------------------------------------------------------------------
(* Steps that leave the sessions and parents of tokens alone, and make more  *)
(* of them revoked or expired.                                              *)
LEMMA SpendingKeeps ==
  ASSUME IInv, UNCHANGED raced, NEW k \in Ids, Issued(k), NEW st \in {"expired", "revoked"},
         token[k].status = "revoked" => st = "revoked",
         token' = [token EXCEPT ![k].status = st]
  PROVE  /\ token' \in [Ids -> Rows]
         /\ \A x \in Ids : /\ token'[x].session = token[x].session
                           /\ token'[x].parent = token[x].parent
                           /\ token'[x].status = IF x = k THEN st ELSE token[x].status
                           /\ Issued(x)' <=> Issued(x)
                           /\ Children(x)' = Children(x)
         /\ TokensFormChains'
<1>1. /\ token \in [Ids -> Rows]
      /\ \A x \in Ids : Issued(x) => token[x].status # "none"
  BY DEF IInv, TypesHold
<1>2. [token[k] EXCEPT !.status = st] \in Rows
  BY <1>1 DEF Rows
<1>3. token' \in [Ids -> Rows]
  BY <1>1, <1>2
<1>4. \A x \in Ids : token'[x] = IF x = k THEN [token[k] EXCEPT !.status = st] ELSE token[x]
  BY <1>1
<1>5. \A x \in Ids : /\ token'[x].session = token[x].session
                     /\ token'[x].parent = token[x].parent
                     /\ token'[x].status = IF x = k THEN st ELSE token[x].status
  BY <1>1, <1>4 DEF Rows
<1>6. \A x \in Ids : Issued(x)' <=> Issued(x)
  BY <1>4, <1>5 DEF Issued, NoToken
<1>7. \A x \in Ids : Children(x)' = Children(x)
  BY <1>5, <1>6 DEF Children
<1>8. \A x \in Ids : token[x].status = "revoked" => token'[x].status = "revoked"
  BY <1>5
<1>9. TokensFormChains'
  BY <1>5, <1>6, <1>8 DEF IInv, TokensFormChains
<1>10. QED
  BY <1>3, <1>5, <1>6, <1>7, <1>9

LEMMA ExpireKeeps ==
  ASSUME IInv, NEW k \in Ids, Expire(k)
  PROVE  IInv'
<1>1. /\ token[k].status = "live" /\ req' = req /\ raced' = raced /\ ended' = ended
      /\ token' = [token EXCEPT ![k].status = "expired"]
  BY DEF Expire
<1>2. Issued(k)
  BY <1>1 DEF Issued, NoToken
<1>3. /\ token' \in [Ids -> Rows]
      /\ \A x \in Ids : /\ token'[x].session = token[x].session
                        /\ token'[x].parent = token[x].parent
                        /\ token'[x].status = IF x = k THEN "expired" ELSE token[x].status
                        /\ Issued(x)' <=> Issued(x)
                        /\ Children(x)' = Children(x)
      /\ TokensFormChains'
  BY <1>1, <1>2, SpendingKeeps
<1>4. TypesHold'
  BY <1>1, <1>3 DEF IInv, TypesHold, Holds
<1>5. \A x \in Ids : token'[x].status = "revoked" <=> token[x].status = "revoked"
  BY <1>1, <1>3
<1>6. RequestsAreAlone'
  BY <1>1, <1>3, <1>5 DEF IInv, RequestsAreAlone, TypesHold, Holds
<1>7. EndedIsIssued'
  BY <1>1, <1>3 DEF IInv, EndedIsIssued
<1>8. \A x, y \in Ids : x \in OfSession(y)' <=> x \in OfSession(y)
  BY <1>3 DEF OfSession
<1>9. OneTokenIsGood'
  BY <1>1, <1>5, <1>8 DEF IInv, OneTokenIsGood, OfSession
<1>10. LogoutEnds'
  BY <1>1, <1>5, <1>8 DEF IInv, LogoutEnds, OfSession, EndedIsIssued
<1>11. UsesAreOfThreads'
  <2>1. \A x \in Ids : Refreshing(x)' = Refreshing(x)
    BY <1>1 DEF Refreshing
  <2>2. QED
    BY <1>3, <1>5, <2>1 DEF IInv, UsesAreOfThreads
<1>12. QED
  BY <1>3, <1>4, <1>6, <1>7, <1>9, <1>10, <1>11 DEF IInv

LEMMA LogoutKeeps ==
  ASSUME IInv, NEW t \in Threads, Logout(t)
  PROVE  IInv'
<1> DEFINE k == req[t].token
           s == token[k].session
<1>1. /\ req[t].pc = "logout" /\ raced' = raced /\ ended' = ended \cup {s}
      /\ token' = [token EXCEPT ![k].status = "revoked"] /\ Set(t, Idle)
  BY DEF Logout
<1>2. Holds(t) /\ k \in Ids /\ Issued(k) /\ s \in Ids /\ Issued(s)
  BY <1>1 DEF IInv, TypesHold, Holds, TokensFormChains
<1>3. /\ token' \in [Ids -> Rows]
      /\ \A x \in Ids : /\ token'[x].session = token[x].session
                        /\ token'[x].parent = token[x].parent
                        /\ token'[x].status = IF x = k THEN "revoked" ELSE token[x].status
                        /\ Issued(x)' <=> Issued(x)
                        /\ Children(x)' = Children(x)
      /\ TokensFormChains'
  BY <1>1, <1>2, SpendingKeeps
<1>4. /\ DOMAIN req' = Threads /\ req' = [u \in Threads |-> req'[u]]
      /\ \A u \in Threads : req'[u] = IF u = t THEN Idle ELSE req[u]
      /\ \A u \in Threads : Holds(u)' <=> Holds(u) /\ u # t
      /\ \A x : Refreshing(x)' = Refreshing(x) \ {t}
  BY <1>1, OneEnds DEF IInv, Idle
<1>5. TypesHold'
  BY <1>1, <1>3, <1>4 DEF IInv, TypesHold, Idle
<1>6. \A x \in Ids \ raced : \A u \in Threads :
        Holds(u)' /\ token[req[u].token].session = x => x # s /\ req[u].token # k
  BY <1>2, <1>4 DEF IInv, RequestsAreAlone
<1>7. RequestsAreAlone'
  <2>1. SUFFICES ASSUME NEW x \in Ids \ raced', NEW v \in Threads,
                        Holds(v)', token'[req'[v].token].session = x
                 PROVE  /\ token'[req'[v].token].status # "revoked"
                        /\ \A u \in Threads : Holds(u)' /\ token'[req'[u].token].session = x => u = v
    BY DEF RequestsAreAlone
  <2>2. \A u \in Threads : Holds(u)' => /\ Holds(u) /\ req'[u] = req[u] /\ req[u].token \in Ids
                                        /\ token'[req[u].token].session = token[req[u].token].session
    BY <1>3, <1>4 DEF IInv, TypesHold
  <2>3. req[v].token # k /\ token[req[v].token].session = x
    BY <1>1, <1>6, <2>1, <2>2
  <2>4. QED
    BY <1>1, <1>3, <2>1, <2>2, <2>3 DEF IInv, RequestsAreAlone
<1>8. EndedIsIssued'
  BY <1>1, <1>2, <1>3 DEF IInv, EndedIsIssued
<1>9. \A x, y \in Ids : x \in OfSession(y)' <=> x \in OfSession(y)
  BY <1>3 DEF OfSession
<1>10. OneTokenIsGood'
  BY <1>1, <1>3, <1>9 DEF IInv, OneTokenIsGood, OfSession
<1>11. LogoutEnds'
  <2>1. SUFFICES ASSUME NEW x \in ended' \ raced', NEW y \in OfSession(x)'
                 PROVE  token'[y].status = "revoked"
    BY DEF LogoutEnds
  <2>2. x \in Ids /\ y \in Ids /\ y \in OfSession(x)
    BY <1>8, <1>9, <2>1 DEF EndedIsIssued, OfSession
  <2>3. CASE y = k
    BY <1>3, <2>2, <2>3
  <2>4. CASE y # k /\ x = s
    <3>1. token[k].status # "revoked"
      BY <1>1, <1>2, <2>1, <2>4 DEF IInv, RequestsAreAlone
    <3>2. k \in OfSession(s)
      BY <1>2 DEF OfSession
    <3>3. token[y].status = "revoked"
      BY <1>1, <1>2, <2>1, <2>2, <2>4, <3>1, <3>2 DEF IInv, OneTokenIsGood
    <3>4. QED
      BY <1>3, <2>2, <2>4, <3>3
  <2>5. CASE y # k /\ x # s
    BY <1>1, <1>3, <2>1, <2>2, <2>5 DEF IInv, LogoutEnds
  <2>6. QED
    BY <2>3, <2>4, <2>5
<1>12. UsesAreOfThreads'
  <2>1. t \notin UNION {Refreshing(x) : x \in Ids}
    BY <1>1 DEF Refreshing
  <2>2. \A x \in Ids : Refreshing(x)' = Refreshing(x)
    BY <1>4, <2>1
  <2>3. QED
    BY <1>3, <2>2 DEF IInv, UsesAreOfThreads
<1>13. QED
  BY <1>3, <1>5, <1>7, <1>8, <1>10, <1>11, <1>12 DEF IInv

-----------------------------------------------------------------------------
LEMMA RightPasswordKeeps ==
  ASSUME IInv, NEW t \in Threads, NEW k \in Ids, req[t].pc = "password", ~ Issued(k),
         token' = [token EXCEPT ![k] = Token(k, None)],
         Set(t, [Idle EXCEPT !.pc = "success"]), UNCHANGED <<raced, ended>>
  PROVE  IInv'
<1> DEFINE r == [Idle EXCEPT !.pc = "success"]
           new == Token(k, None)
<1>1. r.pc = "success" /\ r.token = None
  BY DEF Idle
<1>2. /\ new \in Rows /\ new.session = k /\ new.parent = None /\ new.status = "live"
      /\ new # NoToken
  BY DEF Token, Rows, NoToken
<1> HIDE DEF r, new
<1>3. /\ DOMAIN req' = Threads /\ req' = [u \in Threads |-> req'[u]]
      /\ \A u \in Threads : req'[u] = IF u = t THEN r ELSE req[u]
      /\ \A u \in Threads : Holds(u)' <=> Holds(u) /\ u # t
      /\ \A x : Refreshing(x)' = Refreshing(x) \ {t}
  BY <1>1, OneEnds DEF IInv, r
<1>4. ~ Holds(t) /\ \A x : t \notin Refreshing(x)
  BY DEF Holds, Refreshing
<1>5. token \in [Ids -> Rows] /\ \A x \in Ids : token'[x] = IF x = k THEN new ELSE token[x]
  BY DEF IInv, TypesHold, new
<1>6. \A x \in Ids : Issued(x)' <=> Issued(x) \/ x = k
  BY <1>2, <1>5 DEF Issued
<1>7. TypesHold'
  BY <1>1, <1>2, <1>3, <1>5, <1>6 DEF IInv, TypesHold, new
<1>8. \A x \in Ids : Issued(x) => token[x].session # k /\ token[x].parent # k
  BY SessionsAssumption, <1>5 DEF IInv, TokensFormChains, TypesHold, Issued, NoToken, Rows
<1>9. TokensFormChains'
  BY <1>2, <1>5, <1>6, <1>8 DEF IInv, TokensFormChains
<1>10. RequestsAreAlone'
  BY <1>3, <1>4, <1>5, <1>8 DEF IInv, RequestsAreAlone, TypesHold
<1>11. EndedIsIssued' /\ k \notin ended
  BY <1>6 DEF IInv, EndedIsIssued
<1>12. \A x, y \in Ids : x \in OfSession(y)' <=> x \in OfSession(y) \/ (x = k /\ y = k)
  BY <1>2, <1>5, <1>6 DEF OfSession
<1>13. OfSession(k) = {}
  BY <1>8 DEF OfSession
<1>14. OneTokenIsGood'
  BY <1>5, <1>12, <1>13 DEF IInv, OneTokenIsGood, OfSession
<1>15. LogoutEnds'
  BY <1>5, <1>11, <1>12 DEF IInv, LogoutEnds, OfSession, EndedIsIssued
<1>16. UsesAreOfThreads'
  <2>1. \A x \in Ids : Children(x)' = Children(x)
    BY SessionsAssumption, <1>2, <1>5, <1>6 DEF Children
  <2>2. \A x \in Ids : Refreshing(x)' = Refreshing(x)
    BY <1>3, <1>4
  <2>3. Children(k) = {}
    BY <1>8 DEF Children
  <2>4. QED
    BY <1>5, <2>1, <2>2, <2>3 DEF IInv, UsesAreOfThreads
<1>17. QED
  BY <1>7, <1>9, <1>10, <1>11, <1>14, <1>15, <1>16 DEF IInv

(* The use of a token: the children of k and the requests that use k change  *)
(* places.                                                                  *)
LEMMA RefreshKeeps ==
  ASSUME IInv, NEW t \in Threads, Refresh(t)
  PROVE  IInv'
<1>1. PICK k, s, j \in Ids :
        /\ k = req[t].token /\ s = token[k].session
        /\ req[t].pc = "refresh" /\ ~ Issued(j)
        /\ token' = [token EXCEPT ![k].status = "revoked", ![j] = Token(s, k)]
        /\ Set(t, Idle) /\ raced' = raced /\ ended' = ended
  <2>1. req[t].token \in Ids /\ token[req[t].token].session \in Ids
    BY DEF Refresh, IInv, TypesHold, Holds, TokensFormChains
  <2>2. QED
    BY <2>1 DEF Refresh
<1>2. /\ k = req[t].token /\ s = token[k].session /\ req[t].pc = "refresh" /\ ~ Issued(j)
      /\ raced' = raced /\ ended' = ended
      /\ Holds(t) /\ k \in Ids /\ Issued(k) /\ s \in Ids /\ Issued(s) /\ j # k /\ j # s
  BY <1>1 DEF IInv, TypesHold, Holds, TokensFormChains
<1> DEFINE new == Token(s, k)
           old == [token[k] EXCEPT !.status = "revoked"]
<1>3. /\ new \in Rows /\ new.session = s /\ new.parent = k /\ new.status = "live"
      /\ new # NoToken
  BY <1>2 DEF Token, Rows, NoToken
<1>4. token \in [Ids -> Rows] /\ \A x \in Ids : Issued(x) => token[x].status # "none"
  BY <1>2 DEF IInv, TypesHold
<1>5. /\ old \in Rows /\ old.session = s /\ old.parent = token[k].parent /\ old.status = "revoked"
      /\ old # NoToken
  BY <1>2, <1>4 DEF Rows, NoToken
<1>6. \A x \in Ids : token'[x] = IF x = j THEN new ELSE IF x = k THEN old ELSE token[x]
  BY <1>1, <1>2, <1>4
<1>7. token' \in [Ids -> Rows]
  BY <1>1, <1>2, <1>3, <1>4, <1>5
<1> HIDE DEF new, old
<1>8. \A x \in Ids : Issued(x)' <=> Issued(x) \/ x = j
  BY <1>2, <1>3, <1>5, <1>6 DEF Issued
<1>9. \A x \in Ids : x # j => /\ token'[x].session = token[x].session
                              /\ token'[x].parent = token[x].parent
                              /\ token'[x].status = IF x = k THEN "revoked" ELSE token[x].status
  BY <1>2, <1>5, <1>6
<1>10. \A x \in Ids : Issued(x) => token[x].session # j /\ token[x].parent # j
  BY <1>2, SessionsAssumption, <1>1, <1>4 DEF IInv, TokensFormChains, Issued, NoToken, Rows
<1>11. /\ DOMAIN req' = Threads /\ req' = [u \in Threads |-> req'[u]]
       /\ \A u \in Threads : req'[u] = IF u = t THEN Idle ELSE req[u]
       /\ \A u \in Threads : Holds(u)' <=> Holds(u) /\ u # t
       /\ \A x : Refreshing(x)' = Refreshing(x) \ {t}
  BY <1>1, OneEnds DEF IInv, Idle
<1>12. TypesHold'
  BY <1>2, <1>3, <1>5, <1>6, <1>7, <1>8, <1>11 DEF IInv, TypesHold, Idle
<1>13. TokensFormChains'
  <2>1. SUFFICES ASSUME NEW x \in Ids, Issued(x)'
                 PROVE  /\ token'[x].session \in Ids /\ Issued(token[x].session)'
                        /\ token'[x].parent = None => token'[x].session = x
                        /\ token'[x].parent # None =>
                             /\ token'[x].parent \in Ids
                             /\ token'[token'[x].parent].session = token'[x].session
                             /\ token'[token'[x].parent].status = "revoked"
    BY <1>2 DEF TokensFormChains
  <2>2. CASE x = j
    BY SessionsAssumption, <1>2, <1>3, <1>6, <1>8, <1>9, <2>2
  <2>3. CASE x # j
    <3>1. Issued(x) /\ token'[x].parent = token[x].parent /\ token'[x].session = token[x].session
      BY <1>2, <1>8, <1>9, <2>1, <2>3
    <3>2. /\ token[x].session \in Ids /\ Issued(token[x].session)
          /\ token[x].parent = None => token[x].session = x
      BY <1>2, <3>1 DEF IInv, TokensFormChains
    <3>3. token[x].parent # None =>
            /\ token[x].parent \in Ids /\ token[x].parent # j
            /\ token[token[x].parent].session = token[x].session
            /\ token[token[x].parent].status = "revoked"
      BY <1>2, <1>10, <3>1 DEF IInv, TokensFormChains
    <3>4. QED
      BY <1>2, <1>8, <1>9, <3>1, <3>2, <3>3
  <2>4. QED
    BY <1>2, <2>2, <2>3
<1>14. \A x \in Ids \ raced : \A u \in Threads :
         Holds(u)' /\ token[req[u].token].session = x => x # s /\ req[u].token # k
  BY <1>2, <1>11 DEF IInv, RequestsAreAlone
<1>15. RequestsAreAlone'
  <2>1. SUFFICES ASSUME NEW x \in Ids \ raced', NEW v \in Threads,
                        Holds(v)', token'[req'[v].token].session = x
                 PROVE  /\ token'[req'[v].token].status # "revoked"
                        /\ \A u \in Threads : Holds(u)' /\ token'[req'[u].token].session = x => u = v
    BY <1>2 DEF RequestsAreAlone
  <2>2. \A u \in Threads : Holds(u)' => /\ Holds(u) /\ req'[u] = req[u]
                                        /\ req[u].token \in Ids /\ req[u].token # j
                                        /\ token'[req[u].token].session = token[req[u].token].session
    BY <1>2, <1>9, <1>11 DEF IInv, TypesHold
  <2>3. req[v].token # k /\ token[req[v].token].session = x
    BY <1>2, <1>14, <2>1, <2>2
  <2>4. QED
    BY <1>2, <1>9, <2>1, <2>2, <2>3 DEF IInv, RequestsAreAlone
<1>16. EndedIsIssued'
  BY <1>2, <1>8 DEF IInv, EndedIsIssued
<1>17. \A x, y \in Ids : x \in OfSession(y)' <=> x \in OfSession(y) \/ (x = j /\ y = s)
  BY <1>2, <1>3, <1>6, <1>8, <1>9 DEF OfSession
<1>18. s \notin raced => /\ token[k].status # "revoked"
                         /\ \A x \in OfSession(s) : token[x].status # "revoked" => x = k
  <2>1. k \in OfSession(s)
    BY <1>2 DEF OfSession
  <2>2. QED
    BY <1>2, <2>1 DEF IInv, RequestsAreAlone, OneTokenIsGood
<1>19. OneTokenIsGood'
  <2>1. SUFFICES ASSUME NEW x \in Ids \ raced', NEW y \in OfSession(x)', NEW z \in OfSession(x)',
                        token'[y].status # "revoked", token'[z].status # "revoked"
                 PROVE  y = z
    BY <1>2 DEF OneTokenIsGood
  <2>2. y \in Ids /\ z \in Ids
    BY <1>2, <2>1 DEF OfSession
  <2>3. CASE x = s
    BY <1>2, <1>9, <1>17, <1>18, <2>1, <2>2, <2>3
  <2>4. CASE x # s
    BY <1>2, <1>9, <1>17, <2>1, <2>2, <2>4 DEF IInv, OneTokenIsGood, OfSession
  <2>5. QED
    BY <1>2, <2>3, <2>4
<1>20. LogoutEnds'
  <2>1. s \notin ended \ raced
    <3>1. k \in OfSession(s)
      BY <1>2 DEF OfSession
    <3>2. QED
      BY <1>2, <1>18, <3>1 DEF IInv, LogoutEnds
  <2>2. QED
    BY <1>2, <1>9, <1>17, <2>1 DEF IInv, LogoutEnds, EndedIsIssued, OfSession
<1>21. UsesAreOfThreads'
  <2>1. SUFFICES ASSUME NEW x \in Ids
                 PROVE  /\ token'[x].status # "revoked" => Children(x)' = {}
                        /\ Cardinality(Children(x)') + Cardinality(Refreshing(x)') <= Cardinality(Threads)
    BY <1>2 DEF UsesAreOfThreads
  <2>2. /\ IsFiniteSet(Children(x)) /\ Cardinality(Children(x)) \in Nat
        /\ IsFiniteSet(Refreshing(x)) /\ Cardinality(Refreshing(x)) \in Nat
        /\ Cardinality(Threads) \in Nat
    BY <1>2, SetsAreFinite
  <2>3. CASE x = k
    <3>1. Children(x)' = Children(x) \cup {j} /\ j \notin Children(x)
      BY <1>2, <1>3, <1>6, <1>8, <1>9, <2>3 DEF Children
    <3>2. t \in Refreshing(x) /\ Refreshing(x)' = Refreshing(x) \ {t}
      BY <1>2, <1>11, <2>3 DEF Refreshing
    <3>3. /\ Cardinality(Children(x)') = Cardinality(Children(x)) + 1
          /\ Cardinality(Refreshing(x)') = Cardinality(Refreshing(x)) - 1
      <4>1. Cardinality(Children(x) \cup {j}) = Cardinality(Children(x)) + 1
        BY <2>2, <3>1, FS_AddElement
      <4>2. Cardinality(Refreshing(x) \ {t}) = Cardinality(Refreshing(x)) - 1
        BY <2>2, <3>2, FS_RemoveElement
      <4>3. QED
        BY <3>1, <3>2, <4>1, <4>2
    <3>4. Cardinality(Children(x)) + Cardinality(Refreshing(x)) <= Cardinality(Threads)
      BY <1>2 DEF IInv, UsesAreOfThreads
    <3>5. token'[x].status = "revoked"
      BY <1>2, <1>9, <2>3
    <3>6. QED
      BY <1>2, <2>2, <3>3, <3>4, <3>5
  <2>4. CASE x # k
    <3>1. Children(x)' = Children(x)
      BY <1>2, <1>3, <1>6, <1>8, <1>9, <2>4 DEF Children
    <3>2. Refreshing(x)' = Refreshing(x)
      BY <1>2, <1>11, <2>4 DEF Refreshing
    <3>3. Children(j) = {}
      BY <1>2, <1>10 DEF Children
    <3>4. token'[x].status # "revoked" => Children(x) = {}
      BY <1>2, <1>9, <2>4, <3>3 DEF IInv, UsesAreOfThreads
    <3>5. QED
      BY <1>2, <3>1, <3>2, <3>4 DEF IInv, UsesAreOfThreads
  <2>5. QED
    BY <1>2, <2>3, <2>4
<1>22. QED
  BY <1>12, <1>13, <1>15, <1>16, <1>19, <1>20, <1>21 DEF IInv

-----------------------------------------------------------------------------
LEMMA StepKeeps ==
  ASSUME IInv, LimiterTypes, [Next]_vars
  PROVE  IInv'
<1>1. /\ \A t \in Threads : IF Holds(t) THEN req[t].token \in Ids ELSE req[t].token = None
      /\ DOMAIN req = Threads /\ req = [t \in Threads |-> req[t]]
  BY DEF IInv, TypesHold
<1>2. ASSUME NEW t \in Threads, NEW r, r.pc \notin {"refresh", "logout"}, r.token = None,
             Set(t, r), UNCHANGED tokens
      PROVE  IInv'
  <2>1. /\ DOMAIN req' = Threads /\ req' = [u \in Threads |-> req'[u]]
        /\ \A u \in Threads : req'[u] = IF u = t THEN r ELSE req[u]
    BY <1>2, OneEnds DEF IInv
  <2>2. \A u \in Threads : \/ req'[u] = req[u]
                           \/ req'[u].pc \notin {"refresh", "logout"} /\ req'[u].token = None
    BY <1>2, <2>1
  <2>3. QED
    BY <1>2, <2>1, <2>2, LettingGoKeeps
<1>3. ASSUME UNCHANGED <<tokens, req>>
      PROVE  IInv'
  BY <1>1, <1>3, LettingGoKeeps
<1>4. ASSUME NEW t \in Threads, BeginLogin(t) \/ CheckLimit(t)
      PROVE  IInv'
  BY <1>2, <1>4 DEF BeginLogin, CheckLimit, Idle
<1>5. ASSUME NEW t \in Threads, WrongPassword(t) \/ CleanUp(t)
      PROVE  IInv'
  <2>1. req[t] \in Requests /\ req[t].token = None
    BY <1>1, <1>5 DEF LimiterTypes, WrongPassword, CleanUp, Holds
  <2>2. PICK r : /\ Set(t, r) /\ UNCHANGED tokens
                 /\ r = [req[t] EXCEPT !.pc = "failed", !.list = Recent(attempts, now), !.at = now]
                    \/ r = [req[t] EXCEPT !.pc = "append"]
    BY <1>5 DEF WrongPassword, CleanUp
  <2>3. r.pc \notin {"refresh", "logout"} /\ r.token = None
    BY <2>1, <2>2 DEF Requests
  <2>4. QED
    BY <1>2, <2>2, <2>3
<1>6. ASSUME NEW t \in Threads, RegisterFailure(t) \/ PopAttempts(t) \/ Abort(t)
      PROVE  IInv'
  BY <1>2, <1>6 DEF RegisterFailure, PopAttempts, Abort, Idle
<1>7. ASSUME NEW t \in Threads, RightPassword(t)
      PROVE  IInv'
  BY <1>7, RightPasswordKeeps DEF RightPassword
<1>8. ASSUME NEW t \in Threads, NEW k \in Ids, BeginRefresh(t, k) \/ BeginLogout(t, k)
      PROVE  IInv'
  BY <1>8, BeginKeeps DEF BeginRefresh, BeginLogout
<1>9. ASSUME Tick
      PROVE  IInv'
  BY <1>3, <1>9 DEF Tick
<1>10. ASSUME Restart
       PROVE  IInv'
  <2>1. req' = [t \in Threads |-> Idle] /\ UNCHANGED tokens
    BY <1>10 DEF Restart
  <2>2. DOMAIN req' = Threads /\ req' = [t \in Threads |-> req'[t]]
    BY <2>1
  <2>3. \A t \in Threads : req'[t].pc \notin {"refresh", "logout"} /\ req'[t].token = None
    BY <2>1 DEF Idle
  <2>4. QED
    BY <2>1, <2>2, <2>3, LettingGoKeeps
<1>11. CASE UNCHANGED vars
  BY <1>3, <1>11 DEF vars, tokens
<1>12. QED
  BY <1>4, <1>5, <1>6, <1>7, <1>8, <1>9, <1>10, <1>11, RefreshKeeps, LogoutKeeps, ExpireKeeps
  DEF Next

(* However many threads and tokens there are: a session is a chain with one  *)
(* good token at most, and none once it is logged out, unless requests about *)
(* it overlapped; and a token is used by no more requests than there are     *)
(* threads.  A request that has read a token which is good is alone with its *)
(* session or the session has raced, and the uses of a token and the         *)
(* requests that hold it are of different threads.                          *)
THEOREM SessionsAreHeld == Spec => []SessionsHold
<1>1. Init => IInv
  BY InitHolds
<1>2. IInv /\ LimiterHolds /\ [Next]_vars => IInv'
  BY StepKeeps DEF LimiterHolds
<1>3. IInv => SessionsHold
  <2> SUFFICES ASSUME IInv PROVE SessionsHold
    OBVIOUS
  <2>1. TypeOK
    BY SessionsAssumption
    DEF IInv, TypesHold, TokensFormChains, TypeOK, Holds, Rows
  <2>2. UsesAreBounded
    <3>1. SUFFICES ASSUME NEW k \in Ids
                   PROVE  Cardinality(Children(k)) <= Cardinality(Threads)
      BY DEF UsesAreBounded, Children
    <3>2. QED
      BY SetsAreFinite DEF IInv, UsesAreOfThreads
  <2>3. QED
    BY <2>1, <2>2 DEF IInv, SessionsHold
<1>4. QED
  BY <1>1, <1>2, <1>3, LimiterIsKept, PTL DEF Spec

-----------------------------------------------------------------------------
AccessRows ==
  [status : {"none", "row", "deleted"}, business : Businesses \cup {None},
   active : BOOLEAN, expired : BOOLEAN, managed : BOOLEAN]

Locals ==
  [pc : {"idle", "create", "insert", "check", "revoke", "delete", "use"},
   user : Users \cup {None}, key : Keys \cup {None}, business : Businesses \cup {None},
   since : Nat, todo : {"revoke", "delete", None}]

(* Requests that have been let in with token k and are not served yet.      *)
Using(k) == {t \in Threads : use[t].pc = "use" /\ use[t].key = k}

(* A thread that is past its start has what it needs.                       *)
Whole(r) ==
  /\ r \in Locals
  /\ r.pc \in {"check", "revoke", "delete", "use"} => r.key \in Keys
  /\ r.pc = "check" => r.todo \in {"revoke", "delete"}

AccessTypesHold ==
  /\ key \in [Keys -> AccessRows]
  /\ DOMAIN use = Threads /\ use = [t \in Threads |-> use[t]]
  /\ \A t \in Threads : Whole(use[t])
  /\ late \in [Keys -> Nat]
  /\ changes \in Nat
  /\ requests \in Nat

(* A void token has served, and may still serve, no more requests than there *)
(* are threads; one that is not there, or is good, has served none late.     *)
LateIsBounded ==
  \A k \in Keys :
    /\ key[k] = Access!NoKey => late[k] = 0 /\ Using(k) = {}
    /\ Access!Void(k) => late[k] + Cardinality(Using(k)) <= Cardinality(Threads)
    /\ ~ Access!Void(k) => late[k] = 0

(* Unless memberships changed since a request to create a token was let in,  *)
(* its user may manage the tokens of the business it named, or of the one    *)
(* that was found for it.                                                   *)
CreatorMayManage ==
  \A t \in Threads :
    use[t].pc \in {"create", "insert"} =>
      /\ use[t].since <= changes
      /\ use[t].pc = "insert" => use[t].business \in Businesses
      /\ use[t].since = changes =>
           \A u, b : use[t].user = u /\ use[t].business = b =>
             IF use[t].pc = "create" THEN Access!Permitted(u, b) ELSE Access!RoleIn(u, b) = "manager"

(* The row a request to change a token has found was there, if it still is or *)
(* not.                                                                     *)
RowIsKnown ==
  \A t \in Threads : use[t].pc \in {"check", "revoke", "delete"} => key[use[t].key] # Access!NoKey

AccessIInv == AccessTypesHold /\ LateIsBounded /\ CreatorMayManage /\ Access!CreatorsManage /\ RowIsKnown

-----------------------------------------------------------------------------
LEMMA UsersAreFew ==
  ASSUME Access!ConstantsOK, NEW k
  PROVE  /\ IsFiniteSet(Using(k))
         /\ Cardinality(Using(k)) \in Nat
         /\ Cardinality(Threads) \in Nat
         /\ Cardinality(Using(k)) <= Cardinality(Threads)
<1>1. IsFiniteSet(Threads)
  BY DEF Access!ConstantsOK, Access!IsFiniteSet, IsFiniteSet
<1>2. Using(k) \subseteq Threads
  BY DEF Using
<1>3. QED
  BY <1>1, <1>2, FS_Subset, FS_CardinalityType

(* A step that lets nobody in, serves nobody, and makes no void token good.  *)
LEMMA OthersKeepTheBound ==
  ASSUME Access!ConstantsOK, AccessIInv, UNCHANGED late, AccessTypesHold',
         \A k \in Keys :
           /\ Using(k)' \subseteq Using(k)
           /\ key'[k] = Access!NoKey => key[k] = Access!NoKey
           /\ Access!Void(k) => Access!Void(k)' \/ key[k] = Access!NoKey
  PROVE  LateIsBounded'
<1> SUFFICES ASSUME NEW k \in Keys
             PROVE  /\ key'[k] = Access!NoKey => late'[k] = 0 /\ Using(k)' = {}
                    /\ Access!Void(k)' => late'[k] + Cardinality(Using(k)') <= Cardinality(Threads)
                    /\ ~ Access!Void(k)' => late'[k] = 0
  BY DEF LateIsBounded
<1>1. late'[k] = late[k] /\ late[k] \in Nat
  BY DEF AccessIInv, AccessTypesHold
<1>2. /\ IsFiniteSet(Using(k))
      /\ Cardinality(Using(k)) \in Nat
      /\ Cardinality(Threads) \in Nat
      /\ Cardinality(Using(k)) <= Cardinality(Threads)
  BY UsersAreFew
<1>3. Cardinality(Using(k)') \in Nat /\ Cardinality(Using(k)') <= Cardinality(Using(k))
  BY <1>2, FS_Subset, FS_CardinalityType
<1>4. /\ key[k] = Access!NoKey => late[k] = 0 /\ Using(k) = {}
      /\ Access!Void(k) => late[k] + Cardinality(Using(k)) <= Cardinality(Threads)
      /\ ~ Access!Void(k) => late[k] = 0
  BY DEF AccessIInv, LateIsBounded
<1>5. key'[k] = Access!NoKey => late'[k] = 0 /\ Using(k)' = {}
  BY <1>1, <1>4
<1>6. Access!Void(k)' => late'[k] + Cardinality(Using(k)') <= Cardinality(Threads)
  <2>1. CASE Access!Void(k)
    BY <2>1, <1>1, <1>2, <1>3, <1>4
  <2>2. CASE ~ Access!Void(k)
    BY <2>2, <1>1, <1>2, <1>3, <1>4
  <2>3. QED
    BY <2>1, <2>2
<1>7. ~ Access!Void(k)' => late'[k] = 0
  BY <1>1, <1>4
<1>8. QED
  BY <1>5, <1>6, <1>7

-----------------------------------------------------------------------------
LEMMA AccessInitHolds ==
  ASSUME Access!ConstantsOK, Access!Init
  PROVE  AccessIInv
<1>1. AccessTypesHold
  BY DEF Access!Init, AccessTypesHold, Access!ConstantsOK, Access!NoKey, Access!NewKey, Access!Idle, AccessRows, Locals, Whole
<1>2. LateIsBounded
  <2> SUFFICES ASSUME NEW k \in Keys
               PROVE  /\ late[k] = 0
                      /\ Using(k) = {}
    BY UsersAreFew, FS_EmptySet DEF LateIsBounded
  <2>1. QED
    BY DEF Access!Init, Using, Access!Idle
<1>3. CreatorMayManage
  BY DEF Access!Init, CreatorMayManage, Access!Idle
<1>4. Access!CreatorsManage
  BY DEF Access!Init, Access!CreatorsManage, Access!NewKey, Access!NoKey, Access!ConstantsOK
<1>5. RowIsKnown
  BY DEF Access!Init, RowIsKnown, Access!Idle
<1>6. QED
  BY <1>1, <1>2, <1>3, <1>4, <1>5 DEF AccessIInv

-----------------------------------------------------------------------------
LEMMA SetIsWhole ==
  ASSUME AccessTypesHold, NEW t \in Threads, NEW r, Whole(r), Access!Set(t, r),
         key' \in [Keys -> AccessRows], late' \in [Keys -> Nat], changes' \in Nat, requests' \in Nat
  PROVE  AccessTypesHold'
  BY DEF AccessTypesHold, Access!Set, Whole, Locals

LEMMA IdleIsWhole == Whole(Access!Idle)
  BY DEF Whole, Access!Idle, Locals

LEMMA TypesAreKept ==
  ASSUME Access!ConstantsOK, AccessIInv, [Access!Next]_(Access!vars)
  PROVE  AccessTypesHold'
<1>0. AccessTypesHold
  BY DEF AccessIInv
<1>1. /\ key \in [Keys -> AccessRows] /\ late \in [Keys -> Nat] /\ changes \in Nat /\ requests \in Nat
      /\ \A t \in Threads : Whole(use[t])
  BY <1>0 DEF AccessTypesHold
<1>2. ASSUME NEW t \in Threads, NEW r, Whole(r), Access!Begin(t, r)
      PROVE  AccessTypesHold'
  BY <1>0, <1>1, <1>2, SetIsWhole DEF Access!Begin
<1>3. ASSUME NEW t \in Threads, NEW u \in Users, NEW b \in Businesses \cup {None},
             Access!BeginCreate(t, u, b)
      PROVE  AccessTypesHold'
  <2>1. Whole([Access!Idle EXCEPT !.pc = "create", !.user = u, !.business = b, !.since = changes])
    BY <1>1 DEF Whole, Access!Idle, Locals
  <2>2. QED
    BY <1>2, <1>3, <2>1 DEF Access!BeginCreate
<1>4. ASSUME NEW t \in Threads, NEW u \in Users, NEW b \in Businesses \cup {None},
             NEW k \in Keys, NEW todo \in {"revoke", "delete"}, Access!BeginChange(t, u, b, k, todo)
      PROVE  AccessTypesHold'
  <2>1. Whole([Access!Idle EXCEPT !.pc = "check", !.user = u, !.key = k, !.todo = todo])
    BY DEF Whole, Access!Idle, Locals
  <2>2. QED
    BY <1>2, <1>4, <2>1 DEF Access!BeginChange
<1>5. ASSUME NEW t \in Threads, NEW k \in Keys, Access!BeginUse(t, k)
      PROVE  AccessTypesHold'
  <2>1. Whole([Access!Idle EXCEPT !.pc = "use", !.key = k])
    BY DEF Whole, Access!Idle, Locals
  <2>2. QED
    BY <1>2, <1>5, <2>1 DEF Access!BeginUse
<1>6. ASSUME NEW t \in Threads, Access!Resolve(t)
      PROVE  AccessTypesHold'
  <2>1. CASE Access!Target(use[t].user, use[t].business) = {}
    BY <1>0, <1>1, <1>6, <2>1, SetIsWhole, IdleIsWhole DEF Access!Resolve
  <2>2. CASE Access!Target(use[t].user, use[t].business) # {}
    <3>1. PICK b \in Access!Target(use[t].user, use[t].business) :
            Access!Set(t, [use[t] EXCEPT !.pc = "insert", !.business = b])
      BY <1>6, <2>2 DEF Access!Resolve
    <3>2. b \in Businesses
      BY <3>1 DEF Access!Target
    <3>3. Whole([use[t] EXCEPT !.pc = "insert", !.business = b])
      BY <1>1, <3>2 DEF Whole, Locals
    <3>4. QED
      BY <1>0, <1>1, <1>6, <3>1, <3>3, SetIsWhole DEF Access!Resolve
  <2>3. QED
    BY <2>1, <2>2
<1>7. ASSUME NEW t \in Threads, Access!Insert(t)
      PROVE  AccessTypesHold'
  <2>1. PICK k \in Keys :
          key' = [key EXCEPT ![k] = Access!NewKey(use[t].business,
                    Access!RoleIn(use[t].user, use[t].business) = "manager" \/ changes # use[t].since)]
    BY <1>7 DEF Access!Insert
  <2>2. Access!NewKey(use[t].business,
          Access!RoleIn(use[t].user, use[t].business) = "manager" \/ changes # use[t].since) \in AccessRows
    BY <1>1 DEF Access!NewKey, AccessRows, Whole, Locals
  <2>3. key' \in [Keys -> AccessRows]
    BY <1>1, <2>1, <2>2
  <2>4. QED
    BY <1>0, <1>1, <1>7, <2>3, SetIsWhole, IdleIsWhole DEF Access!Insert
<1>8. ASSUME NEW t \in Threads, Access!Check(t)
      PROVE  AccessTypesHold'
  <2>1. Whole([use[t] EXCEPT !.pc = use[t].todo])
    BY <1>1, <1>8 DEF Access!Check, Whole, Locals
  <2>2. QED
    BY <1>0, <1>1, <1>8, <2>1, SetIsWhole DEF Access!Check
<1>9. ASSUME NEW t \in Threads, Access!Revoke(t)
      PROVE  AccessTypesHold'
  <2>1. [key[use[t].key] EXCEPT !.active = FALSE] \in AccessRows
    BY <1>1, <1>9 DEF Access!Revoke, AccessRows, Whole
  <2>2. key' \in [Keys -> AccessRows]
    BY <1>1, <1>9, <2>1 DEF Access!Revoke
  <2>3. QED
    BY <1>0, <1>1, <1>9, <2>2, SetIsWhole, IdleIsWhole DEF Access!Revoke
<1>10. ASSUME NEW t \in Threads, Access!Delete(t)
       PROVE  AccessTypesHold'
  <2>1. [key[use[t].key] EXCEPT !.status = "deleted"] \in AccessRows
    BY <1>1, <1>10 DEF Access!Delete, AccessRows, Whole
  <2>2. key' \in [Keys -> AccessRows]
    BY <1>1, <1>10, <2>1 DEF Access!Delete
  <2>3. QED
    BY <1>0, <1>1, <1>10, <2>2, SetIsWhole, IdleIsWhole DEF Access!Delete
<1>11. ASSUME NEW t \in Threads, Access!Serve(t)
       PROVE  AccessTypesHold'
  <2>1. late' \in [Keys -> Nat]
    BY <1>1, <1>11 DEF Access!Serve, Whole
  <2>2. QED
    BY <1>0, <1>1, <1>11, <2>1, SetIsWhole, IdleIsWhole DEF Access!Serve
<1>12. ASSUME NEW t \in Threads, Access!Abort(t)
       PROVE  AccessTypesHold'
  BY <1>0, <1>1, <1>12, SetIsWhole, IdleIsWhole DEF Access!Abort, Access!Refuse
<1>13. ASSUME NEW k \in Keys, Access!Expire(k)
       PROVE  AccessTypesHold'
  <2>1. [key[k] EXCEPT !.expired = TRUE] \in AccessRows
    BY <1>1 DEF AccessRows
  <2>2. key' \in [Keys -> AccessRows]
    BY <1>1, <1>13, <2>1 DEF Access!Expire
  <2>3. QED
    BY <1>0, <1>13, <2>2 DEF Access!Expire, AccessTypesHold
<1>14. ASSUME NEW b \in Businesses, Access!Close(b)
       PROVE  AccessTypesHold'
  BY <1>0, <1>14 DEF Access!Close, AccessTypesHold
<1>15. ASSUME NEW u \in Users, NEW b \in Businesses, Access!ChangeMembership(u, b) \/ Access!Promote(u, b)
       PROVE  AccessTypesHold'
  BY <1>0, <1>15 DEF Access!ChangeMembership, Access!Promote, AccessTypesHold
<1>16. CASE UNCHANGED Access!vars
  BY <1>0, <1>16 DEF Access!vars, AccessTypesHold
<1>17. QED
  BY <1>3, <1>4, <1>5, <1>6, <1>7, <1>8, <1>9, <1>10, <1>11, <1>12, <1>13, <1>14, <1>15, <1>16
  DEF Access!Next

-----------------------------------------------------------------------------
(* What becomes of the threads that use a token.                            *)
LEMMA SetMovesOne ==
  ASSUME AccessTypesHold, NEW t \in Threads, NEW r, Access!Set(t, r), NEW k
  PROVE  /\ r.pc # "use" => Using(k)' = Using(k) \ {t}
         /\ r.pc = "use" /\ r.key # k => Using(k)' \subseteq Using(k)
  BY DEF AccessTypesHold, Access!Set, Using

LEMMA BoundIsKept ==
  ASSUME Access!ConstantsOK, AccessIInv, [Access!Next]_(Access!vars)
  PROVE  LateIsBounded'
<1>0. AccessTypesHold /\ AccessTypesHold' /\ LateIsBounded
  BY TypesAreKept DEF AccessIInv
<1>1. \A t \in Threads : Whole(use[t])
  BY <1>0 DEF AccessTypesHold
<1>2. ASSUME UNCHANGED <<key, open, late>>, NEW t \in Threads, NEW r, Access!Set(t, r), r.pc # "use"
      PROVE  LateIsBounded'
  <2>1. \A k \in Keys : Using(k)' \subseteq Using(k)
    BY <1>0, <1>2, SetMovesOne
  <2>2. \A k \in Keys : Access!Void(k)' <=> Access!Void(k)
    BY <1>2 DEF Access!Void
  <2>3. QED
    BY <1>0, <1>2, <2>1, <2>2, OthersKeepTheBound
<1>3. ASSUME UNCHANGED <<late, use>>,
             \A k \in Keys : /\ key'[k] = Access!NoKey => key[k] = Access!NoKey
                             /\ Access!Void(k) => Access!Void(k)'
      PROVE  LateIsBounded'
  <2>1. \A k \in Keys : Using(k)' \subseteq Using(k)
    BY <1>3 DEF Using
  <2>2. \A k \in Keys : key'[k] = Access!NoKey => key[k] = Access!NoKey
    BY <1>3
  <2>3. \A k \in Keys : Access!Void(k) => Access!Void(k)' \/ key[k] = Access!NoKey
    BY <1>3
  <2>4. UNCHANGED late
    BY <1>3
  <2>5. QED
    BY <1>0, <2>1, <2>2, <2>3, <2>4, OthersKeepTheBound
<1>4. ASSUME NEW t \in Threads, NEW u \in Users, NEW b \in Businesses \cup {None},
             \/ Access!BeginCreate(t, u, b)
             \/ \E k \in Keys, todo \in {"revoke", "delete"} : Access!BeginChange(t, u, b, k, todo)
      PROVE  LateIsBounded'
  BY <1>2, <1>4 DEF Access!BeginCreate, Access!BeginChange, Access!Begin, Access!Idle
<1>5. ASSUME NEW t \in Threads, NEW k \in Keys, Access!BeginUse(t, k)
      PROVE  LateIsBounded'
  <2>1. /\ UNCHANGED <<key, open, late>>
        /\ Access!Set(t, [Access!Idle EXCEPT !.pc = "use", !.key = k])
        /\ ~ Access!Void(k) /\ key[k] # Access!NoKey
    BY <1>5 DEF Access!BeginUse, Access!Begin, Access!IsGood, Access!Void, Access!NoKey
  <2>2. ASSUME NEW x \in Keys, x # k
        PROVE  Using(x)' \subseteq Using(x)
    <3>1. /\ [Access!Idle EXCEPT !.pc = "use", !.key = k].pc = "use"
          /\ [Access!Idle EXCEPT !.pc = "use", !.key = k].key = k
      BY DEF Access!Idle
    <3>2. QED
      BY <1>0, <2>1, <2>2, <3>1, SetMovesOne
  <2>3. SUFFICES ASSUME NEW x \in Keys
                 PROVE  /\ key'[x] = Access!NoKey => late'[x] = 0 /\ Using(x)' = {}
                        /\ Access!Void(x)' => late'[x] + Cardinality(Using(x)') <= Cardinality(Threads)
                        /\ ~ Access!Void(x)' => late'[x] = 0
    BY DEF LateIsBounded
  <2>4. CASE x = k
    BY <1>0, <2>1, <2>4 DEF LateIsBounded, Access!Void
  <2>5. CASE x # k
    <3>1. /\ IsFiniteSet(Using(x)) /\ Cardinality(Using(x)) \in Nat /\ Cardinality(Threads) \in Nat
      BY UsersAreFew
    <3>2. /\ Cardinality(Using(x)') \in Nat
          /\ Cardinality(Using(x)') <= Cardinality(Using(x))
      BY <2>2, <2>5, <3>1, FS_Subset, FS_CardinalityType
    <3>3. Access!Void(x)' <=> Access!Void(x)
      BY <2>1 DEF Access!Void
    <3>4. late'[x] = late[x] /\ key'[x] = key[x] /\ late[x] \in Nat
      BY <1>0, <2>1 DEF AccessTypesHold
    <3>5. QED
      BY <1>0, <2>2, <2>5, <3>1, <3>2, <3>3, <3>4 DEF LateIsBounded
  <2>6. QED
    BY <2>4, <2>5
<1>6. ASSUME NEW t \in Threads, Access!Resolve(t) \/ Access!Check(t)
      PROVE  LateIsBounded'
  <2>1. CASE Access!Resolve(t)
    <3>1. UNCHANGED <<key, open, late>>
      BY <2>1 DEF Access!Resolve
    <3>2. PICK r : Access!Set(t, r) /\ r.pc # "use"
      <4>1. CASE Access!Target(use[t].user, use[t].business) = {}
        BY <2>1, <4>1 DEF Access!Resolve, Access!Idle
      <4>2. CASE Access!Target(use[t].user, use[t].business) # {}
        <5>1. PICK b : Access!Set(t, [use[t] EXCEPT !.pc = "insert", !.business = b])
          BY <2>1, <4>2 DEF Access!Resolve
        <5>2. [use[t] EXCEPT !.pc = "insert", !.business = b].pc = "insert"
          BY <1>1 DEF Whole, Locals
        <5>3. QED
          BY <5>1, <5>2
      <4>3. QED
        BY <4>1, <4>2
    <3>3. QED
      BY <1>2, <3>1, <3>2
  <2>2. CASE Access!Check(t)
    <3>1. [use[t] EXCEPT !.pc = use[t].todo].pc # "use"
      BY <1>1, <2>2 DEF Access!Check, Whole, Locals
    <3>2. UNCHANGED <<key, open, late>> /\ Access!Set(t, [use[t] EXCEPT !.pc = use[t].todo])
      BY <2>2 DEF Access!Check
    <3>3. QED
      BY <1>2, <3>1, <3>2
  <2>3. QED
    BY <1>6, <2>1, <2>2
<1>7. ASSUME NEW t \in Threads, Access!Insert(t)
      PROVE  LateIsBounded'
  <2>1. PICK k \in Keys :
          /\ key[k] = Access!NoKey
          /\ key' = [key EXCEPT ![k] = Access!NewKey(use[t].business,
                       Access!RoleIn(use[t].user, use[t].business) = "manager" \/ changes # use[t].since)]
    BY <1>7 DEF Access!Insert
  <2>2. \A x \in Keys : x # k => key'[x] = key[x]
    BY <1>0, <2>1 DEF AccessTypesHold
  <2>3. UNCHANGED <<open, late>> /\ Access!Set(t, Access!Idle)
    BY <1>7 DEF Access!Insert
  <2>4. \A x \in Keys : Access!Void(x) => Access!Void(x)' \/ key[x] = Access!NoKey
    BY <2>1, <2>2, <2>3 DEF Access!Void
  <2>5. \A x \in Keys : Using(x)' \subseteq Using(x)
    BY <1>0, <2>3, SetMovesOne DEF Access!Idle
  <2>6. \A x \in Keys : key'[x] = Access!NoKey => key[x] = Access!NoKey
    BY <2>1, <2>2
  <2>7. QED
    BY <1>0, <2>3, <2>4, <2>5, <2>6, OthersKeepTheBound
<1>8. ASSUME NEW t \in Threads, Access!Revoke(t) \/ Access!Delete(t)
      PROVE  LateIsBounded'
  <2>1. UNCHANGED <<open, late>> /\ Access!Set(t, Access!Idle) /\ use[t].key \in Keys
    BY <1>1, <1>8 DEF Access!Revoke, Access!Delete, Whole
  <2>2. \A x \in Keys : key[x] \in AccessRows
    BY <1>0 DEF AccessTypesHold
  <2>3. CASE Access!Revoke(t)
    <3>1. \A x \in Keys : key'[x] = IF x = use[t].key THEN [key[x] EXCEPT !.active = FALSE] ELSE key[x]
      BY <1>0, <2>3 DEF Access!Revoke, AccessTypesHold
    <3>2. \A x \in Keys : /\ key'[x].status = key[x].status
                          /\ key'[x].business = key[x].business
                          /\ key'[x].expired = key[x].expired
                          /\ key'[x] = key[x] \/ (key'[x].active = FALSE /\ key[x].status = "row")
      BY <2>2, <2>3, <3>1 DEF Access!Revoke, AccessRows
    <3>3. \A x \in Keys : Access!Void(x) => Access!Void(x)' \/ key[x] = Access!NoKey
      BY <2>1, <3>2 DEF Access!Void
    <3>4. \A x \in Keys : key'[x] = Access!NoKey => key[x] = Access!NoKey
      BY <3>2 DEF Access!NoKey
    <3>5. \A x \in Keys : Using(x)' \subseteq Using(x)
      BY <1>0, <2>1, SetMovesOne DEF Access!Idle
    <3>6. QED
      BY <1>0, <2>1, <3>3, <3>4, <3>5, OthersKeepTheBound
  <2>4. CASE Access!Delete(t)
    <3>1. \A x \in Keys : key'[x] = IF x = use[t].key THEN [key[x] EXCEPT !.status = "deleted"] ELSE key[x]
      BY <1>0, <2>4 DEF Access!Delete, AccessTypesHold
    <3>2. \A x \in Keys : /\ key'[x].active = key[x].active
                          /\ key'[x].business = key[x].business
                          /\ key'[x].expired = key[x].expired
                          /\ key'[x] = key[x] \/ key'[x].status = "deleted"
      BY <2>2, <3>1 DEF AccessRows
    <3>3. \A x \in Keys : Access!Void(x) => Access!Void(x)' \/ key[x] = Access!NoKey
      BY <2>1, <3>2 DEF Access!Void
    <3>4. \A x \in Keys : key'[x] = Access!NoKey => key[x] = Access!NoKey
      BY <3>2 DEF Access!NoKey
    <3>5. \A x \in Keys : Using(x)' \subseteq Using(x)
      BY <1>0, <2>1, SetMovesOne DEF Access!Idle
    <3>6. QED
      BY <1>0, <2>1, <3>3, <3>4, <3>5, OthersKeepTheBound
  <2>5. QED
    BY <1>8, <2>3, <2>4
<1>9. ASSUME NEW t \in Threads, Access!Serve(t)
      PROVE  LateIsBounded'
  <2> DEFINE k == use[t].key
  <2>1. /\ UNCHANGED <<key, open>> /\ Access!Set(t, Access!Idle) /\ k \in Keys /\ t \in Using(k)
        /\ late' = [late EXCEPT ![k] = IF Access!Void(k) THEN late[k] + 1 ELSE late[k]]
        /\ key[k] # Access!NoKey
    BY <1>1, <1>9 DEF Access!Serve, Whole, Using, Access!NoKey
  <2>2. ASSUME NEW x \in Keys
        PROVE  /\ Using(x)' = Using(x) \ {t}
               /\ Access!Void(x)' <=> Access!Void(x)
               /\ late[x] \in Nat
               /\ key'[x] = key[x]
               /\ late'[x] = IF x = k /\ Access!Void(k) THEN late[x] + 1 ELSE late[x]
    BY <1>0, <2>1, SetMovesOne DEF Access!Idle, Access!Void, AccessTypesHold
  <2> HIDE DEF k
  <2>3. SUFFICES ASSUME NEW x \in Keys
                 PROVE  /\ key'[x] = Access!NoKey => late'[x] = 0 /\ Using(x)' = {}
                        /\ Access!Void(x)' => late'[x] + Cardinality(Using(x)') <= Cardinality(Threads)
                        /\ ~ Access!Void(x)' => late'[x] = 0
    BY DEF LateIsBounded
  <2>4. /\ IsFiniteSet(Using(x)) /\ Cardinality(Using(x)) \in Nat /\ Cardinality(Threads) \in Nat
    BY UsersAreFew
  <2>5. /\ Cardinality(Using(x)') = IF t \in Using(x) THEN Cardinality(Using(x)) - 1
                                                      ELSE Cardinality(Using(x))
    BY <2>2, <2>4, FS_RemoveElement
  <2>6. CASE x = k
    BY <1>0, <2>1, <2>2, <2>4, <2>5, <2>6 DEF LateIsBounded
  <2>7. CASE x # k
    BY <1>0, <2>2, <2>4, <2>5, <2>7 DEF LateIsBounded
  <2>8. QED
    BY <2>6, <2>7
<1>10. ASSUME NEW t \in Threads, Access!Abort(t)
       PROVE  LateIsBounded'
  BY <1>2, <1>10 DEF Access!Abort, Access!Refuse, Access!Idle
<1>11. ASSUME NEW x \in Keys, Access!Expire(x)
       PROVE  LateIsBounded'
  <2>1. \A k \in Keys : key[k] \in AccessRows
    BY <1>0 DEF AccessTypesHold
  <2>2. \A k \in Keys : key'[k] = IF k = x THEN [key[k] EXCEPT !.expired = TRUE] ELSE key[k]
    BY <1>0, <1>11 DEF Access!Expire, AccessTypesHold
  <2>3. \A k \in Keys : /\ key'[k].status = key[k].status
                        /\ key'[k] = key[k] \/ (key'[k].expired = TRUE /\ key[k].status = "row")
    BY <1>11, <2>1, <2>2 DEF Access!Expire, AccessRows
  <2>4. UNCHANGED <<open, late, use>>
    BY <1>11 DEF Access!Expire
  <2>5. QED
    BY <1>3, <2>3, <2>4 DEF Access!Void, Access!NoKey
<1>12. ASSUME NEW b \in Businesses, Access!Close(b)
       PROVE  LateIsBounded'
  BY <1>3, <1>12 DEF Access!Close, Access!Void
<1>13. ASSUME NEW u \in Users, NEW b \in Businesses, Access!ChangeMembership(u, b) \/ Access!Promote(u, b)
       PROVE  LateIsBounded'
  BY <1>3, <1>13 DEF Access!ChangeMembership, Access!Promote, Access!Void
<1>14. CASE UNCHANGED Access!vars
  BY <1>3, <1>14 DEF Access!vars, Access!Void
<1>15. QED
  BY <1>4, <1>5, <1>6, <1>7, <1>8, <1>9, <1>10, <1>11, <1>12, <1>13, <1>14
  DEF Access!Next

-----------------------------------------------------------------------------
(* A request found the business of its token in the membership that let it   *)
(* in, if memberships are as they were then.                                *)
LEMMA TargetIsPermitted ==
  ASSUME NEW u, NEW b, Access!Permitted(u, b), NEW x \in Access!Target(u, b), None \notin Businesses
  PROVE  Access!RoleIn(u, x) = "manager"
<1>1. CASE u \in Stuff
  BY <1>1 DEF Access!Target, Access!Permitted
<1>2. CASE u \notin Stuff
  BY <1>2 DEF Access!Target, Access!Permitted
<1>3. QED
  BY <1>1, <1>2

LEMMA SameRoles ==
  ASSUME UNCHANGED joined, NEW u, NEW b
  PROVE  /\ Access!RoleIn(u, b)' = Access!RoleIn(u, b)
         /\ Access!Permitted(u, b)' <=> Access!Permitted(u, b)
<1>1. \A x : Access!RoleIn(u, x)' = Access!RoleIn(u, x)
  BY DEF Access!RoleIn
<1>2. Access!Primary(u)' = Access!Primary(u)
  BY DEF Access!Primary
<1>3. QED
  BY <1>1, <1>2 DEF Access!Permitted

LEMMA CreatorsAreKept ==
  ASSUME Access!ConstantsOK, AccessIInv, [Access!Next]_(Access!vars)
  PROVE  CreatorMayManage' /\ Access!CreatorsManage' /\ RowIsKnown'
<1>0. /\ AccessTypesHold /\ CreatorMayManage /\ Access!CreatorsManage /\ RowIsKnown
      /\ changes \in Nat
      /\ \A t \in Threads : Whole(use[t])
  BY DEF AccessIInv, AccessTypesHold
<1>1. ASSUME NEW t \in Threads, NEW r, Access!Set(t, r), UNCHANGED <<key, joined, changes>>,
             r.pc \notin {"create", "insert"},
             r.pc \in {"check", "revoke", "delete"} => key[r.key] # Access!NoKey
      PROVE  CreatorMayManage' /\ Access!CreatorsManage' /\ RowIsKnown'
  <2>1. \A x \in Threads : use'[x] = IF x = t THEN r ELSE use[x]
    BY <1>0, <1>1 DEF Access!Set, AccessTypesHold
  <2>2. CreatorMayManage'
    BY <1>0, <1>1, <2>1, SameRoles DEF CreatorMayManage
  <2>3. RowIsKnown'
    BY <1>0, <1>1, <2>1 DEF RowIsKnown
  <2>4. QED
    BY <1>0, <1>1, <2>2, <2>3 DEF Access!CreatorsManage
<1>2. ASSUME UNCHANGED <<key, use>>, changes' \in Nat,
             changes' > changes \/ UNCHANGED <<changes, joined>>
      PROVE  CreatorMayManage' /\ Access!CreatorsManage' /\ RowIsKnown'
  <2>1. CASE changes' > changes
    <3>1. \A t \in Threads : use[t].since \in Nat
      BY <1>0 DEF Whole, Locals
    <3>2. QED
      BY <1>0, <1>2, <2>1, <3>1 DEF CreatorMayManage, Access!CreatorsManage, RowIsKnown
  <2>2. CASE UNCHANGED <<changes, joined>>
    BY <1>0, <1>2, <2>2, SameRoles DEF CreatorMayManage, Access!CreatorsManage, RowIsKnown
  <2>3. QED
    BY <1>2, <2>1, <2>2
<1>3. ASSUME NEW t \in Threads, NEW u \in Users, NEW b \in Businesses \cup {None},
             Access!BeginCreate(t, u, b)
      PROVE  CreatorMayManage' /\ Access!CreatorsManage' /\ RowIsKnown'
  <2> DEFINE r == [Access!Idle EXCEPT !.pc = "create", !.user = u, !.business = b, !.since = changes]
  <2>1. /\ Access!Set(t, r) /\ Access!Permitted(u, b) /\ UNCHANGED <<key, joined, changes>>
    BY <1>3 DEF Access!BeginCreate, Access!Begin
  <2>2. r.pc = "create" /\ r.user = u /\ r.business = b /\ r.since = changes
    BY DEF Access!Idle
  <2> HIDE DEF r
  <2>3. \A x \in Threads : use'[x] = IF x = t THEN r ELSE use[x]
    BY <1>0, <2>1 DEF Access!Set, AccessTypesHold
  <2>4. CreatorMayManage'
    BY <1>0, <2>1, <2>2, <2>3, SameRoles DEF CreatorMayManage
  <2>5. RowIsKnown'
    BY <1>0, <2>1, <2>2, <2>3 DEF RowIsKnown
  <2>6. QED
    BY <1>0, <2>1, <2>4, <2>5 DEF Access!CreatorsManage
<1>4. ASSUME NEW t \in Threads, NEW u \in Users, NEW b \in Businesses \cup {None},
             NEW k \in Keys, NEW todo \in {"revoke", "delete"}, Access!BeginChange(t, u, b, k, todo)
      PROVE  CreatorMayManage' /\ Access!CreatorsManage' /\ RowIsKnown'
  <2>1. [Access!Idle EXCEPT !.pc = "check", !.user = u, !.key = k, !.todo = todo].pc = "check"
    BY DEF Access!Idle
  <2>2. [Access!Idle EXCEPT !.pc = "check", !.user = u, !.key = k, !.todo = todo].key = k
    BY DEF Access!Idle
  <2>3. QED
    BY <1>1, <1>4, <2>1, <2>2 DEF Access!BeginChange, Access!Begin
<1>5. ASSUME NEW t \in Threads, NEW k \in Keys, Access!BeginUse(t, k)
      PROVE  CreatorMayManage' /\ Access!CreatorsManage' /\ RowIsKnown'
  <2>1. [Access!Idle EXCEPT !.pc = "use", !.key = k].pc = "use"
    BY DEF Access!Idle
  <2>2. QED
    BY <1>1, <1>5, <2>1 DEF Access!BeginUse, Access!Begin
<1>6. ASSUME NEW t \in Threads, Access!Resolve(t)
      PROVE  CreatorMayManage' /\ Access!CreatorsManage' /\ RowIsKnown'
  <2>1. UNCHANGED <<key, joined, changes>> /\ use[t].pc = "create"
    BY <1>6 DEF Access!Resolve
  <2>2. CASE Access!Target(use[t].user, use[t].business) = {}
    BY <1>1, <1>6, <2>1, <2>2 DEF Access!Resolve, Access!Idle
  <2>3. CASE Access!Target(use[t].user, use[t].business) # {}
    <3> DEFINE r(b) == [use[t] EXCEPT !.pc = "insert", !.business = b]
    <3>1. PICK b \in Access!Target(use[t].user, use[t].business) : Access!Set(t, r(b))
      BY <1>6, <2>3 DEF Access!Resolve
    <3>2. /\ r(b).pc = "insert" /\ r(b).user = use[t].user /\ r(b).business = b
          /\ r(b).since = use[t].since
      BY <1>0 DEF Whole, Locals
    <3>3. b \in Businesses
      BY <3>1 DEF Access!Target
    <3> HIDE DEF r
    <3>4. \A x \in Threads : use'[x] = IF x = t THEN r(b) ELSE use[x]
      BY <1>0, <3>1 DEF Access!Set, AccessTypesHold
    <3>5. /\ use[t].since <= changes
          /\ use[t].since = changes => Access!RoleIn(use[t].user, b) = "manager"
      BY <1>0, <2>1, <3>1, TargetIsPermitted DEF CreatorMayManage, Access!ConstantsOK
    <3>6. CreatorMayManage'
      BY <1>0, <2>1, <3>2, <3>3, <3>4, <3>5, SameRoles DEF CreatorMayManage
    <3>7. RowIsKnown'
      BY <1>0, <2>1, <3>2, <3>4 DEF RowIsKnown
    <3>8. QED
      BY <1>0, <2>1, <3>6, <3>7 DEF Access!CreatorsManage
  <2>4. QED
    BY <2>2, <2>3
<1>7. ASSUME NEW t \in Threads, Access!Insert(t)
      PROVE  CreatorMayManage' /\ Access!CreatorsManage' /\ RowIsKnown'
  <2> DEFINE m == Access!RoleIn(use[t].user, use[t].business) = "manager" \/ changes # use[t].since
  <2>1. PICK k \in Keys : key' = [key EXCEPT ![k] = Access!NewKey(use[t].business, m)]
    BY <1>7 DEF Access!Insert
  <2>2. m /\ use[t].business \in Businesses
    BY <1>0, <1>7 DEF Access!Insert, CreatorMayManage
  <2> HIDE DEF m
  <2>3. UNCHANGED <<joined, changes>> /\ Access!Set(t, Access!Idle)
    BY <1>7 DEF Access!Insert
  <2>4. \A x \in Threads : use'[x] = IF x = t THEN Access!Idle ELSE use[x]
    BY <1>0, <2>3 DEF Access!Set, AccessTypesHold
  <2>5. CreatorMayManage'
    BY <1>0, <2>3, <2>4, SameRoles DEF CreatorMayManage, Access!Idle
  <2>6. \A x \in Keys : key'[x] = IF x = k THEN Access!NewKey(use[t].business, m) ELSE key[x]
    BY <1>0, <2>1 DEF AccessTypesHold
  <2>7. /\ Access!NewKey(use[t].business, m).business = use[t].business
        /\ Access!NewKey(use[t].business, m).managed = m
    BY DEF Access!NewKey
  <2>8. Access!CreatorsManage'
    BY <1>0, <2>2, <2>6, <2>7 DEF Access!CreatorsManage
  <2>9. Access!NewKey(use[t].business, m) # Access!NoKey
    BY DEF Access!NewKey, Access!NoKey
  <2>10. RowIsKnown'
    BY <1>0, <2>4, <2>6, <2>9 DEF RowIsKnown, Access!Idle, Whole
  <2>11. QED
    BY <2>5, <2>8, <2>10
<1>8. ASSUME NEW t \in Threads, Access!Check(t)
      PROVE  CreatorMayManage' /\ Access!CreatorsManage' /\ RowIsKnown'
  <2>1. [use[t] EXCEPT !.pc = use[t].todo].pc \in {"revoke", "delete"}
    BY <1>0, <1>8 DEF Access!Check, Whole, Locals
  <2>2. [use[t] EXCEPT !.pc = use[t].todo].key = use[t].key
    BY <1>0 DEF Whole, Locals
  <2>3. key[use[t].key] # Access!NoKey
    BY <1>0, <1>8 DEF Access!Check, RowIsKnown
  <2>4. QED
    BY <1>1, <1>8, <2>1, <2>2, <2>3 DEF Access!Check
<1>9. ASSUME NEW t \in Threads, Access!Set(t, Access!Idle), UNCHANGED <<joined, changes>>,
             \A k \in Keys : /\ key'[k].business = key[k].business
                             /\ key'[k].managed = key[k].managed
                             /\ key'[k] = Access!NoKey <=> key[k] = Access!NoKey
      PROVE  CreatorMayManage' /\ Access!CreatorsManage' /\ RowIsKnown'
  <2>1. \A x \in Threads : use'[x] = IF x = t THEN Access!Idle ELSE use[x]
    BY <1>0, <1>9 DEF Access!Set, AccessTypesHold
  <2>2. CreatorMayManage'
    BY <1>0, <1>9, <2>1, SameRoles DEF CreatorMayManage, Access!Idle
  <2>3. ASSUME NEW k \in Keys, key'[k] # Access!NoKey
        PROVE  key'[k].business \in Businesses /\ key'[k].managed
    <3>1. key[k].business \in Businesses /\ key[k].managed
      BY <1>0, <1>9, <2>3 DEF Access!CreatorsManage
    <3>2. key'[k].business = key[k].business /\ key'[k].managed = key[k].managed
      BY <1>9
    <3>3. QED
      BY <3>1, <3>2
  <2>4. RowIsKnown'
    BY <1>0, <1>9, <2>1 DEF RowIsKnown, Access!Idle, Whole
  <2>5. QED
    BY <2>2, <2>3, <2>4 DEF Access!CreatorsManage
<1>10. ASSUME NEW t \in Threads, Access!Revoke(t)
       PROVE  CreatorMayManage' /\ Access!CreatorsManage' /\ RowIsKnown'
  <2>1. \A k \in Keys : key[k] \in AccessRows
    BY <1>0 DEF AccessTypesHold
  <2>2. \A k \in Keys : key'[k] = IF k = use[t].key THEN [key[k] EXCEPT !.active = FALSE] ELSE key[k]
    BY <1>0, <1>10 DEF Access!Revoke, AccessTypesHold
  <2>3. \A k \in Keys : /\ key'[k].business = key[k].business
                        /\ key'[k].managed = key[k].managed
                        /\ key'[k].status = key[k].status
                        /\ key'[k] = key[k] \/ key[k].status = "row"
    BY <1>10, <2>1, <2>2 DEF Access!Revoke, AccessRows
  <2>4. \A k \in Keys : key'[k] = Access!NoKey <=> key[k] = Access!NoKey
    BY <2>3 DEF Access!NoKey
  <2>5. Access!Set(t, Access!Idle) /\ UNCHANGED <<joined, changes>>
    BY <1>10 DEF Access!Revoke
  <2>6. QED
    BY <1>9, <2>3, <2>4, <2>5
<1>11. ASSUME NEW t \in Threads, Access!Delete(t)
       PROVE  CreatorMayManage' /\ Access!CreatorsManage' /\ RowIsKnown'
  <2>1. \A k \in Keys : key[k] \in AccessRows
    BY <1>0 DEF AccessTypesHold
  <2>2. \A k \in Keys : key'[k] = IF k = use[t].key THEN [key[k] EXCEPT !.status = "deleted"] ELSE key[k]
    BY <1>0, <1>11 DEF Access!Delete, AccessTypesHold
  <2>3. \A k \in Keys : /\ key'[k].business = key[k].business
                        /\ key'[k].managed = key[k].managed
    BY <2>1, <2>2 DEF AccessRows
  <2>4. \A k \in Keys : key'[k] = Access!NoKey <=> key[k] = Access!NoKey
    <3>1. use[t].key \in Keys /\ key[use[t].key] # Access!NoKey
      BY <1>0, <1>11 DEF Access!Delete, RowIsKnown, Whole
    <3>2. key'[use[t].key].status = "deleted"
      BY <2>1, <2>2, <3>1 DEF AccessRows
    <3>3. key'[use[t].key] # Access!NoKey
      BY <3>2 DEF Access!NoKey
    <3>4. QED
      BY <2>2, <3>1, <3>3
  <2>5. Access!Set(t, Access!Idle) /\ UNCHANGED <<joined, changes>>
    BY <1>11 DEF Access!Delete
  <2>6. QED
    BY <1>9, <2>3, <2>4, <2>5
<1>12. ASSUME NEW t \in Threads, Access!Serve(t) \/ Access!Abort(t)
       PROVE  CreatorMayManage' /\ Access!CreatorsManage' /\ RowIsKnown'
  BY <1>1, <1>12 DEF Access!Serve, Access!Abort, Access!Refuse, Access!Idle
<1>13. ASSUME NEW x \in Keys, Access!Expire(x)
       PROVE  CreatorMayManage' /\ Access!CreatorsManage' /\ RowIsKnown'
  <2>1. \A k \in Keys : key[k] \in AccessRows
    BY <1>0 DEF AccessTypesHold
  <2>2. \A k \in Keys : key'[k] = IF k = x THEN [key[k] EXCEPT !.expired = TRUE] ELSE key[k]
    BY <1>0, <1>13 DEF Access!Expire, AccessTypesHold
  <2>3. \A k \in Keys : /\ key'[k].business = key[k].business
                        /\ key'[k].managed = key[k].managed
                        /\ key'[k].status = key[k].status
                        /\ key'[k] = key[k] \/ key[k].status = "row"
    BY <1>13, <2>1, <2>2 DEF Access!Expire, AccessRows
  <2>4. \A k \in Keys : key'[k] = Access!NoKey <=> key[k] = Access!NoKey
    BY <2>3 DEF Access!NoKey
  <2>5. UNCHANGED <<joined, changes, use>>
    BY <1>13 DEF Access!Expire
  <2>6. CreatorMayManage'
    BY <1>0, <2>5, SameRoles DEF CreatorMayManage
  <2>7. RowIsKnown'
    BY <1>0, <2>4, <2>5 DEF RowIsKnown, Whole
  <2>8. ASSUME NEW k \in Keys, key'[k] # Access!NoKey
        PROVE  key'[k].business \in Businesses /\ key'[k].managed
    <3>1. key[k].business \in Businesses /\ key[k].managed
      BY <1>0, <2>4, <2>8 DEF Access!CreatorsManage
    <3>2. key'[k].business = key[k].business /\ key'[k].managed = key[k].managed
      BY <2>3
    <3>3. QED
      BY <3>1, <3>2
  <2>9. QED
    BY <2>6, <2>7, <2>8 DEF Access!CreatorsManage
<1>14. ASSUME NEW b \in Businesses, Access!Close(b)
       PROVE  CreatorMayManage' /\ Access!CreatorsManage' /\ RowIsKnown'
  BY <1>0, <1>2, <1>14 DEF Access!Close
<1>15. ASSUME NEW u \in Users, NEW b \in Businesses, Access!ChangeMembership(u, b) \/ Access!Promote(u, b)
       PROVE  CreatorMayManage' /\ Access!CreatorsManage' /\ RowIsKnown'
  BY <1>0, <1>2, <1>15 DEF Access!ChangeMembership, Access!Promote
<1>16. CASE UNCHANGED Access!vars
  BY <1>0, <1>2, <1>16 DEF Access!vars
<1>17. QED
  BY <1>3, <1>4, <1>5, <1>6, <1>7, <1>8, <1>10, <1>11, <1>12, <1>13, <1>14, <1>15, <1>16
  DEF Access!Next

-----------------------------------------------------------------------------
LEMMA InvariantHolds ==
  ASSUME Access!ConstantsOK
  PROVE  Access!Spec => []AccessIInv
<1>1. Access!Init => AccessIInv
  BY AccessInitHolds
<1>2. AccessIInv /\ [Access!Next]_(Access!vars) => AccessIInv'
  BY TypesAreKept, BoundIsKept, CreatorsAreKept DEF AccessIInv
<1>3. QED
  BY <1>1, <1>2, PTL DEF Access!Spec

(* AccessTokens counts with an instance of FiniteSets of its own.            *)
LEMMA SizesAgree == \A S : Access!Cardinality(S) = Cardinality(S)
  BY DEF Access!Cardinality, Cardinality

(* A void token serves no more requests than there are threads: those that   *)
(* had been let in before.  Every request that is served late takes one      *)
(* thread that used the token away, and none is let in with it again.       *)
THEOREM VoidTokensServeFew == Access!Spec => []VoidServesFew
<1>1. ASSUME AccessIInv
      PROVE  VoidServesFew
  <2>1. SUFFICES ASSUME NEW k \in Keys
                 PROVE  late[k] <= Cardinality(Threads)
    BY SizesAgree DEF VoidServesFew, Access!VoidServesFew
  <2>2. late[k] \in Nat /\ Cardinality(Using(k)) \in Nat /\ Cardinality(Threads) \in Nat
    BY <1>1, UsersAreFew, TokensAreBounded DEF AccessIInv, AccessTypesHold
  <2>3. QED
    BY <1>1, <2>2 DEF AccessIInv, LateIsBounded
<1>2. QED
  BY <1>1, InvariantHolds, TokensAreBounded, PTL

(* Whoever created a token could manage the tokens of its business, unless    *)
(* memberships changed while the request was served.                        *)
THEOREM TokensAreOfManagers == Access!Spec => []CreatorsManage
<1>1. AccessIInv => CreatorsManage
  BY DEF AccessIInv, CreatorsManage
<1>2. QED
  BY <1>1, InvariantHolds, TokensAreBounded, PTL

(* The composition that TLC checks is one of both parts, so that what is     *)
(* proved of each of them holds of it.                                      *)
LEMMA EachPartIsRun == MCSpec => Spec /\ Access!Spec
<1>1. MCInit => Init /\ Access!Init
  BY DEF MCInit
<1>2. [MCNext]_mcvars => [Next]_vars /\ [Access!Next]_(Access!vars)
  BY DEF MCNext, mcvars, access, vars, Access!vars
<1>3. QED
  BY <1>1, <1>2, PTL DEF MCSpec, Spec, Access!Spec
=============================================================================
