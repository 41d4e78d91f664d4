------------------------------ MODULE AdminAuth ------------------------------
(***************************************************************************)
(* The sessions of an administrator (application/admin_auth.py): login     *)
(* with a password and a mailed link, refresh tokens that rotate, logout   *)
(* and the reset of the password.                                          *)
(*                                                                         *)
(* Confirming a link, refreshing and confirming a reset are transactions.  *)
(* A login and a logout are not: they read a document, and store the whole *)
(* of it later.  The attempts are limited in the memory of the server.     *)
(***************************************************************************)
EXTENDS Naturals, FiniteSets

CONSTANTS Logins,      \* requests that may be logging in at a time
          Leavers,     \* requests that may be logging out at a time
          Links,       \* login links
          Resets,      \* password reset tokens
          Refreshes,   \* refresh tokens
          Passwords, FirstPassword,
          MaxFailed,   \* wrong passwords that lock the account (5 in the code)
          MaxAttempts, \* links, and resets, asked for in ten minutes (3 in the code)
          NoToken

ASSUME AdminAssumption ==
    /\ FirstPassword \in Passwords
    /\ MaxFailed \in Nat \ {0}
    /\ MaxAttempts \in Nat
    /\ Links \cap Resets = {} /\ Links \cap Refreshes = {} /\ Resets \cap Refreshes = {}
    /\ NoToken \notin Links \cup Resets \cup Refreshes

VARIABLES account,  \* [status, hash, failed] of the administrator
          tokens,   \* status of each token
          session,  \* the link each refresh token goes back to
          opened,   \* the links confirmed since the password was last reset
          attempts, \* links and resets asked for within the window
          logins,   \* each request that is logging in
          leavers   \* each request that is logging out

vars == <<account, tokens, session, opened, attempts, logins, leavers>>

\* "lapsed": the account is locked and its fifteen minutes are over.
Account == [status : {"active", "locked", "lapsed"}, hash : Passwords, failed : 0..MaxFailed]
NewAccount == [status |-> "active", hash |-> FirstPassword, failed |-> 0]

\* "late": stored as active, and expired.
TokenStatus == {"none", "active", "late", "consumed", "rotated", "revoked"}
Tokens == Links \cup Resets \cup Refreshes
LoginIdle == [pc |-> "idle", seen |-> NewAccount, link |-> NoToken]

AdminTypeOK ==
    /\ account \in Account
    /\ tokens \in [Tokens -> TokenStatus]
    /\ session \in [Refreshes -> Links \cup {NoToken}]
    /\ opened \subseteq Links
    /\ attempts \in [{"login-link", "password-reset"} -> 0..MaxAttempts]
    /\ logins \in [Logins -> [pc : {"idle", "wrong", "right", "link", "mail"},
                              seen : Account, link : Links \cup {NoToken}]]
    /\ leavers \in [Leavers -> Tokens \cup {NoToken}]
    /\ \A p \in Logins : logins[p].pc = "mail" => logins[p].link \in Links

Init ==
    /\ account = NewAccount
    /\ tokens = [t \in Tokens |-> "none"]
    /\ session = [r \in Refreshes |-> NoToken]
    /\ opened = {}
    /\ attempts = [scope \in {"login-link", "password-reset"} |-> 0]
    /\ logins = [p \in Logins |-> LoginIdle]
    /\ leavers = [q \in Leavers |-> NoToken]

-----------------------------------------------------------------------------
Allowed(scope) == attempts[scope] < MaxAttempts
Recorded(scope) == attempts' = [attempts EXCEPT ![scope] = @ + 1]

\* A lock whose time is over is forgotten in the document that was read.
Unlocked == [account EXCEPT !.status = IF @ = "lapsed" THEN "active" ELSE @]

\* The salted hash of a password is that of no other one.
Verified(password) == password = account.hash

LoginRead(p, password) ==
    /\ logins[p].pc = "idle"
    /\ account.status # "locked"
    /\ logins' = [logins EXCEPT ![p] =
          [pc |-> IF Verified(password) THEN "right" ELSE "wrong",
           seen |-> Unlocked, link |-> NoToken]]
    /\ UNCHANGED <<account, tokens, session, opened, attempts, leavers>>

LoginEnds(p) == logins' = [logins EXCEPT ![p] = LoginIdle]

\* Mutant: the count of wrong passwords goes on behind the lock.
FailedUncapped(seen) ==
    [seen EXCEPT !.failed = @ + 1, !.status = IF seen.failed + 1 = MaxFailed THEN "locked" ELSE @]

\* The count goes on behind the lock as well; from MaxFailed on it is as good.
Failed(seen) ==
    [seen EXCEPT !.failed = IF @ < MaxFailed THEN @ + 1 ELSE @,
                 !.status = IF seen.failed + 1 >= MaxFailed THEN "locked" ELSE @]

\* The document is stored as it was read, but for the failure.
LoginWrong(p) ==
    /\ logins[p].pc = "wrong"
    /\ account' = Failed(logins[p].seen)
    /\ LoginEnds(p)
    /\ UNCHANGED <<tokens, session, opened, attempts, leavers>>

LoginLimited(p) ==
    /\ logins[p].pc = "right"
    /\ ~Allowed("login-link")
    /\ LoginEnds(p)
    /\ UNCHANGED <<account, tokens, session, opened, attempts, leavers>>

LoginRight(p) ==
    /\ logins[p].pc = "right"
    /\ Allowed("login-link")
    /\ Recorded("login-link")
    /\ account' = [logins[p].seen EXCEPT !.failed = 0]
    /\ logins' = [logins EXCEPT ![p].pc = "link"]
    /\ UNCHANGED <<tokens, session, opened, leavers>>

LoginLink(p, l) ==
    /\ logins[p].pc = "link"
    /\ tokens[l] = "none"
    /\ tokens' = [tokens EXCEPT ![l] = "active"]
    /\ logins' = [logins EXCEPT ![p].pc = "mail", ![p].link = l]
    /\ UNCHANGED <<account, session, opened, attempts, leavers>>

LoginMailed(p) ==
    /\ logins[p].pc = "mail"
    /\ LoginEnds(p)
    /\ UNCHANGED <<account, tokens, session, opened, attempts, leavers>>

\* Mutant: the link is stored again as it was made.
LoginMailKept(p) ==
    /\ logins[p].pc = "mail"
    /\ tokens' = [tokens EXCEPT ![logins[p].link] = "active"]
    /\ LoginEnds(p)
    /\ UNCHANGED <<account, session, opened, attempts, leavers>>

\* The token is stored again, as revoked, whatever became of it.
LoginMailFails(p) ==
    /\ logins[p].pc = "mail"
    /\ tokens' = [tokens EXCEPT ![logins[p].link] = "revoked"]
    /\ LoginEnds(p)
    /\ UNCHANGED <<account, session, opened, attempts, leavers>>

LoginCrash(p) ==
    /\ logins[p].pc # "idle"
    /\ LoginEnds(p)
    /\ UNCHANGED <<account, tokens, session, opened, attempts, leavers>>

-----------------------------------------------------------------------------
ActiveToken(t) == tokens[t] = "active"
ActiveAdmin == account.status = "active"

\* A new refresh token r of the session of link l; t is spent for it.
Issued(r, l, t, spent) ==
    /\ tokens[r] = "none"
    /\ tokens' = [tokens EXCEPT ![t] = spent, ![r] = "active"]
    /\ session' = [session EXCEPT ![r] = l]

\* Mutant: the link may be used again.
ConfirmLoginAgain(l, r) ==
    /\ ActiveToken(l)
    /\ ActiveAdmin
    /\ Issued(r, l, l, "active")
    /\ opened' = opened \cup {l}
    /\ account' = [account EXCEPT !.failed = 0]
    /\ UNCHANGED <<attempts, logins, leavers>>

ConfirmLogin(l, r) ==
    /\ ActiveToken(l)
    /\ ActiveAdmin
    /\ Issued(r, l, l, "consumed")
    /\ opened' = opened \cup {l}
    /\ account' = [account EXCEPT !.failed = 0]
    /\ UNCHANGED <<attempts, logins, leavers>>

Refresh(r, new) ==
    /\ ActiveToken(r)
    /\ ActiveAdmin
    /\ Issued(new, session[r], r, "rotated")
    /\ UNCHANGED <<account, opened, attempts, logins, leavers>>

\* revoke_active_refresh_tokens
Revoked ==
    [t \in Tokens |-> IF t \in Refreshes /\ tokens[t] \in {"active", "late"}
                      THEN "revoked" ELSE tokens[t]]

\* A token that is not active any more ends all sessions.
RefreshReused(r) ==
    /\ tokens[r] \in {"rotated", "revoked"}
    /\ tokens' = Revoked
    /\ UNCHANGED <<account, session, opened, attempts, logins, leavers>>

LogoutAll ==
    /\ tokens' = Revoked
    /\ UNCHANGED <<account, session, opened, attempts, logins, leavers>>

\* A token of any kind is taken.
LogoutRead(q, t) ==
    /\ leavers[q] = NoToken
    /\ tokens[t] # "none"
    /\ leavers' = [leavers EXCEPT ![q] = t]
    /\ UNCHANGED <<account, tokens, session, opened, attempts, logins>>

\* The token that was read is stored, as revoked.
LogoutSave(q) ==
    /\ leavers[q] # NoToken
    /\ tokens' = [tokens EXCEPT ![leavers[q]] = "revoked"]
    /\ leavers' = [leavers EXCEPT ![q] = NoToken]
    /\ UNCHANGED <<account, session, opened, attempts, logins>>

-----------------------------------------------------------------------------
ResetRequest(t) ==
    /\ Allowed("password-reset")
    /\ Recorded("password-reset")
    /\ ActiveAdmin
    /\ tokens[t] = "none"
    /\ tokens' = [tokens EXCEPT ![t] = "active"]
    /\ UNCHANGED <<account, session, opened, logins, leavers>>

\* An account that is not active gets no mail, and the answer is the same.
ResetIgnored ==
    /\ Allowed("password-reset")
    /\ Recorded("password-reset")
    /\ ~ActiveAdmin
    /\ UNCHANGED <<account, tokens, session, opened, logins, leavers>>

\* Mutant: the sessions of the old password go on.
ResetConfirmOnly(t, password) ==
    /\ ActiveToken(t)
    /\ ActiveAdmin
    /\ ~Verified(password)
    /\ account' = [account EXCEPT !.hash = password, !.failed = 0]
    /\ tokens' = [tokens EXCEPT ![t] = "consumed"]
    /\ opened' = {}
    /\ UNCHANGED <<session, attempts, logins, leavers>>

ResetConfirm(t, password) ==
    /\ ActiveToken(t)
    /\ ActiveAdmin
    /\ ~Verified(password)
    /\ account' = [account EXCEPT !.hash = password, !.failed = 0]
    /\ tokens' = [Revoked EXCEPT ![t] = "consumed"]
    /\ opened' = {}
    /\ UNCHANGED <<session, attempts, logins, leavers>>

-----------------------------------------------------------------------------
TokenExpires(t) ==
    /\ ActiveToken(t)
    /\ tokens' = [tokens EXCEPT ![t] = "late"]
    /\ UNCHANGED <<account, session, opened, attempts, logins, leavers>>

LockPasses ==
    /\ account.status = "locked"
    /\ account' = [account EXCEPT !.status = "lapsed"]
    /\ UNCHANGED <<tokens, session, opened, attempts, logins, leavers>>

\* Attempts are older than ten minutes, or the server is started again.
WindowPasses(scope) ==
    /\ \E n \in 0..(attempts[scope] - 1) : attempts' = [attempts EXCEPT ![scope] = n]
    /\ UNCHANGED <<account, tokens, session, opened, logins, leavers>>

LoginStep(p) ==
    \/ \E password \in Passwords : LoginRead(p, password)
    \/ LoginWrong(p) \/ LoginLimited(p) \/ LoginRight(p)
    \/ \E l \in Links : LoginLink(p, l)
    \/ LoginMailed(p) \/ LoginMailFails(p) \/ LoginCrash(p)

Next ==
    \/ \E p \in Logins : LoginStep(p)
    \/ \E l \in Links, r \in Refreshes : ConfirmLogin(l, r)
    \/ \E r, new \in Refreshes : Refresh(r, new)
    \/ \E r \in Refreshes : RefreshReused(r)
    \/ LogoutAll
    \/ \E q \in Leavers, t \in Tokens : LogoutRead(q, t)
    \/ \E q \in Leavers : LogoutSave(q)
    \/ \E t \in Resets : ResetRequest(t)
    \/ ResetIgnored
    \/ \E t \in Resets, password \in Passwords : ResetConfirm(t, password)
    \/ \E t \in Tokens : TokenExpires(t)
    \/ LockPasses
    \/ \E scope \in DOMAIN attempts : WindowPasses(scope)

Spec == Init /\ [][Next]_vars

-----------------------------------------------------------------------------
(* A session does not outlive a reset of the password: every refresh token *)
(* that can be used goes back, over any number of rotations, to a link     *)
(* that was confirmed after the last reset.                                *)
SessionsEndAtReset ==
    \A r \in Refreshes : tokens[r] \in {"active", "late"} => session[r] \in opened

(* A login is one session: of the refresh tokens that go back to a link,   *)
(* one at most can be used, however often they are rotated, repeated or    *)
(* logged out meanwhile.                                                   *)
OneTokenPerLogin ==
    \A r, x \in Refreshes :
        tokens[r] \in {"active", "late"} /\ tokens[x] \in {"active", "late"}
            /\ session[r] = session[x] => r = x

(* What was used or revoked never becomes usable again: a login, a logout  *)
(* and a failed mail, which store tokens they read before, do not revive   *)
(* one.                                                                    *)
SpentStaysSpent ==
    [][\A t \in Tokens :
          tokens[t] \in {"consumed", "rotated", "revoked"} =>
             tokens'[t] \in {"consumed", "rotated", "revoked"}]_vars
==============================================================================
