--------------------------- MODULE AdminAuthProofs ---------------------------
(* Proofs about AdminAuth.                                                 *)
EXTENDS AdminAuth, TLAPS

Spent == {"consumed", "rotated", "revoked"}
Usable == {"active", "late"}

\* A refresh token that was issued goes back to a link that was used up, a link
\* that was not used up opened no session, and what is logged out was issued.
Lineage ==
    /\ \A r \in Refreshes : tokens[r] # "none" =>
          session[r] \in Links /\ tokens[session[r]] \in Spent
    /\ \A q \in Leavers : leavers[q] # NoToken => tokens[leavers[q]] # "none"

Sessions == Lineage /\ SessionsEndAtReset /\ OneTokenPerLogin
SessionInv == AdminTypeOK /\ Sessions

-----------------------------------------------------------------------------
\* A document of the account that is stored keeps its type, with one more wrong
\* password or with the count started again.
LEMMA AccountTypes ==
    ASSUME AdminAssumption, NEW seen \in Account
    PROVE /\ Failed(seen) \in Account
          /\ [seen EXCEPT !.failed = 0] \in Account
          /\ \A hash \in Passwords : [seen EXCEPT !.hash = hash, !.failed = 0] \in Account
<1>1. [seen EXCEPT !.failed = 0] \in Account BY DEF AdminAssumption, Account
<1>2. ASSUME NEW hash \in Passwords
      PROVE [seen EXCEPT !.hash = hash, !.failed = 0] \in Account
  <2>1. [seen EXCEPT !.hash = hash] \in Account BY <1>2 DEF Account
  <2> DEFINE renewed == [seen EXCEPT !.hash = hash]
  <2> HIDE DEF renewed
  <2>2. renewed \in Account BY <2>1 DEF renewed
  <2>3. [renewed EXCEPT !.failed = 0] \in Account BY <2>2 DEF AdminAssumption, Account
  <2> QED BY <2>3 DEF renewed
<1>3. DEFINE counted == [seen EXCEPT !.failed = IF @ < MaxFailed THEN @ + 1 ELSE @]
<1>4. counted \in Account BY DEF AdminAssumption, Account
<1> HIDE DEF counted
<1>5. \A status \in {"active", "locked", "lapsed"} :
        [counted EXCEPT !.status = status] \in Account
  BY <1>4 DEF Account
<1>6. Failed(seen) = [counted EXCEPT !.status =
        IF seen.failed + 1 >= MaxFailed THEN "locked" ELSE seen.status]
  BY <1>4 DEF Failed, Account, counted
<1>7. Failed(seen) \in Account BY <1>5, <1>6 DEF Account
<1> QED BY <1>1, <1>2, <1>7

\* The type invariant holds at first.
LEMMA TypeInit == ASSUME AdminAssumption PROVE Init => AdminTypeOK
BY DEF Init, AdminTypeOK, AdminAssumption, NewAccount, Account, LoginIdle, Tokens, TokenStatus

\* The steps of a login keep the type invariant.
LEMMA TypeLogin ==
    ASSUME AdminAssumption, AdminTypeOK, NEW p \in Logins, LoginStep(p)
    PROVE AdminTypeOK'
<1>1. CASE \E password \in Passwords : LoginRead(p, password)
  <2>1. Unlocked \in Account BY DEF AdminTypeOK, Unlocked, Account
  <2> QED BY <1>1, <2>1 DEF LoginRead, AdminTypeOK
<1>2. CASE LoginWrong(p)
  <2>1. Failed(logins[p].seen) \in Account BY AccountTypes DEF AdminTypeOK
  <2>2. LoginIdle \in [pc : {"idle"}, seen : Account, link : {NoToken}]
    BY DEF LoginIdle, NewAccount, Account, AdminAssumption
  <2> QED BY <1>2, <2>1, <2>2 DEF LoginWrong, LoginEnds, AdminTypeOK
<1>3. CASE LoginRight(p)
  <2>1. [logins[p].seen EXCEPT !.failed = 0] \in Account BY AccountTypes DEF AdminTypeOK
  <2>2. attempts["login-link"] + 1 \in 0..MaxAttempts
    BY <1>3 DEF LoginRight, Allowed, AdminTypeOK, AdminAssumption
  <2>3. attempts' \in [{"login-link", "password-reset"} -> 0..MaxAttempts]
    BY <1>3, <2>2 DEF LoginRight, Recorded, AdminTypeOK
  <2> QED BY <1>3, <2>1, <2>3 DEF LoginRight, AdminTypeOK
<1>4. CASE \E l \in Links : LoginLink(p, l)
  <2> PICK l \in Links : LoginLink(p, l) BY <1>4
  <2>1. tokens' \in [Tokens -> TokenStatus] BY DEF LoginLink, AdminTypeOK, TokenStatus
  <2> QED BY <2>1 DEF LoginLink, AdminTypeOK
<1>5. CASE LoginMailFails(p)
  <2>1. tokens' \in [Tokens -> TokenStatus] BY <1>5 DEF LoginMailFails, AdminTypeOK, TokenStatus
  <2>2. LoginIdle \in [pc : {"idle"}, seen : Account, link : {NoToken}]
    BY DEF LoginIdle, NewAccount, Account, AdminAssumption
  <2> QED BY <1>5, <2>1, <2>2 DEF LoginMailFails, LoginEnds, AdminTypeOK
<1>6. CASE LoginLimited(p) \/ LoginMailed(p) \/ LoginCrash(p)
  <2>1. LoginIdle \in [pc : {"idle"}, seen : Account, link : {NoToken}]
    BY DEF LoginIdle, NewAccount, Account, AdminAssumption
  <2> QED BY <1>6, <2>1 DEF LoginLimited, LoginMailed, LoginCrash, LoginEnds, AdminTypeOK
<1> QED BY <1>1, <1>2, <1>3, <1>4, <1>5, <1>6 DEF LoginStep

\* So does every other step.
LEMMA TypeNext ==
    ASSUME AdminAssumption, AdminTypeOK, [Next]_vars
    PROVE AdminTypeOK'
<1>1. CASE UNCHANGED vars BY <1>1 DEF vars, AdminTypeOK
<1>2. CASE \E p \in Logins : LoginStep(p) BY <1>2, TypeLogin
<1>3. CASE \E l \in Links, r \in Refreshes : ConfirmLogin(l, r)
  <2> PICK l \in Links, r \in Refreshes : ConfirmLogin(l, r) BY <1>3
  <2>1. account' \in Account BY AccountTypes DEF ConfirmLogin, AdminTypeOK
  <2>2. tokens' \in [Tokens -> TokenStatus]
    BY DEF ConfirmLogin, Issued, AdminTypeOK, TokenStatus
  <2>3. session' \in [Refreshes -> Links \cup {NoToken}]
    BY DEF ConfirmLogin, Issued, AdminTypeOK
  <2> QED BY <2>1, <2>2, <2>3 DEF ConfirmLogin, AdminTypeOK
<1>4. CASE \E r, new \in Refreshes : Refresh(r, new)
  <2> PICK r \in Refreshes, new \in Refreshes : Refresh(r, new) BY <1>4
  <2>1. tokens' \in [Tokens -> TokenStatus] BY DEF Refresh, Issued, AdminTypeOK, TokenStatus
  <2>2. session' \in [Refreshes -> Links \cup {NoToken}]
    BY DEF Refresh, Issued, AdminTypeOK
  <2> QED BY <2>1, <2>2 DEF Refresh, AdminTypeOK
<1>5. CASE (\E r \in Refreshes : RefreshReused(r)) \/ LogoutAll
  <2>1. Revoked \in [Tokens -> TokenStatus] BY DEF Revoked, AdminTypeOK, TokenStatus
  <2> QED BY <1>5, <2>1 DEF RefreshReused, LogoutAll, AdminTypeOK
<1>6. CASE \E q \in Leavers, t \in Tokens : LogoutRead(q, t)
  BY <1>6 DEF LogoutRead, AdminTypeOK
<1>7. CASE \E q \in Leavers : LogoutSave(q)
  <2>1. tokens' \in [Tokens -> TokenStatus] BY <1>7 DEF LogoutSave, AdminTypeOK, TokenStatus
  <2> QED BY <1>7, <2>1 DEF LogoutSave, AdminTypeOK
<1>8. CASE (\E t \in Resets : ResetRequest(t)) \/ ResetIgnored
  <2>1. attempts["password-reset"] + 1 \in 0..MaxAttempts
    BY <1>8 DEF ResetRequest, ResetIgnored, Allowed, AdminTypeOK, AdminAssumption
  <2>2. attempts' \in [{"login-link", "password-reset"} -> 0..MaxAttempts]
    BY <1>8, <2>1 DEF ResetRequest, ResetIgnored, Recorded, AdminTypeOK
  <2>3. tokens' \in [Tokens -> TokenStatus]
    BY <1>8 DEF ResetRequest, ResetIgnored, AdminTypeOK, TokenStatus
  <2> QED BY <1>8, <2>2, <2>3 DEF ResetRequest, ResetIgnored, AdminTypeOK
<1>9. CASE \E t \in Resets, password \in Passwords : ResetConfirm(t, password)
  <2> PICK t \in Resets, password \in Passwords : ResetConfirm(t, password) BY <1>9
  <2>1. account' \in Account BY AccountTypes DEF ResetConfirm, AdminTypeOK
  <2>2. Revoked \in [Tokens -> TokenStatus] BY DEF Revoked, AdminTypeOK, TokenStatus
  <2>3. tokens' \in [Tokens -> TokenStatus] BY <2>2 DEF ResetConfirm, TokenStatus
  <2> QED BY <2>1, <2>3 DEF ResetConfirm, AdminTypeOK
<1>10. CASE \E t \in Tokens : TokenExpires(t)
  <2>1. tokens' \in [Tokens -> TokenStatus] BY <1>10 DEF TokenExpires, AdminTypeOK, TokenStatus
  <2> QED BY <1>10, <2>1 DEF TokenExpires, AdminTypeOK
<1>11. CASE LockPasses BY <1>11 DEF LockPasses, AdminTypeOK, Account
<1>12. CASE \E scope \in DOMAIN attempts : WindowPasses(scope)
  <2> PICK scope \in DOMAIN attempts : WindowPasses(scope) BY <1>12
  <2> PICK n \in 0..(attempts[scope] - 1) : attempts' = [attempts EXCEPT ![scope] = n]
    BY DEF WindowPasses
  <2>1. n \in 0..MaxAttempts BY DEF AdminTypeOK, AdminAssumption
  <2>2. attempts' \in [{"login-link", "password-reset"} -> 0..MaxAttempts]
    BY <2>1 DEF AdminTypeOK
  <2> QED BY <2>2 DEF WindowPasses, AdminTypeOK
<1> QED
  BY <1>1, <1>2, <1>3, <1>4, <1>5, <1>6, <1>7, <1>8, <1>9, <1>10, <1>11, <1>12 DEF Next

\* AdminTypeOK, for any number of requests and tokens: among others, wrong
\* passwords and attempts are never counted past their limits.
THEOREM AdminTypes == Spec => []AdminTypeOK
<1>1. Init => AdminTypeOK BY AdminAssumption, TypeInit
<1>2. AdminTypeOK /\ [Next]_vars => AdminTypeOK' BY AdminAssumption, TypeNext
<1> QED BY <1>1, <1>2, PTL DEF Spec
-----------------------------------------------------------------------------
\* A step that issues no refresh token keeps the sessions: it may use up and
\* revoke tokens, but makes none usable and forgets none.
LEMMA NothingIssued ==
    ASSUME AdminAssumption, AdminTypeOK, Sessions,
           session' = session, opened' = opened,
           \A r \in Refreshes : tokens'[r] \in Usable => tokens[r] \in Usable,
           \A r \in Refreshes : tokens'[r] # "none" => tokens[r] # "none",
           \A t \in Tokens : tokens[t] \in Spent => tokens'[t] \in Spent,
           \A t \in Tokens : tokens[t] # "none" => tokens'[t] # "none",
           \A q \in Leavers : leavers'[q] = leavers[q] \/ leavers'[q] = NoToken
    PROVE Sessions'
<1>1. Lineage'
  BY DEF Sessions, Lineage, AdminTypeOK, Tokens
<1>2. SessionsEndAtReset'
  BY DEF Sessions, SessionsEndAtReset, Usable
<1>3. OneTokenPerLogin'
  BY DEF Sessions, OneTokenPerLogin, Usable
<1> QED BY <1>1, <1>2, <1>3 DEF Sessions

\* A refresh token that is issued for a link that was just confirmed, or for a
\* token of the same session that is used up by it, keeps the sessions.
LEMMA OneIssued ==
    ASSUME AdminAssumption, AdminTypeOK, Sessions,
           NEW r \in Refreshes, NEW l \in Links, NEW t \in Tokens, NEW spent \in Spent,
           Issued(r, l, t, spent), tokens[t] = "active",
           \/ t = l /\ opened' = opened \cup {l}
           \/ t \in Refreshes /\ session[t] = l /\ opened' = opened,
           leavers' = leavers
    PROVE Sessions'
<1>1. /\ tokens' = [tokens EXCEPT ![t] = spent, ![r] = "active"]
      /\ session' = [session EXCEPT ![r] = l]
      /\ tokens[r] = "none"
      /\ r # t /\ r # l /\ r \in Tokens /\ l \in Tokens
      /\ DOMAIN tokens = Tokens /\ DOMAIN session = Refreshes
  BY DEF Issued, AdminTypeOK, Tokens, AdminAssumption
<1>2. /\ tokens'[r] = "active" /\ tokens'[t] = spent
      /\ \A x \in Tokens \ {r, t} : tokens'[x] = tokens[x]
      /\ session'[r] = l
      /\ \A x \in Refreshes \ {r} : session'[x] = session[x]
  BY <1>1
<1>3. tokens'[l] \in Spent
  <2>1. CASE t = l BY <2>1, <1>2
  <2>2. CASE t \in Refreshes /\ session[t] = l
    <3>1. tokens[l] \in Spent BY <2>2 DEF Sessions, Lineage
    <3> QED BY <3>1, <1>1, <1>2 DEF Spent
  <2> QED BY <2>1, <2>2
<1>4. Lineage'
  <2>1. ASSUME NEW x \in Refreshes, tokens'[x] # "none"
        PROVE session'[x] \in Links /\ tokens'[session'[x]] \in Spent
    <3>1. CASE x = r BY <3>1, <1>2, <1>3
    <3>2. CASE x # r
      <4>1. tokens[x] # "none" /\ session'[x] = session[x]
        BY <2>1, <3>2, <1>1, <1>2 DEF Tokens
      <4>2. session[x] \in Links /\ tokens[session[x]] \in Spent
        BY <4>1 DEF Sessions, Lineage
      <4>3. session[x] # r BY <4>2, AdminAssumption DEF AdminAssumption
      <4>4. tokens'[session[x]] \in Spent BY <4>2, <4>3, <1>2 DEF Tokens, Spent
      <4> QED BY <4>1, <4>2, <4>4
    <3> QED BY <3>1, <3>2
  <2>2. ASSUME NEW q \in Leavers, leavers[q] # NoToken
        PROVE tokens'[leavers[q]] # "none"
    <3>1. leavers[q] \in Tokens /\ tokens[leavers[q]] # "none"
      BY <2>2 DEF Sessions, Lineage, AdminTypeOK
    <3> QED BY <3>1, <1>2 DEF Spent
  <2> QED BY <2>1, <2>2 DEF Lineage
<1>5. SessionsEndAtReset'
  <2>1. ASSUME NEW x \in Refreshes, tokens'[x] \in Usable
        PROVE session'[x] \in opened'
    <3>1. CASE x = r
      <4>1. CASE t = l BY <4>1, <3>1, <1>2, <1>1
      <4>2. CASE t \in Refreshes /\ session[t] = l
        BY <4>2, <3>1, <1>2 DEF Sessions, SessionsEndAtReset
      <4> QED BY <4>1, <4>2
    <3>2. CASE x # r
      <4>1. x # t BY <2>1, <1>2 DEF Usable, Spent
      <4>2. tokens[x] \in Usable /\ session'[x] = session[x]
        BY <4>1, <3>2, <2>1, <1>2 DEF Tokens
      <4>3. session[x] \in opened BY <4>2 DEF Sessions, SessionsEndAtReset, Usable
      <4> QED BY <4>2, <4>3
    <3> QED BY <3>1, <3>2
  <2> QED BY <2>1 DEF SessionsEndAtReset, Usable
<1>6. ASSUME NEW x \in Refreshes, tokens'[x] \in Usable, x # r
      PROVE session'[x] # l
  <2>1. x # t BY <1>6, <1>2 DEF Usable, Spent
  <2>2. tokens[x] \in Usable /\ session'[x] = session[x]
    BY <2>1, <1>6, <1>2 DEF Tokens
  <2>3. CASE t = l
    <3>1. session[x] \in Links /\ tokens[session[x]] \in Spent
      BY <2>2 DEF Sessions, Lineage, Usable
    <3> QED BY <3>1, <2>2, <2>3 DEF Spent
  <2>4. CASE t \in Refreshes /\ session[t] = l
    BY <2>1, <2>2, <2>4 DEF Sessions, OneTokenPerLogin, Usable
  <2> QED BY <2>3, <2>4
<1>7. ASSUME NEW x \in Refreshes, NEW y \in Refreshes,
             tokens'[x] \in Usable, tokens'[y] \in Usable, session'[x] = session'[y]
      PROVE x = y
  <2>1. CASE x = r \/ y = r BY <2>1, <1>6, <1>7, <1>2
  <2>2. CASE x # r /\ y # r
    <3>1. x # t /\ y # t BY <1>7, <1>2 DEF Usable, Spent
    <3>2. /\ tokens[x] \in Usable /\ session'[x] = session[x]
          /\ tokens[y] \in Usable /\ session'[y] = session[y]
      BY <3>1, <2>2, <1>7, <1>2 DEF Tokens
    <3> QED BY <3>2, <1>7 DEF Sessions, OneTokenPerLogin, Usable
  <2> QED BY <2>1, <2>2
<1>8. OneTokenPerLogin' BY <1>7 DEF OneTokenPerLogin, Usable
<1> QED BY <1>4, <1>5, <1>8 DEF Sessions
\* At first there is no token.
LEMMA SessionsInit == ASSUME AdminAssumption PROVE Init => Sessions
BY DEF Init, Sessions, Lineage, SessionsEndAtReset, OneTokenPerLogin, Tokens

\* Revoking the refresh tokens leaves none that can be used, and nothing else
\* changes.
LEMMA RevokedTokens ==
    ASSUME AdminTypeOK
    PROVE /\ \A r \in Refreshes : Revoked[r] \notin Usable
          /\ \A t \in Tokens : tokens[t] \in Spent => Revoked[t] \in Spent
          /\ \A t \in Tokens : Revoked[t] = "none" <=> tokens[t] = "none"
          /\ \A t \in Tokens \ Refreshes : Revoked[t] = tokens[t]
BY DEF AdminTypeOK, Revoked, Usable, Spent, Tokens

\* Every step keeps the sessions.
LEMMA SessionsNext ==
    ASSUME AdminAssumption, SessionInv, [Next]_vars
    PROVE Sessions'
<1> AdminTypeOK /\ Sessions BY DEF SessionInv
<1>1. CASE UNCHANGED vars
  BY <1>1, NothingIssued DEF vars
<1>2. CASE \E p \in Logins : LoginStep(p)
  <2> PICK p \in Logins : LoginStep(p) BY <1>2
  <2>1. CASE \E l \in Links : LoginLink(p, l)
    <3> PICK l \in Links : LoginLink(p, l) BY <2>1
    <3>1. /\ tokens' = [tokens EXCEPT ![l] = "active"] /\ tokens[l] = "none"
          /\ l \notin Refreshes /\ DOMAIN tokens = Tokens
      BY DEF LoginLink, AdminTypeOK, AdminAssumption
    <3>2. /\ \A t \in Tokens : t # l => tokens'[t] = tokens[t]
          /\ l \in Tokens /\ tokens'[l] = "active"
      BY <3>1 DEF Tokens
    <3> QED BY <3>1, <3>2, NothingIssued DEF LoginLink, Tokens, Spent
  <2>2. CASE LoginMailFails(p)
    <3> DEFINE l == logins[p].link
    <3>1. l \in Links BY <2>2 DEF LoginMailFails, AdminTypeOK
    <3> HIDE DEF l
    <3>2. /\ tokens' = [tokens EXCEPT ![l] = "revoked"]
          /\ l \notin Refreshes /\ DOMAIN tokens = Tokens
      BY <2>2, <3>1 DEF LoginMailFails, AdminTypeOK, AdminAssumption, l
    <3>3. /\ \A t \in Tokens : t # l => tokens'[t] = tokens[t]
          /\ l \in Tokens /\ tokens'[l] = "revoked"
      BY <3>1, <3>2 DEF Tokens
    <3> QED BY <2>2, <3>1, <3>2, <3>3, NothingIssued DEF LoginMailFails, Tokens, Spent
  <2>3. CASE UNCHANGED <<tokens, session, opened, leavers>>
    BY <2>3, NothingIssued
  <2> QED
    BY <2>1, <2>2, <2>3
    DEF LoginStep, LoginRead, LoginWrong, LoginLimited, LoginRight, LoginMailed, LoginCrash
<1>3. CASE \E l \in Links, r \in Refreshes : ConfirmLogin(l, r)
  <2> PICK l \in Links, r \in Refreshes : ConfirmLogin(l, r) BY <1>3
  <2>1. Issued(r, l, l, "consumed") /\ tokens[l] = "active" /\ l \in Tokens
    BY DEF ConfirmLogin, ActiveToken, Tokens
  <2>2. opened' = opened \cup {l} /\ leavers' = leavers BY DEF ConfirmLogin
  <2> QED BY <2>1, <2>2, OneIssued DEF Spent
<1>4. CASE \E r, new \in Refreshes : Refresh(r, new)
  <2> PICK r \in Refreshes, new \in Refreshes : Refresh(r, new) BY <1>4
  <2>1. Issued(new, session[r], r, "rotated") /\ tokens[r] = "active" /\ r \in Tokens
    BY DEF Refresh, ActiveToken, Tokens
  <2>2. session[r] \in Links BY <2>1 DEF Sessions, Lineage
  <2>3. opened' = opened /\ leavers' = leavers BY DEF Refresh
  <2> QED BY <2>1, <2>2, <2>3, OneIssued DEF Spent
<1>5. CASE (\E r \in Refreshes : RefreshReused(r)) \/ LogoutAll
  BY <1>5, RevokedTokens, NothingIssued DEF RefreshReused, LogoutAll, Tokens
<1>6. CASE \E q \in Leavers, t \in Tokens : LogoutRead(q, t)
  <2> PICK q \in Leavers, t \in Tokens : LogoutRead(q, t) BY <1>6
  <2>1. \A x \in Leavers : leavers'[x] # NoToken => tokens[leavers'[x]] # "none"
    BY DEF LogoutRead, Sessions, Lineage, AdminTypeOK
  <2>2. UNCHANGED <<tokens, session, opened>> BY DEF LogoutRead
  <2>3. Lineage' BY <2>1, <2>2 DEF Sessions, Lineage
  <2> QED BY <2>2, <2>3 DEF Sessions, SessionsEndAtReset, OneTokenPerLogin
<1>7. CASE \E q \in Leavers : LogoutSave(q)
  <2> PICK q \in Leavers : LogoutSave(q) BY <1>7
  <2> DEFINE x == leavers[q]
  <2>1. x \in Tokens /\ tokens[x] # "none"
    BY DEF LogoutSave, Sessions, Lineage, AdminTypeOK
  <2>2. /\ tokens' = [tokens EXCEPT ![x] = "revoked"] /\ DOMAIN tokens = Tokens
        /\ leavers' = [leavers EXCEPT ![q] = NoToken] /\ DOMAIN leavers = Leavers
    BY DEF LogoutSave, AdminTypeOK
  <2> HIDE DEF x
  <2>3. /\ \A t \in Tokens : t # x => tokens'[t] = tokens[t]
        /\ tokens'[x] = "revoked"
    BY <2>1, <2>2
  <2>4. \A z \in Leavers : leavers'[z] = leavers[z] \/ leavers'[z] = NoToken BY <2>2
  <2> QED BY <2>1, <2>3, <2>4, NothingIssued DEF LogoutSave, Tokens, Spent, Usable
<1>8. CASE \E t \in Resets : ResetRequest(t)
  <2> PICK t \in Resets : ResetRequest(t) BY <1>8
  <2>1. /\ tokens' = [tokens EXCEPT ![t] = "active"] /\ tokens[t] = "none"
        /\ t \notin Refreshes /\ DOMAIN tokens = Tokens /\ t \in Tokens
    BY DEF ResetRequest, AdminTypeOK, AdminAssumption, Tokens
  <2>2. \A x \in Tokens : x # t => tokens'[x] = tokens[x] BY <2>1
  <2>3. tokens'[t] = "active" BY <2>1
  <2> QED BY <2>1, <2>2, <2>3, NothingIssued DEF ResetRequest, Tokens, Spent
<1>9. CASE \E t \in Resets, password \in Passwords : ResetConfirm(t, password)
  <2> PICK t \in Resets, password \in Passwords : ResetConfirm(t, password) BY <1>9
  <2>1. /\ tokens' = [Revoked EXCEPT ![t] = "consumed"]
        /\ t \notin Refreshes /\ DOMAIN Revoked = Tokens /\ t \in Tokens
        /\ UNCHANGED <<session, leavers>> /\ tokens[t] = "active"
    BY DEF ResetConfirm, ActiveToken, AdminAssumption, Tokens, Revoked
  <2>2. /\ \A x \in Tokens : x # t => tokens'[x] = Revoked[x]
        /\ tokens'[t] = "consumed"
    BY <2>1
  <2>3. /\ \A r \in Refreshes : tokens'[r] \notin Usable
        /\ \A x \in Tokens : tokens[x] \in Spent => tokens'[x] \in Spent
        /\ \A x \in Tokens : tokens'[x] = "none" <=> tokens[x] = "none"
    BY <2>1, <2>2, RevokedTokens DEF Tokens, Spent
  <2>4. Lineage' BY <2>1, <2>3 DEF Sessions, Lineage, AdminTypeOK, Tokens
  <2> QED BY <2>3, <2>4 DEF Sessions, SessionsEndAtReset, OneTokenPerLogin, Usable
<1>10. CASE \E t \in Tokens : TokenExpires(t)
  <2> PICK t \in Tokens : TokenExpires(t) BY <1>10
  <2>1. /\ tokens' = [tokens EXCEPT ![t] = "late"] /\ tokens[t] = "active"
        /\ DOMAIN tokens = Tokens
    BY DEF TokenExpires, ActiveToken, AdminTypeOK
  <2>2. \A x \in Tokens : x # t => tokens'[x] = tokens[x] BY <2>1
  <2>3. tokens'[t] = "late" BY <2>1
  <2> QED BY <2>1, <2>2, <2>3, NothingIssued DEF TokenExpires, Tokens, Spent, Usable
<1>11. CASE ResetIgnored \/ LockPasses \/ \E scope \in DOMAIN attempts : WindowPasses(scope)
  <2>1. UNCHANGED <<tokens, session, opened, leavers>>
    BY <1>11 DEF ResetIgnored, LockPasses, WindowPasses
  <2> QED BY <2>1, NothingIssued
<1> QED
  BY <1>1, <1>2, <1>3, <1>4, <1>5, <1>6, <1>7, <1>8, <1>9, <1>10, <1>11 DEF Next

\* The inductive invariant behind the two theorems below.
LEMMA SessionInvariant == Spec => []SessionInv
<1>1. Init => SessionInv BY AdminAssumption, TypeInit, SessionsInit DEF SessionInv
<1>2. SessionInv /\ [Next]_vars => SessionInv'
  <2> SUFFICES ASSUME SessionInv, [Next]_vars PROVE SessionInv' OBVIOUS
  <2>1. AdminTypeOK' BY AdminAssumption, TypeNext DEF SessionInv
  <2>2. Sessions' BY AdminAssumption, SessionsNext
  <2> QED BY <2>1, <2>2 DEF SessionInv
<1> QED BY <1>1, <1>2, PTL DEF Spec

\* No session outlives a reset of the password, whatever logins, refreshes and
\* logouts overlap with it.
THEOREM ResetsEndSessions == Spec => []SessionsEndAtReset
<1>1. SessionInv => SessionsEndAtReset BY DEF SessionInv, Sessions
<1> QED BY <1>1, SessionInvariant, PTL

\* A confirmed login is one usable refresh token at most, however long it is
\* rotated.
THEOREM LoginsAreSingle == Spec => []OneTokenPerLogin
<1>1. SessionInv => OneTokenPerLogin BY DEF SessionInv, Sessions
<1> QED BY <1>1, SessionInvariant, PTL
-----------------------------------------------------------------------------
\* No step makes a token usable again.
LEMMA SpentNext ==
    ASSUME AdminAssumption, AdminTypeOK, [Next]_vars,
           NEW t \in Tokens, tokens[t] \in Spent
    PROVE tokens'[t] \in Spent
<1> DOMAIN tokens = Tokens BY DEF AdminTypeOK
<1>1. CASE UNCHANGED vars BY <1>1 DEF vars
<1>2. CASE \E p \in Logins : LoginStep(p)
  BY <1>2
  DEF LoginStep, LoginRead, LoginWrong, LoginLimited, LoginRight, LoginLink, LoginMailed,
      LoginMailFails, LoginCrash, Tokens, Spent
<1>3. CASE \E l \in Links, r \in Refreshes : ConfirmLogin(l, r)
  BY <1>3 DEF ConfirmLogin, Issued, ActiveToken, Tokens, Spent
<1>4. CASE \E r, new \in Refreshes : Refresh(r, new)
  BY <1>4 DEF Refresh, Issued, ActiveToken, Tokens, Spent
<1>5. CASE (\E r \in Refreshes : RefreshReused(r)) \/ LogoutAll
  BY <1>5, RevokedTokens DEF RefreshReused, LogoutAll
<1>6. CASE \E q \in Leavers : LogoutSave(q)
  BY <1>6 DEF LogoutSave, Spent
<1>7. CASE \E x \in Resets : ResetRequest(x)
  BY <1>7 DEF ResetRequest, Tokens, Spent
<1>8. CASE \E x \in Resets, password \in Passwords : ResetConfirm(x, password)
  <2>1. Revoked[t] \in Spent /\ DOMAIN Revoked = Tokens BY RevokedTokens DEF Revoked
  <2> QED BY <1>8, <2>1 DEF ResetConfirm, Spent
<1>9. CASE \E x \in Tokens : TokenExpires(x)
  BY <1>9 DEF TokenExpires, ActiveToken, Spent
<1>10. CASE UNCHANGED tokens BY <1>10
<1> QED
  BY <1>1, <1>2, <1>3, <1>4, <1>5, <1>6, <1>7, <1>8, <1>9, <1>10
  DEF Next, LogoutRead, ResetIgnored, LockPasses, WindowPasses

\* What was used or revoked stays so, whatever stale token is stored.
THEOREM SpentForGood == Spec => SpentStaysSpent
<1>1. AdminTypeOK /\ [Next]_vars =>
        \A t \in Tokens :
          tokens[t] \in {"consumed", "rotated", "revoked"} =>
             tokens'[t] \in {"consumed", "rotated", "revoked"}
  BY AdminAssumption, SpentNext DEF Spent
<1> QED BY <1>1, AdminTypes, PTL DEF Spec, SpentStaysSpent
==============================================================================
