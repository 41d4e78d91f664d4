---------------------- MODULE SubscriptionCheckoutProofs ----------------------
(* Proofs about SubscriptionCheckout.                                      *)
EXTENDS SubscriptionCheckout, TLAPS

\* The process is past the lock of its confirmation.
Running(f) == confirmers[f].pc \in {"issue", "charge", "paid", "failed"}

\* It has its key for itself; a stored key is about a subscription.
KeysAreHeld ==
    /\ \A k \in ConfirmKeys : confirmKeys[k].status # "none" => confirmKeys[k].sub \in Subs
    /\ \A f \in Confirmers : Running(f) =>
          /\ confirmKeys[confirmers[f].key].status = "processing"
          /\ confirmKeys[confirmers[f].key].sub = confirmers[f].sub
    /\ \A f, g \in Confirmers : Running(f) /\ Running(g) /\ confirmers[f].key = confirmers[g].key =>
          f = g

\* And, unless a lock lapsed, its subscription, which waits to be paid.
LocksAreHeld ==
    \A f \in Confirmers : Running(f) /\ confirmers[f].sub \notin overrun =>
        confirmLock[confirmers[f].sub] = f /\ subs[confirmers[f].sub] = "pending"

ChargesAreKnown ==
    \A f \in Confirmers : confirmers[f].pc = "paid" =>
        confirmers[f].key \in taken[confirmers[f].sub]

\* A paid cycle is that of a subscription that is or was active.
PaidIsActive ==
    \A s \in Subs \ overrun : (\E d \in Days : cycles[s][d].paidWith # NoKey) =>
        subs[s] \in {"active", "ended"}

CheckoutInv ==
    /\ CheckoutTypeOK /\ KeysAreHeld /\ LocksAreHeld /\ ChargesAreKnown
    /\ PaidIsActive /\ ActiveWasPaid

-----------------------------------------------------------------------------
\* Conjunctions and disjunctions are Booleans.
LEMMA Booleans ==
    ASSUME NEW a, NEW b
    PROVE  (a /\ b) \in BOOLEAN /\ (a \/ b) \in BOOLEAN
OBVIOUS

\* What a method becomes when another is stored is a method.
LEMMA StoredMethods ==
    ASSUME methods \in [Cards -> Method], NEW c \in Cards, NEW b \in BOOLEAN
    PROVE  Stored(c, b) \in [Cards -> Method]
<1>1. ASSUME NEW x \in Cards PROVE [methods[x] EXCEPT !.isDefault = @ /\ ~b] \in Method
  <2> DEFINE d == methods[x].isDefault /\ ~b
  <2>1. d \in BOOLEAN BY Booleans
  <2>2. methods[x] \in Method BY <1>1
  <2>3. [methods[x] EXCEPT !.isDefault = @ /\ ~b] = [methods[x] EXCEPT !.isDefault = d]
    BY <2>2 DEF Method
  <2> HIDE DEF d
  <2>4. [methods[x] EXCEPT !.isDefault = d] \in Method BY <2>1, <2>2 DEF Method
  <2> QED BY <2>3, <2>4
<1>2. [status |-> "active", isDefault |-> b] \in Method
    BY DEF Method
<1> QED BY <1>1, <1>2 DEF Stored

-----------------------------------------------------------------------------
\* What CheckoutTypeOK says of one issuing, one managing and one confirming
\* process.
Issuer(r) ==
    /\ r \in [pc : {"idle", "expire", "ask", "save", "failed"},
              auth : Auths \cup {NoAuth}, key : IssueKeys \cup {NoKey},
              card : Cards \cup {NoCard}, isDefault : BOOLEAN]
    /\ r.pc # "idle" => r.auth \in Auths
    /\ r.pc \in {"ask", "save", "failed"} => r.card \in Cards /\ r.key \in IssueKeys

Manager(r) ==
    /\ r \in [pc : {"idle", "set", "answer", "delete"},
              card : Cards \cup {NoCard}, key : DefaultKeys \cup {NoKey}]
    /\ r.pc # "idle" => r.card \in Cards
    /\ r.pc \in {"set", "answer"} => r.key \in DefaultKeys

IssuersOK == issuers = [i \in Issuers |-> issuers[i]] /\ \A i \in Issuers : Issuer(issuers[i])
ManagersOK == managers = [p \in Managers |-> managers[p]] /\ \A p \in Managers : Manager(managers[p])

DocsOK ==
    /\ auths \in [Auths -> Auth]
    /\ methods \in [Cards -> Method]
    /\ issueKeys \in [IssueKeys -> [status : KeyStatus, auth : Auths \cup {NoAuth}]]
    /\ defaultKeys \in [DefaultKeys -> KeyStatus]
    /\ exchanged \subseteq Cards

\* MethodsTypeOK, of documents and of processes.
LEMMA TypesSplit ==
    /\ MethodsTypeOK <=> DocsOK /\ IssuersOK /\ ManagersOK
    /\ MethodsTypeOK' <=> DocsOK' /\ IssuersOK' /\ ManagersOK'
<1>1. MethodsTypeOK <=> DocsOK /\ IssuersOK /\ ManagersOK
    BY DEF MethodsTypeOK, DocsOK, IssuersOK, ManagersOK, Issuer, Manager
<1>2. MethodsTypeOK' <=> DocsOK' /\ IssuersOK' /\ ManagersOK'
    BY DEF MethodsTypeOK, DocsOK, IssuersOK, ManagersOK, Issuer, Manager
<1> QED BY <1>1, <1>2

\* One issuing process takes a step.
LEMMA IssuerMoves ==
    ASSUME IssuersOK, NEW i \in Issuers, NEW r, Issuer(r), issuers' = [issuers EXCEPT ![i] = r]
    PROVE  IssuersOK'
<1>1. issuers' = [j \in Issuers |-> IF j = i THEN r ELSE issuers[j]] BY DEF IssuersOK
<1> QED BY <1>1 DEF IssuersOK

\* The same of a managing process.
LEMMA ManagerMoves ==
    ASSUME ManagersOK, NEW p \in Managers, NEW r, Manager(r), managers' = [managers EXCEPT ![p] = r]
    PROVE  ManagersOK'
<1>1. managers' = [q \in Managers |-> IF q = p THEN r ELSE managers[q]] BY DEF ManagersOK
<1> QED BY <1>1 DEF ManagersOK

\* A step of an issuing process keeps the types.
LEMMA IssuerTypes ==
    ASSUME DocsOK, IssuersOK, NEW i \in Issuers, IssuerStep(i)
    PROVE  DocsOK' /\ IssuersOK' /\ UNCHANGED managers
<1> DEFINE me == issuers[i]
<1>0. Issuer(me) BY DEF IssuersOK
<1>i. Issuer(IssuerIdle) BY DEF Issuer, IssuerIdle
<1>1. CASE IssueExpire(i)
  <2>1. DocsOK' BY <1>0, <1>1 DEF IssueExpire, SaveAuth, DocsOK, Issuer, Auth
  <2> QED BY <1>i, <1>1, <2>1, IssuerMoves DEF IssueExpire
<1>2. CASE IssueExchanged(i)
  <2> DEFINE d == me.isDefault \/ ActiveMethods = {}
             r == [me EXCEPT !.pc = "save", !.isDefault = d]
  <2>1. DocsOK' BY <1>0, <1>2 DEF IssueExchanged, IssueAsked, DocsOK, Issuer, KeyStatus
  <2>2. d \in BOOLEAN BY Booleans
  <2>3. issuers' = [issuers EXCEPT ![i] = r]
    BY <1>2, <1>0 DEF IssueExchanged, IssueAsked, IssuersOK, Issuer
  <2>4. me.pc = "ask" BY <1>2 DEF IssueExchanged, IssueAsked
  <2> HIDE DEF d
  <2>5. Issuer(r) BY <1>0, <2>2, <2>4 DEF Issuer
  <2> HIDE DEF r
  <2> QED BY <1>2, <2>1, <2>3, <2>5, IssuerMoves DEF IssueExchanged
<1>3. CASE IssueRefused(i)
  <2> DEFINE r == [me EXCEPT !.pc = "failed"]
  <2>1. DocsOK' BY <1>0, <1>3 DEF IssueRefused, IssueAsked, DocsOK, Issuer, KeyStatus
  <2>2. Issuer(r) BY <1>0, <1>3 DEF IssueRefused, IssueAsked, Issuer
  <2>3. issuers' = [issuers EXCEPT ![i] = r] BY <1>3 DEF IssueRefused
  <2> HIDE DEF r
  <2> QED BY <1>3, <2>1, <2>2, <2>3, IssuerMoves DEF IssueRefused
<1>4. CASE IssueTurnedAway(i)
  <2>1. DocsOK' BY <1>4 DEF IssueTurnedAway, DocsOK
  <2> QED BY <1>i, <1>4, <2>1, IssuerMoves DEF IssueTurnedAway
<1>5. CASE IssueSave(i)
  <2>1. methods' \in [Cards -> Method]
    BY <1>0, <1>5, StoredMethods DEF IssueSave, Issuer, DocsOK
  <2>2. me.auth \in Auths /\ me.key \in IssueKeys
    BY <1>0, <1>5 DEF IssueSave, Issuer
  <2>3. auths' \in [Auths -> Auth]
    BY <1>5, <2>2 DEF IssueSave, SaveAuth, DocsOK, Auth
  <2>4. issueKeys' \in [IssueKeys -> [status : KeyStatus, auth : Auths \cup {NoAuth}]]
    BY <1>5, <2>2 DEF IssueSave, IssueDone, DocsOK, KeyStatus
  <2>5. DocsOK' BY <1>5, <2>1, <2>3, <2>4 DEF IssueSave, DocsOK
  <2> QED BY <1>i, <1>5, <2>5, IssuerMoves DEF IssueSave, IssueDone
<1>6. CASE IssueFailed(i)
  <2>1. DocsOK'
    BY <1>0, <1>6 DEF IssueFailed, SaveAuth, IssueDone, DocsOK, Issuer, Auth, KeyStatus
  <2> QED BY <1>i, <1>6, <2>1, IssuerMoves DEF IssueFailed, IssueDone
<1>7. CASE IssueCrash(i)
  <2>1. DocsOK' BY <1>7 DEF IssueCrash, DocsOK
  <2> QED BY <1>i, <1>7, <2>1, IssuerMoves DEF IssueCrash
<1> QED BY <1>1, <1>2, <1>3, <1>4, <1>5, <1>6, <1>7 DEF IssuerStep

\* A step of a managing process keeps the types.
LEMMA ManagerTypes ==
    ASSUME DocsOK, ManagersOK, NEW p \in Managers, ManagerStep(p)
    PROVE  DocsOK' /\ ManagersOK' /\ UNCHANGED issuers
<1> DEFINE me == managers[p]
<1>0. Manager(me) BY DEF ManagersOK
<1>i. Manager(ManagerIdle) BY DEF Manager, ManagerIdle
<1>1. CASE SetDefault(p)
  <2>1. methods' \in [Cards -> Method]
    BY <1>0, <1>1, StoredMethods DEF SetDefault, Manager, DocsOK
  <2>2. DocsOK' BY <1>1, <2>1 DEF SetDefault, DocsOK
  <2>3. CASE me.card \in ActiveMethods
    <3> DEFINE r == [me EXCEPT !.pc = "answer"]
    <3>1. Manager(r) BY <1>0, <1>1 DEF SetDefault, Manager
    <3>2. managers' = [managers EXCEPT ![p] = r] BY <1>1, <2>3 DEF SetDefault
    <3> HIDE DEF r
    <3> QED BY <1>1, <2>2, <3>1, <3>2, ManagerMoves DEF SetDefault
  <2>4. CASE me.card \notin ActiveMethods
    BY <1>i, <1>1, <2>2, <2>4, ManagerMoves DEF SetDefault
  <2> QED BY <2>3, <2>4
<1>2. CASE SetAnswer(p)
  <2>1. DocsOK' BY <1>0, <1>2 DEF SetAnswer, DocsOK, KeyStatus
  <2> QED BY <1>i, <1>2, <2>1, ManagerMoves DEF SetAnswer
<1>3. CASE Delete(p)
  <2>1. DocsOK' BY <1>3 DEF Delete, Deactivated, DocsOK, Method
  <2> QED BY <1>i, <1>3, <2>1, ManagerMoves DEF Delete
<1>4. CASE ManagerCrash(p)
  <2>1. DocsOK' BY <1>4 DEF ManagerCrash, DocsOK
  <2> QED BY <1>i, <1>4, <2>1, ManagerMoves DEF ManagerCrash
<1> QED BY <1>1, <1>2, <1>3, <1>4 DEF ManagerStep

\* The requests about billing methods keep the types of what they write.
LEMMA MethodsTypes ==
    ASSUME MethodsTypeOK, MethodsNext
    PROVE  MethodsTypeOK'
<1>0. DocsOK /\ IssuersOK /\ ManagersOK BY TypesSplit
<1> SUFFICES DocsOK' /\ IssuersOK' /\ ManagersOK' BY TypesSplit
<1>u. /\ UNCHANGED issuers => IssuersOK'
      /\ UNCHANGED managers => ManagersOK'
    BY <1>0 DEF IssuersOK, ManagersOK
<1>1. ASSUME NEW a \in Auths, AuthLate(a) \/ \E asked \in BOOLEAN : StartAuth(a, asked)
      PROVE  DocsOK' /\ IssuersOK' /\ ManagersOK'
  <2>1. CASE AuthLate(a) BY <1>0, <1>u, <2>1 DEF AuthLate, DocsOK, Auth
  <2>2. ASSUME NEW asked \in BOOLEAN, StartAuth(a, asked)
        PROVE  DocsOK' /\ IssuersOK' /\ ManagersOK'
    <3> DEFINE d == asked \/ ActiveMethods = {}
    <3>1. d \in BOOLEAN BY Booleans
    <3>2. auths' = [auths EXCEPT ![a] = [status |-> "ready", asDefault |-> d]]
        BY <2>2 DEF StartAuth
    <3> HIDE DEF d
    <3>3. auths' \in [Auths -> Auth] BY <1>0, <3>1, <3>2 DEF DocsOK, Auth
    <3> QED BY <1>0, <1>u, <2>2, <3>3 DEF StartAuth, DocsOK
  <2> QED BY <1>1, <2>1, <2>2
<1>2. ASSUME NEW i \in Issuers, NEW a \in Auths, NEW k \in IssueKeys, NEW c \in Cards,
             IssueRead(i, a, k, c)
      PROVE  DocsOK' /\ IssuersOK' /\ ManagersOK'
  <2> DEFINE r == [pc |-> IF auths[a].status = "late" THEN "expire" ELSE "ask",
                   auth |-> a, key |-> k, card |-> c, isDefault |-> auths[a].asDefault]
  <2>1. Issuer(r) BY <1>0 DEF DocsOK, Auth, Issuer
  <2>2. issuers' = [issuers EXCEPT ![i] = r] BY <1>2 DEF IssueRead
  <2>3. DocsOK' BY <1>0, <1>2 DEF IssueRead, DocsOK
  <2> HIDE DEF r
  <2> QED BY <1>0, <1>u, <1>2, <2>1, <2>2, <2>3, IssuerMoves DEF IssueRead
<1>3. ASSUME NEW i \in Issuers, IssuerStep(i) PROVE DocsOK' /\ IssuersOK' /\ ManagersOK'
    BY <1>0, <1>u, <1>3, IssuerTypes
<1>4. ASSUME NEW p \in Managers, NEW c \in Cards,
             DeleteRead(p, c) \/ \E k \in DefaultKeys : SetStart(p, c, k)
      PROVE  DocsOK' /\ IssuersOK' /\ ManagersOK'
  <2>1. CASE DeleteRead(p, c)
    <3> DEFINE r == [pc |-> "delete", card |-> c, key |-> NoKey]
    <3>1. Manager(r) BY DEF Manager
    <3>2. managers' = [managers EXCEPT ![p] = r] BY <2>1 DEF DeleteRead
    <3>3. DocsOK' BY <1>0, <2>1 DEF DeleteRead, DocsOK
    <3> HIDE DEF r
    <3> QED BY <1>0, <1>u, <2>1, <3>1, <3>2, <3>3, ManagerMoves DEF DeleteRead
  <2>2. ASSUME NEW k \in DefaultKeys, SetStart(p, c, k)
        PROVE  DocsOK' /\ IssuersOK' /\ ManagersOK'
    <3> DEFINE r == [pc |-> IF methods[c].isDefault THEN "answer" ELSE "set",
                     card |-> c, key |-> k]
    <3>1. Manager(r) BY DEF Manager
    <3>2. managers' = [managers EXCEPT ![p] = r] BY <2>2 DEF SetStart
    <3>3. DocsOK' BY <1>0, <2>2 DEF SetStart, DocsOK, KeyStatus
    <3> HIDE DEF r
    <3> QED BY <1>0, <1>u, <2>2, <3>1, <3>2, <3>3, ManagerMoves DEF SetStart
  <2> QED BY <1>4, <2>1, <2>2
<1>5. ASSUME NEW p \in Managers, ManagerStep(p) PROVE DocsOK' /\ IssuersOK' /\ ManagersOK'
    BY <1>0, <1>u, <1>5, ManagerTypes
<1>6. ASSUME NEW k \in IssueKeys, IssueKeyTtl(k) PROVE DocsOK' /\ IssuersOK' /\ ManagersOK'
    BY <1>0, <1>u, <1>6 DEF IssueKeyTtl, DocsOK, KeyStatus
<1>7. ASSUME NEW k \in DefaultKeys, DefaultKeyTtl(k) PROVE DocsOK' /\ IssuersOK' /\ ManagersOK'
    BY <1>0, <1>u, <1>7 DEF DefaultKeyTtl, DocsOK, KeyStatus
<1> QED BY <1>1, <1>2, <1>3, <1>4, <1>5, <1>6, <1>7 DEF MethodsNext

-----------------------------------------------------------------------------
\* The parts of CheckoutTypeOK.
Confirmer(r) ==
    /\ r \in [pc : {"idle", "lock", "issue", "charge", "paid", "failed"}, sub : Subs \cup {NoSub},
              key : ConfirmKeys \cup {NoKey}, card : Cards \cup {NoCard}, day : Days,
              isDefault : BOOLEAN, open : BOOLEAN]
    /\ r.pc # "idle" => r.sub \in Subs /\ r.key \in ConfirmKeys /\ r.card \in Cards

ConfirmersOK ==
    /\ confirmers = [f \in Confirmers |-> confirmers[f]]
    /\ \A f \in Confirmers : Confirmer(confirmers[f])

CheckoutsOK ==
    /\ subs \in [Subs -> SubStatus]
    /\ today \in Days
    /\ cycles \in [Subs -> [Days -> Cycle]]
    /\ confirmKeys \in [ConfirmKeys -> [status : KeyStatus, sub : Subs \cup {NoSub}]]
    /\ confirmLock \in [Subs -> Confirmers \cup {Nobody, Gone}]
    /\ taken \in [Subs -> SUBSET ConfirmKeys]
    /\ overrun \subseteq Subs

\* CheckoutTypeOK, of documents and of processes.
LEMMA CheckoutTypesSplit ==
    /\ CheckoutTypeOK <=> MethodsTypeOK /\ CheckoutsOK /\ ConfirmersOK
    /\ CheckoutTypeOK' <=> MethodsTypeOK' /\ CheckoutsOK' /\ ConfirmersOK'
<1>1. CheckoutTypeOK <=> MethodsTypeOK /\ CheckoutsOK /\ ConfirmersOK
    BY DEF CheckoutTypeOK, CheckoutsOK, ConfirmersOK, Confirmer
<1>2. CheckoutTypeOK' <=> MethodsTypeOK' /\ CheckoutsOK' /\ ConfirmersOK'
    BY DEF CheckoutTypeOK, CheckoutsOK, ConfirmersOK, Confirmer
<1> QED BY <1>1, <1>2

\* The same of a confirming process.
LEMMA ConfirmerMoves ==
    ASSUME ConfirmersOK, NEW f \in Confirmers, NEW r, Confirmer(r),
           confirmers' = [confirmers EXCEPT ![f] = r]
    PROVE  ConfirmersOK'
<1>1. confirmers' = [g \in Confirmers |-> IF g = f THEN r ELSE confirmers[g]] BY DEF ConfirmersOK
<1> QED BY <1>1 DEF ConfirmersOK

\* An idle process is one.
LEMMA ConfirmerIdles ==
    ASSUME ConfirmAssumption
    PROVE  Confirmer(ConfirmerIdle)
BY DEF Confirmer, ConfirmerIdle, Days, ConfirmAssumption

-----------------------------------------------------------------------------
\* What a step of a confirming process does to itself: it goes to state pc and
\* stays with its subscription, key, card and date, or it becomes idle.
Goes(f, pc) ==
    \E d, o \in BOOLEAN :
        confirmers' = [confirmers EXCEPT ![f] =
            [pc |-> pc, sub |-> confirmers[f].sub, key |-> confirmers[f].key,
             card |-> confirmers[f].card, day |-> confirmers[f].day, isDefault |-> d, open |-> o]]
Stops(f) == confirmers' = [confirmers EXCEPT ![f] = ConfirmerIdle]

\* One field, and two of a process whose second is a Boolean.
LEMMA GoesOn ==
    ASSUME ConfirmersOK, NEW f \in Confirmers, NEW pc
    PROVE  /\ confirmers' = [confirmers EXCEPT ![f].pc = pc] => Goes(f, pc)
           /\ \A b \in BOOLEAN :
                 confirmers' = [confirmers EXCEPT ![f].pc = pc, ![f].isDefault = b] => Goes(f, pc)
           /\ \A b \in BOOLEAN :
                 confirmers' = [confirmers EXCEPT ![f].pc = pc, ![f].open = b] => Goes(f, pc)
<1> DEFINE me == confirmers[f]
<1> DEFINE there == [pc |-> pc, sub |-> me.sub, key |-> me.key, card |-> me.card, day |-> me.day,
                     isDefault |-> me.isDefault, open |-> me.open]
<1>0. Confirmer(me) BY DEF ConfirmersOK
<1>t. [me EXCEPT !.pc = pc] = there BY <1>0 DEF Confirmer
<1>1. ASSUME confirmers' = [confirmers EXCEPT ![f].pc = pc] PROVE Goes(f, pc)
  <2>1. [me EXCEPT !.pc = pc] = there BY <1>t
  <2>2. confirmers' = [confirmers EXCEPT ![f] = [me EXCEPT !.pc = pc]] BY <1>1
  <2> QED BY <1>0, <2>1, <2>2 DEF Goes, Confirmer
<1>2. ASSUME NEW b \in BOOLEAN,
             confirmers' = [confirmers EXCEPT ![f].pc = pc, ![f].isDefault = b]
      PROVE  Goes(f, pc)
  <2>0. [there EXCEPT !.isDefault = b] =
            [pc |-> pc, sub |-> me.sub, key |-> me.key, card |-> me.card, day |-> me.day,
             isDefault |-> b, open |-> me.open]
    OBVIOUS
  <2>1. [[me EXCEPT !.pc = pc] EXCEPT !.isDefault = b] =
            [pc |-> pc, sub |-> me.sub, key |-> me.key, card |-> me.card, day |-> me.day,
             isDefault |-> b, open |-> me.open]
    BY <1>t, <2>0
  <2>2. confirmers' = [confirmers EXCEPT ![f] = [[me EXCEPT !.pc = pc] EXCEPT !.isDefault = b]]
    BY <1>2 DEF ConfirmersOK
  <2> QED BY <1>0, <2>1, <2>2 DEF Goes, Confirmer
<1>3. ASSUME NEW b \in BOOLEAN,
             confirmers' = [confirmers EXCEPT ![f].pc = pc, ![f].open = b]
      PROVE  Goes(f, pc)
  <2>0. [there EXCEPT !.open = b] =
            [pc |-> pc, sub |-> me.sub, key |-> me.key, card |-> me.card, day |-> me.day,
             isDefault |-> me.isDefault, open |-> b]
    OBVIOUS
  <2>1. [[me EXCEPT !.pc = pc] EXCEPT !.open = b] =
            [pc |-> pc, sub |-> me.sub, key |-> me.key, card |-> me.card, day |-> me.day,
             isDefault |-> me.isDefault, open |-> b]
    BY <1>t, <2>0
  <2>2. confirmers' = [confirmers EXCEPT ![f] = [[me EXCEPT !.pc = pc] EXCEPT !.open = b]]
    BY <1>3 DEF ConfirmersOK
  <2> QED BY <1>0, <2>1, <2>2 DEF Goes, Confirmer
<1> QED BY <1>1, <1>2, <1>3

\* Neither step touches another process or forgets a type.
LEMMA Moved ==
    ASSUME ConfirmAssumption, ConfirmersOK, NEW f \in Confirmers,
           NEW pc \in {"issue", "charge", "paid", "failed"}, confirmers[f].pc # "idle",
           Goes(f, pc)
    PROVE  /\ ConfirmersOK'
           /\ confirmers'[f].pc = pc
           /\ confirmers'[f].sub = confirmers[f].sub
           /\ confirmers'[f].key = confirmers[f].key
           /\ \A g \in Confirmers : g # f => confirmers'[g] = confirmers[g]
<1>0. Confirmer(confirmers[f]) BY DEF ConfirmersOK
<1> PICK d, o \in BOOLEAN :
        confirmers' = [confirmers EXCEPT ![f] =
            [pc |-> pc, sub |-> confirmers[f].sub, key |-> confirmers[f].key,
             card |-> confirmers[f].card, day |-> confirmers[f].day, isDefault |-> d, open |-> o]]
    BY DEF Goes
<1> DEFINE r == [pc |-> pc, sub |-> confirmers[f].sub, key |-> confirmers[f].key,
             card |-> confirmers[f].card, day |-> confirmers[f].day, isDefault |-> d, open |-> o]
<1>1. Confirmer(r) BY <1>0 DEF Confirmer
<1>2. r.pc = pc /\ r.sub = confirmers[f].sub /\ r.key = confirmers[f].key OBVIOUS
<1>3. confirmers' = [confirmers EXCEPT ![f] = r] OBVIOUS
<1> HIDE DEF r
<1>4. ConfirmersOK' BY <1>1, <1>3, ConfirmerMoves
<1> QED BY <1>2, <1>3, <1>4 DEF ConfirmersOK

\* Nor does a step that ends the request.
LEMMA Stopped ==
    ASSUME ConfirmAssumption, ConfirmersOK, NEW f \in Confirmers, Stops(f)
    PROVE  /\ ConfirmersOK'
           /\ confirmers'[f] = ConfirmerIdle /\ ~Running(f)'
           /\ \A g \in Confirmers : g # f => confirmers'[g] = confirmers[g]
<1>1. Confirmer(ConfirmerIdle) BY ConfirmerIdles
<1>2. ConfirmersOK' BY <1>1, ConfirmerMoves DEF Stops
<1> QED BY <1>2 DEF ConfirmersOK, Stops, Running, ConfirmerIdle

-----------------------------------------------------------------------------
\* The invariant without the types of processes and methods.
Orderly ==
    CheckoutsOK /\ KeysAreHeld /\ LocksAreHeld /\ ChargesAreKnown /\ PaidIsActive /\ ActiveWasPaid

\* A process that runs has a subscription and a key.
LEMMA Runner ==
    ASSUME ConfirmersOK, NEW f \in Confirmers, confirmers[f].pc # "idle"
    PROVE  confirmers[f].sub \in Subs /\ confirmers[f].key \in ConfirmKeys
           /\ confirmers[f].day \in Days
BY DEF ConfirmersOK, Confirmer

\* The lock is taken by a process that finds a pending subscription.
LEMMA LockKeeps ==
    ASSUME ConfirmAssumption, Orderly, ConfirmersOK, NEW f \in Confirmers, ConfirmLock(f)
    PROVE  Orderly' /\ ConfirmersOK'
<1> DEFINE s == confirmers[f].sub
           k == confirmers[f].key
<1>0. s \in Subs /\ k \in ConfirmKeys BY Runner DEF ConfirmLock
<1>1. Goes(f, "issue") BY GoesOn DEF ConfirmLock
<1>2. /\ ConfirmersOK'
      /\ confirmers'[f].pc = "issue" /\ confirmers'[f].sub = s /\ confirmers'[f].key = k
      /\ \A g \in Confirmers : g # f => confirmers'[g] = confirmers[g]
    BY <1>1, Moved DEF ConfirmLock
<1>3. /\ confirmLock[s] = Nobody /\ confirmLock' = [confirmLock EXCEPT ![s] = f]
      /\ confirmKeys[k].status = "none"
      /\ confirmKeys' = [confirmKeys EXCEPT ![k] = [status |-> "processing", sub |-> s]]
      /\ subs[s] = "pending"
      /\ UNCHANGED <<subs, today, cycles, taken, overrun>>
    BY DEF ConfirmLock, Confirmable
<1>w. /\ confirmKeys'[k].status = "processing" /\ confirmKeys'[k].sub = s
      /\ \A q \in ConfirmKeys : q # k => confirmKeys'[q] = confirmKeys[q]
      /\ confirmLock'[s] = f
      /\ \A x \in Subs : x # s => confirmLock'[x] = confirmLock[x]
    BY <1>0, <1>3 DEF Orderly, CheckoutsOK
<1>r. \A g \in Confirmers : Running(g) => confirmers[g].sub \in Subs /\ confirmers[g].key \in ConfirmKeys
    BY Runner DEF Running
<1>4. \A g \in Confirmers : g # f /\ Running(g) => confirmers[g].key # k
    BY <1>3 DEF Orderly, KeysAreHeld
<1>5. \A g \in Confirmers : g # f /\ Running(g) /\ confirmers[g].sub \notin overrun =>
          confirmers[g].sub # s
    BY <1>3 DEF Orderly, LocksAreHeld, ConfirmAssumption
<1>6. CheckoutsOK' BY <1>0, <1>3 DEF Orderly, CheckoutsOK, KeyStatus
<1>7. KeysAreHeld'
    BY <1>0, <1>r, <1>w, <1>2, <1>4 DEF Orderly, KeysAreHeld, Running
<1>8. LocksAreHeld'
    BY <1>0, <1>r, <1>w, <1>2, <1>3, <1>5 DEF Orderly, LocksAreHeld, Running
<1>9. ChargesAreKnown' BY <1>2, <1>3 DEF Orderly, ChargesAreKnown
<1>10. PaidIsActive' BY <1>3 DEF Orderly, PaidIsActive
<1>11. ActiveWasPaid'
    BY <1>0, <1>3 DEF Orderly, CheckoutsOK, ActiveWasPaid, WasPaid
<1> QED BY <1>2, <1>6, <1>7, <1>8, <1>9, <1>10, <1>11 DEF Orderly

\* A process that goes on, or charges, leaves the documents alone.
LEMMA GoingKeeps ==
    ASSUME ConfirmAssumption, Orderly, ConfirmersOK, NEW f \in Confirmers, Running(f),
           NEW pc \in {"issue", "charge", "paid", "failed"}, Goes(f, pc),
           UNCHANGED <<subs, today, cycles, confirmKeys, confirmLock, overrun>>,
           \/ UNCHANGED taken
           \/ taken' = [taken EXCEPT ![confirmers[f].sub] = @ \cup {confirmers[f].key}],
           pc = "paid" => confirmers[f].key \in taken'[confirmers[f].sub]
    PROVE  Orderly' /\ ConfirmersOK'
<1> DEFINE s == confirmers[f].sub
           k == confirmers[f].key
<1>0. s \in Subs /\ k \in ConfirmKeys BY Runner DEF Running
<1>2. /\ ConfirmersOK'
      /\ confirmers'[f].pc = pc /\ confirmers'[f].sub = s /\ confirmers'[f].key = k
      /\ \A g \in Confirmers : g # f => confirmers'[g] = confirmers[g]
    BY Moved DEF Running
<1>3. /\ taken' \in [Subs -> SUBSET ConfirmKeys]
      /\ \A x \in Subs : taken[x] \subseteq taken'[x]
  <2>1. taken \in [Subs -> SUBSET ConfirmKeys] BY DEF Orderly, CheckoutsOK
  <2>2. CASE UNCHANGED taken BY <2>1, <2>2
  <2>3. CASE taken' = [taken EXCEPT ![s] = @ \cup {k}] BY <1>0, <2>1, <2>3
  <2> QED BY <2>2, <2>3
<1>4. CheckoutsOK' BY <1>3 DEF Orderly, CheckoutsOK
<1>5. KeysAreHeld' BY <1>2 DEF Orderly, KeysAreHeld, Running
<1>6. LocksAreHeld' BY <1>2 DEF Orderly, LocksAreHeld, Running
<1>7. \A g \in Confirmers : confirmers[g].pc = "paid" => confirmers[g].sub \in Subs
    BY Runner
<1>8. ChargesAreKnown' BY <1>2, <1>3, <1>7 DEF Orderly, ChargesAreKnown
<1>9. PaidIsActive' BY DEF Orderly, PaidIsActive
<1>10. \A x \in Subs : WasPaid(x) => WasPaid(x)' BY <1>3 DEF WasPaid
<1>11. \A q \in ConfirmKeys : confirmKeys[q].status = "succeeded" =>
           confirmKeys[q].sub \in Subs
    BY DEF Orderly, KeysAreHeld
<1>12. ActiveWasPaid' BY <1>10, <1>11 DEF Orderly, ActiveWasPaid
<1> QED BY <1>2, <1>4, <1>5, <1>6, <1>8, <1>9, <1>12 DEF Orderly

\* A process that stops leaves its lock, and may leave its key, to others.
LEMMA StoppingKeeps ==
    ASSUME ConfirmAssumption, Orderly, ConfirmersOK, NEW f \in Confirmers,
           ConfirmersOK', ~Running(f)',
           \A g \in Confirmers : g # f => confirmers'[g] = confirmers[g],
           UNCHANGED <<subs, today, cycles, taken, overrun>>,
           confirmLock' \in [Subs -> Confirmers \cup {Nobody, Gone}],
           \A x \in Subs : confirmLock[x] # f => confirmLock'[x] = confirmLock[x],
           \/ UNCHANGED confirmKeys
           \/ Running(f) /\ SaveKey(f, "failed")
    PROVE  Orderly'
<1>1. /\ ConfirmersOK' /\ ~Running(f)'
      /\ \A g \in Confirmers : g # f => confirmers'[g] = confirmers[g]
    OBVIOUS
<1>2. \A g \in Confirmers : Running(g)' => g # f /\ Running(g) /\ confirmers'[g] = confirmers[g]
    BY <1>1 DEF Running
<1>r. \A g \in Confirmers : Running(g) => confirmers[g].sub \in Subs /\ confirmers[g].key \in ConfirmKeys
    BY Runner DEF Running
<1>3. /\ confirmKeys' \in [ConfirmKeys -> [status : KeyStatus, sub : Subs \cup {NoSub}]]
      /\ \A k \in ConfirmKeys : confirmKeys'[k].sub = confirmKeys[k].sub
      /\ \A k \in ConfirmKeys : confirmKeys'[k].status \in {confirmKeys[k].status, "failed"}
      /\ \A k \in ConfirmKeys : (confirmKeys'[k].status = "none") = (confirmKeys[k].status = "none")
      /\ \A g \in Confirmers : Running(g)' =>
            confirmKeys'[confirmers[g].key] = confirmKeys[confirmers[g].key]
  <2>1. CASE UNCHANGED confirmKeys BY <2>1 DEF Orderly, CheckoutsOK
  <2>2. CASE Running(f) /\ SaveKey(f, "failed")
    <3>1. confirmKeys[confirmers[f].key].status = "processing"
        BY <2>2 DEF Orderly, KeysAreHeld
    <3>2. \A g \in Confirmers : Running(g)' => confirmers[g].key # confirmers[f].key
        BY <1>2, <2>2 DEF Orderly, KeysAreHeld
    <3>3. confirmKeys \in [ConfirmKeys -> [status : KeyStatus, sub : Subs \cup {NoSub}]]
        BY DEF Orderly, CheckoutsOK
    <3>4. confirmKeys' = [confirmKeys EXCEPT ![confirmers[f].key] =
                              [confirmKeys[confirmers[f].key] EXCEPT !.status = "failed"]]
        BY <2>2 DEF SaveKey
    <3>5. "failed" \in KeyStatus BY DEF KeyStatus
    <3> QED BY <1>r, <1>2, <2>2, <3>1, <3>2, <3>3, <3>4, <3>5
  <2> QED BY <2>1, <2>2
<1>4. CheckoutsOK' BY <1>3 DEF Orderly, CheckoutsOK
<1>5. KeysAreHeld' BY <1>2, <1>3 DEF Orderly, KeysAreHeld
<1>6. LocksAreHeld' BY <1>r, <1>2 DEF Orderly, LocksAreHeld
<1>7. ChargesAreKnown' BY <1>1 DEF Orderly, ChargesAreKnown, Running
<1>8. PaidIsActive' BY DEF Orderly, PaidIsActive
<1>9. \A x : WasPaid(x) => WasPaid(x)' BY DEF WasPaid
<1>10. ActiveWasPaid' BY <1>3, <1>9 DEF Orderly, ActiveWasPaid
<1> QED BY <1>1, <1>4, <1>5, <1>6, <1>7, <1>8, <1>10 DEF Orderly

\* A stored failure is no payment, and is stored beside none unless a lock
\* lapsed.
LEMMA FailedKeeps ==
    ASSUME ConfirmAssumption, Orderly, ConfirmersOK, NEW f \in Confirmers, ConfirmFailed(f)
    PROVE  Orderly' /\ ConfirmersOK'
<1> DEFINE s == confirmers[f].sub
           k == confirmers[f].key
           d == confirmers[f].day
           c == [CycleOf(f) EXCEPT !.invoice = "issued"]
<1>0. Running(f) /\ s \in Subs /\ k \in ConfirmKeys /\ d \in Days
    BY Runner DEF ConfirmFailed, Running
<1>1. /\ ConfirmersOK' /\ ~Running(f)'
      /\ \A g \in Confirmers : g # f => confirmers'[g] = confirmers[g]
    BY Stopped DEF Stops, ConfirmFailed, ConfirmDone
<1>2. \A g \in Confirmers : Running(g)' => g # f /\ Running(g) /\ confirmers'[g] = confirmers[g]
    BY <1>1 DEF Running
<1>r. \A g \in Confirmers : Running(g) => confirmers[g].sub \in Subs /\ confirmers[g].key \in ConfirmKeys
    BY Runner DEF Running
<1>t. CheckoutsOK BY DEF Orderly
<1>3. /\ c \in Cycle /\ c.paidWith = cycles[s][d].paidWith /\ c.invoice = "issued"
  <2>1. CycleOf(f) \in Cycle /\ CycleOf(f) = cycles[s][d]
    BY <1>0, <1>t DEF CheckoutsOK, CycleOf
  <2> QED BY <2>1 DEF Cycle
<1>4. /\ cycles' = [cycles EXCEPT ![s][d] = c]
      /\ subs' = [subs EXCEPT ![s] = "pending"]
      /\ confirmKeys' = [confirmKeys EXCEPT ![k] = [confirmKeys[k] EXCEPT !.status = "failed"]]
      /\ confirmLock' = [confirmLock EXCEPT ![s] = IF confirmLock[s] = f THEN Nobody ELSE confirmLock[s]]
      /\ UNCHANGED <<today, taken, overrun>>
  <2>1. cycles' = [cycles EXCEPT ![s][d] = c] BY DEF ConfirmFailed, ConfirmStored
  <2>2. subs' = [subs EXCEPT ![s] = "pending"] BY DEF ConfirmFailed, ConfirmStored
  <2>3. confirmKeys' = [confirmKeys EXCEPT ![k] = [confirmKeys[k] EXCEPT !.status = "failed"]]
    BY DEF ConfirmFailed, ConfirmStored, SaveKey
  <2>4. confirmLock' = [confirmLock EXCEPT ![s] = IF confirmLock[s] = f THEN Nobody ELSE confirmLock[s]]
    BY DEF ConfirmFailed, ConfirmDone
  <2> QED BY <2>1, <2>2, <2>3, <2>4 DEF ConfirmFailed
<1> HIDE DEF c
<1>5. /\ cycles' \in [Subs -> [Days -> Cycle]]
      /\ \A x \in Subs, y \in Days :
            /\ cycles'[x][y].paidWith = cycles[x][y].paidWith
            /\ x # s => cycles'[x][y] = cycles[x][y]
    BY <1>0, <1>t, <1>3, <1>4 DEF CheckoutsOK
<1>6. /\ subs' \in [Subs -> SubStatus] /\ subs'[s] = "pending"
      /\ \A x \in Subs : x # s => subs'[x] = subs[x]
    BY <1>0, <1>t, <1>4 DEF CheckoutsOK, SubStatus
<1>7. /\ confirmKeys' \in [ConfirmKeys -> [status : KeyStatus, sub : Subs \cup {NoSub}]]
      /\ confirmKeys'[k].status = "failed" /\ confirmKeys'[k].sub = confirmKeys[k].sub
      /\ \A q \in ConfirmKeys : q # k => confirmKeys'[q] = confirmKeys[q]
  <2>1. "failed" \in KeyStatus BY DEF KeyStatus
  <2>2. confirmKeys \in [ConfirmKeys -> [status : KeyStatus, sub : Subs \cup {NoSub}]]
    BY <1>t DEF CheckoutsOK
  <2> QED BY <1>0, <1>4, <2>1, <2>2
<1>8. /\ confirmLock' \in [Subs -> Confirmers \cup {Nobody, Gone}]
      /\ \A x \in Subs : confirmLock[x] # f => confirmLock'[x] = confirmLock[x]
    BY <1>0, <1>t, <1>4 DEF CheckoutsOK
<1>9. CheckoutsOK' BY <1>t, <1>4, <1>5, <1>6, <1>7, <1>8 DEF CheckoutsOK
<1>10. KeysAreHeld'
  <2>1. \A g \in Confirmers : Running(g)' => confirmers[g].key # k
    BY <1>0, <1>2 DEF Orderly, KeysAreHeld
  <2>2. confirmKeys[k].status # "none" BY <1>0 DEF Orderly, KeysAreHeld
  <2> QED BY <1>r, <1>2, <1>7, <2>1, <2>2 DEF Orderly, KeysAreHeld
<1>11. LocksAreHeld' BY <1>r, <1>2, <1>4, <1>6, <1>8 DEF Orderly, LocksAreHeld
<1>12. ChargesAreKnown' BY <1>1, <1>4 DEF Orderly, ChargesAreKnown, Running
<1>13. s \notin overrun => \A y \in Days : cycles[s][y].paidWith = NoKey
  <2>1. s \notin overrun => subs[s] = "pending" BY <1>0 DEF Orderly, LocksAreHeld
  <2> QED BY <1>0, <2>1 DEF Orderly, PaidIsActive
<1>14. PaidIsActive'
  <2>1. ASSUME NEW x \in Subs \ overrun', \E y \in Days : cycles'[x][y].paidWith # NoKey
        PROVE  subs'[x] \in {"active", "ended"}
    <3>1. x # s BY <1>4, <1>5, <1>13, <2>1
    <3>2. \E y \in Days : cycles[x][y].paidWith # NoKey BY <1>5, <2>1
    <3> QED BY <1>4, <1>6, <2>1, <3>1, <3>2 DEF Orderly, PaidIsActive
  <2> QED BY <2>1 DEF PaidIsActive
<1>15. ASSUME NEW x \in Subs, WasPaid(x) PROVE WasPaid(x)'
  <2> PICK y \in Days : cycles[x][y].paidWith \in taken[x]
                        /\ (x \notin overrun => cycles[x][y].invoice = "paid")
    BY <1>15 DEF WasPaid
  <2>1. x = s => s \in overrun
    <3>1. taken[x] \subseteq ConfirmKeys BY <1>t DEF CheckoutsOK
    <3> QED BY <1>13, <3>1 DEF ConfirmAssumption
  <2>2. CASE x = s BY <1>0, <1>4, <1>5, <2>1, <2>2 DEF WasPaid
  <2>3. CASE x # s BY <1>4, <1>5, <2>3 DEF WasPaid
  <2> QED BY <2>2, <2>3
<1>16. ActiveWasPaid'
  <2>1. \A q \in ConfirmKeys : confirmKeys'[q].status = "succeeded" =>
            /\ confirmKeys[q].status = "succeeded" /\ confirmKeys'[q].sub = confirmKeys[q].sub
            /\ confirmKeys[q].sub \in Subs
    BY <1>7 DEF Orderly, KeysAreHeld
  <2>2. \A x \in Subs : subs'[x] \in {"active", "ended"} => subs[x] \in {"active", "ended"}
    BY <1>6
  <2> QED BY <1>15, <2>1, <2>2 DEF Orderly, ActiveWasPaid
<1> QED BY <1>1, <1>9, <1>10, <1>11, <1>12, <1>14, <1>16 DEF Orderly

\* A stored payment is one the gateway took.
LEMMA PaidKeeps ==
    ASSUME ConfirmAssumption, Orderly, ConfirmersOK, NEW f \in Confirmers, ConfirmPaid(f)
    PROVE  Orderly' /\ ConfirmersOK'
<1> DEFINE s == confirmers[f].sub
           k == confirmers[f].key
           d == confirmers[f].day
           c == [invoice |-> "paid", paidWith |-> k]
<1>0. Running(f) /\ s \in Subs /\ k \in ConfirmKeys /\ d \in Days
    BY Runner DEF ConfirmPaid, Running
<1>1. /\ ConfirmersOK' /\ ~Running(f)'
      /\ \A g \in Confirmers : g # f => confirmers'[g] = confirmers[g]
    BY Stopped DEF Stops, ConfirmPaid, ConfirmDone
<1>2. \A g \in Confirmers : Running(g)' => g # f /\ Running(g) /\ confirmers'[g] = confirmers[g]
    BY <1>1 DEF Running
<1>r. \A g \in Confirmers : Running(g) => confirmers[g].sub \in Subs /\ confirmers[g].key \in ConfirmKeys
    BY Runner DEF Running
<1>t. CheckoutsOK BY DEF Orderly
<1>3. /\ c \in Cycle /\ c.paidWith = k /\ c.invoice = "paid" /\ k \in taken[s]
      /\ cycles[s][d].paidWith = NoKey
  <2>1. k \in taken[s] BY DEF ConfirmPaid, Orderly, ChargesAreKnown
  <2>2. cycles[s][d].paidWith = NoKey BY DEF ConfirmPaid, PaymentFits, CycleOf
  <2> QED BY <1>0, <2>1, <2>2 DEF Cycle
<1>4. /\ cycles' = [cycles EXCEPT ![s][d] = c]
      /\ subs' = [subs EXCEPT ![s] = "active"]
      /\ confirmKeys' = [confirmKeys EXCEPT ![k] = [confirmKeys[k] EXCEPT !.status = "succeeded"]]
      /\ confirmLock' = [confirmLock EXCEPT ![s] = IF confirmLock[s] = f THEN Nobody ELSE confirmLock[s]]
      /\ UNCHANGED <<today, taken, overrun>>
  <2>1. cycles' = [cycles EXCEPT ![s][d] = c] BY DEF ConfirmPaid, ConfirmStored
  <2>2. subs' = [subs EXCEPT ![s] = "active"] BY DEF ConfirmPaid, ConfirmStored
  <2>3. confirmKeys' = [confirmKeys EXCEPT ![k] = [confirmKeys[k] EXCEPT !.status = "succeeded"]]
    BY DEF ConfirmPaid, ConfirmStored, SaveKey
  <2>4. confirmLock' = [confirmLock EXCEPT ![s] = IF confirmLock[s] = f THEN Nobody ELSE confirmLock[s]]
    BY DEF ConfirmPaid, ConfirmDone
  <2> QED BY <2>1, <2>2, <2>3, <2>4 DEF ConfirmPaid
<1> HIDE DEF c
<1>5. /\ cycles' \in [Subs -> [Days -> Cycle]]
      /\ cycles'[s][d] = c
      /\ \A x \in Subs, y \in Days : x # s \/ y # d => cycles'[x][y] = cycles[x][y]
    BY <1>0, <1>t, <1>3, <1>4 DEF CheckoutsOK
<1>6. /\ subs' \in [Subs -> SubStatus] /\ subs'[s] = "active"
      /\ \A x \in Subs : x # s => subs'[x] = subs[x]
    BY <1>0, <1>t, <1>4 DEF CheckoutsOK, SubStatus
<1>7. /\ confirmKeys' \in [ConfirmKeys -> [status : KeyStatus, sub : Subs \cup {NoSub}]]
      /\ confirmKeys'[k].status = "succeeded" /\ confirmKeys'[k].sub = confirmKeys[k].sub
      /\ \A q \in ConfirmKeys : q # k => confirmKeys'[q] = confirmKeys[q]
  <2>1. "succeeded" \in KeyStatus BY DEF KeyStatus
  <2>2. confirmKeys \in [ConfirmKeys -> [status : KeyStatus, sub : Subs \cup {NoSub}]]
    BY <1>t DEF CheckoutsOK
  <2> QED BY <1>0, <1>4, <2>1, <2>2
<1>8. /\ confirmLock' \in [Subs -> Confirmers \cup {Nobody, Gone}]
      /\ \A x \in Subs : confirmLock[x] # f => confirmLock'[x] = confirmLock[x]
    BY <1>0, <1>t, <1>4 DEF CheckoutsOK
<1>9. CheckoutsOK' BY <1>t, <1>4, <1>5, <1>6, <1>7, <1>8 DEF CheckoutsOK
<1>k. confirmKeys[k].status # "none" /\ confirmKeys[k].sub = s
    BY <1>0 DEF Orderly, KeysAreHeld
<1>10. KeysAreHeld'
  <2>1. \A g \in Confirmers : Running(g)' => confirmers[g].key # k
    BY <1>0, <1>2 DEF Orderly, KeysAreHeld
  <2> QED BY <1>r, <1>2, <1>7, <1>k, <2>1 DEF Orderly, KeysAreHeld
<1>11. LocksAreHeld'
  <2>1. \A g \in Confirmers : Running(g)' /\ confirmers[g].sub \notin overrun => confirmers[g].sub # s
    BY <1>0, <1>2 DEF Orderly, LocksAreHeld
  <2> QED BY <1>r, <1>2, <1>4, <1>6, <1>8, <2>1 DEF Orderly, LocksAreHeld
<1>12. ChargesAreKnown' BY <1>1, <1>4 DEF Orderly, ChargesAreKnown, Running
<1>13. PaidIsActive'
  <2>1. ASSUME NEW x \in Subs \ overrun', \E y \in Days : cycles'[x][y].paidWith # NoKey
        PROVE  subs'[x] \in {"active", "ended"}
    <3>1. CASE x = s BY <1>6, <3>1
    <3>2. CASE x # s
      <4>1. \E y \in Days : cycles[x][y].paidWith # NoKey BY <1>5, <2>1, <3>2
      <4> QED BY <1>4, <1>6, <2>1, <3>2, <4>1 DEF Orderly, PaidIsActive
    <3> QED BY <3>1, <3>2
  <2> QED BY <2>1 DEF PaidIsActive
<1>14. ASSUME NEW x \in Subs, x = s PROVE WasPaid(x)'
    BY <1>0, <1>3, <1>4, <1>5, <1>14 DEF WasPaid
<1>15. ASSUME NEW x \in Subs, WasPaid(x), x # s PROVE WasPaid(x)'
    BY <1>4, <1>5, <1>15 DEF WasPaid
<1>16. ActiveWasPaid'
  <2>1. \A q \in ConfirmKeys : confirmKeys'[q].status = "succeeded" =>
            \/ confirmKeys'[q].sub = s
            \/ /\ confirmKeys[q].status = "succeeded" /\ confirmKeys'[q].sub = confirmKeys[q].sub
               /\ confirmKeys[q].sub \in Subs
    BY <1>7, <1>k DEF Orderly, KeysAreHeld
  <2>2. ASSUME NEW x \in Subs, subs'[x] \in {"active", "ended"} PROVE WasPaid(x)'
    BY <1>6, <1>14, <1>15, <2>2 DEF Orderly, ActiveWasPaid
  <2>3. ASSUME NEW q \in ConfirmKeys, confirmKeys'[q].status = "succeeded"
        PROVE  WasPaid(confirmKeys[q].sub)'
    <3> DEFINE x == confirmKeys'[q].sub
    <3>1. x \in Subs /\ (x = s \/ (WasPaid(confirmKeys[q].sub) /\ x = confirmKeys[q].sub))
      <4>1. confirmKeys[q].status = "succeeded" => WasPaid(confirmKeys[q].sub)
        BY DEF Orderly, ActiveWasPaid
      <4> QED BY <1>0, <2>1, <2>3, <4>1
    <3>2. PICK y \in Subs : y = x BY <3>1
    <3>3. WasPaid(y)' BY <1>14, <1>15, <3>1, <3>2
    <3> QED BY <3>2, <3>3
  <2> QED BY <2>2, <2>3 DEF ActiveWasPaid
<1> QED BY <1>1, <1>9, <1>10, <1>11, <1>12, <1>13, <1>16 DEF Orderly

-----------------------------------------------------------------------------
\* Steps that touch no process: a lock lapses.
LEMMA LapseKeeps ==
    ASSUME ConfirmAssumption, Orderly, ConfirmersOK, NEW s \in Subs, ConfirmLockLapse(s)
    PROVE  Orderly'
<1>1. /\ confirmLock' \in [Subs -> Confirmers \cup {Nobody, Gone}]
      /\ \A x \in Subs : x # s => confirmLock'[x] = confirmLock[x]
      /\ overrun \subseteq overrun' /\ overrun' \subseteq Subs
      /\ confirmLock[s] = Gone \/ s \in overrun'
      /\ UNCHANGED <<subs, today, cycles, confirmKeys, confirmers, taken>>
    BY DEF ConfirmLockLapse, Orderly, CheckoutsOK
<1>2. CheckoutsOK' BY <1>1 DEF Orderly, CheckoutsOK
<1>3. KeysAreHeld' BY <1>1 DEF Orderly, KeysAreHeld, Running
<1>4. LocksAreHeld'
  <2>1. \A f \in Confirmers : Running(f) => confirmers[f].sub \in Subs BY Runner DEF Running
  <2> QED BY <1>1, <2>1 DEF Orderly, LocksAreHeld, Running, ConfirmAssumption
<1>5. ChargesAreKnown' BY <1>1 DEF Orderly, ChargesAreKnown
<1>6. PaidIsActive' BY <1>1 DEF Orderly, PaidIsActive
<1>7. \A x : WasPaid(x) => WasPaid(x)' BY <1>1 DEF WasPaid
<1>8. ActiveWasPaid' BY <1>1, <1>7 DEF Orderly, ActiveWasPaid
<1> QED BY <1>2, <1>3, <1>4, <1>5, <1>6, <1>8 DEF Orderly

\* A key is deleted.
LEMMA TtlKeeps ==
    ASSUME ConfirmAssumption, Orderly, ConfirmersOK, NEW k \in ConfirmKeys, ConfirmKeyTtl(k)
    PROVE  Orderly'
<1>1. /\ confirmKeys' \in [ConfirmKeys -> [status : KeyStatus, sub : Subs \cup {NoSub}]]
      /\ confirmKeys'[k].status = "none"
      /\ \A q \in ConfirmKeys : q # k => confirmKeys'[q] = confirmKeys[q]
      /\ \A f \in Confirmers : confirmers[f].key # k
      /\ UNCHANGED <<subs, today, cycles, confirmLock, confirmers, taken, overrun>>
    BY DEF ConfirmKeyTtl, Orderly, CheckoutsOK, KeyStatus
<1>2. CheckoutsOK' BY <1>1 DEF Orderly, CheckoutsOK
<1>r. \A g \in Confirmers : Running(g) => confirmers[g].key \in ConfirmKeys BY Runner DEF Running
<1>3. KeysAreHeld' BY <1>1, <1>r DEF Orderly, KeysAreHeld, Running
<1>4. LocksAreHeld' BY <1>1 DEF Orderly, LocksAreHeld, Running
<1>5. ChargesAreKnown' BY <1>1 DEF Orderly, ChargesAreKnown
<1>6. PaidIsActive' BY <1>1 DEF Orderly, PaidIsActive
<1>7. \A x : WasPaid(x) => WasPaid(x)' BY <1>1 DEF WasPaid
<1>8. ActiveWasPaid' BY <1>1, <1>7 DEF Orderly, ActiveWasPaid
<1> QED BY <1>2, <1>3, <1>4, <1>5, <1>6, <1>8 DEF Orderly

\* A checkout is created, or a subscription ends.
LEMMA StatusKeeps ==
    ASSUME ConfirmAssumption, Orderly, ConfirmersOK, NEW s \in Subs,
           CreateCheckout(s) \/ SubscriptionEnds(s)
    PROVE  Orderly'
<1>1. /\ subs' \in [Subs -> SubStatus]
      /\ \A x \in Subs : subs'[x] # subs[x] =>
            \/ subs[x] = "none" /\ subs'[x] = "pending"
            \/ subs[x] = "active" /\ subs'[x] = "ended"
      /\ UNCHANGED <<today, cycles, confirmKeys, confirmLock, confirmers, taken, overrun>>
  <2>1. CASE CreateCheckout(s) BY <2>1 DEF CreateCheckout, Orderly, CheckoutsOK, SubStatus
  <2>2. CASE SubscriptionEnds(s) BY <2>2 DEF SubscriptionEnds, Orderly, CheckoutsOK, SubStatus
  <2> QED BY <2>1, <2>2
<1>2. CheckoutsOK' BY <1>1 DEF Orderly, CheckoutsOK
<1>r. \A g \in Confirmers : Running(g) => confirmers[g].sub \in Subs BY Runner DEF Running
<1>3. KeysAreHeld' BY <1>1 DEF Orderly, KeysAreHeld, Running
<1>4. LocksAreHeld' BY <1>1, <1>r DEF Orderly, LocksAreHeld, Running
<1>5. ChargesAreKnown' BY <1>1 DEF Orderly, ChargesAreKnown
<1>6. PaidIsActive' BY <1>1 DEF Orderly, PaidIsActive
<1>7. \A x : WasPaid(x) => WasPaid(x)' BY <1>1 DEF WasPaid
<1>8. ActiveWasPaid'
  <2>1. ASSUME NEW x \in Subs, subs'[x] \in {"active", "ended"} PROVE subs[x] \in {"active", "ended"}
    BY <1>1, <2>1
  <2> QED BY <1>1, <1>7, <2>1 DEF Orderly, ActiveWasPaid
<1> QED BY <1>2, <1>3, <1>4, <1>5, <1>6, <1>8 DEF Orderly

\* A day passes.
LEMMA DayKeeps ==
    ASSUME ConfirmAssumption, Orderly, NextDay
    PROVE  Orderly'
<1>1. UNCHANGED <<subs, cycles, confirmKeys, confirmLock, confirmers, taken, overrun>>
    BY DEF NextDay
<1>2. today' \in Days BY DEF NextDay, Orderly, CheckoutsOK, Days, ConfirmAssumption
<1>3. CheckoutsOK' BY <1>1, <1>2 DEF Orderly, CheckoutsOK
<1>4. KeysAreHeld' /\ LocksAreHeld' /\ ChargesAreKnown'
    BY <1>1 DEF Orderly, KeysAreHeld, LocksAreHeld, ChargesAreKnown, Running
<1>5. PaidIsActive' /\ ActiveWasPaid'
    BY <1>1 DEF Orderly, PaidIsActive, ActiveWasPaid, WasPaid
<1> QED BY <1>3, <1>4, <1>5 DEF Orderly

-----------------------------------------------------------------------------
\* A step of a confirming process.
LEMMA ConfirmStepKeeps ==
    ASSUME ConfirmAssumption, Orderly, ConfirmersOK, NEW f \in Confirmers, ConfirmStep(f)
    PROVE  Orderly' /\ ConfirmersOK'
<1> DEFINE s == confirmers[f].sub
           k == confirmers[f].key
<1>t. CheckoutsOK BY DEF Orderly
<1>l. \* what ConfirmDone does to the lock
      ASSUME confirmers[f].pc # "idle", ConfirmDone(f)
      PROVE  /\ Stops(f)
             /\ confirmLock' \in [Subs -> Confirmers \cup {Nobody, Gone}]
             /\ \A x \in Subs : confirmLock[x] # f => confirmLock'[x] = confirmLock[x]
  <2>1. s \in Subs BY <1>l, Runner
  <2>2. confirmLock \in [Subs -> Confirmers \cup {Nobody, Gone}] BY <1>t DEF CheckoutsOK
  <2> QED BY <1>l, <2>1, <2>2 DEF ConfirmDone, Stops
<1>1. CASE ConfirmLock(f) BY <1>1, LockKeeps
<1>2. CASE ConfirmTurnedAway(f)
  <2>1. Stops(f) BY <1>2 DEF ConfirmTurnedAway, Stops
  <2> QED BY <1>2, <1>t, <2>1, Stopped, StoppingKeeps DEF ConfirmTurnedAway, CheckoutsOK
<1>3. CASE ConfirmIssued(f)
  <2> DEFINE b == (ActiveMethods = {})
  <2>1. b \in BOOLEAN OBVIOUS
  <2>2. confirmers' = [confirmers EXCEPT ![f].pc = "charge", ![f].isDefault = b]
    BY <1>3 DEF ConfirmIssued
  <2> HIDE DEF b
  <2>3. Goes(f, "charge") BY <2>1, <2>2, GoesOn
  <2>4. Running(f) BY <1>3 DEF ConfirmIssued, Running
  <2> QED BY <1>3, <2>3, <2>4, GoingKeeps DEF ConfirmIssued
<1>4. CASE ConfirmNotIssued(f)
  <2>1. Running(f) /\ confirmers[f].pc # "idle" BY <1>4 DEF ConfirmNotIssued, Running
  <2>2. ConfirmDone(f) BY <1>4 DEF ConfirmNotIssued
  <2>3. SaveKey(f, "failed") /\ UNCHANGED <<subs, today, cycles, taken, overrun>>
    BY <1>4 DEF ConfirmNotIssued
  <2> QED BY <1>l, <2>1, <2>2, <2>3, Stopped, StoppingKeeps
<1>c. ASSUME NEW outcome \in {"paid", "failed"}, Charged(f, outcome) PROVE Goes(f, outcome)
  <2> DEFINE b == (cycles[s][confirmers[f].day].invoice # "none")
  <2>1. b \in BOOLEAN OBVIOUS
  <2>2. confirmers' = [confirmers EXCEPT ![f].pc = outcome, ![f].open = b]
    BY <1>c DEF Charged
  <2> HIDE DEF b
  <2> QED BY <2>1, <2>2, GoesOn
<1>5. CASE ConfirmCharged(f)
  <2>1. PICK outcome \in {"paid", "failed"} : Charged(f, outcome) BY <1>5 DEF ConfirmCharged
  <2>2. Running(f) /\ Goes(f, outcome) BY <1>5, <1>c, <2>1 DEF ConfirmCharged, Running
  <2>3. taken' = [taken EXCEPT ![s] = @ \cup {k}] BY <1>5 DEF ConfirmCharged
  <2>4. k \in taken'[s]
    <3>1. s \in Subs BY <2>2, Runner DEF Running
    <3>2. taken \in [Subs -> SUBSET ConfirmKeys] BY <1>t DEF CheckoutsOK
    <3> QED BY <2>3, <3>1, <3>2
  <2>5. UNCHANGED <<subs, today, cycles, confirmKeys, confirmLock, overrun>>
    BY <1>5 DEF ConfirmCharged
  <2> QED BY <2>2, <2>3, <2>4, <2>5, GoingKeeps
<1>6. CASE ConfirmNotCharged(f)
  <2>1. Running(f) /\ Goes(f, "failed") BY <1>6, <1>c DEF ConfirmNotCharged, Running
  <2> QED BY <1>6, <2>1, GoingKeeps DEF ConfirmNotCharged
<1>7. CASE ConfirmPaid(f) BY <1>7, PaidKeeps
<1>8. CASE ConfirmFailed(f) BY <1>8, FailedKeeps
<1>9. CASE ConfirmAborted(f)
  <2>1. confirmers[f].pc # "idle" BY <1>9 DEF ConfirmAborted
  <2>2. ConfirmDone(f) /\ UNCHANGED <<subs, today, cycles, confirmKeys, taken, overrun>>
    BY <1>9 DEF ConfirmAborted
  <2> QED BY <1>l, <2>1, <2>2, Stopped, StoppingKeeps
<1>10. CASE ConfirmCrash(f)
  <2>1. Stops(f) BY <1>10 DEF ConfirmCrash, Stops
  <2>2. /\ confirmLock' \in [Subs -> Confirmers \cup {Nobody, Gone}]
        /\ \A x \in Subs : confirmLock[x] # f => confirmLock'[x] = confirmLock[x]
    BY <1>10, <1>t DEF ConfirmCrash, CheckoutsOK
  <2>3. UNCHANGED <<subs, today, cycles, confirmKeys, taken, overrun>>
    BY <1>10 DEF ConfirmCrash
  <2> QED BY <2>1, <2>2, <2>3, Stopped, StoppingKeeps
<1> QED BY <1>1, <1>2, <1>3, <1>4, <1>5, <1>6, <1>7, <1>8, <1>9, <1>10 DEF ConfirmStep

\* A request arrives.
LEMMA RequestKeeps ==
    ASSUME ConfirmAssumption, Orderly, ConfirmersOK, NEW f \in Confirmers, NEW s \in Subs,
           NEW k \in ConfirmKeys, NEW c \in Cards, ConfirmRequest(f, s, k, c)
    PROVE  Orderly' /\ ConfirmersOK'
<1> DEFINE r == [pc |-> "lock", sub |-> s, key |-> k, card |-> c, day |-> today,
                 isDefault |-> FALSE, open |-> FALSE]
<1>0. today \in Days BY DEF Orderly, CheckoutsOK
<1>2. confirmers' = [confirmers EXCEPT ![f] = r] BY DEF ConfirmRequest
<1>3. Confirmer(r) BY <1>0 DEF Confirmer
<1>4. r.pc = "lock" OBVIOUS
<1> HIDE DEF r
<1>5. ConfirmersOK' BY <1>2, <1>3, ConfirmerMoves
<1>6. ~Running(f)' /\ \A g \in Confirmers : g # f => confirmers'[g] = confirmers[g]
    BY <1>2, <1>4 DEF ConfirmersOK, Running
<1>7. UNCHANGED <<subs, today, cycles, confirmKeys, confirmLock, taken, overrun>>
    BY DEF ConfirmRequest
<1>8. confirmLock' \in [Subs -> Confirmers \cup {Nobody, Gone}]
    BY <1>7 DEF Orderly, CheckoutsOK
<1> QED BY <1>5, <1>6, <1>7, <1>8, StoppingKeeps

\* The invariant holds at the start.
LEMMA CheckoutInit ==
    ASSUME ConfirmAssumption, Init
    PROVE  CheckoutInv
<1>1. MethodsTypeOK
    BY DEF Init, MethodsInit, MethodsTypeOK, Auth, Method, NoMethod, KeyStatus, IssuerIdle, ManagerIdle
<1>2. CheckoutsOK
    BY DEF Init, CheckoutsOK, SubStatus, Days, Cycle, KeyStatus, ConfirmAssumption
<1>3. Confirmer(ConfirmerIdle) BY ConfirmerIdles
<1>4. ConfirmersOK BY <1>3 DEF Init, ConfirmersOK
<1>5. CheckoutTypeOK BY <1>1, <1>2, <1>4, CheckoutTypesSplit
<1>6. \A f \in Confirmers : confirmers[f].pc = "idle" BY DEF Init, ConfirmerIdle
<1>7. KeysAreHeld /\ LocksAreHeld /\ ChargesAreKnown
    BY <1>6 DEF Init, KeysAreHeld, LocksAreHeld, ChargesAreKnown, Running
<1>8. PaidIsActive /\ ActiveWasPaid BY DEF Init, PaidIsActive, ActiveWasPaid
<1> QED BY <1>5, <1>7, <1>8 DEF CheckoutInv

\* Every step keeps it.
LEMMA CheckoutSteps ==
    ASSUME ConfirmAssumption, CheckoutInv, [Next]_vars
    PROVE  CheckoutInv'
<1>0. MethodsTypeOK /\ Orderly /\ ConfirmersOK
    BY CheckoutTypesSplit DEF CheckoutInv, Orderly
<1> SUFFICES MethodsTypeOK' /\ Orderly' /\ ConfirmersOK'
    BY CheckoutTypesSplit DEF CheckoutInv, Orderly
<1>u. ASSUME UNCHANGED checkoutVars PROVE Orderly' /\ ConfirmersOK'
    BY <1>0, <1>u DEF checkoutVars, Orderly, CheckoutsOK, KeysAreHeld, LocksAreHeld,
        ChargesAreKnown, PaidIsActive, ActiveWasPaid, WasPaid, Running, ConfirmersOK
<1>1. CASE UNCHANGED vars
  <2>1. MethodsTypeOK' BY <1>0, <1>1 DEF vars, methodVars, MethodsTypeOK
  <2> QED BY <1>1, <1>u, <2>1 DEF vars
<1>2. CASE MethodsNext /\ UNCHANGED checkoutVars
    BY <1>0, <1>2, <1>u, MethodsTypes
<1>3. CASE CheckoutNext
  <2>m. ASSUME UNCHANGED <<auths, issueKeys, defaultKeys, issuers, managers>>,
               methods' \in [Cards -> Method], exchanged' \subseteq Cards
        PROVE  MethodsTypeOK'
    BY <1>0, <2>m DEF MethodsTypeOK
  <2>n. ASSUME UNCHANGED methodVars PROVE MethodsTypeOK'
    BY <1>0, <2>n DEF methodVars, MethodsTypeOK
  <2>1. ASSUME NEW s \in Subs, CreateCheckout(s) \/ SubscriptionEnds(s) \/ ConfirmLockLapse(s)
        PROVE  MethodsTypeOK' /\ Orderly' /\ ConfirmersOK'
    <3>1. UNCHANGED methodVars /\ UNCHANGED confirmers
        BY <2>1 DEF CreateCheckout, SubscriptionEnds, ConfirmLockLapse
    <3>2. Orderly' BY <1>0, <2>1, StatusKeeps, LapseKeeps
    <3>3. ConfirmersOK' BY <1>0, <3>1 DEF ConfirmersOK
    <3> QED BY <2>n, <3>1, <3>2, <3>3
  <2>2. ASSUME NEW f \in Confirmers, NEW s \in Subs, NEW k \in ConfirmKeys, NEW c \in Cards,
               ConfirmRequest(f, s, k, c)
        PROVE  MethodsTypeOK' /\ Orderly' /\ ConfirmersOK'
    <3>1. UNCHANGED methodVars BY <2>2 DEF ConfirmRequest
    <3> QED BY <1>0, <2>n, <2>2, <3>1, RequestKeeps
  <2>3. ASSUME NEW f \in Confirmers, ConfirmStep(f)
        PROVE  MethodsTypeOK' /\ Orderly' /\ ConfirmersOK'
    <3>1. Orderly' /\ ConfirmersOK' BY <1>0, <2>3, ConfirmStepKeeps
    <3>2. confirmers[f].pc # "idle"
        BY <2>3 DEF ConfirmStep, ConfirmLock, ConfirmTurnedAway, ConfirmIssued, ConfirmNotIssued,
            ConfirmCharged, ConfirmNotCharged, ConfirmPaid, ConfirmFailed, ConfirmAborted, ConfirmCrash
    <3>3. confirmers[f].card \in Cards /\ confirmers[f].isDefault \in BOOLEAN
        BY <1>0, <3>2 DEF ConfirmersOK, Confirmer
    <3>4. /\ methods \in [Cards -> Method] /\ exchanged \subseteq Cards
          /\ Stored(confirmers[f].card, confirmers[f].isDefault) \in [Cards -> Method]
        BY <1>0, <3>3, StoredMethods DEF MethodsTypeOK
    <3>5. \/ UNCHANGED methodVars
          \/ /\ UNCHANGED <<auths, issueKeys, defaultKeys, issuers, managers>>
             /\ methods' \in {methods, Stored(confirmers[f].card, confirmers[f].isDefault)}
             /\ exchanged' \in {exchanged, exchanged \cup {confirmers[f].card}}
      <4>1. CASE ConfirmIssued(f) \/ ConfirmNotIssued(f)
        BY <4>1 DEF ConfirmIssued, ConfirmNotIssued
      <4>2. CASE ConfirmPaid(f) \/ ConfirmFailed(f)
        BY <4>2 DEF ConfirmPaid, ConfirmFailed, ConfirmStored
      <4>3. CASE ConfirmLock(f) \/ ConfirmTurnedAway(f) \/ ConfirmCharged(f)
                 \/ ConfirmNotCharged(f) \/ ConfirmAborted(f) \/ ConfirmCrash(f)
        BY <4>3 DEF ConfirmLock, ConfirmTurnedAway, ConfirmCharged, ConfirmNotCharged,
            ConfirmAborted, ConfirmCrash
      <4> QED BY <2>3, <4>1, <4>2, <4>3 DEF ConfirmStep
    <3> QED BY <2>m, <2>n, <3>1, <3>3, <3>4, <3>5
  <2>4. ASSUME NEW k \in ConfirmKeys, ConfirmKeyTtl(k)
        PROVE  MethodsTypeOK' /\ Orderly' /\ ConfirmersOK'
    <3>1. UNCHANGED methodVars /\ UNCHANGED confirmers BY <2>4 DEF ConfirmKeyTtl
    <3>2. ConfirmersOK' BY <1>0, <3>1 DEF ConfirmersOK
    <3> QED BY <1>0, <2>n, <2>4, <3>1, <3>2, TtlKeeps
  <2>5. CASE NextDay
    <3>1. UNCHANGED methodVars /\ UNCHANGED confirmers BY <2>5 DEF NextDay
    <3>2. ConfirmersOK' BY <1>0, <3>1 DEF ConfirmersOK
    <3>3. Orderly' BY <1>0, <2>5, DayKeeps
    <3> QED BY <2>n, <3>1, <3>2, <3>3
  <2> QED BY <1>3, <2>1, <2>2, <2>3, <2>4, <2>5 DEF CheckoutNext
<1> QED BY <1>1, <1>2, <1>3 DEF Next

\* The invariant is one of the specification.
LEMMA CheckoutInvariant == Spec => []CheckoutInv
<1>1. Init => CheckoutInv BY CheckoutInit, ConfirmAssumption
<1>2. CheckoutInv /\ [Next]_vars => CheckoutInv' BY CheckoutSteps, ConfirmAssumption
<1> QED BY <1>1, <1>2, PTL DEF Spec

(* Documents, keys, locks and processes keep their types, those of the     *)
(* billing methods included.                                               *)
THEOREM CheckoutTypes == Spec => []CheckoutTypeOK
<1>1. CheckoutInv => CheckoutTypeOK BY DEF CheckoutInv
<1> QED BY <1>1, CheckoutInvariant, PTL

(* A subscription that is or was active was paid for.                      *)
THEOREM SubscriptionsArePaid == Spec => []ActiveWasPaid
<1>1. CheckoutInv => ActiveWasPaid BY DEF CheckoutInv
<1> QED BY <1>1, CheckoutInvariant, PTL

(* A confirmation that succeeded is final, unless a lock lapsed under its  *)
(* owner.                                                                  *)
THEOREM ConfirmationsAreFinal == Spec => ConfirmedIsFinal
<1> DEFINE Final == \A s \in Subs \ overrun' :
                        subs[s] \in {"active", "ended"} =>
                            subs'[s] \in {"active", "ended"} /\ taken'[s] = taken[s]
<1>1. ASSUME CheckoutInv, Next PROVE Final
  <2> SUFFICES ASSUME NEW s \in Subs \ overrun', subs[s] \in {"active", "ended"}
               PROVE  subs'[s] \in {"active", "ended"} /\ taken'[s] = taken[s]
    OBVIOUS
  <2>t. CheckoutsOK /\ ConfirmersOK BY <1>1, CheckoutTypesSplit DEF CheckoutInv
  <2>1. CASE UNCHANGED checkoutVars BY <2>1 DEF checkoutVars
  <2>2. ASSUME NEW x \in Subs, CreateCheckout(x) \/ SubscriptionEnds(x) \/ ConfirmLockLapse(x)
        PROVE  subs'[s] \in {"active", "ended"} /\ taken'[s] = taken[s]
    BY <2>t, <2>2 DEF CreateCheckout, SubscriptionEnds, ConfirmLockLapse, CheckoutsOK
  <2>3. ASSUME NEW f \in Confirmers, NEW x \in Subs, NEW k \in ConfirmKeys, NEW c \in Cards,
               ConfirmRequest(f, x, k, c)
        PROVE  subs'[s] \in {"active", "ended"} /\ taken'[s] = taken[s]
    BY <2>3 DEF ConfirmRequest
  <2>4. ASSUME NEW f \in Confirmers, ConfirmStep(f)
        PROVE  subs'[s] \in {"active", "ended"} /\ taken'[s] = taken[s]
    <3>1. CASE ConfirmLock(f) \/ ConfirmTurnedAway(f) \/ ConfirmIssued(f) \/ ConfirmNotIssued(f)
               \/ ConfirmNotCharged(f) \/ ConfirmAborted(f) \/ ConfirmCrash(f)
      BY <3>1 DEF ConfirmLock, ConfirmTurnedAway, ConfirmIssued, ConfirmNotIssued,
          ConfirmNotCharged, ConfirmAborted, ConfirmCrash
    <3>2. Running(f) /\ UNCHANGED overrun => confirmers[f].sub # s
      BY <1>1 DEF CheckoutInv, LocksAreHeld
    <3>3. CASE ConfirmCharged(f)
      <4>1. confirmers[f].sub # s BY <3>2, <3>3 DEF ConfirmCharged, Running
      <4>2. taken' = [taken EXCEPT ![confirmers[f].sub] = @ \cup {confirmers[f].key}]
            /\ UNCHANGED subs
        BY <3>3 DEF ConfirmCharged
      <4> QED BY <2>t, <4>1, <4>2 DEF CheckoutsOK
    <3>4. CASE ConfirmPaid(f) \/ ConfirmFailed(f)
      <4>1. confirmers[f].sub # s BY <3>2, <3>4 DEF ConfirmPaid, ConfirmFailed, Running
      <4>2. /\ UNCHANGED taken
            /\ \E status \in SubStatus : subs' = [subs EXCEPT ![confirmers[f].sub] = status]
        BY <3>4 DEF ConfirmPaid, ConfirmFailed, ConfirmStored, SubStatus
      <4> QED BY <2>t, <4>1, <4>2 DEF CheckoutsOK
    <3> QED BY <2>4, <3>1, <3>3, <3>4 DEF ConfirmStep
  <2>5. ASSUME NEW k \in ConfirmKeys, ConfirmKeyTtl(k)
        PROVE  subs'[s] \in {"active", "ended"} /\ taken'[s] = taken[s]
    BY <2>5 DEF ConfirmKeyTtl
  <2>6. CASE NextDay BY <2>6 DEF NextDay
  <2> QED BY <1>1, <2>1, <2>2, <2>3, <2>4, <2>5, <2>6 DEF Next, CheckoutNext
<1>2. CheckoutInv /\ [Next]_vars => [Final]_vars BY <1>1
<1>3. Spec => [][Final]_vars BY <1>2, CheckoutInvariant, PTL DEF Spec
<1> QED BY <1>3 DEF ConfirmedIsFinal

-----------------------------------------------------------------------------
(* The default method of a user.                                           *)

\* No method is made the default while another request deletes it.  Nothing in
\* the code prevents it: the deletion looks at the default before its
\* transaction, and neither request takes a lock.
ChoicesApart ==
    \A p, q \in Managers : managers[p].pc = "set" /\ managers[q].pc = "delete" =>
        managers[p].card # managers[q].card

\* A single managing process keeps them apart.
LEMMA OneManager == (\A p, q \in Managers : p = q) => ChoicesApart
BY DEF ChoicesApart

\* Processes that exchanged an auth key and have its method still to store.
Saves(i) == issuers[i].pc = "save"
Stores(f) == confirmers[f].pc \in {"charge", "paid", "failed"}

\* Such a method is not stored yet; it will be the default, or another is there.
Fresh(c, b) ==
    /\ c \in exchanged
    /\ methods[c].status = "none"
    /\ b \/ ActiveMethods # {}

\* A card is exchanged once, so its method has one process to store it.
CardsAreHeld ==
    /\ \A c \in Cards : methods[c].status # "none" => c \in exchanged
    /\ \A i \in Issuers : Saves(i) => Fresh(issuers[i].card, issuers[i].isDefault)
    /\ \A f \in Confirmers : Stores(f) => Fresh(confirmers[f].card, confirmers[f].isDefault)
    /\ \A i, j \in Issuers :
          Saves(i) /\ Saves(j) /\ issuers[i].card = issuers[j].card => i = j
    /\ \A f, g \in Confirmers :
          Stores(f) /\ Stores(g) /\ confirmers[f].card = confirmers[g].card => f = g
    /\ \A i \in Issuers, f \in Confirmers :
          Saves(i) /\ Stores(f) => issuers[i].card # confirmers[f].card

\* What is about to be deleted is still not the default.
DeletedIsNoDefault ==
    \A p \in Managers : managers[p].pc = "delete" =>
        methods[managers[p].card].status # "none" /\ managers[p].card \notin DefaultMethods

MethodsInv == DefaultIsThere /\ CardsAreHeld /\ DeletedIsNoDefault

\* A stored method becomes the only default, or leaves the default alone.
LEMMA StoredDefaults ==
    ASSUME methods \in [Cards -> Method], DefaultIsThere, NEW c \in Cards, NEW b \in BOOLEAN,
           methods' = Stored(c, b),
           b \/ (ActiveMethods # {} /\ c \notin DefaultMethods)
    PROVE  /\ DefaultIsThere'
           /\ ActiveMethods' = ActiveMethods \cup {c}
           /\ DefaultMethods' \subseteq DefaultMethods \cup {c}
           /\ \A x \in Cards : x # c => methods'[x].status = methods[x].status
           /\ methods'[c].status = "active"
<1>1. methods'[c] = [status |-> "active", isDefault |-> b]
  BY DEF Stored
<1>2. ASSUME NEW x \in Cards, x # c
      PROVE  methods'[x] = [methods[x] EXCEPT !.isDefault = methods[x].isDefault /\ ~b]
  BY <1>2 DEF Stored
<1>3. ASSUME NEW x \in Cards, x # c
      PROVE  /\ methods'[x].status = methods[x].status
             /\ methods'[x].isDefault = (methods[x].isDefault /\ ~b)
  <2>1. methods[x] \in Method
    BY <1>3
  <2> QED
    BY <1>2, <1>3, <2>1 DEF Method
<1>4. ActiveMethods' = ActiveMethods \cup {c}
  BY <1>1, <1>3 DEF ActiveMethods
<1>5. CASE b
  <2>1. \A x \in Cards : x # c => ~methods'[x].isDefault
    BY <1>3, <1>5
  <2>2. methods'[c].isDefault
    BY <1>1, <1>5
  <2>3. DefaultMethods' = {c}
    BY <1>4, <2>1, <2>2 DEF DefaultMethods, ActiveMethods
  <2> QED
    BY <1>1, <1>3, <1>4, <2>3 DEF DefaultIsThere
<1>6. CASE ~b
  <2>1. \A x \in Cards : x # c => methods'[x].isDefault = methods[x].isDefault
    <3> SUFFICES ASSUME NEW x \in Cards, x # c
                 PROVE  methods'[x].isDefault = methods[x].isDefault
      OBVIOUS
    <3>1. methods[x].isDefault \in BOOLEAN
      BY DEF Method
    <3> QED
      BY <1>3, <1>6, <3>1
  <2>2. ~methods'[c].isDefault
    BY <1>1, <1>6
  <2>3. DefaultMethods' = DefaultMethods
    BY <1>4, <1>6, <2>1, <2>2 DEF DefaultMethods, ActiveMethods
  <2>4. PICK d \in ActiveMethods : DefaultMethods = {d}
    BY <1>6 DEF DefaultIsThere
  <2>5. DefaultIsThere'
    BY <1>4, <2>3, <2>4 DEF DefaultIsThere
  <2> QED
    BY <1>1, <1>3, <1>4, <2>3, <2>5
<1> QED
  BY <1>5, <1>6

\* Nothing is stored, and nobody begins to store or to delete.
Calm ==
    /\ UNCHANGED methods
    /\ exchanged \subseteq exchanged'
    /\ \A i \in Issuers : Saves(i)' =>
          /\ Saves(i)
          /\ issuers'[i].card = issuers[i].card /\ issuers'[i].isDefault = issuers[i].isDefault
    /\ \A f \in Confirmers : Stores(f)' =>
          /\ Stores(f)
          /\ confirmers'[f].card = confirmers[f].card
          /\ confirmers'[f].isDefault = confirmers[f].isDefault
    /\ \A p \in Managers : managers'[p].pc = "delete" =>
          managers[p].pc = "delete" /\ managers'[p].card = managers[p].card

\* Card c is stored as a method, and its process is done.
StoresCard(c, b) ==
    /\ methods' = Stored(c, b)
    /\ exchanged' = exchanged
    /\ \A i \in Issuers : Saves(i)' => Saves(i) /\ issuers'[i] = issuers[i] /\ issuers[i].card # c
    /\ \A f \in Confirmers : Stores(f)' =>
          Stores(f) /\ confirmers'[f] = confirmers[f] /\ confirmers[f].card # c
    /\ UNCHANGED managers

\* A calm step keeps the default.
LEMMA CalmKeeps ==
    ASSUME MethodsInv, Calm
    PROVE  MethodsInv'
<1>1. ActiveMethods' = ActiveMethods /\ DefaultMethods' = DefaultMethods /\ methods' = methods
  BY DEF Calm, ActiveMethods, DefaultMethods
<1>2. DefaultIsThere'
  BY <1>1 DEF MethodsInv, DefaultIsThere
<1>3. CardsAreHeld'
  <2>1. \A c \in Cards : methods'[c].status # "none" => c \in exchanged'
    BY <1>1 DEF MethodsInv, CardsAreHeld, Calm
  <2>2. \A i \in Issuers : Saves(i)' =>
           /\ issuers'[i].card \in exchanged'
           /\ methods'[issuers'[i].card].status = "none"
           /\ issuers'[i].isDefault \/ ActiveMethods' # {}
    BY <1>1 DEF MethodsInv, CardsAreHeld, Calm, Fresh
  <2>3. \A f \in Confirmers : Stores(f)' =>
           /\ confirmers'[f].card \in exchanged'
           /\ methods'[confirmers'[f].card].status = "none"
           /\ confirmers'[f].isDefault \/ ActiveMethods' # {}
    BY <1>1 DEF MethodsInv, CardsAreHeld, Calm, Fresh
  <2>4. \A i, j \in Issuers :
           Saves(i)' /\ Saves(j)' /\ issuers'[i].card = issuers'[j].card => i = j
    BY DEF MethodsInv, CardsAreHeld, Calm
  <2>5. \A f, g \in Confirmers :
           Stores(f)' /\ Stores(g)' /\ confirmers'[f].card = confirmers'[g].card => f = g
    BY DEF MethodsInv, CardsAreHeld, Calm
  <2>6. \A i \in Issuers, f \in Confirmers :
           Saves(i)' /\ Stores(f)' => issuers'[i].card # confirmers'[f].card
    BY DEF MethodsInv, CardsAreHeld, Calm
  <2> QED
    BY <2>1, <2>2, <2>3, <2>4, <2>5, <2>6 DEF CardsAreHeld, Fresh
<1>4. DeletedIsNoDefault'
  BY <1>1 DEF MethodsInv, DeletedIsNoDefault, Calm
<1> QED
  BY <1>2, <1>3, <1>4 DEF MethodsInv

\* Nor does a stored method take it away: no deletion is about this method.
LEMMA StoreKeeps ==
    ASSUME MethodsTypeOK, MethodsInv, NEW c \in Cards, NEW b \in BOOLEAN,
           StoresCard(c, b), Fresh(c, b)
    PROVE  MethodsInv'
<1>1. methods \in [Cards -> Method]
  BY DEF MethodsTypeOK
<1>2. c \notin ActiveMethods /\ c \notin DefaultMethods
  BY DEF Fresh, DefaultMethods, ActiveMethods
<1>3. /\ DefaultIsThere'
      /\ ActiveMethods' = ActiveMethods \cup {c}
      /\ DefaultMethods' \subseteq DefaultMethods \cup {c}
      /\ \A x \in Cards : x # c => methods'[x].status = methods[x].status
      /\ methods'[c].status = "active"
  BY <1>1, <1>2, StoredDefaults DEF MethodsInv, StoresCard, Fresh
<1>4. /\ \A i \in Issuers : Saves(i) => issuers[i].card \in Cards
      /\ \A p \in Managers : managers[p].pc = "delete" => managers[p].card \in Cards
  BY DEF MethodsTypeOK, Saves
<1>5. \A f \in Confirmers : Stores(f) =>
         confirmers[f].card \in exchanged /\ methods[confirmers[f].card].status = "none"
  BY DEF MethodsInv, CardsAreHeld, Fresh
<1>6. exchanged \subseteq Cards
  BY DEF MethodsTypeOK
<1>7. CardsAreHeld'
  <2>1. \A x \in Cards : methods'[x].status # "none" => x \in exchanged'
    BY <1>3 DEF MethodsInv, CardsAreHeld, StoresCard, Fresh
  <2>2. \A i \in Issuers : Saves(i)' =>
           /\ issuers'[i].card \in exchanged'
           /\ methods'[issuers'[i].card].status = "none"
           /\ issuers'[i].isDefault \/ ActiveMethods' # {}
    BY <1>3, <1>4 DEF MethodsInv, CardsAreHeld, StoresCard, Fresh
  <2>3. \A f \in Confirmers : Stores(f)' =>
           /\ confirmers'[f].card \in exchanged'
           /\ methods'[confirmers'[f].card].status = "none"
           /\ confirmers'[f].isDefault \/ ActiveMethods' # {}
    BY <1>3, <1>5, <1>6 DEF MethodsInv, CardsAreHeld, StoresCard, Fresh
  <2>4. \A i, j \in Issuers :
           Saves(i)' /\ Saves(j)' /\ issuers'[i].card = issuers'[j].card => i = j
    BY DEF MethodsInv, CardsAreHeld, StoresCard
  <2>5. \A f, g \in Confirmers :
           Stores(f)' /\ Stores(g)' /\ confirmers'[f].card = confirmers'[g].card => f = g
    BY DEF MethodsInv, CardsAreHeld, StoresCard
  <2>6. \A i \in Issuers, f \in Confirmers :
           Saves(i)' /\ Stores(f)' => issuers'[i].card # confirmers'[f].card
    BY DEF MethodsInv, CardsAreHeld, StoresCard
  <2> QED
    BY <2>1, <2>2, <2>3, <2>4, <2>5, <2>6 DEF CardsAreHeld, Fresh
<1>8. DeletedIsNoDefault'
  <2>1. ASSUME NEW p \in Managers, managers[p].pc = "delete"
        PROVE  /\ methods'[managers[p].card].status # "none"
               /\ managers[p].card \notin DefaultMethods'
    <3>1. /\ managers[p].card \in Cards
          /\ methods[managers[p].card].status # "none"
          /\ managers[p].card \notin DefaultMethods
      BY <1>4, <2>1 DEF MethodsInv, DeletedIsNoDefault
    <3>2. managers[p].card # c
      BY <3>1 DEF Fresh
    <3> QED
      BY <1>3, <3>1, <3>2
  <2> QED
    BY <2>1 DEF DeletedIsNoDefault, StoresCard
<1> QED
  BY <1>3, <1>7, <1>8 DEF MethodsInv

\* An issuing process that exchanged its auth key holds a new card.
LEMMA IssuerTakes ==
    ASSUME MethodsTypeOK, MethodsInv, NEW i \in Issuers, IssueExchanged(i), UNCHANGED confirmers
    PROVE  MethodsInv'
<1> DEFINE c == issuers[i].card
           d == issuers[i].isDefault \/ ActiveMethods = {}
           r == [issuers[i] EXCEPT !.pc = "save", !.isDefault = d]
<1>1. IssuersOK /\ c \in Cards /\ Issuer(issuers[i])
  BY TypesSplit DEF IssuersOK, Issuer, IssueExchanged, IssueAsked
<1>2. /\ c \notin exchanged /\ exchanged' = exchanged \cup {c}
      /\ UNCHANGED <<methods, managers, confirmers>>
  BY DEF IssueExchanged
<1>3. issuers' = [issuers EXCEPT ![i] = r]
  BY <1>1 DEF IssueExchanged, IssuersOK, Issuer
<1>4. r.pc = "save" /\ r.card = c /\ r.isDefault = d
  <2>1. issuers[i] \in [pc : {"idle", "expire", "ask", "save", "failed"},
                        auth : Auths \cup {NoAuth}, key : IssueKeys \cup {NoKey},
                        card : Cards \cup {NoCard}, isDefault : BOOLEAN]
    BY <1>1 DEF Issuer
  <2> HIDE DEF d
  <2> QED
    BY <2>1
<1>5. d \/ ActiveMethods # {}
  OBVIOUS
<1> HIDE DEF r
<1>6. /\ issuers'[i].pc = "save" /\ issuers'[i].card = c /\ issuers'[i].isDefault = d
      /\ \A j \in Issuers : j # i => issuers'[j] = issuers[j]
  BY <1>1, <1>3, <1>4 DEF IssuersOK
<1> HIDE DEF c, d
<1>7. /\ ActiveMethods' = ActiveMethods /\ DefaultMethods' = DefaultMethods
      /\ methods[c].status = "none"
  BY <1>1, <1>2 DEF MethodsInv, CardsAreHeld, ActiveMethods, DefaultMethods
<1>8. CardsAreHeld'
  <2>1. \A x \in Cards : methods'[x].status # "none" => x \in exchanged'
    BY <1>2 DEF MethodsInv, CardsAreHeld
  <2>2. \A j \in Issuers : Saves(j)' =>
           /\ issuers'[j].card \in exchanged'
           /\ methods'[issuers'[j].card].status = "none"
           /\ issuers'[j].isDefault \/ ActiveMethods' # {}
    BY <1>2, <1>5, <1>6, <1>7 DEF MethodsInv, CardsAreHeld, Fresh, Saves
  <2>3. \A f \in Confirmers : Stores(f)' =>
           /\ confirmers'[f].card \in exchanged'
           /\ methods'[confirmers'[f].card].status = "none"
           /\ confirmers'[f].isDefault \/ ActiveMethods' # {}
    BY <1>2, <1>7 DEF MethodsInv, CardsAreHeld, Fresh, Stores
  <2>4. \A j, k \in Issuers :
           Saves(j)' /\ Saves(k)' /\ issuers'[j].card = issuers'[k].card => j = k
    BY <1>2, <1>6 DEF MethodsInv, CardsAreHeld, Fresh, Saves
  <2>5. \A f, g \in Confirmers :
           Stores(f)' /\ Stores(g)' /\ confirmers'[f].card = confirmers'[g].card => f = g
    BY <1>2 DEF MethodsInv, CardsAreHeld, Stores
  <2>6. \A j \in Issuers, f \in Confirmers :
           Saves(j)' /\ Stores(f)' => issuers'[j].card # confirmers'[f].card
    BY <1>2, <1>6 DEF MethodsInv, CardsAreHeld, Fresh, Saves, Stores
  <2> QED
    BY <2>1, <2>2, <2>3, <2>4, <2>5, <2>6 DEF CardsAreHeld, Fresh
<1> QED
  BY <1>2, <1>7, <1>8 DEF MethodsInv, DefaultIsThere, DeletedIsNoDefault

\* So does a confirming process.
LEMMA ConfirmerTakes ==
    ASSUME MethodsTypeOK, ConfirmersOK, MethodsInv, NEW f \in Confirmers, ConfirmIssued(f)
    PROVE  MethodsInv'
<1> DEFINE c == confirmers[f].card
           d == (ActiveMethods = {})
           r == [confirmers[f] EXCEPT !.pc = "charge", !.isDefault = d]
<1>1. c \in Cards /\ Confirmer(confirmers[f])
  BY DEF ConfirmersOK, Confirmer, ConfirmIssued
<1>2. /\ c \notin exchanged /\ exchanged' = exchanged \cup {c}
      /\ UNCHANGED <<methods, managers, issuers>>
  BY DEF ConfirmIssued
<1>3. confirmers' = [confirmers EXCEPT ![f] = r]
  BY <1>1 DEF ConfirmIssued, ConfirmersOK, Confirmer
<1>4. r.pc = "charge" /\ r.card = c /\ r.isDefault = d
  <2>1. confirmers[f] \in [pc : {"idle", "lock", "issue", "charge", "paid", "failed"},
                           sub : Subs \cup {NoSub}, key : ConfirmKeys \cup {NoKey},
                           card : Cards \cup {NoCard}, day : Days,
                           isDefault : BOOLEAN, open : BOOLEAN]
    BY <1>1 DEF Confirmer
  <2> HIDE DEF d
  <2> QED
    BY <2>1
<1>5. d \/ ActiveMethods # {}
  OBVIOUS
<1> HIDE DEF r
<1>6. /\ confirmers'[f].pc = "charge" /\ confirmers'[f].card = c
      /\ confirmers'[f].isDefault = d
      /\ \A g \in Confirmers : g # f => confirmers'[g] = confirmers[g]
  BY <1>1, <1>3, <1>4 DEF ConfirmersOK
<1> HIDE DEF c, d
<1>7. /\ ActiveMethods' = ActiveMethods /\ DefaultMethods' = DefaultMethods
      /\ methods[c].status = "none"
  BY <1>1, <1>2 DEF MethodsInv, CardsAreHeld, ActiveMethods, DefaultMethods
<1>8. CardsAreHeld'
  <2>1. \A x \in Cards : methods'[x].status # "none" => x \in exchanged'
    BY <1>2 DEF MethodsInv, CardsAreHeld
  <2>2. \A i \in Issuers : Saves(i)' =>
           /\ issuers'[i].card \in exchanged'
           /\ methods'[issuers'[i].card].status = "none"
           /\ issuers'[i].isDefault \/ ActiveMethods' # {}
    BY <1>2, <1>7 DEF MethodsInv, CardsAreHeld, Fresh, Saves
  <2>3. \A g \in Confirmers : Stores(g)' =>
           /\ confirmers'[g].card \in exchanged'
           /\ methods'[confirmers'[g].card].status = "none"
           /\ confirmers'[g].isDefault \/ ActiveMethods' # {}
    BY <1>2, <1>5, <1>6, <1>7 DEF MethodsInv, CardsAreHeld, Fresh, Stores
  <2>4. \A i, j \in Issuers :
           Saves(i)' /\ Saves(j)' /\ issuers'[i].card = issuers'[j].card => i = j
    BY <1>2 DEF MethodsInv, CardsAreHeld, Saves
  <2>5. \A g, h \in Confirmers :
           Stores(g)' /\ Stores(h)' /\ confirmers'[g].card = confirmers'[h].card => g = h
    BY <1>2, <1>6 DEF MethodsInv, CardsAreHeld, Fresh, Stores
  <2>6. \A i \in Issuers, g \in Confirmers :
           Saves(i)' /\ Stores(g)' => issuers'[i].card # confirmers'[g].card
    BY <1>2, <1>6 DEF MethodsInv, CardsAreHeld, Fresh, Saves, Stores
  <2> QED
    BY <2>1, <2>2, <2>3, <2>4, <2>5, <2>6 DEF CardsAreHeld, Fresh
<1> QED
  BY <1>2, <1>7, <1>8 DEF MethodsInv, DefaultIsThere, DeletedIsNoDefault

\* A new default replaces the old one, as long as nobody deletes it.
LEMMA SetKeeps ==
    ASSUME MethodsTypeOK, MethodsInv, ChoicesApart, NEW p \in Managers, SetDefault(p),
           managers[p].card \in ActiveMethods, UNCHANGED confirmers
    PROVE  MethodsInv'
<1> DEFINE c == managers[p].card
<1>1. /\ methods \in [Cards -> Method] /\ c \in Cards /\ c \in ActiveMethods
      /\ managers \in [Managers -> [pc : {"idle", "set", "answer", "delete"},
                                    card : Cards \cup {NoCard}, key : DefaultKeys \cup {NoKey}]]
  BY DEF MethodsTypeOK, ActiveMethods
<1>2. /\ methods' = Stored(c, TRUE) /\ managers[p].pc = "set"
      /\ managers' = [managers EXCEPT ![p].pc = "answer"]
      /\ UNCHANGED <<issuers, exchanged>>
  BY DEF SetDefault
<1>3. /\ DefaultIsThere'
      /\ ActiveMethods' = ActiveMethods \cup {c}
      /\ DefaultMethods' \subseteq DefaultMethods \cup {c}
      /\ \A x \in Cards : x # c => methods'[x].status = methods[x].status
      /\ methods'[c].status = "active"
  BY <1>1, <1>2, StoredDefaults DEF MethodsInv
<1>4. methods[c].status = "active"
  BY <1>1 DEF ActiveMethods
<1> HIDE DEF c
<1>5. exchanged \subseteq Cards
  BY DEF MethodsTypeOK
<1>6. CardsAreHeld'
  <2>1. \A x \in Cards : methods'[x].status # "none" => x \in exchanged'
    BY <1>2, <1>3, <1>4 DEF MethodsInv, CardsAreHeld
  <2>2. \A i \in Issuers : Saves(i)' =>
           /\ issuers'[i].card \in exchanged'
           /\ methods'[issuers'[i].card].status = "none"
           /\ issuers'[i].isDefault \/ ActiveMethods' # {}
    BY <1>2, <1>3, <1>4, <1>5 DEF MethodsInv, CardsAreHeld, Fresh, Saves
  <2>3. \A f \in Confirmers : Stores(f)' =>
           /\ confirmers'[f].card \in exchanged'
           /\ methods'[confirmers'[f].card].status = "none"
           /\ confirmers'[f].isDefault \/ ActiveMethods' # {}
    BY <1>2, <1>3, <1>4, <1>5 DEF MethodsInv, CardsAreHeld, Fresh, Stores
  <2> QED
    BY <1>2, <2>1, <2>2, <2>3 DEF MethodsInv, CardsAreHeld, Fresh, Saves, Stores
<1>7. DeletedIsNoDefault'
  <2>1. ASSUME NEW q \in Managers, managers'[q].pc = "delete"
        PROVE  /\ methods'[managers'[q].card].status # "none"
               /\ managers'[q].card \notin DefaultMethods'
    <3>1. q # p
      BY <1>1, <1>2, <2>1
    <3>2. managers'[q] = managers[q] /\ managers[q].pc = "delete"
      BY <1>2, <2>1, <3>1
    <3>3. managers[q].card # c
      BY <1>2, <3>2 DEF ChoicesApart, c
    <3>4. /\ methods[managers[q].card].status # "none"
          /\ managers[q].card \notin DefaultMethods
      BY <3>2 DEF MethodsInv, DeletedIsNoDefault
    <3>5. managers[q].card \in Cards
      BY <3>2 DEF MethodsTypeOK
    <3> QED
      BY <1>3, <3>2, <3>3, <3>4, <3>5
  <2> QED
    BY <2>1 DEF DeletedIsNoDefault
<1> QED
  BY <1>3, <1>6, <1>7 DEF MethodsInv

\* A deletion begins with a method that is not the default,
LEMMA DeleteReadKeeps ==
    ASSUME MethodsTypeOK, MethodsInv, NEW p \in Managers, NEW c \in Cards, DeleteRead(p, c),
           UNCHANGED confirmers
    PROVE  MethodsInv'
<1>1. /\ managers' = [managers EXCEPT ![p] = [pc |-> "delete", card |-> c, key |-> NoKey]]
      /\ UNCHANGED <<methods, issuers, exchanged>>
      /\ c \in ActiveMethods /\ ~methods[c].isDefault
  BY DEF DeleteRead, Deletable
<1>2. managers'[p].card = c /\ \A q \in Managers : q # p => managers'[q] = managers[q]
  BY <1>1 DEF MethodsTypeOK
<1>3. methods[c].status # "none" /\ c \notin DefaultMethods
  BY <1>1 DEF ActiveMethods, DefaultMethods
<1>4. ActiveMethods' = ActiveMethods /\ DefaultMethods' = DefaultMethods
  BY <1>1 DEF ActiveMethods, DefaultMethods
<1>5. DeletedIsNoDefault'
  BY <1>1, <1>2, <1>3, <1>4 DEF MethodsInv, DeletedIsNoDefault
<1>6. CardsAreHeld'
  BY <1>1, <1>4 DEF MethodsInv, CardsAreHeld, Fresh, Saves, Stores
<1>7. DefaultIsThere'
  BY <1>4 DEF MethodsInv, DefaultIsThere
<1> QED
  BY <1>5, <1>6, <1>7 DEF MethodsInv

\* and ends with one that is not: the default stays.
LEMMA DeleteKeeps ==
    ASSUME MethodsTypeOK, MethodsInv, NEW p \in Managers, Delete(p),
           managers[p].card \in ActiveMethods, UNCHANGED confirmers
    PROVE  MethodsInv' /\ ActiveMethods' # {}
<1> DEFINE c == managers[p].card
<1>1. /\ methods' = [methods EXCEPT ![c] = [status |-> "inactive", isDefault |-> FALSE]]
      /\ managers[p].pc = "delete" /\ managers' = [managers EXCEPT ![p] = ManagerIdle]
      /\ UNCHANGED <<issuers, exchanged>>
  BY DEF Delete, Deactivated
<1>2. c \in Cards /\ methods \in [Cards -> Method] /\ methods[c].status = "active"
  BY DEF ActiveMethods, MethodsTypeOK
<1>3. c \notin DefaultMethods
  BY <1>1 DEF MethodsInv, DeletedIsNoDefault
<1> HIDE DEF c
<1>4. /\ methods'[c].status = "inactive"
      /\ \A x \in Cards : x # c => methods'[x] = methods[x]
  BY <1>1, <1>2
<1>5. ActiveMethods' = ActiveMethods \ {c} /\ DefaultMethods' = DefaultMethods
  <2>1. ActiveMethods' = ActiveMethods \ {c}
    BY <1>4 DEF ActiveMethods
  <2> QED
    BY <1>3, <1>4, <2>1 DEF DefaultMethods, ActiveMethods
<1>6. PICK d \in ActiveMethods : DefaultMethods = {d}
  BY DEF MethodsInv, DefaultIsThere
<1>7. d \in ActiveMethods' /\ d # c
  BY <1>3, <1>5, <1>6
<1>8. DefaultIsThere'
  BY <1>5, <1>6, <1>7 DEF DefaultIsThere
<1>9. exchanged \subseteq Cards
  BY DEF MethodsTypeOK
<1>10. CardsAreHeld'
  <2>1. \A x \in Cards : methods'[x].status # "none" => x \in exchanged'
    BY <1>1, <1>2, <1>4 DEF MethodsInv, CardsAreHeld
  <2>2. \A i \in Issuers : Saves(i)' =>
           /\ issuers'[i].card \in exchanged'
           /\ methods'[issuers'[i].card].status = "none"
           /\ issuers'[i].isDefault \/ ActiveMethods' # {}
    BY <1>1, <1>2, <1>4, <1>7, <1>9 DEF MethodsInv, CardsAreHeld, Fresh, Saves
  <2>3. \A f \in Confirmers : Stores(f)' =>
           /\ confirmers'[f].card \in exchanged'
           /\ methods'[confirmers'[f].card].status = "none"
           /\ confirmers'[f].isDefault \/ ActiveMethods' # {}
    BY <1>1, <1>2, <1>4, <1>7, <1>9 DEF MethodsInv, CardsAreHeld, Fresh, Stores
  <2> QED
    BY <1>1, <2>1, <2>2, <2>3 DEF MethodsInv, CardsAreHeld, Fresh, Saves, Stores
<1>11. DeletedIsNoDefault'
  <2>1. ASSUME NEW q \in Managers, managers'[q].pc = "delete"
        PROVE  /\ methods'[managers'[q].card].status # "none"
               /\ managers'[q].card \notin DefaultMethods'
    <3>1. managers'[q] = managers[q]
      BY <1>1, <2>1 DEF ManagerIdle, MethodsTypeOK
    <3>2. /\ managers[q].card \in Cards /\ methods[managers[q].card].status # "none"
          /\ managers[q].card \notin DefaultMethods
      BY <2>1, <3>1 DEF MethodsInv, DeletedIsNoDefault, MethodsTypeOK
    <3> QED
      BY <1>4, <1>5, <3>1, <3>2
  <2> QED
    BY <2>1 DEF DeletedIsNoDefault
<1> QED
  BY <1>7, <1>8, <1>10, <1>11 DEF MethodsInv

\* What a step can do to the methods of a user.
MethodsEffect ==
    \/ Calm
    \/ \E i \in Issuers : IssueExchanged(i) /\ UNCHANGED confirmers
    \/ \E f \in Confirmers : ConfirmIssued(f)
    \/ \E c \in Cards, b \in BOOLEAN : StoresCard(c, b) /\ Fresh(c, b)
    \/ \E p \in Managers : SetDefault(p) /\ managers[p].card \in ActiveMethods
                           /\ UNCHANGED confirmers
    \/ \E p \in Managers, c \in Cards : DeleteRead(p, c) /\ UNCHANGED confirmers
    \/ \E p \in Managers : Delete(p) /\ managers[p].card \in ActiveMethods
                           /\ UNCHANGED confirmers

\* A step of an issuing process.
LEMMA IssuerEffect ==
    ASSUME MethodsTypeOK, CardsAreHeld, NEW i \in Issuers,
           IssuerStep(i) \/ \E a \in Auths, k \in IssueKeys, c \in Cards : IssueRead(i, a, k, c),
           UNCHANGED confirmers
    PROVE  MethodsEffect
<1>0. IssuersOK
  BY TypesSplit
<1>1. ASSUME NEW r, issuers' = [issuers EXCEPT ![i] = r], r.pc # "save",
             UNCHANGED <<methods, managers>>, exchanged \subseteq exchanged'
      PROVE  Calm
  <2>1. issuers'[i] = r /\ \A j \in Issuers : j # i => issuers'[j] = issuers[j]
    BY <1>0, <1>1 DEF IssuersOK
  <2> QED
    BY <1>1, <2>1 DEF Calm, Saves, Stores
<1>2. ASSUME NEW a \in Auths, NEW k \in IssueKeys, NEW c \in Cards, IssueRead(i, a, k, c)
      PROVE  Calm
  <2> DEFINE r == [pc |-> IF auths[a].status = "late" THEN "expire" ELSE "ask",
                   auth |-> a, key |-> k, card |-> c, isDefault |-> auths[a].asDefault]
  <2>1. issuers' = [issuers EXCEPT ![i] = r] /\ UNCHANGED <<methods, managers, exchanged>>
    BY <1>2 DEF IssueRead
  <2>2. r.pc # "save"
    OBVIOUS
  <2> HIDE DEF r
  <2> QED
    BY <1>1, <2>1, <2>2
<1>3. IssuerIdle.pc # "save"
  BY DEF IssuerIdle
<1>4. CASE IssueExpire(i) \/ IssueTurnedAway(i) \/ IssueFailed(i) \/ IssueCrash(i)
  <2>1. issuers' = [issuers EXCEPT ![i] = IssuerIdle] /\ UNCHANGED <<methods, managers, exchanged>>
    BY <1>4 DEF IssueExpire, IssueTurnedAway, IssueFailed, IssueDone, IssueCrash
  <2> HIDE DEF IssuerIdle
  <2> QED
    BY <1>1, <1>3, <2>1 DEF MethodsEffect
<1>5. CASE IssueRefused(i)
  <2> DEFINE r == [issuers[i] EXCEPT !.pc = "failed"]
  <2>1. issuers' = [issuers EXCEPT ![i] = r] /\ UNCHANGED <<methods, managers>>
        /\ exchanged \subseteq exchanged'
    BY <1>5 DEF IssueRefused
  <2>2. r.pc # "save"
    BY <1>0 DEF IssuersOK, Issuer
  <2> HIDE DEF r
  <2> QED
    BY <1>1, <2>1, <2>2 DEF MethodsEffect
<1>6. CASE IssueSave(i)
  <2> DEFINE c == issuers[i].card
             b == issuers[i].isDefault
  <2>1. Saves(i) /\ c \in Cards /\ b \in BOOLEAN /\ Fresh(c, b)
    BY <1>6 DEF IssueSave, Saves, MethodsTypeOK, CardsAreHeld
  <2>2. /\ methods' = Stored(c, b) /\ UNCHANGED <<exchanged, managers>>
        /\ issuers' = [issuers EXCEPT ![i] = IssuerIdle]
    BY <1>6 DEF IssueSave, IssueDone
  <2>3. /\ ~Saves(i)'
        /\ \A j \in Issuers : j # i => issuers'[j] = issuers[j]
    BY <1>0, <1>3, <2>2 DEF IssuersOK, Saves
  <2>4. \A j \in Issuers : Saves(j)' =>
           Saves(j) /\ issuers'[j] = issuers[j] /\ issuers[j].card # c
    BY <2>1, <2>3 DEF CardsAreHeld, Saves
  <2>5. \A f \in Confirmers : Stores(f)' =>
           Stores(f) /\ confirmers'[f] = confirmers[f] /\ confirmers[f].card # c
    BY <2>1 DEF CardsAreHeld, Stores
  <2>6. StoresCard(c, b)
    BY <2>2, <2>4, <2>5 DEF StoresCard
  <2>7. PICK x \in Cards, y \in BOOLEAN : x = c /\ y = b
    BY <2>1
  <2>8. StoresCard(x, y) /\ Fresh(x, y)
    BY <2>1, <2>2, <2>4, <2>5, <2>7 DEF StoresCard
  <2> QED
    BY <2>8 DEF MethodsEffect
<1>7. CASE IssueExchanged(i)
  BY <1>7 DEF MethodsEffect
<1> QED
  BY <1>2, <1>4, <1>5, <1>6, <1>7 DEF IssuerStep, MethodsEffect

\* A step of a managing process.
LEMMA ManagerEffect ==
    ASSUME MethodsTypeOK, NEW p \in Managers,
           \/ ManagerStep(p)
           \/ \E c \in Cards : DeleteRead(p, c) \/ \E k \in DefaultKeys : SetStart(p, c, k),
           UNCHANGED confirmers
    PROVE  MethodsEffect
<1>0. ManagersOK
  BY TypesSplit
<1>1. ASSUME NEW r, managers' = [managers EXCEPT ![p] = r], r.pc # "delete",
             UNCHANGED <<methods, issuers, exchanged>>
      PROVE  Calm
  <2>1. managers'[p] = r /\ \A q \in Managers : q # p => managers'[q] = managers[q]
    BY <1>0, <1>1 DEF ManagersOK
  <2> QED
    BY <1>1, <2>1 DEF Calm, Saves, Stores
<1>2. ManagerIdle.pc # "delete"
  BY DEF ManagerIdle
<1>3. ASSUME managers' = [managers EXCEPT ![p] = ManagerIdle],
             UNCHANGED <<methods, issuers, exchanged>>
      PROVE  Calm
  <2> HIDE DEF ManagerIdle
  <2> QED
    BY <1>1, <1>2, <1>3
<1>4. ASSUME NEW c \in Cards, NEW k \in DefaultKeys, SetStart(p, c, k)
      PROVE  Calm
  <2> DEFINE r == [pc |-> IF methods[c].isDefault THEN "answer" ELSE "set",
                   card |-> c, key |-> k]
  <2>1. managers' = [managers EXCEPT ![p] = r] /\ UNCHANGED <<methods, issuers, exchanged>>
    BY <1>4 DEF SetStart
  <2>2. r.pc # "delete"
    OBVIOUS
  <2> HIDE DEF r
  <2> QED
    BY <1>1, <2>1, <2>2
<1>5. CASE SetAnswer(p) \/ ManagerCrash(p)
  BY <1>3, <1>5 DEF SetAnswer, ManagerCrash, MethodsEffect
<1>6. CASE SetDefault(p)
  <2>1. CASE managers[p].card \in ActiveMethods
    BY <1>6, <2>1 DEF MethodsEffect
  <2>2. CASE managers[p].card \notin ActiveMethods
    BY <1>3, <1>6, <2>2 DEF SetDefault, MethodsEffect
  <2> QED
    BY <2>1, <2>2
<1>7. CASE Delete(p)
  <2>1. CASE managers[p].card \in ActiveMethods
    BY <1>7, <2>1 DEF MethodsEffect
  <2>2. CASE managers[p].card \notin ActiveMethods
    BY <1>3, <1>7, <2>2 DEF Delete, MethodsEffect
  <2> QED
    BY <2>1, <2>2
<1>8. ASSUME NEW c \in Cards, DeleteRead(p, c) PROVE MethodsEffect
  BY <1>8 DEF MethodsEffect
<1> QED
  BY <1>4, <1>5, <1>6, <1>7, <1>8 DEF ManagerStep, MethodsEffect

\* A step of a confirming process.
LEMMA ConfirmerEffect ==
    ASSUME ConfirmAssumption, ConfirmersOK, CardsAreHeld, NEW f \in Confirmers, ConfirmStep(f)
    PROVE  MethodsEffect
<1>1. ASSUME Stops(f), UNCHANGED <<methods, issuers, managers>>, exchanged \subseteq exchanged'
      PROVE  Calm
  <2>1. ~Stores(f)' /\ \A g \in Confirmers : g # f => confirmers'[g] = confirmers[g]
    BY <1>1, Stopped DEF Stores, ConfirmerIdle
  <2> QED
    BY <1>1, <2>1 DEF Calm, Saves, Stores
<1>2. CASE ConfirmLock(f)
  <2>1. confirmers' = [confirmers EXCEPT ![f].pc = "issue"] /\ UNCHANGED methodVars
    BY <1>2 DEF ConfirmLock
  <2>2. /\ confirmers'[f].pc = "issue"
        /\ \A g \in Confirmers : g # f => confirmers'[g] = confirmers[g]
    BY <2>1 DEF ConfirmersOK, Confirmer
  <2> QED
    BY <2>1, <2>2 DEF Calm, Saves, Stores, methodVars, MethodsEffect
<1>3. CASE ConfirmTurnedAway(f) \/ ConfirmNotIssued(f) \/ ConfirmAborted(f) \/ ConfirmCrash(f)
  <2>1. /\ Stops(f) /\ UNCHANGED <<methods, issuers, managers>>
        /\ exchanged \subseteq exchanged'
    BY <1>3 DEF ConfirmTurnedAway, ConfirmNotIssued, ConfirmAborted, ConfirmCrash,
                ConfirmDone, Stops, methodVars
  <2> QED
    BY <1>1, <2>1 DEF MethodsEffect
<1>4. CASE ConfirmCharged(f) \/ ConfirmNotCharged(f)
  <2> DEFINE open == (cycles[confirmers[f].sub][confirmers[f].day].invoice # "none")
  <2>1. PICK outcome \in {"paid", "failed"} :
           confirmers' = [confirmers EXCEPT ![f].pc = outcome, ![f].open = open]
    BY <1>4 DEF ConfirmCharged, ConfirmNotCharged, Charged
  <2>2. UNCHANGED methodVars /\ Stores(f)
    BY <1>4 DEF ConfirmCharged, ConfirmNotCharged, Stores
  <2>3. confirmers[f] \in [pc : {"idle", "lock", "issue", "charge", "paid", "failed"},
                           sub : Subs \cup {NoSub}, key : ConfirmKeys \cup {NoKey},
                           card : Cards \cup {NoCard}, day : Days,
                           isDefault : BOOLEAN, open : BOOLEAN]
    BY DEF ConfirmersOK, Confirmer
  <2> HIDE DEF open
  <2>4. /\ confirmers'[f].card = confirmers[f].card
        /\ confirmers'[f].isDefault = confirmers[f].isDefault
        /\ \A g \in Confirmers : g # f => confirmers'[g] = confirmers[g]
    BY <2>1, <2>3 DEF ConfirmersOK
  <2> QED
    BY <2>2, <2>4 DEF Calm, Saves, Stores, methodVars, MethodsEffect
<1>5. CASE ConfirmPaid(f) \/ ConfirmFailed(f)
  <2> DEFINE c == confirmers[f].card
             b == confirmers[f].isDefault
  <2>1. Stores(f) /\ confirmers[f].pc # "idle"
    BY <1>5 DEF ConfirmPaid, ConfirmFailed, Stores
  <2>2. c \in Cards /\ b \in BOOLEAN /\ c \in exchanged /\ methods[c].status = "none"
        /\ (b \/ ActiveMethods # {})
    BY <2>1 DEF ConfirmersOK, Confirmer, CardsAreHeld, Fresh
  <2>3. methods' = Stored(c, b) /\ UNCHANGED <<exchanged, managers, issuers>> /\ Stops(f)
    BY <1>5 DEF ConfirmPaid, ConfirmFailed, ConfirmStored, ConfirmDone, Stops
  <2>4. ~Stores(f)' /\ \A g \in Confirmers : g # f => confirmers'[g] = confirmers[g]
    BY <2>3, Stopped DEF Stores, ConfirmerIdle
  <2>5. \A i \in Issuers : Saves(i)' =>
           Saves(i) /\ issuers'[i] = issuers[i] /\ issuers[i].card # c
    BY <2>1, <2>3 DEF CardsAreHeld, Saves
  <2>6. \A g \in Confirmers : Stores(g)' =>
           Stores(g) /\ confirmers'[g] = confirmers[g] /\ confirmers[g].card # c
    BY <2>1, <2>4 DEF CardsAreHeld, Stores
  <2>7. PICK x \in Cards, y \in BOOLEAN : x = c /\ y = b
    BY <2>2
  <2> HIDE DEF c, b
  <2>8. StoresCard(x, y) /\ Fresh(x, y)
    BY <2>2, <2>3, <2>5, <2>6, <2>7 DEF StoresCard, Fresh
  <2> QED
    BY <2>8 DEF MethodsEffect
<1>6. CASE ConfirmIssued(f)
  BY <1>6 DEF MethodsEffect
<1> QED
  BY <1>2, <1>3, <1>4, <1>5, <1>6 DEF ConfirmStep

\* What any step does to the methods.
LEMMA MethodsEffects ==
    ASSUME CheckoutTypeOK, CardsAreHeld, [Next]_vars
    PROVE  MethodsEffect
<1>0. MethodsTypeOK /\ ConfirmersOK
  BY CheckoutTypesSplit
<1>1. ASSUME UNCHANGED <<methods, exchanged, issuers, managers, confirmers>>
      PROVE  MethodsEffect
  BY <1>1 DEF MethodsEffect, Calm, Saves, Stores
<1>2. CASE UNCHANGED vars
  BY <1>1, <1>2 DEF vars, methodVars, checkoutVars
<1>3. CASE MethodsNext /\ UNCHANGED checkoutVars
  <2>1. UNCHANGED confirmers
    BY <1>3 DEF checkoutVars
  <2>2. ASSUME NEW a \in Auths, AuthLate(a) \/ \E asked \in BOOLEAN : StartAuth(a, asked)
        PROVE  MethodsEffect
    BY <1>1, <2>1, <2>2 DEF AuthLate, StartAuth
  <2>3. ASSUME NEW k \in IssueKeys, IssueKeyTtl(k) PROVE MethodsEffect
    BY <1>1, <2>1, <2>3 DEF IssueKeyTtl
  <2>4. ASSUME NEW k \in DefaultKeys, DefaultKeyTtl(k) PROVE MethodsEffect
    BY <1>1, <2>1, <2>4 DEF DefaultKeyTtl
  <2> QED
    BY <1>0, <1>3, <2>1, <2>2, <2>3, <2>4, IssuerEffect, ManagerEffect DEF MethodsNext
<1>4. CASE CheckoutNext
  <2>1. ASSUME NEW s \in Subs, CreateCheckout(s) \/ SubscriptionEnds(s) \/ ConfirmLockLapse(s)
        PROVE  MethodsEffect
    BY <1>1, <2>1 DEF CreateCheckout, SubscriptionEnds, ConfirmLockLapse, methodVars
  <2>2. ASSUME NEW f \in Confirmers, NEW s \in Subs, NEW k \in ConfirmKeys, NEW c \in Cards,
               ConfirmRequest(f, s, k, c)
        PROVE  MethodsEffect
    <3> DEFINE r == [pc |-> "lock", sub |-> s, key |-> k, card |-> c, day |-> today,
                     isDefault |-> FALSE, open |-> FALSE]
    <3>1. confirmers' = [confirmers EXCEPT ![f] = r] /\ UNCHANGED methodVars
      BY <2>2 DEF ConfirmRequest
    <3>2. r.pc = "lock"
      OBVIOUS
    <3> HIDE DEF r
    <3>3. /\ confirmers'[f].pc = "lock"
          /\ \A g \in Confirmers : g # f => confirmers'[g] = confirmers[g]
      BY <1>0, <3>1, <3>2 DEF ConfirmersOK
    <3> QED
      BY <3>1, <3>3 DEF Calm, Saves, Stores, methodVars, MethodsEffect
  <2>3. ASSUME NEW f \in Confirmers, ConfirmStep(f) PROVE MethodsEffect
    BY <1>0, <2>3, ConfirmerEffect, ConfirmAssumption
  <2>4. ASSUME NEW k \in ConfirmKeys, ConfirmKeyTtl(k) PROVE MethodsEffect
    BY <1>1, <2>4 DEF ConfirmKeyTtl, methodVars
  <2>5. CASE NextDay
    BY <1>1, <2>5 DEF NextDay, methodVars
  <2> QED
    BY <1>4, <2>1, <2>2, <2>3, <2>4, <2>5 DEF CheckoutNext
<1> QED
  BY <1>2, <1>3, <1>4 DEF Next

\* Every step keeps the default, unless it is chosen while it is deleted.
LEMMA MethodsSteps ==
    ASSUME CheckoutTypeOK, MethodsInv, ChoicesApart, [Next]_vars
    PROVE  MethodsInv'
<1>1. MethodsTypeOK /\ ConfirmersOK /\ MethodsEffect
  BY CheckoutTypesSplit, MethodsEffects DEF MethodsInv
<1> QED
  BY <1>1, CalmKeeps, IssuerTakes, ConfirmerTakes, StoreKeeps, SetKeeps, DeleteReadKeeps,
     DeleteKeeps DEF MethodsEffect

\* A user with an active subscription has a method.
HasMethod == (\E s \in Subs : subs[s] = "active") => ActiveMethods # {}

\* The confirmation that begins a subscription stores one, and no deletion takes
\* the last one.
LEMMA HasSteps ==
    ASSUME CheckoutTypeOK, MethodsInv, HasMethod, [Next]_vars
    PROVE  HasMethod'
<1>0. MethodsTypeOK /\ ConfirmersOK /\ CheckoutsOK /\ MethodsEffect
  BY CheckoutTypesSplit, MethodsEffects DEF MethodsInv
<1>1. ActiveMethods # {} => ActiveMethods' # {}
  <2>1. ASSUME NEW c \in Cards, NEW b, methods' = Stored(c, b)
        PROVE  ActiveMethods' # {}
    BY <2>1 DEF Stored, ActiveMethods
  <2>2. ASSUME UNCHANGED methods PROVE ActiveMethods' = ActiveMethods
    BY <2>2 DEF ActiveMethods
  <2>3. ASSUME NEW c \in Cards, NEW b \in BOOLEAN, StoresCard(c, b)
        PROVE  ActiveMethods' # {}
    BY <2>1, <2>3 DEF StoresCard
  <2>4. ASSUME NEW p \in Managers, SetDefault(p), managers[p].card \in ActiveMethods
        PROVE  ActiveMethods' # {}
    BY <2>1, <2>4 DEF SetDefault, ActiveMethods
  <2>5. ASSUME NEW p \in Managers, Delete(p), managers[p].card \in ActiveMethods,
               UNCHANGED confirmers
        PROVE  ActiveMethods' # {}
    BY <1>0, <2>5, DeleteKeeps
  <2>6. ASSUME \/ Calm
               \/ \E i \in Issuers : IssueExchanged(i)
               \/ \E f \in Confirmers : ConfirmIssued(f)
               \/ \E p \in Managers, c \in Cards : DeleteRead(p, c)
        PROVE  ActiveMethods' = ActiveMethods
    BY <2>2, <2>6 DEF Calm, IssueExchanged, ConfirmIssued, DeleteRead
  <2> QED
    BY <1>0, <2>3, <2>4, <2>5, <2>6 DEF MethodsEffect
<1>2. ASSUME NEW s \in Subs, subs'[s] = "active", subs[s] # "active"
      PROVE  ActiveMethods' # {}
  <2>1. PICK f \in Confirmers : ConfirmPaid(f)
    <3>1. subs \in [Subs -> SubStatus]
      BY <1>0 DEF CheckoutsOK
    <3>2. subs' # subs
      BY <1>2
    <3>3. ASSUME NEW f \in Confirmers, ConfirmStep(f), ~ConfirmPaid(f)
          PROVE  subs'[s] = subs[s] \/ subs'[s] = "pending"
      <4>1. CASE ConfirmFailed(f)
        BY <3>1, <4>1 DEF ConfirmFailed, ConfirmStored
      <4>2. CASE ~ConfirmFailed(f)
        BY <3>3, <4>2 DEF ConfirmStep, ConfirmLock, ConfirmTurnedAway, ConfirmIssued,
           ConfirmNotIssued, ConfirmCharged, ConfirmNotCharged, ConfirmAborted, ConfirmCrash
      <4> QED
        BY <4>1, <4>2
    <3>4. ASSUME NEW x \in Subs, CreateCheckout(x) \/ SubscriptionEnds(x)
          PROVE  subs'[s] \in {subs[s], "pending", "ended"}
      BY <3>1, <3>4 DEF CreateCheckout, SubscriptionEnds
    <3> QED
      BY <1>2, <3>2, <3>3, <3>4
      DEF Next, CheckoutNext, ConfirmRequest, ConfirmLockLapse, ConfirmKeyTtl, NextDay,
          vars, checkoutVars
  <2>2. confirmers[f].card \in Cards
    BY <1>0, <2>1 DEF ConfirmPaid, ConfirmersOK, Confirmer
  <2>3. methods' = Stored(confirmers[f].card, confirmers[f].isDefault)
    BY <2>1 DEF ConfirmPaid, ConfirmStored
  <2> QED
    BY <2>2, <2>3 DEF Stored, ActiveMethods
<1> QED
  BY <1>1, <1>2 DEF HasMethod

\* At the start there is no method and nobody is about to store one.
LEMMA MethodsStart == Init => MethodsInv /\ HasMethod
<1> SUFFICES ASSUME Init PROVE MethodsInv /\ HasMethod
  OBVIOUS
<1>1. ActiveMethods = {} /\ DefaultMethods = {}
  BY DEF Init, MethodsInit, NoMethod, ActiveMethods, DefaultMethods
<1>2. CardsAreHeld /\ DeletedIsNoDefault
  BY DEF Init, MethodsInit, CardsAreHeld, DeletedIsNoDefault, NoMethod, IssuerIdle,
         ManagerIdle, ConfirmerIdle, Saves, Stores
<1>3. HasMethod
  BY DEF Init, HasMethod
<1> QED
  BY <1>1, <1>2, <1>3 DEF MethodsInv, DefaultIsThere

(* A user with an active method has exactly one default method, however    *)
(* many requests issue keys, confirm checkouts, choose and delete methods  *)
(* at once.  Only a method that is chosen while it is deleted breaks it.   *)
THEOREM DefaultStays == Spec /\ []ChoicesApart => []DefaultIsThere
<1>1. MethodsInv => DefaultIsThere
  BY DEF MethodsInv
<1> QED
  BY <1>1, MethodsStart, MethodsSteps, CheckoutTypes, PTL DEF Spec

(* And an active subscription can be charged again.                        *)
THEOREM ActiveStaysChargeable == Spec /\ []ChoicesApart => []ActiveIsChargeable
<1>1. MethodsInv /\ HasMethod => ActiveIsChargeable
  BY DEF MethodsInv, HasMethod, DefaultIsThere, ActiveIsChargeable
<1> QED
  BY <1>1, MethodsStart, MethodsSteps, HasSteps, CheckoutTypes, PTL DEF Spec
===============================================================================
