--------------------------- MODULE BillingMethods ---------------------------
(***************************************************************************)
(* The billing methods of one user: billing authorisations and the keys    *)
(* issued for them (application/billing_auth.py), the default method and   *)
(* the deletion of a method (application/billing_methods.py).              *)
(*                                                                         *)
(* None of these requests takes a lock.  Each reads, then writes in a      *)
(* transaction what it decided on what it read; an issuing request calls   *)
(* the gateway in between.  A process dies, or its transaction aborts, at  *)
(* any step.                                                               *)
(***************************************************************************)
EXTENDS Naturals, FiniteSets

CONSTANTS Subs,        \* subscriptions of the user
          Auths,       \* billing authorisations
          Cards,       \* auth keys; the method stored for one has its name
          Issuers,     \* server processes that issue a billing key
          Managers,    \* server processes that set the default or delete
          IssueKeys,   \* Idempotency-Key values of issuing requests
          DefaultKeys, \* and of requests that set the default
          NoAuth, NoCard, NoKey

ASSUME MethodNoneAssumption ==
    /\ NoAuth \notin Auths
    /\ NoCard \notin Cards
    /\ NoKey \notin IssueKeys \cup DefaultKeys

VARIABLES subs,        \* status of each subscription
          auths,       \* [status, asDefault] of each authorisation
          methods,     \* [status, isDefault] of each method, with its instrument
          issueKeys,   \* [status, auth] of each key
          defaultKeys, \* status of each key
          issuers,     \* each issuing process
          managers,    \* each managing process
          exchanged    \* at the gateway: auth keys that were exchanged

methodVars == <<auths, methods, issueKeys, defaultKeys, issuers, managers, exchanged>>

KeyStatus == {"none", "processing", "succeeded", "failed"}
SubStatus == {"none", "pending", "active", "ended"}
Auth == [status : {"none", "ready", "late", "issued", "failed", "expired"}, asDefault : BOOLEAN]
Method == [status : {"none", "active", "inactive"}, isDefault : BOOLEAN]

NoMethod == [status |-> "none", isDefault |-> FALSE]
IssuerIdle == [pc |-> "idle", auth |-> NoAuth, key |-> NoKey, card |-> NoCard, isDefault |-> FALSE]
ManagerIdle == [pc |-> "idle", card |-> NoCard, key |-> NoKey]

MethodsTypeOK ==
    /\ auths \in [Auths -> Auth]
    /\ methods \in [Cards -> Method]
    /\ issueKeys \in [IssueKeys -> [status : KeyStatus, auth : Auths \cup {NoAuth}]]
    /\ defaultKeys \in [DefaultKeys -> KeyStatus]
    /\ issuers \in [Issuers -> [pc : {"idle", "expire", "ask", "save", "failed"},
                                auth : Auths \cup {NoAuth}, key : IssueKeys \cup {NoKey},
                                card : Cards \cup {NoCard}, isDefault : BOOLEAN]]
    /\ managers \in [Managers -> [pc : {"idle", "set", "answer", "delete"},
                                  card : Cards \cup {NoCard}, key : DefaultKeys \cup {NoKey}]]
    /\ exchanged \subseteq Cards
    /\ \A i \in Issuers :
          /\ issuers[i].pc # "idle" => issuers[i].auth \in Auths
          /\ issuers[i].pc \in {"ask", "save", "failed"} =>
                issuers[i].card \in Cards /\ issuers[i].key \in IssueKeys
    /\ \A p \in Managers :
          /\ managers[p].pc # "idle" => managers[p].card \in Cards
          /\ managers[p].pc \in {"set", "answer"} => managers[p].key \in DefaultKeys

MethodsInit ==
    /\ auths = [a \in Auths |-> [status |-> "none", asDefault |-> FALSE]]
    /\ methods = [c \in Cards |-> NoMethod]
    /\ issueKeys = [k \in IssueKeys |-> [status |-> "none", auth |-> NoAuth]]
    /\ defaultKeys = [k \in DefaultKeys |-> "none"]
    /\ issuers = [i \in Issuers |-> IssuerIdle]
    /\ managers = [p \in Managers |-> ManagerIdle]
    /\ exchanged = {}

-----------------------------------------------------------------------------
\* The statuses that count_active_subscriptions_for_user counts.
Holding == {s \in Subs : subs[s] \in {"pending", "active"}}
ActiveMethods == {c \in Cards : methods[c].status = "active"}
DefaultMethods == {c \in ActiveMethods : methods[c].isDefault}

\* Mutant: the old default stays.
StoredBeside(c, isDefault) == [methods EXCEPT ![c] = [status |-> "active", isDefault |-> isDefault]]

\* The methods after card c was stored, cleared of the old default before.
Stored(c, isDefault) ==
    [x \in Cards |->
        IF x = c THEN [status |-> "active", isDefault |-> isDefault]
        ELSE [methods[x] EXCEPT !.isDefault = @ /\ ~isDefault]]

\* The key and the payment customer are stored beside; nothing reads them
\* apart from repetitions of the request.
StartAuth(a, asked) ==
    /\ auths[a].status = "none"
    /\ auths' = [auths EXCEPT ![a] =
          [status |-> "ready", asDefault |-> asked \/ ActiveMethods = {}]]
    /\ UNCHANGED <<methods, issueKeys, defaultKeys, issuers, managers, exchanged>>

\* Half an hour passes; "late" is a ready authorisation after its expires_at.
AuthLate(a) ==
    /\ auths[a].status = "ready"
    /\ auths' = [auths EXCEPT ![a].status = "late"]
    /\ UNCHANGED <<methods, issueKeys, defaultKeys, issuers, managers, exchanged>>

\* A key that was used, or another key about the authorisation, answers or
\* refuses the request before this.
IssueRead(i, a, k, c) ==
    /\ issuers[i].pc = "idle"
    /\ auths[a].status \in {"ready", "late"}
    /\ issueKeys[k].status = "none"
    /\ \A x \in IssueKeys : issueKeys[x].auth # a
    /\ issuers' = [issuers EXCEPT ![i] =
          [pc |-> IF auths[a].status = "late" THEN "expire" ELSE "ask",
           auth |-> a, key |-> k, card |-> c, isDefault |-> auths[a].asDefault]]
    /\ UNCHANGED <<auths, methods, issueKeys, defaultKeys, managers, exchanged>>

SaveAuth(i, status) == auths' = [auths EXCEPT ![issuers[i].auth].status = status]

IssueExpire(i) ==
    /\ issuers[i].pc = "expire"
    /\ SaveAuth(i, "expired")
    /\ issuers' = [issuers EXCEPT ![i] = IssuerIdle]
    /\ UNCHANGED <<methods, issueKeys, defaultKeys, managers, exchanged>>

IssueAsked(i) ==
    /\ issuers[i].pc = "ask"
    /\ issueKeys[issuers[i].key].status = "none"
    /\ issueKeys' = [issueKeys EXCEPT ![issuers[i].key] =
          [status |-> "processing", auth |-> issuers[i].auth]]

\* The gateway exchanges an auth key once.  The process then counts the
\* active methods, outside the transaction that stores its own.
IssueExchanged(i) ==
    /\ IssueAsked(i)
    /\ issuers[i].card \notin exchanged
    /\ exchanged' = exchanged \cup {issuers[i].card}
    /\ issuers' = [issuers EXCEPT ![i].pc = "save",
                                  ![i].isDefault = @ \/ ActiveMethods = {}]
    /\ UNCHANGED <<auths, methods, defaultKeys, managers>>

\* The gateway refuses, or its answer is lost.
IssueRefused(i) ==
    /\ IssueAsked(i)
    /\ \/ UNCHANGED exchanged
       \/ exchanged' = exchanged \cup {issuers[i].card}
    /\ issuers' = [issuers EXCEPT ![i].pc = "failed"]
    /\ UNCHANGED <<auths, methods, defaultKeys, managers>>

\* The key belongs to another request by now: the unique index refuses.
IssueTurnedAway(i) ==
    /\ issuers[i].pc = "ask"
    /\ issueKeys[issuers[i].key].status # "none"
    /\ issuers' = [issuers EXCEPT ![i] = IssuerIdle]
    /\ UNCHANGED <<auths, methods, issueKeys, defaultKeys, managers, exchanged>>

IssueDone(i, status) ==
    /\ issueKeys' = [issueKeys EXCEPT ![issuers[i].key].status = status]
    /\ issuers' = [issuers EXCEPT ![i] = IssuerIdle]

IssueSave(i) ==
    /\ issuers[i].pc = "save"
    /\ methods' = Stored(issuers[i].card, issuers[i].isDefault)
    /\ SaveAuth(i, "issued")
    /\ IssueDone(i, "succeeded")
    /\ UNCHANGED <<defaultKeys, managers, exchanged>>

\* Saves the authorisation it read, whatever another request made of it.
IssueFailed(i) ==
    /\ issuers[i].pc = "failed"
    /\ SaveAuth(i, "failed")
    /\ IssueDone(i, "failed")
    /\ UNCHANGED <<methods, defaultKeys, managers, exchanged>>

\* The process dies or its transaction aborts: the key stays "processing".
IssueCrash(i) ==
    /\ issuers[i].pc # "idle"
    /\ issuers' = [issuers EXCEPT ![i] = IssuerIdle]
    /\ UNCHANGED <<auths, methods, issueKeys, defaultKeys, managers, exchanged>>

\* Deleted a day after it was stored, when its authorisation is long late.
IssueKeyTtl(k) ==
    /\ issueKeys[k].auth # NoAuth
    /\ auths[issueKeys[k].auth].status # "ready"
    /\ \A i \in Issuers : issuers[i].key # k
    /\ issueKeys' = [issueKeys EXCEPT ![k] = [status |-> "none", auth |-> NoAuth]]
    /\ UNCHANGED <<auths, methods, defaultKeys, issuers, managers, exchanged>>

-----------------------------------------------------------------------------
\* The key is stored outside a transaction; a method that is the default
\* already needs none.
SetStart(p, c, k) ==
    /\ managers[p].pc = "idle"
    /\ c \in ActiveMethods
    /\ defaultKeys[k] = "none"
    /\ defaultKeys' = [defaultKeys EXCEPT ![k] = "processing"]
    /\ managers' = [managers EXCEPT ![p] =
          [pc |-> IF methods[c].isDefault THEN "answer" ELSE "set", card |-> c, key |-> k]]
    /\ UNCHANGED <<auths, methods, issueKeys, issuers, exchanged>>

\* Refused, with the key left "processing", when the method is gone.
SetDefault(p) ==
    LET c == managers[p].card IN
    /\ managers[p].pc = "set"
    /\ IF c \in ActiveMethods
       THEN /\ methods' = Stored(c, TRUE)
            /\ managers' = [managers EXCEPT ![p].pc = "answer"]
       ELSE /\ managers' = [managers EXCEPT ![p] = ManagerIdle]
            /\ UNCHANGED methods
    /\ UNCHANGED <<auths, issueKeys, defaultKeys, issuers, exchanged>>

SetAnswer(p) ==
    /\ managers[p].pc = "answer"
    /\ defaultKeys' = [defaultKeys EXCEPT ![managers[p].key] = "succeeded"]
    /\ managers' = [managers EXCEPT ![p] = ManagerIdle]
    /\ UNCHANGED <<auths, methods, issueKeys, issuers, exchanged>>

\* Mutant: the default may be deleted while another method is left.
DeletableDefault(c) ==
    /\ c \in ActiveMethods
    /\ Holding # {} => Cardinality(ActiveMethods) > 1

\* _delete_block_reason
Deletable(c) ==
    /\ c \in ActiveMethods
    /\ ~methods[c].isDefault
    /\ Holding # {} => Cardinality(ActiveMethods) > 1

\* A deletion's key is stored in its transaction only: it never blocks.
DeleteRead(p, c) ==
    /\ managers[p].pc = "idle"
    /\ Deletable(c)
    /\ managers' = [managers EXCEPT ![p] = [pc |-> "delete", card |-> c, key |-> NoKey]]
    /\ UNCHANGED <<auths, methods, issueKeys, defaultKeys, issuers, exchanged>>

Deactivated(c) == [methods EXCEPT ![c] = [status |-> "inactive", isDefault |-> FALSE]]

\* Looks at nothing but that the method is active.
Delete(p) ==
    LET c == managers[p].card IN
    /\ managers[p].pc = "delete"
    /\ methods' = IF c \in ActiveMethods THEN Deactivated(c) ELSE methods
    /\ managers' = [managers EXCEPT ![p] = ManagerIdle]
    /\ UNCHANGED <<auths, issueKeys, defaultKeys, issuers, exchanged>>

ManagerCrash(p) ==
    /\ managers[p].pc # "idle"
    /\ managers' = [managers EXCEPT ![p] = ManagerIdle]
    /\ UNCHANGED <<auths, methods, issueKeys, defaultKeys, issuers, exchanged>>

DefaultKeyTtl(k) ==
    /\ defaultKeys[k] # "none"
    /\ \A p \in Managers : managers[p].key # k
    /\ defaultKeys' = [defaultKeys EXCEPT ![k] = "none"]
    /\ UNCHANGED <<auths, methods, issueKeys, issuers, managers, exchanged>>

-----------------------------------------------------------------------------
IssuerStep(i) ==
    \/ IssueExpire(i) \/ IssueExchanged(i) \/ IssueRefused(i) \/ IssueTurnedAway(i)
    \/ IssueSave(i) \/ IssueFailed(i) \/ IssueCrash(i)

ManagerStep(p) == SetDefault(p) \/ SetAnswer(p) \/ Delete(p) \/ ManagerCrash(p)

MethodsNext ==
    \/ \E a \in Auths : AuthLate(a) \/ \E asked \in BOOLEAN : StartAuth(a, asked)
    \/ \E i \in Issuers, a \in Auths, k \in IssueKeys, c \in Cards : IssueRead(i, a, k, c)
    \/ \E i \in Issuers : IssuerStep(i)
    \/ \E p \in Managers, c \in Cards : DeleteRead(p, c) \/ \E k \in DefaultKeys : SetStart(p, c, k)
    \/ \E p \in Managers : ManagerStep(p)
    \/ \E k \in IssueKeys : IssueKeyTtl(k)
    \/ \E k \in DefaultKeys : DefaultKeyTtl(k)

-----------------------------------------------------------------------------
(* A user with an active method has exactly one default method, which is   *)
(* what the next charge takes: requests that issue keys and count methods  *)
(* outside their transaction, the change of the default and deletions      *)
(* never leave none or two.  Holds while one process at a time manages the *)
(* methods: a deletion checks the default before its transaction.          *)
DefaultIsThere ==
    ActiveMethods # {} => \E c \in ActiveMethods : DefaultMethods = {c}
==============================================================================
