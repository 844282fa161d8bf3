------------------------- MODULE ConnectorSyncProofs -------------------------
(***************************************************************************)
(* Proofs about ConnectorSync for any number of authorisations, syncs,     *)
(* revocations and users, any clock and any number of faults.              *)
(*                                                                         *)
(* AccountInv is what authorisations and revocations maintain, SyncInv     *)
(* what syncs maintain; neither holds by the other, since a sync never     *)
(* writes an account nor a revocation a result.                            *)
(***************************************************************************)
EXTENDS ConnectorSync, TLAPS

-----------------------------------------------------------------------------
(* Types. *)

LEMMA InitTypeOK == ASSUME Init PROVE TypeOK
<1>1. 0 \in 0..MaxFaults
  BY ConnectorAssumption
<1> QED BY <1>1 DEF Init, TypeOK, BegunRequests, SyncSteps

LEMMA AuthorizationType ==
  ASSUME TypeOK, NEW a \in Authorizations, AuthorizationStep(a)
  PROVE  TypeOK'
<1> USE DEF TypeOK, BegunRequests, accountVars, resultVars, syncVars
<1>1. CASE \E u \in Users : BeginAuthorization(a, u)
  <2> PICK u \in Users : BeginAuthorization(a, u)
    BY <1>1
  <2> QED BY DEF BeginAuthorization, Ids
<1>2. CASE SaveAccount(a)
  <2> DEFINE id == auth[a].id
             next == IF IsDemo(a) THEN "connected" ELSE "token"
  <2>1. id \in Ids /\ OwnerAfterSave(id, auth[a].user) \in Users \cup {NoUser}
    BY <1>2 DEF OwnerAfterSave, SaveAccount
  <2>2. next \in {"connected", "token"} /\ auth' = [auth EXCEPT ![a].pc = next]
    BY <1>2 DEF SaveAccount
  <2> HIDE DEF next
  <2> QED BY <1>2, <2>1, <2>2 DEF SaveAccount
<1>3. CASE SaveToken(a)
  BY <1>3 DEF SaveToken
<1> QED BY <1>1, <1>2, <1>3 DEF AuthorizationStep

LEMMA RevocationType ==
  ASSUME TypeOK, NEW r \in Revocations, RevocationStep(r)
  PROVE  TypeOK'
<1> USE DEF TypeOK, BegunRequests, accountVars, resultVars, syncVars
<1>1. CASE \E id \in Ids : ReadForRevoke(r, id)
  <2> PICK id \in Ids : ReadForRevoke(r, id)
    BY <1>1
  <2> DEFINE had == token[id] # "none"
             next == IF owner[id] = NoUser THEN "missing" ELSE "account"
  <2>1. had \in BOOLEAN /\ next \in {"missing", "account"}
    OBVIOUS
  <2>2. revoke' = [revoke EXCEPT ![r] = [pc |-> next, id |-> id, had |-> had]]
    BY DEF ReadForRevoke
  <2> HIDE DEF had, next
  <2> QED BY <2>1, <2>2 DEF ReadForRevoke
<1>2. CASE RevokeAccount(r)
  <2> DEFINE next == IF RevokesToken(r) THEN "token" ELSE "revoked"
  <2>1. next \in {"token", "revoked"} /\ revoke' = [revoke EXCEPT ![r].pc = next]
    BY <1>2 DEF RevokeAccount
  <2> HIDE DEF next
  <2> QED BY <1>2, <2>1 DEF RevokeAccount
<1>3. CASE RevokeToken(r)
  BY <1>3 DEF RevokeToken
<1> QED BY <1>1, <1>2, <1>3 DEF RevocationStep

(* What the return of a call does to the types of a sync.                   *)
LEMMA CallReturnsType ==
  ASSUME TypeOK, NEW s \in Syncs, NEW call \in Calls, NEW started \in SUBSET Calls,
         CallReturns(s, call, started), tasks' \in [Users -> Syncs \cup {NoSync}],
         briefing' \in [Users -> Syncs \cup {NoSync}], messages' \in [Syncs -> SUBSET Types],
         sync[s].pc # "new"
  PROVE  TypeOK'
<1> DEFINE left == (open[s] \ {call}) \cup started
           next == IF sync[s].pc = "results" /\ AllBack(left) THEN "ok" ELSE sync[s].pc
<1>1. left \in SUBSET Calls /\ open' = [open EXCEPT ![s] = left]
  BY DEF TypeOK, CallReturns
<1>2. /\ (next = "ok" /\ sync[s].pc = "results") \/ next = sync[s].pc
      /\ sync' = [sync EXCEPT ![s].pc = next]
  BY DEF TypeOK, CallReturns
<1>3. sync' \in [Syncs -> [pc : SyncSteps \cup SyncEnds, id : Ids \cup {NoId},
                           user : Users \cup {NoUser}]]
  <2> HIDE DEF next
  <2> DEFINE pcs == SyncSteps \cup SyncEnds
  <2>1. sync \in [Syncs -> [pc : pcs, id : Ids \cup {NoId}, user : Users \cup {NoUser}]]
    BY DEF TypeOK
  <2>2. "ok" \in pcs
    BY DEF SyncEnds
  <2> HIDE DEF pcs
  <2>3. next \in pcs
    BY <1>2, <2>1, <2>2
  <2>4. sync' \in [Syncs -> [pc : pcs, id : Ids \cup {NoId}, user : Users \cup {NoUser}]]
    BY <1>2, <2>1, <2>3
  <2> QED BY <2>4 DEF pcs
<1>4. BegunRequests'
  <2> HIDE DEF next
  <2> QED BY <1>2 DEF TypeOK, BegunRequests, CallReturns
<1> QED BY <1>1, <1>3, <1>4 DEF TypeOK, CallReturns, accountVars

LEMMA SyncType ==
  ASSUME TypeOK, NEW s \in Syncs, SyncStep(s), open[s] # {} => sync[s].pc # "new"
  PROVE  TypeOK'
<1> USE DEF TypeOK, BegunRequests, accountVars, resultVars, syncVars
<1>1. CASE \E id \in Ids : ReadAccount(s, id)
  <2> PICK id \in Ids : ReadAccount(s, id)
    BY <1>1
  <2> DEFINE next == IF Missing(id) THEN "missing" ELSE "find"
  <2>1. next \in {"missing", "find"} /\ (next = "find" => owner[id] \in Users)
    BY DEF Missing
  <2>2. sync' = [sync EXCEPT ![s] = [pc |-> next, id |-> id, user |-> owner[id]]]
    BY DEF ReadAccount
  <2> HIDE DEF next
  <2>3. sync' \in [Syncs -> [pc : SyncSteps \cup SyncEnds, id : Ids \cup {NoId},
                             user : Users \cup {NoUser}]]
    BY <2>1, <2>2 DEF SyncSteps, SyncEnds
  <2> QED BY <2>1, <2>2, <2>3 DEF ReadAccount
<1>2. CASE FindState(s)
  <2> DEFINE next == IF RowFound(sync[s].id) THEN "update" ELSE "create"
  <2>1. next \in {"update", "create"} /\ sync' = [sync EXCEPT ![s].pc = next]
    BY <1>2 DEF FindState
  <2> HIDE DEF next
  <2> QED BY <1>2, <2>1 DEF FindState, SyncSteps
<1>3. CASE UpdateState(s)
  BY <1>3 DEF UpdateState, StartResults, Calls, SyncSteps
<1>4. CASE CreateState(s)
  BY <1>4 DEF CreateState, StartResults, Calls, SyncSteps
<1>5. CASE StateClash(s)
  BY <1>5 DEF StateClash, SyncEnds
<1>6. /\ {"tasks", "briefing", "preferences"} \subseteq Calls
      /\ Types \subseteq Calls
      /\ {} \in SUBSET Calls /\ Types \in SUBSET Calls
  BY DEF Calls
<1>7. CASE SaveTasks(s)
  <2>1. CallReturns(s, "tasks", {}) /\ tasks' \in [Users -> Syncs \cup {NoSync}]
        /\ sync[s].pc # "new" /\ UNCHANGED <<briefing, messages>>
    BY <1>7 DEF SaveTasks, CallReturns
  <2> QED BY <1>6, <2>1, CallReturnsType
<1>8. CASE SaveBriefing(s)
  <2>1. CallReturns(s, "briefing", {}) /\ briefing' \in [Users -> Syncs \cup {NoSync}]
        /\ sync[s].pc # "new" /\ UNCHANGED <<tasks, messages>>
    BY <1>8 DEF SaveBriefing, CallReturns
  <2> QED BY <1>6, <2>1, CallReturnsType
<1>9. CASE ReadPreferences(s)
  <2>1. CallReturns(s, "preferences", Types) /\ sync[s].pc # "new" /\ UNCHANGED resultVars
    BY <1>9 DEF ReadPreferences, CallReturns
  <2> QED BY <1>6, <2>1, CallReturnsType
<1>10. CASE \E type \in Types : CreateMessage(s, type)
  <2> PICK type \in Types : CreateMessage(s, type)
    BY <1>10
  <2>1. CallReturns(s, type, {}) /\ messages' \in [Syncs -> SUBSET Types]
        /\ sync[s].pc # "new" /\ UNCHANGED <<tasks, briefing>>
    BY DEF CreateMessage, CallReturns
  <2> QED BY <1>6, <2>1, CallReturnsType
<1> QED BY <1>1, <1>2, <1>3, <1>4, <1>5, <1>7, <1>8, <1>9, <1>10 DEF SyncStep

LEMMA FaultType ==
  ASSUME TypeOK, \/ \E a \in Authorizations : AuthorizationFails(a)
                 \/ \E r \in Revocations : RevocationFails(r)
                 \/ \E s \in Syncs : SyncFails(s) \/ \E call \in Calls : CallFails(s, call),
         \A s \in Syncs : open[s] # {} => sync[s].pc \notin {"new", "missing"}
  PROVE  TypeOK'
<1> USE DEF TypeOK, BegunRequests, Fault, accountVars, resultVars, syncVars
<1>1. faults' \in 0..MaxFaults
  BY ConnectorAssumption DEF AuthorizationFails, RevocationFails, SyncFails, CallFails
<1>2. "failed" \in SyncSteps \cup SyncEnds
  BY DEF SyncEnds
<1>3. ASSUME NEW a \in Authorizations, AuthorizationFails(a) PROVE TypeOK'
  BY <1>1, <1>3 DEF AuthorizationFails
<1>4. ASSUME NEW r \in Revocations, RevocationFails(r) PROVE TypeOK'
  BY <1>1, <1>4 DEF RevocationFails
<1>5. ASSUME NEW s \in Syncs, sync[s].pc \notin {"new", "missing"}, Fault,
             sync' = [sync EXCEPT ![s].pc = "failed"], open' \in [Syncs -> SUBSET Calls],
             UNCHANGED <<auth, revoke>>
      PROVE  TypeOK'
  <2>1. sync' \in [Syncs -> [pc : SyncSteps \cup SyncEnds, id : Ids \cup {NoId},
                           user : Users \cup {NoUser}]]
    BY <1>2, <1>5
  <2>2. BegunRequests'
    BY <1>5
  <2>3. faults' \in 0..MaxFaults
    BY <1>5, ConnectorAssumption
  <2> QED BY <1>5, <2>1, <2>2, <2>3
<1>6. ASSUME NEW s \in Syncs, SyncFails(s) PROVE TypeOK'
  <2>1. sync[s].pc \notin {"new", "missing"}
    BY <1>6 DEF SyncFails, SyncSteps
  <2>2. open' \in [Syncs -> SUBSET Calls]
    BY <1>6 DEF SyncFails
  <2> QED BY <1>5, <1>6, <2>1, <2>2 DEF SyncFails
<1>7. ASSUME NEW s \in Syncs, NEW call \in Calls, CallFails(s, call) PROVE TypeOK'
  <2>1. sync[s].pc \notin {"new", "missing"}
    BY <1>7 DEF CallFails
  <2>2. open' \in [Syncs -> SUBSET Calls]
    BY <1>7 DEF CallFails
  <2> QED BY <1>5, <1>7, <2>1, <2>2 DEF CallFails
<1> QED BY <1>3, <1>4, <1>6, <1>7

-----------------------------------------------------------------------------
(* What authorisations and revocations maintain.                            *)

(* An account authorised at the provider has its authorisation's own        *)
(* identifier, and only such an account has a token, saved last.            *)
AccountsKnown ==
  /\ \A a \in Authorizations : auth[a].pc # "new" => auth[a].id \in {a} \cup Instants
  /\ \A a \in Authorizations : auth[a].pc = "token" => auth[a].id = a
  /\ \A id \in Ids : token[id] # "none" =>
       id \in Authorizations /\ auth[id].pc = "connected"

(* A revocation that read a token read one that is still there, and it      *)
(* rewrites the token when the account says revoked already.                *)
RevocationsKnown ==
  \A r \in Revocations :
    /\ revoke[r].had => token[revoke[r].id] # "none" /\ revoke[r].pc # "new"
    /\ revoke[r].pc = "token" => revoke[r].had /\ status[revoke[r].id] = "revoked"

(* Somebody revoked each account that says so.                              *)
RevokedBySomebody ==
  \A id \in Ids : status[id] = "revoked" =>
    \E r \in Revocations :
      revoke[r].id = id /\ revoke[r].pc \in {"token", "failed", "revoked"}

AccountInv ==
  AccountsKnown /\ RevocationsKnown /\ RevokedBySomebody /\ TokenFollowsAccount

LEMMA SaveAccountKeeps ==
  ASSUME TypeOK, AccountInv, NEW a \in Authorizations, SaveAccount(a)
  PROVE  AccountInv'
<1> DEFINE id == auth[a].id
<1>1. id \in Ids /\ token[id] = "none"
  BY ConnectorAssumption DEF TypeOK, BegunRequests, AccountInv, AccountsKnown, SaveAccount, Ids
<1>2. AccountsKnown'
  BY <1>1 DEF TypeOK, AccountInv, AccountsKnown, SaveAccount, IsDemo
<1>3. RevocationsKnown'
  BY <1>1 DEF TypeOK, BegunRequests, AccountInv, RevocationsKnown, SaveAccount
<1>4. RevokedBySomebody'
  BY <1>1 DEF TypeOK, AccountInv, RevokedBySomebody, SaveAccount
<1>5. TokenFollowsAccount'
  BY <1>1 DEF TypeOK, AccountInv, TokenFollowsAccount, SaveAccount
<1> QED BY <1>2, <1>3, <1>4, <1>5 DEF AccountInv

LEMMA SaveTokenKeeps ==
  ASSUME TypeOK, AccountInv, NEW a \in Authorizations, SaveToken(a)
  PROVE  AccountInv'
<1>1. /\ auth[a].id = a /\ a \in Ids /\ token[a] = "none"
      /\ token' = [token EXCEPT ![a] = "active"]
  BY DEF AccountInv, AccountsKnown, SaveToken, Ids
<1>2. AccountsKnown'
  BY <1>1 DEF TypeOK, AccountInv, AccountsKnown, SaveToken
<1>3. RevocationsKnown'
  BY <1>1 DEF TypeOK, BegunRequests, AccountInv, RevocationsKnown, SaveToken
<1>4. RevokedBySomebody'
  BY DEF AccountInv, RevokedBySomebody, SaveToken
<1>5. TokenFollowsAccount'
  <2> SUFFICES ASSUME NEW id \in Ids
               PROVE  TokenFollowsAccount!(id)'
    BY DEF TokenFollowsAccount
  <2>1. CASE id = a
    <3>1. \A r \in Revocations : revoke[r].id = a => ~revoke[r].had
      BY <1>1 DEF AccountInv, RevocationsKnown
    <3>2. status[a] = "revoked" =>
            \E r \in Revocations : revoke[r].id = a /\ revoke[r].pc \in {"token", "failed", "revoked"}
      BY <1>1 DEF AccountInv, RevokedBySomebody
    <3> QED BY <1>1, <2>1, <3>1, <3>2 DEF TypeOK, SaveToken
  <2>2. CASE id # a
    BY <1>1, <2>2 DEF TypeOK, AccountInv, TokenFollowsAccount, SaveToken
  <2> QED BY <2>1, <2>2
<1> QED BY <1>2, <1>3, <1>4, <1>5 DEF AccountInv

LEMMA RevokeAccountKeeps ==
  ASSUME TypeOK, AccountInv, NEW r \in Revocations, RevokeAccount(r)
  PROVE  AccountInv'
<1> DEFINE id == revoke[r].id
           next == IF RevokesToken(r) THEN "token" ELSE "revoked"
<1>1. /\ id \in Ids /\ status' = [status EXCEPT ![id] = "revoked"]
      /\ revoke' = [revoke EXCEPT ![r].pc = next]
      /\ \/ next = "token" /\ revoke[r].had
         \/ next = "revoked" /\ ~revoke[r].had
  BY DEF TypeOK, BegunRequests, RevokeAccount, RevokesToken
<1> HIDE DEF next
<1>2. /\ revoke'[r].pc = next /\ revoke'[r].id = id /\ revoke'[r].had = revoke[r].had
      /\ \A x \in Revocations \ {r} : revoke'[x] = revoke[x]
      /\ UNCHANGED <<token, auth>> /\ status'[id] = "revoked"
      /\ \A i \in Ids \ {id} : status'[i] = status[i]
      /\ revoke[r].pc = "account"
  BY <1>1 DEF TypeOK, RevokeAccount
<1>3. AccountsKnown'
  BY <1>2 DEF AccountInv, AccountsKnown
<1>4. RevocationsKnown'
  <2> SUFFICES ASSUME NEW x \in Revocations PROVE RevocationsKnown!(x)'
    BY DEF RevocationsKnown
  <2>1. revoke[x].pc # "new" => revoke[x].id \in Ids
    BY DEF TypeOK, BegunRequests
  <2> QED BY <1>1, <1>2, <2>1 DEF AccountInv, RevocationsKnown
<1>5. RevokedBySomebody'
  <2> SUFFICES ASSUME NEW i \in Ids, status'[i] = "revoked"
               PROVE  \E x \in Revocations :
                        revoke'[x].id = i /\ revoke'[x].pc \in {"token", "failed", "revoked"}
    BY DEF RevokedBySomebody
  <2>1. CASE i = id
    BY <1>1, <1>2, <2>1
  <2>2. CASE i # id
    BY <1>2, <2>2 DEF AccountInv, RevokedBySomebody
  <2> QED BY <2>1, <2>2
<1>6. TokenFollowsAccount'
  <2> SUFFICES ASSUME NEW i \in Ids PROVE TokenFollowsAccount!(i)'
    BY DEF TokenFollowsAccount
  <2>1. CASE i = id
    BY <1>1, <1>2, <2>1
  <2>2. CASE i # id
    BY <1>2, <2>2 DEF AccountInv, TokenFollowsAccount
  <2> QED BY <2>1, <2>2
<1> QED BY <1>3, <1>4, <1>5, <1>6 DEF AccountInv

LEMMA RevokeTokenKeeps ==
  ASSUME TypeOK, AccountInv, NEW r \in Revocations, RevokeToken(r)
  PROVE  AccountInv'
<1> DEFINE id == revoke[r].id
<1>1. /\ id \in Ids /\ status[id] = "revoked" /\ token[id] # "none" /\ revoke[r].had
      /\ revoke[r].pc = "token"
  BY DEF TypeOK, BegunRequests, AccountInv, RevocationsKnown, RevokeToken
<1>2. /\ revoke'[r].pc = "revoked" /\ revoke'[r].id = id /\ revoke'[r].had = revoke[r].had
      /\ \A x \in Revocations \ {r} : revoke'[x] = revoke[x]
      /\ UNCHANGED <<status, auth>> /\ token'[id] = "revoked"
      /\ \A i \in Ids \ {id} : token'[i] = token[i]
  BY <1>1 DEF TypeOK, RevokeToken
<1>3. AccountsKnown'
  <2>1. \A i \in Ids : token'[i] # "none" => token[i] # "none"
    BY <1>1, <1>2
  <2> QED BY <1>2, <2>1 DEF AccountInv, AccountsKnown
<1>4. RevocationsKnown'
  <2> SUFFICES ASSUME NEW x \in Revocations PROVE RevocationsKnown!(x)'
    BY DEF RevocationsKnown
  <2>1. revoke[x].pc # "new" => revoke[x].id \in Ids
    BY DEF TypeOK, BegunRequests
  <2> QED BY <1>1, <1>2, <2>1 DEF AccountInv, RevocationsKnown
<1>5. RevokedBySomebody'
  BY <1>1, <1>2 DEF AccountInv, RevokedBySomebody
<1>6. TokenFollowsAccount'
  <2> SUFFICES ASSUME NEW i \in Ids PROVE TokenFollowsAccount!(i)'
    BY DEF TokenFollowsAccount
  <2>1. CASE i = id
    BY <1>1, <1>2, <2>1
  <2>2. CASE i # id
    BY <1>2, <2>2 DEF AccountInv, TokenFollowsAccount
  <2> QED BY <2>1, <2>2
<1> QED BY <1>3, <1>4, <1>5, <1>6 DEF AccountInv

LEMMA ReadForRevokeKeeps ==
  ASSUME TypeOK, AccountInv, NEW r \in Revocations, NEW id \in Ids, ReadForRevoke(r, id)
  PROVE  AccountInv'
<1> DEFINE had == token[id] # "none"
           next == IF owner[id] = NoUser THEN "missing" ELSE "account"
<1>1. /\ next \in {"missing", "account"} /\ had \in BOOLEAN /\ (had => token[id] # "none")
      /\ revoke' = [revoke EXCEPT ![r] = [pc |-> next, id |-> id, had |-> had]]
      /\ revoke[r].pc = "new" /\ UNCHANGED <<status, token, auth>>
  BY DEF ReadForRevoke, accountVars
<1> HIDE DEF had, next
<1>2. /\ revoke'[r] = [pc |-> next, id |-> id, had |-> had]
      /\ \A x \in Revocations \ {r} : revoke'[x] = revoke[x]
  BY <1>1 DEF TypeOK
<1>3. AccountsKnown'
  BY <1>1 DEF AccountInv, AccountsKnown
<1>4. RevocationsKnown'
  BY <1>1, <1>2 DEF AccountInv, RevocationsKnown
<1>5. RevokedBySomebody'
  BY <1>1, <1>2 DEF AccountInv, RevokedBySomebody
<1>6. TokenFollowsAccount'
  BY <1>1, <1>2 DEF AccountInv, TokenFollowsAccount
<1> QED BY <1>3, <1>4, <1>5, <1>6 DEF AccountInv

LEMMA RevocationFailsKeeps ==
  ASSUME TypeOK, AccountInv, NEW r \in Revocations, RevocationFails(r)
  PROVE  AccountInv'
<1>1. /\ revoke'[r].pc = "failed" /\ revoke'[r].id = revoke[r].id
      /\ revoke'[r].had = revoke[r].had /\ revoke[r].pc \in {"account", "token"}
      /\ \A x \in Revocations \ {r} : revoke'[x] = revoke[x]
      /\ UNCHANGED <<status, token, auth>>
  BY DEF TypeOK, RevocationFails, Fault, accountVars
<1>2. AccountsKnown'
  BY <1>1 DEF AccountInv, AccountsKnown
<1>3. RevocationsKnown'
  BY <1>1 DEF AccountInv, RevocationsKnown
<1>4. RevokedBySomebody'
  BY <1>1 DEF AccountInv, RevokedBySomebody
<1>5. TokenFollowsAccount'
  BY <1>1 DEF AccountInv, TokenFollowsAccount
<1> QED BY <1>2, <1>3, <1>4, <1>5 DEF AccountInv

(* Beginning an authorisation, and its failure, touch no row.               *)
LEMMA AuthorizationKeeps ==
  ASSUME TypeOK, AccountInv, NEW a \in Authorizations,
         AuthorizationStep(a) \/ AuthorizationFails(a)
  PROVE  AccountInv'
<1>1. CASE \E u \in Users : BeginAuthorization(a, u)
  <2>1. /\ auth'[a].id \in {a} \cup Instants /\ auth'[a].pc = "save" /\ auth[a].pc = "new"
        /\ \A x \in Authorizations \ {a} : auth'[x] = auth[x]
        /\ UNCHANGED <<status, token, revoke>>
    BY <1>1 DEF TypeOK, BeginAuthorization, accountVars
  <2>2. AccountsKnown'
    BY <2>1 DEF AccountInv, AccountsKnown
  <2> QED BY <2>1, <2>2 DEF AccountInv, RevocationsKnown, RevokedBySomebody, TokenFollowsAccount
<1>2. CASE AuthorizationFails(a)
  <2>1. /\ auth'[a].id = auth[a].id /\ auth'[a].pc = "failed"
        /\ auth[a].pc \in {"save", "token"}
        /\ \A x \in Authorizations \ {a} : auth'[x] = auth[x]
        /\ UNCHANGED <<status, token, revoke>>
    BY <1>2 DEF TypeOK, AuthorizationFails, Fault, accountVars
  <2>2. AccountsKnown'
    BY <2>1 DEF AccountInv, AccountsKnown
  <2> QED BY <2>1, <2>2 DEF AccountInv, RevocationsKnown, RevokedBySomebody, TokenFollowsAccount
<1> QED BY <1>1, <1>2, SaveAccountKeeps, SaveTokenKeeps DEF AuthorizationStep

LEMMA SyncsLeaveAccounts ==
  ASSUME AccountInv, UNCHANGED <<status, token, auth, revoke>>
  PROVE  AccountInv'
BY DEF AccountInv, AccountsKnown, RevocationsKnown, RevokedBySomebody, TokenFollowsAccount

-----------------------------------------------------------------------------
(* What syncs maintain.                                                     *)

(* Calls are out only from the writing of the state row until the answer;   *)
(* a sync that failed may have left some.                                   *)
CallsOut ==
  /\ \A s \in Syncs : sync[s].pc \notin {"results", "failed"} => open[s] = {}

(* A sync was not over when it began, and those that were stay so.          *)
SettledOver ==
  \A s \in Syncs : s \notin settled[s] /\ \A x \in settled[s] : Over(x)

(* The account a sync read keeps the user the sync read with it.            *)
OwnersRead ==
  \A s \in Syncs : sync[s].pc \notin {"new", "missing"} => owner[sync[s].id] = sync[s].user

(* State rows were created by syncs of their account, which went on; who    *)
(* is past its write has a row, and no row of an earlier sync is found      *)
(* missing.                                                                 *)
StateRows ==
  /\ \A id \in Ids : syncState[id] # NoSync =>
       /\ sync[syncState[id]].id = id
       /\ sync[syncState[id]].pc \in {"results", "ok", "failed"}
  /\ \A s \in Syncs : sync[s].pc \in {"update", "results", "ok", "clash"} =>
       syncState[sync[s].id] # NoSync
  /\ \A s \in Syncs : sync[s].pc \in {"create", "clash"} =>
       syncState[sync[s].id] \notin settled[s]

(* What a sync in its last part has written, read off its open calls.       *)
ResultsWritten ==
  \A s \in Syncs : sync[s].pc \in {"results", "ok"} =>
    /\ "tasks" \in open[s] \/ tasks[sync[s].user] \notin settled[s] \cup {NoSync}
    /\ "briefing" \in open[s] \/ briefing[sync[s].user] \notin settled[s] \cup {NoSync}
    /\ "preferences" \in open[s] \/ Types \subseteq open[s] \cup messages[s]

(* Snapshots come from syncs of their user.                                 *)
Sources ==
  \A u \in Users : \A s \in {tasks[u], briefing[u]} \ {NoSync} :
    sync[s].user = u /\ sync[s].pc \in {"results", "ok", "failed"}

SyncInv ==
  CallsOut /\ SettledOver /\ OwnersRead /\ StateRows /\ ResultsWritten /\ Sources

(* A call that returns, with what it writes and starts.                     *)
Returned(s, call) ==
  /\ CallReturns(s, call, IF call = "preferences" THEN Types ELSE {})
  /\ tasks' = IF call = "tasks" THEN [tasks EXCEPT ![sync[s].user] = s] ELSE tasks
  /\ briefing' = IF call = "briefing" THEN [briefing EXCEPT ![sync[s].user] = s] ELSE briefing
  /\ messages' = IF call \in Types THEN [messages EXCEPT ![s] = @ \cup {call}] ELSE messages

LEMMA ReturnSteps ==
  ASSUME NEW s \in Syncs
  PROVE  /\ SaveTasks(s) => Returned(s, "tasks")
         /\ SaveBriefing(s) => Returned(s, "briefing")
         /\ ReadPreferences(s) => Returned(s, "preferences")
         /\ \A type \in Types : CreateMessage(s, type) => Returned(s, type)
BY DEF SaveTasks, SaveBriefing, ReadPreferences, CreateMessage, Returned, Types, resultVars

LEMMA ReturnKeeps ==
  ASSUME TypeOK, SyncInv, NEW s \in Syncs, NEW call \in Calls, Returned(s, call)
  PROVE  SyncInv'
<1> DEFINE left == (open[s] \ {call}) \cup (IF call = "preferences" THEN Types ELSE {})
           next == IF sync[s].pc = "results" /\ left = {} THEN "ok" ELSE sync[s].pc
           u == sync[s].user
<1>1. /\ call \in open[s] /\ open' = [open EXCEPT ![s] = left]
      /\ sync' = [sync EXCEPT ![s].pc = next]
      /\ UNCHANGED <<owner, syncState, settled>>
  BY DEF TypeOK, Returned, CallReturns, AllBack, accountVars
<1>2. sync[s].pc \in {"results", "failed"} /\ u \in Users
  BY <1>1 DEF TypeOK, BegunRequests, SyncInv, CallsOut
<1>3. /\ next \in {"results", "ok", "failed"}
      /\ next = "failed" <=> sync[s].pc = "failed"
      /\ next = "ok" => left = {}
  BY <1>2
<1> HIDE DEF next
<1>4. /\ open'[s] = left /\ sync'[s].pc = next
      /\ \A x \in Syncs : sync'[x].id = sync[x].id /\ sync'[x].user = sync[x].user
      /\ \A x \in Syncs \ {s} : open'[x] = open[x] /\ sync'[x] = sync[x]
  BY <1>1 DEF TypeOK
<1>5. /\ tasks' = IF call = "tasks" THEN [tasks EXCEPT ![u] = s] ELSE tasks
      /\ briefing' = IF call = "briefing" THEN [briefing EXCEPT ![u] = s] ELSE briefing
      /\ messages' = IF call \in Types THEN [messages EXCEPT ![s] = @ \cup {call}] ELSE messages
  BY DEF Returned
<1> HIDE DEF left, u
<1>6. \A x \in Syncs : s \notin settled[x]
  BY <1>1 DEF SyncInv, SettledOver, Over
<1>7. CallsOut'
  BY <1>2, <1>3, <1>4 DEF SyncInv, CallsOut
<1>8. SettledOver'
  <2> SUFFICES ASSUME NEW x \in Syncs, NEW y \in settled[x]
               PROVE  x \notin settled[x] /\ Over(y)'
    BY <1>1 DEF SyncInv, SettledOver
  <2>1. y \in Syncs /\ y # s /\ Over(y)
    BY <1>6 DEF SyncInv, SettledOver, TypeOK
  <2> QED BY <1>4, <2>1 DEF SyncInv, SettledOver, Over
<1>9. OwnersRead'
  BY <1>1, <1>2, <1>3, <1>4 DEF SyncInv, OwnersRead
<1>10. StateRows'
  <2>1. \A x \in Syncs : sync'[x].pc = sync[x].pc \/
          (sync[x].pc \in {"results", "failed"} /\ sync'[x].pc \in {"results", "ok", "failed"} /\
           (sync'[x].pc # "failed" => sync[x].pc = "results"))
    BY <1>2, <1>3, <1>4
  <2>2. \A id \in Ids : syncState[id] # NoSync => syncState[id] \in Syncs
    BY DEF TypeOK
  <2> QED BY <1>1, <1>4, <2>1, <2>2 DEF SyncInv, StateRows
<1>11. ResultsWritten'
  <2> SUFFICES ASSUME NEW x \in Syncs, sync'[x].pc \in {"results", "ok"}
               PROVE  ResultsWritten!(x)!2'
    BY DEF ResultsWritten
  <2>1. sync[x].pc \in {"results", "ok"} /\ sync'[x].user = sync[x].user /\ sync[x].user \in Users
    BY <1>2, <1>3, <1>4 DEF TypeOK, BegunRequests
  <2>2. s \notin settled[x] \cup {NoSync}
    BY <1>6, ConnectorAssumption
  <2>3. \A c \in Calls \ {call} : c \in open[x] => c \in open'[x]
    BY <1>4 DEF left
  <2>4. /\ "tasks" \in Calls /\ "briefing" \in Calls /\ "preferences" \in Calls
        /\ Types \subseteq Calls \ {"tasks", "briefing", "preferences"}
    BY DEF Calls, Types
  <2>5. "tasks" \in open'[x] \/ tasks'[sync[x].user] \notin settled[x] \cup {NoSync}
    <3>1. CASE x = s /\ call = "tasks"
      BY <1>2, <1>5, <2>2, <3>1 DEF u, TypeOK
    <3>2. CASE x # s \/ call # "tasks"
      <4>1. "tasks" \in open[x] => "tasks" \in open'[x]
        BY <1>4, <2>3, <2>4, <3>2
      <4>2. tasks[sync[x].user] \notin settled[x] \cup {NoSync} =>
              tasks'[sync[x].user] \notin settled[x] \cup {NoSync}
        BY <1>5, <2>1, <2>2 DEF TypeOK
      <4> QED BY <2>1, <4>1, <4>2 DEF SyncInv, ResultsWritten
    <3> QED BY <3>1, <3>2
  <2>6. "briefing" \in open'[x] \/ briefing'[sync[x].user] \notin settled[x] \cup {NoSync}
    <3>1. CASE x = s /\ call = "briefing"
      BY <1>2, <1>5, <2>2, <3>1 DEF u, TypeOK
    <3>2. CASE x # s \/ call # "briefing"
      <4>1. "briefing" \in open[x] => "briefing" \in open'[x]
        BY <1>4, <2>3, <2>4, <3>2
      <4>2. briefing[sync[x].user] \notin settled[x] \cup {NoSync} =>
              briefing'[sync[x].user] \notin settled[x] \cup {NoSync}
        BY <1>5, <2>1, <2>2 DEF TypeOK
      <4> QED BY <2>1, <4>1, <4>2 DEF SyncInv, ResultsWritten
    <3> QED BY <3>1, <3>2
  <2>7. "preferences" \in open'[x] \/ Types \subseteq open'[x] \cup messages'[x]
    <3>1. CASE x = s /\ call = "preferences"
      BY <1>4, <3>1 DEF left
    <3>2. CASE x = s /\ call # "preferences"
      <4>1. "preferences" \in open[s] => "preferences" \in open'[s]
        BY <2>3, <2>4, <3>2
      <4>2. messages'[s] = IF call \in Types THEN messages[s] \cup {call} ELSE messages[s]
        BY <1>5 DEF TypeOK
      <4>3. Types \subseteq open[s] \cup messages[s] => Types \subseteq open'[s] \cup messages'[s]
        BY <2>3, <2>4, <3>2, <4>2
      <4> QED BY <2>1, <3>2, <4>1, <4>3 DEF SyncInv, ResultsWritten
    <3>3. CASE x # s
      <4>1. open'[x] = open[x] /\ messages'[x] = messages[x]
        BY <1>4, <1>5, <3>3 DEF TypeOK
      <4> QED BY <2>1, <4>1 DEF SyncInv, ResultsWritten
    <3> QED BY <3>1, <3>2, <3>3
  <2> QED BY <1>1, <2>1, <2>5, <2>6, <2>7
<1>12. Sources'
  <2> SUFFICES ASSUME NEW v \in Users, NEW x \in {tasks'[v], briefing'[v]} \ {NoSync}
               PROVE  sync'[x].user = v /\ sync'[x].pc \in {"results", "ok", "failed"}
    BY DEF Sources
  <2>1. CASE x = s /\ v = u
    BY <1>3, <1>4, <2>1 DEF u
  <2>2. CASE x # s \/ v # u
    <3>1. x \in {tasks[v], briefing[v]} \ {NoSync}
      BY <1>2, <1>5, <2>2 DEF TypeOK
    <3>2. x \in Syncs /\ sync[x].user = v /\ sync[x].pc \in {"results", "ok", "failed"}
      BY <3>1 DEF SyncInv, Sources, TypeOK
    <3> QED BY <1>3, <1>4, <3>2
  <2> QED BY <2>1, <2>2
<1> QED BY <1>7, <1>8, <1>9, <1>10, <1>11, <1>12 DEF SyncInv

LEMMA ReadAccountKeeps ==
  ASSUME TypeOK, SyncInv, NEW s \in Syncs, NEW id \in Ids, ReadAccount(s, id)
  PROVE  SyncInv'
<1>1. /\ sync[s].pc = "new" /\ sync'[s].pc \in {"missing", "find"}
      /\ sync'[s].id = id /\ sync'[s].user = owner[id]
      /\ \A x \in Syncs \ {s} : sync'[x] = sync[x]
      /\ settled'[s] = {x \in Syncs : Over(x)}
      /\ \A x \in Syncs \ {s} : settled'[x] = settled[x]
      /\ UNCHANGED <<owner, syncState, tasks, briefing, messages, open>>
  BY DEF TypeOK, ReadAccount, accountVars, resultVars
<1>2. ~Over(s) /\ open[s] = {}
  BY <1>1 DEF SyncInv, CallsOut, Over, SyncEnds
<1>3. CallsOut'
  BY <1>1, <1>2 DEF SyncInv, CallsOut
<1>4. SettledOver'
  <2> SUFFICES ASSUME NEW x \in Syncs
               PROVE  x \notin settled'[x] /\ \A y \in settled'[x] : Over(y)'
    BY DEF SettledOver
  <2>1. \A y \in Syncs \ {s} : Over(y)' <=> Over(y)
    BY <1>1 DEF Over
  <2>2. \A y \in settled'[x] : y \in Syncs \ {s} /\ Over(y)
    BY <1>1, <1>2 DEF SyncInv, SettledOver, TypeOK
  <2>3. x \notin settled'[x]
    BY <1>1, <1>2 DEF SyncInv, SettledOver
  <2> QED BY <2>1, <2>2, <2>3
<1>5. OwnersRead'
  BY <1>1 DEF SyncInv, OwnersRead
<1>6. StateRows'
  <2>1. \A i \in Ids : syncState[i] # NoSync => syncState[i] \in Syncs \ {s}
    BY <1>1 DEF SyncInv, StateRows, TypeOK
  <2> QED BY <1>1, <2>1 DEF SyncInv, StateRows
<1>7. ResultsWritten'
  BY <1>1 DEF SyncInv, ResultsWritten
<1>8. Sources'
  <2>1. \A v \in Users : \A x \in {tasks[v], briefing[v]} \ {NoSync} : x \in Syncs \ {s}
    BY <1>1 DEF SyncInv, Sources, TypeOK
  <2> QED BY <1>1, <2>1 DEF SyncInv, Sources
<1> QED BY <1>3, <1>4, <1>5, <1>6, <1>7, <1>8 DEF SyncInv

LEMMA FindStateKeeps ==
  ASSUME TypeOK, SyncInv, NEW s \in Syncs, FindState(s)
  PROVE  SyncInv'
<1>1. /\ sync[s].pc = "find"
      /\ \/ sync'[s].pc = "update" /\ syncState[sync[s].id] # NoSync
         \/ sync'[s].pc = "create" /\ syncState[sync[s].id] = NoSync
      /\ sync'[s].id = sync[s].id /\ sync'[s].user = sync[s].user
      /\ \A x \in Syncs \ {s} : sync'[x] = sync[x]
      /\ UNCHANGED <<owner, syncState, tasks, briefing, messages, open, settled>>
  BY DEF TypeOK, FindState, RowFound, accountVars, resultVars
<1>2. CallsOut'
  BY <1>1 DEF SyncInv, CallsOut
<1>3. SettledOver'
  <2>1. \A x \in Syncs : Over(x) => Over(x)'
    BY <1>1 DEF Over, SyncEnds
  <2> QED BY <1>1, <2>1 DEF SyncInv, SettledOver, TypeOK
<1>4. OwnersRead'
  BY <1>1 DEF SyncInv, OwnersRead
<1>5. StateRows'
  <2>1. \A i \in Ids : syncState[i] # NoSync => syncState[i] \in Syncs \ {s}
    BY <1>1 DEF SyncInv, StateRows, TypeOK
  <2>2. NoSync \notin settled[s]
    BY ConnectorAssumption DEF TypeOK
  <2> QED BY <1>1, <2>1, <2>2 DEF SyncInv, StateRows
<1>6. ResultsWritten'
  BY <1>1 DEF SyncInv, ResultsWritten
<1>7. Sources'
  <2>1. \A v \in Users : \A x \in {tasks[v], briefing[v]} \ {NoSync} : x \in Syncs \ {s}
    BY <1>1 DEF SyncInv, Sources, TypeOK
  <2> QED BY <1>1, <2>1 DEF SyncInv, Sources
<1> QED BY <1>2, <1>3, <1>4, <1>5, <1>6, <1>7 DEF SyncInv

LEMMA StateWrittenKeeps ==
  ASSUME TypeOK, SyncInv, NEW s \in Syncs, UpdateState(s) \/ CreateState(s)
  PROVE  SyncInv'
<1>1. /\ sync[s].pc \in {"update", "create"} /\ sync'[s].pc = "results"
      /\ sync'[s].id = sync[s].id /\ sync'[s].user = sync[s].user
      /\ \A x \in Syncs \ {s} : sync'[x] = sync[x]
      /\ open'[s] = {"tasks", "briefing", "preferences"}
      /\ \A x \in Syncs \ {s} : open'[x] = open[x]
      /\ UNCHANGED <<owner, tasks, briefing, messages, settled>>
  BY DEF TypeOK, UpdateState, CreateState, StartResults, accountVars, resultVars
<1>2. sync[s].id \in Ids
  BY <1>1 DEF TypeOK, BegunRequests
<1>3. \/ syncState' = syncState /\ syncState[sync[s].id] # NoSync
      \/ /\ syncState[sync[s].id] = NoSync /\ syncState'[sync[s].id] = s
         /\ \A i \in Ids \ {sync[s].id} : syncState'[i] = syncState[i]
  BY <1>2 DEF TypeOK, UpdateState, CreateState, RowTaken, SyncInv, StateRows
<1>4. s # NoSync /\ \A x \in Syncs : s \notin settled[x]
  BY <1>1, ConnectorAssumption DEF SyncInv, SettledOver, Over, SyncEnds
<1>5. CallsOut'
  BY <1>1 DEF SyncInv, CallsOut
<1>6. SettledOver'
  <2>1. \A x \in Syncs \ {s} : Over(x) => Over(x)'
    BY <1>1 DEF Over
  <2> QED BY <1>1, <1>4, <2>1 DEF SyncInv, SettledOver, TypeOK
<1>7. OwnersRead'
  BY <1>1 DEF SyncInv, OwnersRead
<1>8. StateRows'
  <2>1. \A i \in Ids : syncState[i] # NoSync => syncState[i] \in Syncs \ {s}
    BY <1>1 DEF SyncInv, StateRows, TypeOK
  <2>2. \A x \in Syncs : sync[x].pc # "new" => sync[x].id \in Ids
    BY DEF TypeOK, BegunRequests
  <2>3. ASSUME NEW i \in Ids, syncState'[i] # NoSync
        PROVE  sync'[syncState'[i]].id = i /\ sync'[syncState'[i]].pc \in {"results", "ok", "failed"}
    <3>1. CASE syncState'[i] = syncState[i]
      BY <1>1, <2>1, <2>3, <3>1 DEF SyncInv, StateRows
    <3>2. CASE syncState'[i] # syncState[i]
      BY <1>1, <1>3, <3>2
    <3> QED BY <3>1, <3>2
  <2>4. ASSUME NEW x \in Syncs, sync'[x].pc \in {"update", "results", "ok", "clash"}
        PROVE  syncState'[sync'[x].id] # NoSync
    <3>1. CASE x = s
      BY <1>1, <1>3, <1>4, <3>1
    <3>2. CASE x # s
      BY <1>1, <1>3, <1>4, <2>2, <2>4, <3>2 DEF SyncInv, StateRows
    <3> QED BY <3>1, <3>2
  <2>5. ASSUME NEW x \in Syncs, sync'[x].pc \in {"create", "clash"}
        PROVE  syncState'[sync'[x].id] \notin settled'[x]
    BY <1>1, <1>3, <1>4, <2>2, <2>5 DEF SyncInv, StateRows
  <2> QED BY <2>3, <2>4, <2>5 DEF StateRows
<1>9. ResultsWritten'
  BY <1>1 DEF SyncInv, ResultsWritten
<1>10. Sources'
  <2>1. \A v \in Users : \A x \in {tasks[v], briefing[v]} \ {NoSync} : x \in Syncs \ {s}
    BY <1>1 DEF SyncInv, Sources, TypeOK
  <2> QED BY <1>1, <2>1 DEF SyncInv, Sources
<1> QED BY <1>5, <1>6, <1>7, <1>8, <1>9, <1>10 DEF SyncInv

LEMMA StateClashKeeps ==
  ASSUME TypeOK, SyncInv, NEW s \in Syncs, StateClash(s)
  PROVE  SyncInv'
<1>1. /\ sync[s].pc = "create" /\ sync'[s].pc = "clash" /\ syncState[sync[s].id] # NoSync
      /\ sync'[s].id = sync[s].id /\ sync'[s].user = sync[s].user
      /\ \A x \in Syncs \ {s} : sync'[x] = sync[x]
      /\ UNCHANGED <<owner, syncState, tasks, briefing, messages, open, settled>>
  BY DEF TypeOK, StateClash, RowTaken, accountVars, resultVars
<1>2. CallsOut'
  BY <1>1 DEF SyncInv, CallsOut
<1>3. SettledOver'
  <2>1. \A x \in Syncs : Over(x) => Over(x)'
    BY <1>1 DEF Over, SyncEnds
  <2> QED BY <1>1, <2>1 DEF SyncInv, SettledOver, TypeOK
<1>4. OwnersRead'
  BY <1>1 DEF SyncInv, OwnersRead
<1>5. StateRows'
  <2>1. \A i \in Ids : syncState[i] # NoSync => syncState[i] \in Syncs \ {s}
    BY <1>1 DEF SyncInv, StateRows, TypeOK
  <2> QED BY <1>1, <2>1 DEF SyncInv, StateRows
<1>6. ResultsWritten'
  BY <1>1 DEF SyncInv, ResultsWritten
<1>7. Sources'
  <2>1. \A v \in Users : \A x \in {tasks[v], briefing[v]} \ {NoSync} : x \in Syncs \ {s}
    BY <1>1 DEF SyncInv, Sources, TypeOK
  <2> QED BY <1>1, <2>1 DEF SyncInv, Sources
<1> QED BY <1>2, <1>3, <1>4, <1>5, <1>6, <1>7 DEF SyncInv

LEMMA SyncFaultKeeps ==
  ASSUME TypeOK, SyncInv, NEW s \in Syncs,
         SyncFails(s) \/ \E call \in Calls : CallFails(s, call)
  PROVE  SyncInv'
<1>1. /\ sync[s].pc \in {"find", "create", "update", "results", "failed"}
      /\ sync'[s].pc = "failed"
      /\ sync'[s].id = sync[s].id /\ sync'[s].user = sync[s].user
      /\ \A x \in Syncs \ {s} : sync'[x] = sync[x] /\ open'[x] = open[x]
      /\ UNCHANGED <<owner, syncState, tasks, briefing, messages, settled>>
  BY DEF TypeOK, SyncInv, CallsOut, SyncFails, CallFails, Fault, SyncSteps, accountVars, resultVars
<1>2. ~Over(s)
  <2>1. CASE SyncFails(s)
    BY <2>1 DEF SyncFails, Over, SyncSteps, SyncEnds
  <2>2. CASE \E call \in Calls : CallFails(s, call)
    BY <2>2 DEF CallFails, Over
  <2> QED BY <2>1, <2>2
<1>3. CallsOut'
  BY <1>1 DEF SyncInv, CallsOut
<1>4. SettledOver'
  <2>1. \A x \in Syncs : Over(x) => Over(x)'
    BY <1>1, <1>2 DEF Over
  <2> QED BY <1>1, <2>1 DEF SyncInv, SettledOver, TypeOK
<1>5. OwnersRead'
  BY <1>1 DEF SyncInv, OwnersRead
<1>6. StateRows'
  <2>1. \A i \in Ids : syncState[i] # NoSync => syncState[i] \in Syncs
    BY DEF TypeOK
  <2> QED BY <1>1, <2>1 DEF SyncInv, StateRows
<1>7. ResultsWritten'
  BY <1>1 DEF SyncInv, ResultsWritten
<1>8. Sources'
  <2>1. \A v \in Users : \A x \in {tasks[v], briefing[v]} \ {NoSync} : x \in Syncs
    BY DEF TypeOK
  <2> QED BY <1>1, <2>1 DEF SyncInv, Sources
<1> QED BY <1>3, <1>4, <1>5, <1>6, <1>7, <1>8 DEF SyncInv

(* Authorisations and revocations write nothing of a sync, and the upsert   *)
(* of an account leaves the user of one that a sync has read.               *)
LEMMA AccountsLeaveSyncs ==
  ASSUME TypeOK, SyncInv, UNCHANGED <<syncState, resultVars, syncVars>>,
         \A id \in Ids : owner[id] # NoUser => owner'[id] = owner[id]
  PROVE  SyncInv'
<1>1. UNCHANGED <<syncState, tasks, briefing, messages, sync, open, settled>>
  BY DEF resultVars, syncVars
<1>2. OwnersRead'
  <2>1. \A x \in Syncs : sync[x].pc \notin {"new", "missing"} =>
          sync[x].id \in Ids /\ sync[x].user # NoUser
    BY ConnectorAssumption DEF TypeOK, BegunRequests
  <2> QED BY <1>1, <2>1 DEF SyncInv, OwnersRead
<1>3. CallsOut' /\ StateRows' /\ ResultsWritten' /\ Sources'
  BY <1>1 DEF SyncInv, CallsOut, StateRows, ResultsWritten, Sources
<1>4. SettledOver'
  BY <1>1 DEF SyncInv, SettledOver, Over
<1> QED BY <1>2, <1>3, <1>4 DEF SyncInv

LEMMA SyncKeeps ==
  ASSUME TypeOK, SyncInv, NEW s \in Syncs, SyncStep(s)
  PROVE  SyncInv'
<1>1. ASSUME NEW type \in Types, CreateMessage(s, type) PROVE SyncInv'
  <2>1. type \in Calls
    BY DEF Calls
  <2> QED BY <1>1, <2>1, ReturnSteps, ReturnKeeps
<1>2. {"tasks", "briefing", "preferences"} \subseteq Calls
  BY DEF Calls
<1>3. CASE SaveTasks(s) \/ SaveBriefing(s) \/ ReadPreferences(s)
  BY <1>2, <1>3, ReturnSteps, ReturnKeeps
<1> QED
  BY <1>1, <1>3, ReadAccountKeeps, FindStateKeeps, StateWrittenKeeps, StateClashKeeps
  DEF SyncStep

-----------------------------------------------------------------------------
(* The whole invariant. *)

IInv == TypeOK /\ AccountInv /\ SyncInv

LEMMA InitIInv == ASSUME Init PROVE IInv
<1>1. AccountInv
  BY DEF Init, AccountInv, AccountsKnown, RevocationsKnown, RevokedBySomebody, TokenFollowsAccount
<1>2. SyncInv
  BY DEF Init, SyncInv, CallsOut, SettledOver, OwnersRead, StateRows, ResultsWritten, Sources
<1> QED BY <1>1, <1>2, InitTypeOK DEF IInv

LEMMA Inductive == IInv /\ [Next]_vars => IInv'
<1> SUFFICES ASSUME IInv, [Next]_vars PROVE IInv'
  OBVIOUS
<1> USE DEF IInv
<1>0. \A s \in Syncs : open[s] # {} => sync[s].pc \notin {"new", "missing"}
  BY DEF SyncInv, CallsOut
<1>1. ASSUME NEW a \in Authorizations, AuthorizationStep(a) \/ AuthorizationFails(a)
      PROVE  IInv'
  <2>1. TypeOK'
    BY <1>0, <1>1, AuthorizationType, FaultType
  <2>2. UNCHANGED <<syncState, resultVars, syncVars>>
    BY <1>1 DEF AuthorizationStep, AuthorizationFails, BeginAuthorization, SaveAccount, SaveToken, Fault
  <2>3. \A id \in Ids : owner[id] # NoUser => owner'[id] = owner[id]
    BY <1>1 DEF AuthorizationStep, AuthorizationFails, BeginAuthorization, SaveAccount, SaveToken,
                Fault, OwnerAfterSave, TypeOK, accountVars
  <2> QED BY <1>1, <2>1, <2>2, <2>3, AuthorizationKeeps, AccountsLeaveSyncs
<1>2. ASSUME NEW r \in Revocations, RevocationStep(r) \/ RevocationFails(r)
      PROVE  IInv'
  <2>1. TypeOK'
    BY <1>0, <1>2, RevocationType, FaultType
  <2>2. UNCHANGED <<owner, syncState, resultVars, syncVars>>
    BY <1>2 DEF RevocationStep, RevocationFails, ReadForRevoke, RevokeAccount, RevokeToken, Fault,
                accountVars
  <2>3. AccountInv'
    BY <1>2, ReadForRevokeKeeps, RevokeAccountKeeps, RevokeTokenKeeps, RevocationFailsKeeps
    DEF RevocationStep
  <2> QED BY <2>1, <2>2, <2>3, AccountsLeaveSyncs
<1>3. ASSUME NEW s \in Syncs, SyncStep(s)
      PROVE  IInv'
  <2>1. TypeOK'
    BY <1>0, <1>3, SyncType
  <2>2. UNCHANGED <<status, token, auth, revoke>>
    BY <1>3 DEF SyncStep, ReadAccount, FindState, UpdateState, CreateState, StartResults, StateClash,
                SaveTasks, SaveBriefing, ReadPreferences, CreateMessage, CallReturns, accountVars
  <2> QED BY <1>3, <2>1, <2>2, SyncKeeps, SyncsLeaveAccounts
<1>4. ASSUME NEW s \in Syncs, SyncFails(s) \/ \E call \in Calls : CallFails(s, call)
      PROVE  IInv'
  <2>1. TypeOK'
    BY <1>0, <1>4, FaultType
  <2>2. UNCHANGED <<status, token, auth, revoke>>
    BY <1>4 DEF SyncFails, CallFails, Fault, accountVars
  <2> QED BY <1>4, <2>1, <2>2, SyncFaultKeeps, SyncsLeaveAccounts
<1>5. CASE UNCHANGED vars
  <2>1. UNCHANGED <<accountVars, syncState, resultVars, auth, syncVars, revoke, faults>>
    BY <1>5 DEF vars
  <2>2. TypeOK'
    BY <2>1 DEF TypeOK, BegunRequests, accountVars, resultVars, syncVars
  <2>3. UNCHANGED <<owner, status, token, auth, revoke>>
    BY <2>1 DEF accountVars
  <2> QED BY <2>1, <2>2, <2>3, AccountsLeaveSyncs, SyncsLeaveAccounts
<1> QED BY <1>1, <1>2, <1>3, <1>4, <1>5 DEF Next

LEMMA Invariant == Spec => []IInv
<1>1. Init => IInv
  BY InitIInv
<1> QED BY <1>1, Inductive, PTL DEF Spec

-----------------------------------------------------------------------------
(* Theorems. *)

(* Every row and request keeps its type.                                    *)
THEOREM TypeCorrect == Spec => []TypeOK
<1>1. IInv => TypeOK
  BY DEF IInv
<1> QED BY <1>1, Invariant, PTL

(* Account and token agree on a revocation, with the exceptions             *)
(* TokenFollowsAccount names.                                               *)
THEOREM TokensFollowAccounts == Spec => []TokenFollowsAccount
<1>1. IInv => TokenFollowsAccount
  BY DEF IInv, AccountInv
<1> QED BY <1>1, Invariant, PTL

(* A sync answered without an error has done everything, and no result of   *)
(* an earlier sync stands over its own.                                     *)
THEOREM AnsweredAreWhole == Spec => []AnsweredWhole
<1>1. IInv => AnsweredWhole
  <2> SUFFICES ASSUME IInv, NEW s \in Syncs, sync[s].pc = "ok"
               PROVE  AnsweredWhole!(s)!2
    BY DEF AnsweredWhole
  <2>1. open[s] = {}
    BY DEF IInv, SyncInv, CallsOut
  <2>2. messages[s] \subseteq Types
    BY DEF IInv, TypeOK
  <2> QED BY <2>1, <2>2 DEF IInv, SyncInv, StateRows, ResultsWritten
<1> QED BY <1>1, Invariant, PTL

(* A sync loses the creation of the state row only to a sync of the same    *)
(* account that ran with it.                                                *)
THEOREM ClashesAreExplained == Spec => []ClashExplained
<1>1. IInv => ClashExplained
  <2> SUFFICES ASSUME IInv, NEW s \in Syncs, sync[s].pc = "clash"
               PROVE  ClashExplained!(s)!2
    BY DEF ClashExplained
  <2>1. sync[s].id \in Ids
    BY DEF IInv, TypeOK, BegunRequests
  <2> QED BY <2>1 DEF IInv, SyncInv, StateRows
<1> QED BY <1>1, Invariant, PTL

(* A user's snapshots come from the user's own accounts.                    *)
THEOREM SnapshotsAreOfOwners == Spec => []SnapshotsOfOwner
<1>1. IInv => SnapshotsOfOwner
  <2> SUFFICES ASSUME IInv, NEW u \in Users, NEW s \in {tasks[u], briefing[u]} \ {NoSync}
               PROVE  owner[sync[s].id] = u
    BY DEF SnapshotsOfOwner
  <2>1. s \in Syncs
    BY DEF IInv, TypeOK
  <2> QED BY <2>1 DEF IInv, SyncInv, Sources, OwnersRead
<1> QED BY <1>1, Invariant, PTL

(* Of the syncs of an account, ended without a fault, one has succeeded:    *)
(* who lost the creation of the state row lost it to one that went on.      *)
THEOREM OneSyncOfAccountSucceeds == Spec => []OneSyncSucceeds
<1>1. IInv /\ AnsweredWhole /\ ClashExplained => OneSyncSucceeds
  <2> SUFFICES ASSUME IInv, AnsweredWhole, ClashExplained, NEW id \in Ids,
                      NEW s \in Syncs, sync[s].id = id, sync[s].pc # "missing",
                      \A x \in Syncs : sync[x].id = id /\ sync[x].pc # "missing" =>
                        Over(x) /\ sync[x].pc # "failed"
               PROVE  \E x \in Syncs :
                        /\ sync[x].id = id /\ sync[x].pc # "missing"
                        /\ sync[x].pc = "ok" /\ messages[x] = Types
    BY DEF OneSyncSucceeds
  <2>1. sync[s].pc \in {"ok", "clash"}
    BY DEF Over, SyncEnds
  <2>2. CASE sync[s].pc = "ok"
    BY <2>2 DEF AnsweredWhole
  <2>3. CASE sync[s].pc = "clash"
    <3> DEFINE winner == syncState[id]
    <3>1. winner \in Syncs /\ sync[winner].id = id
      BY <2>3 DEF ClashExplained, IInv, TypeOK
    <3>2. sync[winner].pc \in {"results", "ok", "failed"}
      BY <2>3 DEF ClashExplained
    <3>3. sync[winner].pc = "ok"
      BY <3>1, <3>2 DEF Over, SyncEnds
    <3> QED BY <3>1, <3>3 DEF AnsweredWhole
  <2> QED BY <2>1, <2>2, <2>3
<1> QED BY <1>1, Invariant, AnsweredAreWhole, ClashesAreExplained, PTL

(* Today's snapshots never go back to a sync that was over before the one   *)
(* they came from: a sync that is over writes no more.                      *)
THEOREM SnapshotsMoveOn == Spec => SnapshotsNotSetBack
<1>1. IInv /\ [Next]_vars => NewerThan(tasks, tasks') /\ NewerThan(briefing, briefing')
  <2> SUFFICES ASSUME IInv, [Next]_vars
               PROVE  NewerThan(tasks, tasks') /\ NewerThan(briefing, briefing')
    OBVIOUS
  <2> DEFINE Kept == \A u \in Users : tasks'[u] = tasks[u] /\ briefing'[u] = briefing[u]
  <2>1. /\ tasks \in [Users -> Syncs \cup {NoSync}]
        /\ briefing \in [Users -> Syncs \cup {NoSync}]
    BY DEF IInv, TypeOK
  <2>2. \A s \in Syncs : s \notin settled[s] /\ \A x \in settled[s] : Over(x)
    BY DEF IInv, SyncInv, SettledOver
  <2>3. \A s \in Syncs : s # NoSync
    BY ConnectorAssumption
  <2>4. CASE Kept
    BY <2>1, <2>2, <2>3, <2>4 DEF NewerThan, IInv, TypeOK
  <2>5. ASSUME NEW s \in Syncs, SaveTasks(s) \/ SaveBriefing(s)
        PROVE  NewerThan(tasks, tasks') /\ NewerThan(briefing, briefing')
    <3>1. ~Over(s)
      BY <2>5 DEF SaveTasks, SaveBriefing, CallReturns, Over
    <3>2. \A u \in Users : tasks'[u] \in {tasks[u], s} /\ briefing'[u] \in {briefing[u], s}
      BY <2>1, <2>5 DEF SaveTasks, SaveBriefing
    <3> QED BY <2>1, <2>2, <2>3, <3>1, <3>2 DEF NewerThan, IInv, TypeOK
  <2>6. ASSUME NEW a \in Authorizations, AuthorizationStep(a) \/ AuthorizationFails(a)
        PROVE  Kept
    BY <2>6 DEF AuthorizationStep, AuthorizationFails, BeginAuthorization, SaveAccount,
                SaveToken, Fault, resultVars
  <2>7. ASSUME NEW r \in Revocations, RevocationStep(r) \/ RevocationFails(r) PROVE Kept
    BY <2>7 DEF RevocationStep, RevocationFails, ReadForRevoke, RevokeAccount, RevokeToken,
                Fault, resultVars
  <2>8. ASSUME NEW s \in Syncs, \/ SyncFails(s)
                               \/ \E call \in Calls : CallFails(s, call)
        PROVE  Kept
    BY <2>8 DEF SyncFails, CallFails, Fault, resultVars
  <2>9. ASSUME NEW s \in Syncs, SyncStep(s), ~SaveTasks(s), ~SaveBriefing(s) PROVE Kept
    BY <2>9 DEF SyncStep, ReadAccount, FindState, UpdateState, CreateState, StartResults,
                StateClash, ReadPreferences, CreateMessage, resultVars
  <2>10. CASE UNCHANGED vars
    BY <2>4, <2>10 DEF vars, resultVars
  <2> QED BY <2>4, <2>5, <2>6, <2>7, <2>8, <2>9, <2>10 DEF Next
<1> QED BY <1>1, Invariant, PTL DEF Spec, SnapshotsNotSetBack
=============================================================================
