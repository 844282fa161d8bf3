--------------------------- MODULE AuthServiceProofs ---------------------------
(***************************************************************************)
(* Theorems about AuthService, for any number of calls, accounts and       *)
(* organisations and whoever calls.                                        *)
(***************************************************************************)
EXTENDS AuthService, TLAPS

(* What a call has at each of its steps.                                    *)
CallsSound ==
  /\ \A c \in Calls : call[c].pc \in LoginSteps =>
       call[c].subject \in Subjects /\ call[c].mail \in Addresses
  /\ \A c \in Calls : call[c].pc \in {"link", "session"} => call[c].user \in People
  /\ \A c \in Calls :
       call[c].pc \in {"move", "check"} => call[c].user \in People /\ call[c].org \in Orgs

(* The row a call will write is not there yet.                              *)
RowsFresh ==
  \A c \in Calls :
    /\ call[c].pc \in Running \cup {"idle"} => session[c].status = "none"
    /\ call[c].pc \in {"idle", "identity", "user", "create"} => mail[c] = NoMail

(* Histories only ever hold what is still so.                               *)
PastHolds ==
  /\ mail[SeededUser] = SeededMail
  /\ \A c \in Calls : revokedAt[c] \subseteq Revoked
  /\ \A c \in Calls : usersAt[c] \subseteq Users
  /\ \A c \in Calls : call[c].pc # "idle" => SeededUser \in usersAt[c]
  /\ \A c \in Calls : mail[c] # NoMail => call[c].pc # "idle"

(* A call that is to create a user found nobody with the address.           *)
NobodyAt(c, m) == m \in Mails => \A u \in usersAt[c] : mail[u] # m
NobodyFound == \A c \in Calls : call[c].pc = "create" => NobodyAt(c, call[c].mail)

ServiceInv ==
  /\ ServiceTypeOK /\ CallsSound /\ RowsFresh /\ PastHolds /\ NobodyFound
  /\ RevokedRefused /\ DuplicatesOverlapped

CallRecords == [pc : Running \cup {"idle", "answered", "failed"},
                token : Tokens \cup {NoToken, DemoToken},
                subject : Subjects \cup {NoSubject},
                mail : Addresses \cup {NoMail},
                user : People \cup {NoUser}, org : Orgs \cup {NoOrg}]

IdentityRecords == [user : People \cup {NoUser}, key : People \cup {NoUser}]

SessionRecords == [status : {"none", "active", "revoked"},
                   user : People \cup {NoUser}, org : Orgs \cup {NoOrg}]

(* What a running call c may become without breaking the invariant.         *)
MayBecome(c, r) ==
  /\ r \in CallRecords
  /\ r.pc # "idle"
  /\ r.pc \in LoginSteps => r.subject \in Subjects /\ r.mail \in Addresses
  /\ r.pc \in {"link", "session"} => r.user \in People
  /\ r.pc \in {"move", "check"} => r.user \in People /\ r.org \in Orgs
  /\ r.pc \in {"identity", "user", "create"} => mail[c] = NoMail
  /\ r.pc = "create" => NobodyAt(c, r.mail)
  /\ r.pc = "answered" => r.token \notin revokedAt[c]

-----------------------------------------------------------------------------
(* An address of a profile is not the mark of a missing row.                *)
LEMMA AddressNotNoMail == \A m \in Addresses : m # NoMail
  BY AuthAssumption DEF Addresses

(* The invariant holds at the start.                                        *)
LEMMA InitInv == ServiceInit => ServiceInv
<1> SUFFICES ASSUME ServiceInit PROVE ServiceInv
  OBVIOUS
<1> USE AuthAssumption DEF ServiceInit
<1>1. ServiceTypeOK
  BY DEF ServiceTypeOK, Idle, NotLinked, Lifecycle!NoSession, Addresses, People, Tokens
<1>2. CallsSound
  BY DEF CallsSound, Idle, LoginSteps
<1>3. RowsFresh
  BY DEF RowsFresh, Idle, Lifecycle!NoSession, People, Tokens
<1>4. PastHolds
  BY DEF PastHolds, Idle, People, Addresses
<1>5. NobodyFound
  BY DEF NobodyFound, Idle
<1>6. RevokedRefused
  BY DEF RevokedRefused, Idle
<1>7. DuplicatesOverlapped
  BY DEF DuplicatesOverlapped, People, Addresses
<1>8. QED
  BY <1>1, <1>2, <1>3, <1>4, <1>5, <1>6, <1>7 DEF ServiceInv

-----------------------------------------------------------------------------
(* Steps that change one call, identities and sessions, and what they may   *)
(* make of them: no revoked session is revived, no row made but the call's. *)
LEMMA RowsChange ==
  ASSUME ServiceInv, NEW c \in Calls, NEW r,
         call[c].pc \in Running, MayBecome(c, r),
         call' = [call EXCEPT ![c] = r],
         UNCHANGED <<mail, historyVars>>,
         identity' \in [Subjects -> IdentityRecords],
         session' \in [Tokens -> SessionRecords],
         \A t \in Tokens : session[t].status = "revoked" => session'[t].status = "revoked",
         \A t \in Tokens : session[t].status = "none" /\ session'[t].status # "none" =>
                          t = c /\ r.pc \notin Running,
         expired' \in SUBSET Tokens, faults' \in 0..MaxFaults
  PROVE  ServiceInv'
<1> USE DEF historyVars
<1>1. call \in [Calls -> CallRecords]
  BY DEF ServiceInv, ServiceTypeOK, CallRecords
<1>2. r \in CallRecords
  BY DEF MayBecome
<1>3. call' \in [Calls -> CallRecords] /\ call'[c] = r
      /\ \A d \in Calls \ {c} : call'[d] = call[d]
  BY <1>1, <1>2
<1>4. ServiceTypeOK'
  BY <1>3 DEF ServiceInv, ServiceTypeOK, CallRecords, SessionRecords, IdentityRecords
<1>5. CallsSound'
  BY <1>3 DEF ServiceInv, CallsSound, MayBecome
<1>6. RowsFresh'
  <2> SUFFICES ASSUME NEW d \in Calls
               PROVE  /\ call'[d].pc \in Running \cup {"idle"} => session'[d].status = "none"
                      /\ call'[d].pc \in {"idle", "identity", "user", "create"} => mail[d] = NoMail
    BY DEF RowsFresh
  <2>1. CASE d = c
    BY <1>3, <2>1 DEF ServiceInv, RowsFresh, MayBecome, Tokens
  <2>2. CASE d # c
    BY <1>3, <2>2 DEF ServiceInv, RowsFresh, Tokens
  <2>3. QED
    BY <2>1, <2>2
<1>7. PastHolds'
  <2>1. Users' = Users /\ Revoked \subseteq Revoked'
    BY DEF Users, Revoked
  <2>2. call[c].pc # "idle"
    BY DEF Running, LoginSteps
  <2>3. QED
    BY <1>3, <2>1, <2>2 DEF ServiceInv, PastHolds, MayBecome
<1>8. NobodyFound'
  BY <1>3 DEF ServiceInv, NobodyFound, NobodyAt, MayBecome
<1>9. RevokedRefused'
  BY <1>3 DEF ServiceInv, RevokedRefused, MayBecome
<1>10. DuplicatesOverlapped'
  BY DEF ServiceInv, DuplicatesOverlapped
<1>11. QED
  BY <1>4, <1>5, <1>6, <1>7, <1>8, <1>9, <1>10 DEF ServiceInv

(* Steps that change nothing but one call.                                  *)
LEMMA OneCallChanges ==
  ASSUME ServiceInv, NEW c \in Calls, NEW r,
         call[c].pc \in Running, MayBecome(c, r),
         call' = [call EXCEPT ![c] = r],
         UNCHANGED <<rowVars, historyVars>>,
         expired' \in SUBSET Tokens, faults' \in 0..MaxFaults
  PROVE  ServiceInv'
<1>1. UNCHANGED <<mail, identity, session>>
  BY DEF rowVars
<1>2. session \in [Tokens -> SessionRecords] /\ identity \in [Subjects -> IdentityRecords]
  BY DEF ServiceInv, ServiceTypeOK, SessionRecords, IdentityRecords
<1>3. QED
  BY <1>1, <1>2, RowsChange

(* What a request may ask.                                                  *)
RequestSound(request) ==
  /\ request \in CallRecords
  /\ request.pc \in {"identity", "find", "move", "revoke"}
  /\ request.pc = "identity" => request.subject \in Subjects
  /\ IF request.subject = NoSubject THEN request.pc # "identity"
     ELSE request.mail \in Addresses
  /\ request.pc = "move" => request.user \in People /\ request.org \in Orgs

(* They ask nothing else.                                                   *)
LEMMA RequestsSound == \A request \in Requests : RequestSound(request)
<1> SUFFICES ASSUME NEW request \in Requests PROVE RequestSound(request)
  OBVIOUS
<1> USE DEF CallRecords, Running, LoginSteps, Idle
<1>1. ASSUME NEW p \in Profiles, request = LoginRequest(p)
      PROVE  /\ request \in CallRecords /\ request.pc = "identity"
             /\ request.subject \in Subjects /\ request.mail \in Addresses
  BY <1>1, AuthAssumption DEF LoginRequest
<1>2. ASSUME NEW t \in Tokens \cup {NoToken, DemoToken}, request = ContextRequest(t)
      PROVE  request \in CallRecords /\ request.pc = "find" /\ request.subject = NoSubject
  BY <1>2 DEF ContextRequest
<1>3. ASSUME NEW t \in Tokens \cup {NoToken, DemoToken}, NEW u \in People, NEW o \in Orgs,
             request = SwitchRequest(t, u, o)
      PROVE  request \in CallRecords /\ request.pc = "move" /\ request.subject = NoSubject
             /\ request.user \in People /\ request.org \in Orgs
  BY <1>3 DEF SwitchRequest
<1>4. ASSUME NEW t \in Tokens \cup {DemoToken}, request = LogoutRequest(t)
      PROVE  request \in CallRecords /\ request.pc = "revoke" /\ request.subject = NoSubject
  BY <1>4 DEF LogoutRequest
<1> HIDE DEF CallRecords, Running, LoginSteps, Idle
<1>5. QED
  BY <1>1, <1>2, <1>3, <1>4, AuthAssumption DEF Requests, RequestSound

(* A call arrives: every token that is revoked now, and every user there is *)
(* now, is on record.                                                       *)
LEMMA ArriveInv ==
  ASSUME ServiceInv, NEW c \in Calls, NEW request \in Requests,
         Arrive(c, request), UNCHANGED <<rowVars, expired>>, faults' \in 0..MaxFaults
  PROVE  ServiceInv'
<1> USE DEF rowVars
<1>1. RequestSound(request)
  BY RequestsSound
<1>2. call \in [Calls -> CallRecords] /\ call[c].pc = "idle"
  BY DEF ServiceInv, ServiceTypeOK, CallRecords, Arrive, Idle
<1>3. call' \in [Calls -> CallRecords] /\ call'[c] = request
      /\ \A d \in Calls \ {c} : call'[d] = call[d]
  BY <1>1, <1>2 DEF RequestSound, Arrive
<1>4. /\ revokedAt' \in [Calls -> SUBSET Tokens] /\ revokedAt'[c] = Revoked
      /\ \A d \in Calls \ {c} : revokedAt'[d] = revokedAt[d]
  BY DEF ServiceInv, ServiceTypeOK, Arrive, Revoked
<1>5. /\ usersAt' \in [Calls -> SUBSET People] /\ usersAt'[c] = Users
      /\ \A d \in Calls \ {c} : usersAt'[d] = usersAt[d]
  BY DEF ServiceInv, ServiceTypeOK, Arrive, Users
<1>6. Users' = Users /\ Revoked' = Revoked
  BY DEF Users, Revoked
<1>7. mail[c] = NoMail
  BY <1>2 DEF ServiceInv, RowsFresh
<1>8. SeededUser \in Users
  BY AuthAssumption DEF ServiceInv, PastHolds, Users, People, Addresses
<1>9. ServiceTypeOK'
  BY <1>3, <1>4, <1>5 DEF ServiceInv, ServiceTypeOK, CallRecords
<1>10. CallsSound'
  BY <1>1, <1>3, AuthAssumption DEF RequestSound, ServiceInv, CallsSound, LoginSteps
<1>11. RowsFresh'
  BY <1>2, <1>3, <1>7 DEF ServiceInv, RowsFresh
<1>12. PastHolds'
  BY <1>1, <1>3, <1>4, <1>5, <1>6, <1>7, <1>8 DEF RequestSound, ServiceInv, PastHolds
<1>13. NobodyFound'
  BY <1>1, <1>3, <1>5 DEF RequestSound, ServiceInv, NobodyFound, NobodyAt
<1>14. RevokedRefused'
  BY <1>1, <1>3, <1>4 DEF RequestSound, ServiceInv, RevokedRefused
<1>15. DuplicatesOverlapped'
  <2> SUFFICES ASSUME NEW u \in People, NEW v \in People,
                      u # v, mail[u] = mail[v], mail[u] \in Mails
               PROVE  u \in Calls /\ v \in Calls /\ u \notin usersAt'[v] /\ v \notin usersAt'[u]
    BY DEF DuplicatesOverlapped
  <2>1. u \in Calls /\ v \in Calls /\ u \notin usersAt[v] /\ v \notin usersAt[u]
    BY DEF ServiceInv, DuplicatesOverlapped
  <2>2. u # c /\ v # c
    BY <1>7, AuthAssumption DEF Addresses
  <2>3. QED
    BY <1>5, <2>1, <2>2
<1>16. QED
  BY <1>9, <1>10, <1>11, <1>12, <1>13, <1>14, <1>15 DEF ServiceInv

-----------------------------------------------------------------------------
(* The steps of a login. *)

(* The identity is one of a person or of nobody. *)
LEMMA ReadIdentityInv ==
  ASSUME ServiceInv, NEW c \in Calls, ReadIdentity(c)
  PROVE  ServiceInv'
<1> DEFINE r == [call[c] EXCEPT !.pc = "user", !.user = identity[call[c].subject].user]
<1>1. call[c] \in CallRecords /\ call[c].pc \in Running
  BY DEF ServiceInv, ServiceTypeOK, CallRecords, ReadIdentity, Running, LoginSteps
<1>2. call' = [call EXCEPT ![c] = r]
  BY DEF ReadIdentity
<1>3. MayBecome(c, r)
  BY <1>1 DEF ServiceInv, ServiceTypeOK, CallsSound, RowsFresh, ReadIdentity, MayBecome, CallRecords, Running, LoginSteps
<1>4. UNCHANGED <<rowVars, historyVars>> /\ expired' \in SUBSET Tokens /\ faults' \in 0..MaxFaults
  BY DEF ServiceInv, ServiceTypeOK, ReadIdentity
<1> HIDE DEF r
<1>5. QED
  BY <1>1, <1>2, <1>3, <1>4, OneCallChanges

(* A person was found. *)
LEMMA UserFoundInv ==
  ASSUME ServiceInv, NEW c \in Calls, NEW u \in People, UserFound(c, u)
  PROVE  ServiceInv'
<1> DEFINE r == [call[c] EXCEPT !.pc = "link", !.user = u]
<1>1. call[c] \in CallRecords /\ call[c].pc \in Running
  BY DEF ServiceInv, ServiceTypeOK, CallRecords, UserFound, Running, LoginSteps
<1>2. call' = [call EXCEPT ![c] = r]
  BY DEF UserFound
<1>3. MayBecome(c, r)
  BY <1>1 DEF ServiceInv, ServiceTypeOK, CallsSound, RowsFresh, UserFound, MayBecome, CallRecords, Running, LoginSteps
<1>4. UNCHANGED <<rowVars, historyVars>> /\ expired' \in SUBSET Tokens /\ faults' \in 0..MaxFaults
  BY DEF ServiceInv, ServiceTypeOK, UserFound
<1> HIDE DEF r
<1>5. QED
  BY <1>1, <1>2, <1>3, <1>4, OneCallChanges

(* Nobody was found, so that none of the users there ever were has the address. *)
LEMMA UserMissingInv ==
  ASSUME ServiceInv, NEW c \in Calls, UserMissing(c)
  PROVE  ServiceInv'
<1> DEFINE r == [call[c] EXCEPT !.pc = "create"]
<1>1. call[c] \in CallRecords /\ call[c].pc \in Running
  BY DEF ServiceInv, ServiceTypeOK, CallRecords, UserMissing, GoTo, Running, LoginSteps
<1>2. call' = [call EXCEPT ![c] = r]
  BY DEF UserMissing, GoTo
<1>6. NobodyAt(c, r.mail)
  BY <1>1, AuthAssumption
  DEF ServiceInv, ServiceTypeOK, UserMissing, UsersByMail, CallRecords, NobodyAt
<1>3. MayBecome(c, r)
  BY <1>1, <1>6 DEF ServiceInv, ServiceTypeOK, CallsSound, RowsFresh, UserMissing, GoTo, MayBecome, CallRecords, Running, LoginSteps
<1>4. UNCHANGED <<rowVars, historyVars>> /\ expired' \in SUBSET Tokens /\ faults' \in 0..MaxFaults
  BY DEF ServiceInv, ServiceTypeOK, UserMissing, GoTo
<1> HIDE DEF r
<1>5. QED
  BY <1>1, <1>2, <1>3, <1>4, OneCallChanges

(* A call fails. *)
LEMMA FailCallInv ==
  ASSUME ServiceInv, NEW c \in Calls, FailCall(c)
  PROVE  ServiceInv'
<1> DEFINE r == [call[c] EXCEPT !.pc = "failed"]
<1>1. call[c] \in CallRecords /\ call[c].pc \in Running
  BY DEF ServiceInv, ServiceTypeOK, CallRecords, FailCall, GoTo, Running, LoginSteps
<1>2. call' = [call EXCEPT ![c] = r]
  BY DEF FailCall, GoTo
<1>3. MayBecome(c, r)
  BY <1>1 DEF ServiceInv, ServiceTypeOK, CallsSound, RowsFresh, FailCall, GoTo, MayBecome, CallRecords, Running, LoginSteps
<1>4. UNCHANGED <<rowVars, historyVars>> /\ expired' \in SUBSET Tokens /\ faults' \in 0..MaxFaults
  BY AuthAssumption DEF ServiceInv, ServiceTypeOK, FailCall, GoTo
<1> HIDE DEF r
<1>5. QED
  BY <1>1, <1>2, <1>3, <1>4, OneCallChanges

(* A call is answered, not from a session revoked before it began.          *)
LEMMA AnswerInv ==
  ASSUME ServiceInv, NEW c \in Calls, call[c].pc \in Running,
         NEW t \in Tokens \cup {NoToken, DemoToken}, NEW u \in People \cup {NoUser},
         NEW o \in Orgs \cup {NoOrg},
         t \notin revokedAt[c], Answer(c, t, u, o),
         UNCHANGED <<rowVars, expired, historyVars, faults>>
  PROVE  ServiceInv'
<1> DEFINE r == [call[c] EXCEPT !.pc = "answered", !.token = t, !.user = u, !.org = o]
<1>1. call[c] \in CallRecords
  BY DEF ServiceInv, ServiceTypeOK, CallRecords
<1>2. call' = [call EXCEPT ![c] = r]
  BY DEF Answer
<1>3. MayBecome(c, r)
  BY <1>1 DEF MayBecome, CallRecords, LoginSteps
<1>4. expired' \in SUBSET Tokens /\ faults' \in 0..MaxFaults
  BY DEF ServiceInv, ServiceTypeOK
<1> HIDE DEF r
<1>5. QED
  BY <1>2, <1>3, <1>4, OneCallChanges

(* The organisation shown is one there is.                                  *)
LEMMA ShownOrgType == \A u, o : ShownOrg(u, o) \in Orgs
  BY AuthAssumption DEF ShownOrg

(* A session that is looked up is active, and none that was revoked ever    *)
(* is; the answer names the session's user.                                 *)
LEMMA AnswerFromSessionInv ==
  ASSUME ServiceInv, NEW c \in Calls, call[c].pc \in Running, AnswerFromSession(c),
         UNCHANGED <<rowVars, expired, historyVars, faults>>
  PROVE  ServiceInv'
<1> DEFINE t == call[c].token
           row == session[t]
<1>1. t \in Tokens /\ row.status = "active"
  BY DEF AnswerFromSession, IsValid, IsActive
<1>2. row.user \in People \cup {NoUser}
  BY <1>1 DEF ServiceInv, ServiceTypeOK
<1>3. t \notin revokedAt[c]
  BY <1>1 DEF ServiceInv, PastHolds, Revoked
<1>4. Answer(c, t, row.user, ShownOrg(row.user, row.org))
  BY DEF AnswerFromSession
<1>5. ShownOrg(row.user, row.org) \in Orgs
  BY ShownOrgType
<1> HIDE DEF t, row
<1>6. QED
  BY <1>1, <1>2, <1>3, <1>4, <1>5, AnswerInv

(* No token is never a revoked one.                                         *)
LEMMA NoTokenNeverRevoked ==
  ASSUME ServiceInv, NEW c \in Calls PROVE NoToken \notin revokedAt[c]
  BY AuthAssumption DEF ServiceInv, PastHolds, Revoked

(* getCurrentAuthContext.                                                   *)
LEMMA FindSessionInv ==
  ASSUME ServiceInv, NEW c \in Calls, FindSession(c) PROVE ServiceInv'
<1>1. call[c].pc \in Running /\ UNCHANGED <<rowVars, expired, historyVars, faults>>
  BY DEF FindSession, Running
<1>2. CASE AnswerFromSession(c)
  BY <1>1, <1>2, AnswerFromSessionInv
<1>3. CASE Answer(c, NoToken, SeededUser, HomeOrg)
  <2>1. SeededUser \in People /\ HomeOrg \in Orgs
    BY AuthAssumption DEF People
  <2>2. QED
    BY <1>1, <1>3, <2>1, NoTokenNeverRevoked, AnswerInv
<1>4. QED
  BY <1>2, <1>3 DEF FindSession

(* The look-up after a switch.                                              *)
LEMMA CheckSessionInv ==
  ASSUME ServiceInv, NEW c \in Calls, CheckSession(c) PROVE ServiceInv'
<1>1. /\ call[c].pc \in Running /\ call[c].pc = "check"
      /\ UNCHANGED <<rowVars, expired, historyVars, faults>>
  BY DEF CheckSession, Running
<1>2. CASE AnswerFromSession(c)
  BY <1>1, <1>2, AnswerFromSessionInv
<1>3. CASE Answer(c, NoToken, call[c].user, ShownOrg(call[c].user, call[c].org))
  <2>1. call[c].user \in People
    BY <1>1 DEF ServiceInv, CallsSound
  <2>2. ShownOrg(call[c].user, call[c].org) \in Orgs
    BY ShownOrgType
  <2>3. QED
    BY <1>1, <1>3, <2>1, <2>2, NoTokenNeverRevoked, AnswerInv
<1>4. QED
  BY <1>2, <1>3 DEF CheckSession

-----------------------------------------------------------------------------
(* Steps that write rows.                                                   *)

(* A new user's address is that of nobody who was there when the login      *)
(* began, and the new user was not there when any other began.              *)
LEMMA CreateUserInv ==
  ASSUME ServiceInv, NEW c \in Calls, CreateUser(c) PROVE ServiceInv'
<1> DEFINE r == [call[c] EXCEPT !.pc = "link", !.user = c]
           m == call[c].mail
<1>1. call \in [Calls -> CallRecords] /\ call[c].pc = "create"
  BY DEF ServiceInv, ServiceTypeOK, CallRecords, CreateUser
<1>2. r \in CallRecords /\ r.pc = "link" /\ r.user \in People
      /\ r.subject = call[c].subject /\ r.mail = m
  BY <1>1 DEF CallRecords, People, Running, LoginSteps
<1>3. call' \in [Calls -> CallRecords] /\ call'[c] = r
      /\ \A d \in Calls \ {c} : call'[d] = call[d]
  <2>1. call' = [call EXCEPT ![c] = r]
    BY DEF CreateUser
  <2>2. QED
    BY <1>1, <1>2, <2>1
<1>4. call[c].subject \in Subjects /\ m \in Addresses
  BY <1>1 DEF ServiceInv, CallsSound, LoginSteps
<1>5. m # NoMail
  BY <1>4, AddressNotNoMail
<1>6. /\ mail' \in [People -> Addresses \cup {NoMail}] /\ mail'[c] = m
      /\ \A u \in People \ {c} : mail'[u] = mail[u]
  BY <1>4 DEF ServiceInv, ServiceTypeOK, CreateUser, People
<1>7. mail[c] = NoMail /\ c # SeededUser /\ c \in People
  BY <1>1, AuthAssumption DEF ServiceInv, RowsFresh, People
<1>8. \A d \in Calls : c \notin usersAt[d] /\ usersAt[d] \subseteq People
  BY <1>7 DEF ServiceInv, ServiceTypeOK, PastHolds, Users
<1>9. UNCHANGED <<identity, session, expired, revokedAt, usersAt, faults>> /\ Revoked' = Revoked
  BY DEF CreateUser, historyVars, Revoked
<1> HIDE DEF r, m
<1>10. ServiceTypeOK'
  BY <1>3, <1>6, <1>9 DEF ServiceInv, ServiceTypeOK, CallRecords
<1>11. CallsSound'
  BY <1>2, <1>3, <1>4 DEF ServiceInv, CallsSound
<1>12. RowsFresh'
  <2> SUFFICES ASSUME NEW d \in Calls
               PROVE  /\ call'[d].pc \in Running \cup {"idle"} => session[d].status = "none"
                      /\ call'[d].pc \in {"idle", "identity", "user", "create"} => mail'[d] = NoMail
    BY <1>9 DEF RowsFresh
  <2>1. CASE d = c
    BY <1>1, <1>2, <1>3, <2>1 DEF ServiceInv, RowsFresh, Running, LoginSteps
  <2>2. CASE d # c
    BY <1>3, <1>6, <2>2 DEF ServiceInv, RowsFresh, People
  <2>3. QED
    BY <2>1, <2>2
<1>13. PastHolds'
  <2>1. Users \subseteq Users'
    BY <1>6, <1>7 DEF Users
  <2>2. mail'[SeededUser] = SeededMail
    BY <1>6, <1>7 DEF ServiceInv, PastHolds, People
  <2>3. \A d \in Calls : call'[d].pc # "idle" => SeededUser \in usersAt[d]
    BY <1>1, <1>3 DEF ServiceInv, PastHolds
  <2>4. \A d \in Calls : mail'[d] # NoMail => call'[d].pc # "idle"
    BY <1>2, <1>3, <1>6 DEF ServiceInv, PastHolds, People
  <2>5. QED
    BY <1>9, <2>1, <2>2, <2>3, <2>4 DEF ServiceInv, PastHolds
<1>14. NobodyFound'
  BY <1>2, <1>3, <1>6, <1>8, <1>9 DEF ServiceInv, NobodyFound, NobodyAt
<1>15. RevokedRefused'
  BY <1>2, <1>3, <1>9 DEF ServiceInv, RevokedRefused
<1>16. DuplicatesOverlapped'
  <2>1. ASSUME NEW u \in People \ {c}, mail[u] = m, m \in Mails
        PROVE  u \in Calls /\ u \notin usersAt[c] /\ c \notin usersAt[u]
    <3>1. u \notin usersAt[c]
      BY <1>1, <2>1 DEF ServiceInv, NobodyFound, NobodyAt, m
    <3>2. SeededUser \in usersAt[c]
      BY <1>1 DEF ServiceInv, PastHolds
    <3>3. u \in Calls
      BY <3>1, <3>2 DEF People
    <3>4. QED
      BY <1>8, <3>1, <3>3
  <2> SUFFICES ASSUME NEW u \in People, NEW v \in People,
                      u # v, mail'[u] = mail'[v], mail'[u] \in Mails
               PROVE  u \in Calls /\ v \in Calls /\ u \notin usersAt[v] /\ v \notin usersAt[u]
    BY <1>9 DEF DuplicatesOverlapped
  <2>2. CASE u = c
    BY <1>6, <2>1, <2>2
  <2>3. CASE v = c
    BY <1>6, <2>1, <2>3
  <2>4. CASE u # c /\ v # c
    BY <1>6, <2>4 DEF ServiceInv, DuplicatesOverlapped
  <2>5. QED
    BY <2>2, <2>3, <2>4
<1>17. QED
  BY <1>10, <1>11, <1>12, <1>13, <1>14, <1>15, <1>16 DEF ServiceInv

(* The identity is linked to a person.                                      *)
LEMMA LinkIdentityInv ==
  ASSUME ServiceInv, NEW c \in Calls, LinkIdentity(c) PROVE ServiceInv'
<1> DEFINE r == [call[c] EXCEPT !.pc = "session"]
<1>1. call[c] \in CallRecords /\ call[c].pc = "link" /\ call[c].pc \in Running
  BY DEF ServiceInv, ServiceTypeOK, CallRecords, LinkIdentity, Running, LoginSteps
<1>2. call[c].user \in People /\ call[c].subject \in Subjects /\ call[c].mail \in Addresses
  BY <1>1 DEF ServiceInv, CallsSound, LoginSteps
<1>3. call' = [call EXCEPT ![c] = r]
  BY DEF LinkIdentity, GoTo
<1>4. MayBecome(c, r)
  BY <1>1, <1>2 DEF MayBecome, CallRecords, Running, LoginSteps
<1>5. identity' \in [Subjects -> IdentityRecords]
  BY <1>2 DEF ServiceInv, ServiceTypeOK, LinkIdentity, IdentityRecords
<1>6. UNCHANGED <<mail, session, expired, historyVars, faults>>
  BY DEF LinkIdentity
<1>7. /\ session' \in [Tokens -> SessionRecords]
      /\ expired' \in SUBSET Tokens /\ faults' \in 0..MaxFaults
  BY <1>6 DEF ServiceInv, ServiceTypeOK, SessionRecords
<1> HIDE DEF r
<1>8. QED
  BY <1>1, <1>3, <1>4, <1>5, <1>6, <1>7, RowsChange

(* A login's session is new: no revoked one is written over.                *)
LEMMA CreateSessionInv ==
  ASSUME ServiceInv, NEW c \in Calls, CreateSession(c) PROVE ServiceInv'
<1> DEFINE r == [call[c] EXCEPT !.pc = "answered", !.token = c, !.user = call[c].user,
                                !.org = HomeOrg]
           row == [status |-> "active", user |-> call[c].user, org |-> HomeOrg]
<1>1. call[c] \in CallRecords /\ call[c].pc = "session" /\ call[c].pc \in Running
  BY DEF ServiceInv, ServiceTypeOK, CallRecords, CreateSession, Running, LoginSteps
<1>2. call[c].user \in People /\ HomeOrg \in Orgs /\ c \in Tokens
  BY <1>1, AuthAssumption DEF ServiceInv, CallsSound, Tokens
<1>3. call' = [call EXCEPT ![c] = r]
  BY DEF CreateSession, Answer
<1>4. session \in [Tokens -> SessionRecords] /\ session[c].status = "none"
  BY <1>1 DEF ServiceInv, ServiceTypeOK, SessionRecords, RowsFresh
<1>5. c \notin revokedAt[c]
  BY <1>4 DEF ServiceInv, PastHolds, Revoked
<1>6. MayBecome(c, r) /\ r.pc \notin Running
  BY <1>1, <1>2, <1>5 DEF MayBecome, CallRecords, Running, LoginSteps
<1>7. row \in SessionRecords /\ row.status = "active"
  BY <1>2 DEF SessionRecords
<1>8. session' = [session EXCEPT ![c] = row]
  BY DEF CreateSession, SessionUser
<1> HIDE DEF r, row
<1>9. /\ session' \in [Tokens -> SessionRecords] /\ session'[c] = row
      /\ \A t \in Tokens \ {c} : session'[t] = session[t]
  BY <1>2, <1>4, <1>7, <1>8
<1>10. /\ \A t \in Tokens : session[t].status = "revoked" => session'[t].status = "revoked"
       /\ \A t \in Tokens : session[t].status = "none" /\ session'[t].status # "none" =>
                          t = c /\ r.pc \notin Running
  BY <1>4, <1>6, <1>9
<1>11. UNCHANGED <<mail, identity, expired, historyVars, faults>>
  BY DEF CreateSession
<1>12. /\ identity' \in [Subjects -> IdentityRecords]
       /\ expired' \in SUBSET Tokens /\ faults' \in 0..MaxFaults
  BY <1>11 DEF ServiceInv, ServiceTypeOK, IdentityRecords
<1>13. QED
  BY <1>1, <1>3, <1>6, <1>9, <1>10, <1>11, <1>12, RowsChange

(* Only active sessions move.                                               *)
LEMMA MoveSessionInv ==
  ASSUME ServiceInv, NEW c \in Calls, MoveSession(c) PROVE ServiceInv'
<1> DEFINE r == [call[c] EXCEPT !.pc = "check"]
           t == call[c].token
           row == [session[t] EXCEPT !.org = call[c].org]
<1>1. call[c] \in CallRecords /\ call[c].pc = "move" /\ call[c].pc \in Running
  BY DEF ServiceInv, ServiceTypeOK, CallRecords, MoveSession, Running
<1>2. call[c].user \in People /\ call[c].org \in Orgs
  BY <1>1 DEF ServiceInv, CallsSound
<1>3. call' = [call EXCEPT ![c] = r]
  BY DEF MoveSession, GoTo
<1>4. MayBecome(c, r)
  BY <1>1, <1>2 DEF MayBecome, CallRecords, Running, LoginSteps
<1>5. session \in [Tokens -> SessionRecords]
  BY DEF ServiceInv, ServiceTypeOK, SessionRecords
<1>6. session' \in [Tokens -> SessionRecords]
      /\ \A u \in Tokens : session'[u].status = session[u].status
  <2>1. CASE IsActive(t)
    <3>1. t \in Tokens
      BY <2>1 DEF IsActive
    <3>2. row \in SessionRecords /\ row.status = session[t].status
      BY <1>2, <1>5, <3>1 DEF SessionRecords
    <3>3. session' = [session EXCEPT ![t] = row]
      BY <2>1 DEF MoveSession
    <3> HIDE DEF row, t
    <3>4. QED
      BY <1>5, <3>1, <3>2, <3>3
  <2>2. CASE ~IsActive(t)
    BY <1>5, <2>2 DEF MoveSession
  <2>3. QED
    BY <2>1, <2>2
<1>7. UNCHANGED <<mail, identity, expired, historyVars, faults>>
  BY DEF MoveSession
<1>8. /\ identity' \in [Subjects -> IdentityRecords]
      /\ expired' \in SUBSET Tokens /\ faults' \in 0..MaxFaults
  BY <1>7 DEF ServiceInv, ServiceTypeOK, IdentityRecords
<1> HIDE DEF r
<1>9. QED
  BY <1>1, <1>3, <1>4, <1>6, <1>7, <1>8, RowsChange

(* A sign-out revokes an active session.                                    *)
LEMMA RevokeSessionInv ==
  ASSUME ServiceInv, NEW c \in Calls, RevokeSession(c) PROVE ServiceInv'
<1> DEFINE r == [call[c] EXCEPT !.pc = "answered", !.token = NoToken, !.user = NoUser,
                                !.org = NoOrg]
           t == call[c].token
           row == [session[t] EXCEPT !.status = "revoked"]
<1>1. call[c] \in CallRecords /\ call[c].pc \in Running
  BY DEF ServiceInv, ServiceTypeOK, CallRecords, RevokeSession, Running
<1>2. call' = [call EXCEPT ![c] = r]
  BY DEF RevokeSession, Answer
<1>3. MayBecome(c, r)
  BY <1>1, NoTokenNeverRevoked DEF MayBecome, CallRecords, Running, LoginSteps
<1>4. session \in [Tokens -> SessionRecords]
  BY DEF ServiceInv, ServiceTypeOK, SessionRecords
<1>5. /\ session' \in [Tokens -> SessionRecords]
      /\ \A u \in Tokens : session[u].status = "revoked" => session'[u].status = "revoked"
      /\ \A u \in Tokens : session[u].status = "none" => session'[u].status = "none"
  <2>1. CASE IsActive(t)
    <3>1. t \in Tokens /\ session[t].status = "active"
      BY <2>1 DEF IsActive
    <3>2. row \in SessionRecords /\ row.status = "revoked"
      BY <1>4, <3>1 DEF SessionRecords
    <3>3. session' = [session EXCEPT ![t] = row]
      BY <2>1 DEF RevokeSession
    <3> HIDE DEF row, t
    <3>4. QED
      BY <1>4, <3>1, <3>2, <3>3
  <2>2. CASE ~IsActive(t)
    BY <1>4, <2>2 DEF RevokeSession
  <2>3. QED
    BY <2>1, <2>2
<1>6. UNCHANGED <<mail, identity, expired, historyVars, faults>>
  BY DEF RevokeSession
<1>7. /\ identity' \in [Subjects -> IdentityRecords]
      /\ expired' \in SUBSET Tokens /\ faults' \in 0..MaxFaults
  BY <1>6 DEF ServiceInv, ServiceTypeOK, IdentityRecords
<1> HIDE DEF r
<1>8. QED
  BY <1>1, <1>2, <1>3, <1>5, <1>6, <1>7, RowsChange

(* Seven days pass.                                                         *)
LEMMA ExpireTokenInv ==
  ASSUME ServiceInv, NEW t \in Tokens, ExpireToken(t) PROVE ServiceInv'
<1>1. UNCHANGED <<mail, identity, session, call, revokedAt, usersAt, faults>>
      /\ Users' = Users /\ Revoked' = Revoked
  BY DEF ExpireToken, rowVars, historyVars, Users, Revoked
<1>2. expired' \in SUBSET Tokens
  BY DEF ServiceInv, ServiceTypeOK, ExpireToken
<1>3. ServiceTypeOK'
  BY <1>1, <1>2 DEF ServiceInv, ServiceTypeOK
<1>4. (CallsSound /\ RowsFresh /\ NobodyFound /\ RevokedRefused /\ DuplicatesOverlapped)'
  BY <1>1
  DEF ServiceInv, CallsSound, RowsFresh, NobodyFound, NobodyAt, RevokedRefused, DuplicatesOverlapped
<1>5. PastHolds'
  BY <1>1 DEF ServiceInv, PastHolds
<1>6. QED
  BY <1>3, <1>4, <1>5 DEF ServiceInv

-----------------------------------------------------------------------------
(* Every step of a call, its failure included.                              *)
LEMMA CallInv ==
  ASSUME ServiceInv, NEW c \in Calls, CallStep(c) \/ FailCall(c) PROVE ServiceInv'
<1>1. CASE ReadIdentity(c)
  BY <1>1, ReadIdentityInv
<1>2. ASSUME NEW u \in People, UserFound(c, u) PROVE ServiceInv'
  BY <1>2, UserFoundInv
<1>3. CASE UserMissing(c)
  BY <1>3, UserMissingInv
<1>4. CASE CreateUser(c)
  BY <1>4, CreateUserInv
<1>5. CASE LinkIdentity(c)
  BY <1>5, LinkIdentityInv
<1>6. CASE CreateSession(c)
  BY <1>6, CreateSessionInv
<1>7. CASE FindSession(c)
  BY <1>7, FindSessionInv
<1>8. CASE MoveSession(c)
  BY <1>8, MoveSessionInv
<1>9. CASE CheckSession(c)
  BY <1>9, CheckSessionInv
<1>10. CASE RevokeSession(c)
  BY <1>10, RevokeSessionInv
<1>11. CASE FailCall(c)
  BY <1>11, FailCallInv
<1>12. QED
  BY <1>1, <1>2, <1>3, <1>4, <1>5, <1>6, <1>7, <1>8, <1>9, <1>10, <1>11 DEF CallStep

(* Answers that are lost, and steps that leave everything as it is.         *)
LEMMA RestInv ==
  ASSUME ServiceInv, UNCHANGED <<rowVars, expired, call, historyVars>>, faults' \in 0..MaxFaults
  PROVE  ServiceInv'
<1>1. /\ UNCHANGED <<mail, identity, session, expired, call, revokedAt, usersAt>>
      /\ Users' = Users /\ Revoked' = Revoked
  BY DEF rowVars, historyVars, Users, Revoked
<1>2. ServiceTypeOK'
  BY <1>1 DEF ServiceInv, ServiceTypeOK
<1>3. (CallsSound /\ RowsFresh /\ NobodyFound /\ RevokedRefused /\ DuplicatesOverlapped)'
  BY <1>1
  DEF ServiceInv, CallsSound, RowsFresh, NobodyFound, NobodyAt, RevokedRefused, DuplicatesOverlapped
<1>4. PastHolds'
  BY <1>1 DEF ServiceInv, PastHolds
<1>5. QED
  BY <1>2, <1>3, <1>4 DEF ServiceInv

(* The invariant is inductive, whoever calls.                              *)
LEMMA Inductive == ServiceInv /\ [ServiceNext]_serviceVars => ServiceInv'
<1> SUFFICES ASSUME ServiceInv, [ServiceNext]_serviceVars PROVE ServiceInv'
  OBVIOUS
<1>1. ASSUME NEW c \in Calls, CallStep(c) \/ FailCall(c) PROVE ServiceInv'
  BY <1>1, CallInv
<1>2. ASSUME NEW t \in Tokens, ExpireToken(t) PROVE ServiceInv'
  BY <1>2, ExpireTokenInv
<1>3. ASSUME NEW c \in Calls, NEW request \in Requests, Arrive(c, request),
             UNCHANGED <<rowVars, expired>>, faults' \in faults..MaxFaults
      PROVE  ServiceInv'
  <2>1. faults' \in 0..MaxFaults
    BY <1>3, AuthAssumption DEF ServiceInv, ServiceTypeOK
  <2>2. QED
    BY <1>3, <2>1, ArriveInv
<1>4. ASSUME UNCHANGED <<call, historyVars>>, UNCHANGED <<rowVars, expired>>,
             faults' \in faults..MaxFaults
      PROVE  ServiceInv'
  <2>1. faults' \in 0..MaxFaults
    BY <1>4, AuthAssumption DEF ServiceInv, ServiceTypeOK
  <2>2. QED
    BY <1>4, <2>1, RestInv
<1>5. CASE UNCHANGED serviceVars
  <2>1. UNCHANGED <<rowVars, expired, call, historyVars>> /\ faults' \in 0..MaxFaults
    BY <1>5 DEF serviceVars, ServiceInv, ServiceTypeOK
  <2>2. QED
    BY <2>1, RestInv
<1>6. QED
  BY <1>1, <1>2, <1>3, <1>4, <1>5 DEF ServiceNext, ServiceStep

(* The invariant of the service, whoever calls.                             *)
THEOREM ServiceCorrect == ServiceSpec => []ServiceInv
  BY InitInv, Inductive, PTL DEF ServiceSpec

(* Every variable of the service keeps its type.                            *)
THEOREM ServiceTypes == ServiceSpec => []ServiceTypeOK
<1>1. ServiceInv => ServiceTypeOK
  BY DEF ServiceInv
<1>2. QED
  BY <1>1, ServiceCorrect, PTL

(* No call is answered from a session revoked before the call began.        *)
THEOREM RevokedStayOut == ServiceSpec => []RevokedRefused
<1>1. ServiceInv => RevokedRefused
  BY DEF ServiceInv
<1>2. QED
  BY <1>1, ServiceCorrect, PTL

(* Users with one address come only of logins that overlap.                 *)
THEOREM DuplicatesOnlyOverlap == ServiceSpec => []DuplicatesOverlapped
<1>1. ServiceInv => DuplicatesOverlapped
  BY DEF ServiceInv
<1>2. QED
  BY <1>1, ServiceCorrect, PTL

-----------------------------------------------------------------------------
(* The table of sessions follows the lifecycle: a step of the service is    *)
(* one of the lifecycle's or changes no session.                            *)
LEMMA CallLifecycle ==
  ASSUME ServiceInv, NEW c \in Calls, CallStep(c) \/ FailCall(c)
  PROVE  [Lifecycle!Next]_session
<1> USE DEF rowVars
<1>1. CASE CreateSession(c)
  <2>1. call[c].user \in People /\ HomeOrg \in Orgs /\ c \in Tokens
    BY <1>1, AuthAssumption DEF ServiceInv, CallsSound, Tokens, CreateSession
  <2>2. session[c].status = "none"
    BY <1>1 DEF ServiceInv, RowsFresh, CreateSession, Running, LoginSteps
  <2>3. Lifecycle!Begin(c, call[c].user, HomeOrg)
    BY <1>1, <2>2 DEF Lifecycle!Begin, CreateSession, SessionUser
  <2>4. QED
    BY <2>1, <2>3 DEF Lifecycle!Next
<1>2. CASE MoveSession(c)
  <2>1. call[c].org \in Orgs
    BY <1>2 DEF ServiceInv, CallsSound, MoveSession
  <2>2. CASE IsActive(call[c].token)
    <3>1. call[c].token \in Tokens /\ Lifecycle!Move(call[c].token, call[c].org)
      BY <1>2, <2>2 DEF Lifecycle!Move, MoveSession, IsActive
    <3>2. QED
      BY <2>1, <3>1 DEF Lifecycle!Next
  <2>3. CASE ~IsActive(call[c].token)
    BY <1>2, <2>3 DEF MoveSession
  <2>4. QED
    BY <2>2, <2>3
<1>3. CASE RevokeSession(c)
  <2>1. CASE IsActive(call[c].token)
    <3>1. call[c].token \in Tokens /\ Lifecycle!Revoke(call[c].token)
      BY <1>3, <2>1 DEF Lifecycle!Revoke, RevokeSession, IsActive
    <3>2. QED
      BY <3>1 DEF Lifecycle!Next
  <2>2. CASE ~IsActive(call[c].token)
    BY <1>3, <2>2 DEF RevokeSession
  <2>3. QED
    BY <2>1, <2>2
<1>4. CASE ReadIdentity(c) \/ (\E u \in People : UserFound(c, u)) \/ UserMissing(c) \/ FailCall(c)
  BY <1>4 DEF ReadIdentity, UserFound, UserMissing, FailCall
<1>5. CASE CreateUser(c) \/ LinkIdentity(c) \/ FindSession(c) \/ CheckSession(c)
  BY <1>5 DEF CreateUser, LinkIdentity, FindSession, CheckSession
<1>6. QED
  BY <1>1, <1>2, <1>3, <1>4, <1>5 DEF CallStep

(* The service implements the lifecycle of a session.                       *)
THEOREM LifecycleImplemented == ServiceSpec => ImplementsLifecycle
<1>1. ServiceInit => Lifecycle!Init
  BY DEF ServiceInit, Lifecycle!Init
<1>2. ServiceInv /\ [ServiceNext]_serviceVars => [Lifecycle!Next]_session
  <2> SUFFICES ASSUME ServiceInv, [ServiceNext]_serviceVars PROVE [Lifecycle!Next]_session
    OBVIOUS
  <2>1. ASSUME NEW c \in Calls, CallStep(c) \/ FailCall(c) PROVE [Lifecycle!Next]_session
    BY <2>1, CallLifecycle
  <2>2. ASSUME NEW t \in Tokens, ExpireToken(t) PROVE UNCHANGED session
    BY <2>2 DEF ExpireToken, rowVars
  <2>3. CASE UNCHANGED rowVars
    BY <2>3 DEF rowVars
  <2>4. CASE UNCHANGED serviceVars
    BY <2>4 DEF serviceVars, rowVars
  <2>5. QED
    BY <2>1, <2>2, <2>3, <2>4 DEF ServiceNext, ServiceStep
<1>3. QED
  BY <1>1, <1>2, ServiceCorrect, PTL DEF ServiceSpec, ImplementsLifecycle, Lifecycle!Spec

-----------------------------------------------------------------------------
(* Logins find users of an address given for their account.                 *)

(* What a call, and the session it made, have to do with its account.       *)
Agrees(c) ==
  /\ call[c].subject \in Subjects => call[c].mail # NoMail
  /\ call[c].pc \in {"user", "link", "session"} /\ call[c].user # NoUser =>
       Gave(call[c].subject, mail[call[c].user])
  /\ session[c].status # "none" =>
       /\ call[c].subject \in Subjects
       /\ session[c].user \in People
       /\ Gave(call[c].subject, mail[session[c].user])
  /\ call[c].pc = "answered" /\ call[c].token \in Tokens =>
       /\ session[call[c].token].status # "none"
       /\ session[call[c].token].user = call[c].user

Linked ==
  \A s \in Subjects : identity[s].user # NoUser => Gave(s, mail[identity[s].user])

AddressInv == Linked /\ \A c \in Calls : Agrees(c)

(* No step changes the address of a user, the user of a session or what a   *)
(* provider said.                                                           *)
MailsStay == \A u \in People : mail[u] # NoMail => mail'[u] = mail[u]
OwnersStay ==
  \A t \in Tokens : session[t].status # "none" =>
    session'[t].status # "none" /\ session'[t].user = session[t].user

ProfilesStay ==
  \A d \in Calls : call[d].subject \in Subjects =>
    call'[d].subject = call[d].subject /\ call'[d].mail = call[d].mail

LEMMA RowsStay == ServiceInv /\ [ServiceNext]_serviceVars => MailsStay /\ OwnersStay
<1> SUFFICES ASSUME ServiceInv, [ServiceNext]_serviceVars PROVE MailsStay /\ OwnersStay
  OBVIOUS
<1>1. /\ session \in [Tokens -> SessionRecords]
      /\ mail \in [People -> Addresses \cup {NoMail}]
  BY DEF ServiceInv, ServiceTypeOK, SessionRecords
<1>2. CASE UNCHANGED <<mail, session>>
  BY <1>2 DEF MailsStay, OwnersStay
<1>3. ASSUME NEW c \in Calls, CallStep(c) PROVE MailsStay /\ OwnersStay
  <2>1. CASE CreateUser(c)
    <3>1. mail[c] = NoMail /\ UNCHANGED session
      BY <2>1 DEF CreateUser, ServiceInv, RowsFresh
    <3>2. \A u \in People : u # c => mail'[u] = mail[u]
      BY <1>1, <2>1 DEF CreateUser
    <3>3. QED BY <3>1, <3>2 DEF MailsStay, OwnersStay
  <2>2. CASE CreateSession(c)
    <3>1. session[c].status = "none" /\ UNCHANGED mail
      BY <2>2 DEF CreateSession, ServiceInv, RowsFresh, Running, LoginSteps
    <3>2. \A t \in Tokens : t # c => session'[t] = session[t]
      BY <1>1, <2>2 DEF CreateSession
    <3>3. QED BY <3>1, <3>2 DEF MailsStay, OwnersStay
  <2>3. CASE MoveSession(c)
    <3>1. UNCHANGED mail
      BY <2>3 DEF MoveSession
    <3>2. \A t \in Tokens : /\ session'[t].status = session[t].status
                           /\ session'[t].user = session[t].user
      BY <1>1, <2>3 DEF MoveSession, SessionRecords
    <3>3. QED BY <3>1, <3>2 DEF MailsStay, OwnersStay
  <2>4. CASE RevokeSession(c)
    <3>1. UNCHANGED mail
      BY <2>4 DEF RevokeSession
    <3>2. \A t \in Tokens : /\ session'[t].status \in {session[t].status, "revoked"}
                           /\ session'[t].user = session[t].user
      BY <1>1, <2>4 DEF RevokeSession, SessionRecords
    <3>3. QED BY <3>1, <3>2 DEF MailsStay, OwnersStay
  <2>5. QED
    BY <1>2, <1>3, <2>1, <2>2, <2>3, <2>4
    DEF CallStep, ReadIdentity, UserFound, UserMissing, LinkIdentity, FindSession,
        CheckSession, rowVars
<1>4. QED
  BY <1>2, <1>3 DEF ServiceNext, ServiceStep, FailCall, ExpireToken, serviceVars, rowVars

(* A call's steps keep what its provider said.                              *)
LEMMA KeepsProfile ==
  ASSUME ServiceInv, NEW c \in Calls, CallStep(c) \/ FailCall(c)
  PROVE  \A d \in Calls : /\ d # c => call'[d] = call[d]
                          /\ call'[d].subject = call[d].subject
                          /\ call'[d].mail = call[d].mail
<1>1. call \in [Calls -> CallRecords]
  BY DEF ServiceInv, ServiceTypeOK, CallRecords
<1>2. \A d \in Calls \ {c} : call'[d] = call[d]
  BY <1>1
  DEF CallStep, ReadIdentity, UserFound, UserMissing, CreateUser, LinkIdentity,
      CreateSession, FindSession, MoveSession, CheckSession, RevokeSession,
      AnswerFromSession, Answer, GoTo, FailCall
<1>3. call'[c].subject = call[c].subject /\ call'[c].mail = call[c].mail
  BY <1>1
  DEF CallStep, ReadIdentity, UserFound, UserMissing, CreateUser, LinkIdentity,
      CreateSession, FindSession, MoveSession, CheckSession, RevokeSession,
      AnswerFromSession, Answer, GoTo, FailCall, CallRecords
<1>4. QED
  BY <1>2, <1>3

LEMMA CallsStay == ServiceInv /\ [ServiceNext]_serviceVars => ProfilesStay
<1> SUFFICES ASSUME ServiceInv, [ServiceNext]_serviceVars PROVE ProfilesStay
  OBVIOUS
<1>1. call \in [Calls -> CallRecords]
  BY DEF ServiceInv, ServiceTypeOK, CallRecords
<1>2. ASSUME NEW c \in Calls, CallStep(c) \/ FailCall(c) PROVE ProfilesStay
  BY <1>2, KeepsProfile DEF ProfilesStay
<1>3. ASSUME NEW c \in Calls, NEW request, Arrive(c, request) PROVE ProfilesStay
  BY <1>1, <1>3, AuthAssumption DEF Arrive, Idle, ProfilesStay
<1>4. CASE UNCHANGED call
  BY <1>4 DEF ProfilesStay
<1>5. QED
  BY <1>2, <1>3, <1>4 DEF ServiceNext, ServiceStep, ExpireToken, serviceVars

GaveThen(s, m) == \E d \in Calls : call'[d].subject = s /\ call'[d].mail = m

(* What was given stays given, and is the address of the same user.         *)
LEMMA GivenStays ==
  ASSUME AddressInv, MailsStay, ProfilesStay, NEW s \in Subjects, NEW u \in People,
         Gave(s, mail[u])
  PROVE  GaveThen(s, mail'[u])
<1>1. PICK d \in Calls : call[d].subject = s /\ call[d].mail = mail[u]
  BY DEF Gave
<1>2. mail'[u] = mail[u]
  BY <1>1 DEF AddressInv, Agrees, MailsStay
<1>3. call'[d].subject = s /\ call'[d].mail = mail[u]
  BY <1>1 DEF ProfilesStay
<1>4. QED
  BY <1>2, <1>3 DEF GaveThen

(* So a call that does not move goes on agreeing.                           *)
LEMMA OthersAgree ==
  ASSUME ServiceInv, AddressInv, MailsStay, OwnersStay, ProfilesStay, NEW d \in Calls,
         call'[d] = call[d], session'[d].status # "none" => session[d].status # "none"
  PROVE  Agrees(d)'
<1>1. d \in Tokens /\ call[d].subject \in Subjects \cup {NoSubject}
      /\ call[d].user \in People \cup {NoUser}
  BY DEF ServiceInv, ServiceTypeOK, Tokens
<1>2. call[d].pc \in {"user", "link", "session"} => call[d].subject \in Subjects
  BY DEF ServiceInv, CallsSound, LoginSteps
<1>3. Agrees(d)
  BY DEF AddressInv
<1>4. call[d].pc \in {"user", "link", "session"} /\ call[d].user # NoUser =>
        GaveThen(call[d].subject, mail'[call[d].user])
  BY <1>1, <1>2, <1>3, GivenStays DEF Agrees
<1>5. session'[d].status # "none" =>
        /\ call[d].subject \in Subjects /\ session'[d].user \in People
        /\ GaveThen(call[d].subject, mail'[session'[d].user])
  BY <1>1, <1>3, GivenStays DEF Agrees, OwnersStay
<1>6. QED
  BY <1>1, <1>3, <1>4, <1>5 DEF Agrees, OwnersStay, Gave, GaveThen

LEMMA LinksStay ==
  ASSUME ServiceInv, AddressInv, MailsStay, ProfilesStay, UNCHANGED identity PROVE Linked'
<1>1. identity \in [Subjects -> IdentityRecords]
  BY DEF ServiceInv, ServiceTypeOK, IdentityRecords
<1>2. ASSUME NEW s \in Subjects, identity[s].user # NoUser
      PROVE  GaveThen(s, mail'[identity[s].user])
  BY <1>1, <1>2, GivenStays DEF AddressInv, Linked, IdentityRecords
<1>3. QED
  BY <1>2 DEF Linked, Gave, GaveThen

(* Each step of a call keeps the call in agreement with its account.        *)
LEMMA CallAgrees ==
  ASSUME ServiceInv, AddressInv, MailsStay, OwnersStay, ProfilesStay,
         NEW c \in Calls, CallStep(c)
  PROVE  Agrees(c)'
<1>1. /\ call[c] \in CallRecords /\ c \in Tokens /\ call \in [Calls -> CallRecords]
      /\ session \in [Tokens -> SessionRecords]
      /\ mail \in [People -> Addresses \cup {NoMail}]
      /\ identity \in [Subjects -> IdentityRecords]
      /\ NoUser \notin People /\ NoToken \notin Tokens
  BY AuthAssumption DEF ServiceInv, ServiceTypeOK, CallRecords, SessionRecords, IdentityRecords, Tokens
<1>2. call[c].pc \in LoginSteps => call[c].subject \in Subjects
  BY DEF ServiceInv, CallsSound
<1>3. call[c].pc \in {"link", "session"} => call[c].user \in People
  BY DEF ServiceInv, CallsSound
<1>4. Agrees(c) /\ Linked
  BY DEF AddressInv
<1>5. call[c].pc \in Running => session[c].status = "none"
  BY DEF ServiceInv, RowsFresh
<1>6. /\ call'[c].subject = call[c].subject /\ call'[c].mail = call[c].mail
      /\ call'[c].subject \in Subjects => call'[c].mail # NoMail
  BY <1>4, KeepsProfile DEF Agrees
<1> USE DEF CallRecords, Running, LoginSteps
<1>7. CASE ReadIdentity(c)
  <2>1. /\ call'[c].pc = "user" /\ call'[c].user = identity[call[c].subject].user
        /\ call'[c].subject = call[c].subject /\ call[c].subject \in Subjects
        /\ UNCHANGED <<mail, session>> /\ session[c].status = "none"
    BY <1>1, <1>2, <1>5, <1>7 DEF ReadIdentity, rowVars
  <2>2. ASSUME identity[call[c].subject].user # NoUser
        PROVE  GaveThen(call[c].subject, mail'[identity[call[c].subject].user])
    <3>1. identity[call[c].subject].user \in People
      BY <1>1, <2>1, <2>2 DEF IdentityRecords
    <3>2. QED BY <1>4, <2>1, <2>2, <3>1, GivenStays DEF Linked
  <2>3. QED BY <1>6, <2>1, <2>2 DEF Agrees, Gave, GaveThen
<1>8. ASSUME NEW u \in People, UserFound(c, u) PROVE Agrees(c)'
  <2>1. /\ call'[c].pc = "link" /\ call'[c].user = u
        /\ call'[c].subject = call[c].subject
        /\ UNCHANGED <<mail, session>> /\ session[c].status = "none"
    BY <1>1, <1>5, <1>8 DEF UserFound, rowVars
  <2>2. call[c].pc = "user" /\ call[c].subject \in Subjects
    BY <1>2, <1>8 DEF UserFound
  <2>3. Gave(call[c].subject, mail[u])
    BY <1>1, <1>4, <1>8, <2>2 DEF UserFound, UsersByMail, Agrees, Gave
  <2>4. GaveThen(call[c].subject, mail'[u])
    BY <2>2, <2>3, GivenStays
  <2>5. QED BY <1>6, <2>1, <2>4 DEF Agrees, Gave, GaveThen
<1>9. CASE UserMissing(c)
  <2>1. /\ call'[c].pc = "create" /\ UNCHANGED <<mail, session>>
        /\ session[c].status = "none"
    BY <1>1, <1>5, <1>9 DEF UserMissing, GoTo, rowVars
  <2>2. QED BY <1>6, <2>1 DEF Agrees
<1>10. CASE CreateUser(c)
  <2>1. /\ call'[c].pc = "link" /\ call'[c].user = c
        /\ call'[c].subject = call[c].subject
        /\ UNCHANGED session /\ session[c].status = "none"
    BY <1>1, <1>5, <1>10 DEF CreateUser
  <2>2. mail'[c] = call[c].mail
    BY <1>1, <1>10 DEF CreateUser, People
  <2>3. GaveThen(call[c].subject, mail'[c])
    BY <1>6, <2>2 DEF GaveThen
  <2>4. QED BY <1>6, <2>1, <2>3 DEF Agrees, Gave, GaveThen
<1>11. CASE LinkIdentity(c)
  <2>1. /\ call'[c].pc = "session" /\ call'[c].user = call[c].user
        /\ call'[c].subject = call[c].subject /\ call[c].pc = "link"
        /\ UNCHANGED <<mail, session>> /\ session[c].status = "none"
    BY <1>1, <1>5, <1>11 DEF LinkIdentity, GoTo
  <2>2. GaveThen(call[c].subject, mail'[call[c].user])
    BY <1>1, <1>2, <1>3, <1>4, <2>1, GivenStays DEF Agrees
  <2>3. QED BY <1>6, <2>1, <2>2 DEF Agrees, Gave, GaveThen
<1>12. CASE CreateSession(c)
  <2>1. /\ call'[c].pc = "answered" /\ call'[c].token = c /\ call'[c].user = call[c].user
        /\ call'[c].subject = call[c].subject /\ call[c].subject \in Subjects
        /\ call[c].pc = "session" /\ UNCHANGED mail
    BY <1>1, <1>2, <1>12 DEF CreateSession, Answer
  <2>2. session'[c].status # "none" /\ session'[c].user = call[c].user
    BY <1>1, <1>12 DEF CreateSession, SessionUser
  <2>3. GaveThen(call[c].subject, mail'[call[c].user]) /\ call[c].user \in People
    BY <1>1, <1>3, <1>4, <2>1, GivenStays DEF Agrees
  <2>4. QED BY <1>6, <2>1, <2>2, <2>3 DEF Agrees, Gave, GaveThen
<1>13. ASSUME AnswerFromSession(c), UNCHANGED <<mail, session>>, call[c].pc \in Running
       PROVE  Agrees(c)'
  <2>1. /\ call'[c].pc = "answered" /\ call'[c].token = call[c].token
        /\ call'[c].user = session[call[c].token].user
        /\ session[call[c].token].status # "none" /\ session[c].status = "none"
    BY <1>1, <1>5, <1>13 DEF AnswerFromSession, Answer, IsValid, IsActive
  <2>2. QED BY <1>13, <1>6, <2>1 DEF Agrees
<1>14. ASSUME NEW u \in People \cup {NoUser}, NEW o, Answer(c, NoToken, u, o),
              session'[c].status = "none"
       PROVE  Agrees(c)'
  <2>1. call'[c].pc = "answered" /\ call'[c].token = NoToken
    BY <1>1, <1>14 DEF Answer
  <2>2. QED BY <1>1, <1>14, <1>6, <2>1 DEF Agrees
<1>15. CASE FindSession(c)
  <2>1. UNCHANGED <<mail, session>> /\ call[c].pc \in Running /\ session'[c].status = "none"
    BY <1>5, <1>15 DEF FindSession, rowVars
  <2>2. AnswerFromSession(c) \/ Answer(c, NoToken, SeededUser, HomeOrg)
    BY <1>15 DEF FindSession
  <2>3. QED BY <1>13, <1>14, <2>1, <2>2 DEF People
<1>16. CASE CheckSession(c)
  <2>1. UNCHANGED <<mail, session>> /\ call[c].pc \in Running /\ session'[c].status = "none"
    BY <1>5, <1>16 DEF CheckSession, rowVars
  <2>2. \/ AnswerFromSession(c)
        \/ Answer(c, NoToken, call[c].user, ShownOrg(call[c].user, call[c].org))
    BY <1>16 DEF CheckSession
  <2>3. QED BY <1>1, <1>13, <1>14, <2>1, <2>2
<1>17. CASE MoveSession(c)
  <2>1. call'[c].pc = "check" /\ session[c].status = "none"
    BY <1>1, <1>5, <1>17 DEF MoveSession, GoTo
  <2>2. session'[c].status = "none"
    BY <1>1, <1>17, <2>1 DEF MoveSession, SessionRecords
  <2>3. QED BY <1>6, <2>1, <2>2 DEF Agrees
<1>18. CASE RevokeSession(c)
  <2>1. Answer(c, NoToken, NoUser, NoOrg) /\ session[c].status = "none"
    BY <1>5, <1>18 DEF RevokeSession
  <2>2. session'[c].status = "none"
    BY <1>1, <1>18, <2>1 DEF RevokeSession, SessionRecords, IsActive
  <2>3. QED BY <1>14, <2>1, <2>2
<1>19. QED
  BY <1>7, <1>8, <1>9, <1>10, <1>11, <1>12, <1>15, <1>16, <1>17, <1>18 DEF CallStep

(* An identity is linked to the user its login found or made.               *)
LEMMA CallLinks ==
  ASSUME ServiceInv, AddressInv, MailsStay, ProfilesStay, NEW c \in Calls, CallStep(c)
  PROVE  Linked'
<1>1. CASE LinkIdentity(c)
  <2>1. /\ identity \in [Subjects -> IdentityRecords]
        /\ call[c].subject \in Subjects /\ call[c].user \in People /\ NoUser \notin People
        /\ call[c].pc = "link" /\ UNCHANGED mail
    BY <1>1, AuthAssumption
    DEF ServiceInv, ServiceTypeOK, IdentityRecords, CallsSound, LinkIdentity, LoginSteps
  <2>2. GaveThen(call[c].subject, mail'[call[c].user])
    BY <2>1, GivenStays DEF AddressInv, Agrees
  <2>3. identity'[call[c].subject].user = call[c].user
    BY <1>1, <2>1 DEF LinkIdentity, IdentityRecords
  <2>4. ASSUME NEW s \in Subjects \ {call[c].subject}, identity'[s].user # NoUser
        PROVE  GaveThen(s, mail'[identity'[s].user])
    <3>1. identity'[s] = identity[s]
      BY <1>1, <2>1 DEF LinkIdentity
    <3>2. identity[s].user \in People
      BY <2>1, <2>4, <3>1 DEF IdentityRecords
    <3>3. Gave(s, mail[identity[s].user])
      BY <2>4, <3>1 DEF AddressInv, Linked
    <3>4. GaveThen(s, mail'[identity[s].user])
      BY <3>2, <3>3, GivenStays
    <3>5. QED BY <3>1, <3>4
  <2>5. QED BY <2>2, <2>3, <2>4 DEF Linked, Gave, GaveThen
<1>2. CASE UNCHANGED identity
  BY <1>2, LinksStay DEF AddressInv
<1>3. QED
  BY <1>1, <1>2
  DEF CallStep, ReadIdentity, UserFound, UserMissing, CreateUser, CreateSession,
      FindSession, MoveSession, CheckSession, RevokeSession, rowVars

LEMMA AddressInductive ==
  ServiceInv /\ AddressInv /\ [ServiceNext]_serviceVars => AddressInv'
<1> SUFFICES ASSUME ServiceInv, AddressInv, [ServiceNext]_serviceVars PROVE AddressInv'
  OBVIOUS
<1>1. MailsStay /\ OwnersStay /\ ProfilesStay
  BY RowsStay, CallsStay
<1>2. /\ call \in [Calls -> CallRecords] /\ session \in [Tokens -> SessionRecords]
      /\ Calls = Tokens
  BY DEF ServiceInv, ServiceTypeOK, CallRecords, SessionRecords, Tokens
<1>3. \A d \in Calls : Agrees(d)
  BY DEF AddressInv
<1>4. CASE UNCHANGED <<rowVars, call>>
  <2>1. \A d \in Calls : Agrees(d)'
    BY <1>1, <1>3, <1>4, OthersAgree DEF rowVars
  <2>2. QED BY <1>1, <1>4, <2>1, LinksStay DEF AddressInv, rowVars
<1>5. ASSUME NEW c \in Calls, CallStep(c) PROVE AddressInv'
  <2>1. ASSUME NEW d \in Calls, d # c PROVE Agrees(d)'
    <3>1. call'[d] = call[d]
      BY <1>2, <1>5, <2>1
      DEF CallStep, ReadIdentity, UserFound, UserMissing, CreateUser, LinkIdentity,
          CreateSession, FindSession, MoveSession, CheckSession, RevokeSession,
          AnswerFromSession, Answer, GoTo
    <3>2. session'[d].status # "none" => session[d].status # "none"
      <4>1. CASE MoveSession(c) \/ RevokeSession(c)
        BY <1>2, <2>1, <4>1 DEF MoveSession, RevokeSession, IsActive, SessionRecords
      <4>2. CASE CreateSession(c)
        BY <1>2, <2>1, <4>2 DEF CreateSession
      <4>3. CASE UNCHANGED session
        BY <4>3
      <4>4. QED
        BY <1>5, <4>1, <4>2, <4>3
        DEF CallStep, ReadIdentity, UserFound, UserMissing, CreateUser, LinkIdentity,
            FindSession, CheckSession, rowVars
    <3>3. QED BY <1>1, <1>3, <3>1, <3>2, OthersAgree
  <2>2. QED BY <1>1, <1>5, <2>1, CallAgrees, CallLinks DEF AddressInv
<1>6. ASSUME NEW c \in Calls, FailCall(c) PROVE AddressInv'
  <2>1. /\ call'[c].pc = "failed" /\ session[c].status = "none" /\ UNCHANGED rowVars
        /\ \A d \in Calls \ {c} : call'[d] = call[d]
    BY <1>2, <1>6 DEF FailCall, GoTo, ServiceInv, RowsFresh, CallRecords
  <2>2. Agrees(c)'
    BY <1>3, <1>6, <2>1, KeepsProfile DEF Agrees, rowVars
  <2>3. \A d \in Calls \ {c} : Agrees(d)'
    BY <1>1, <1>3, <2>1, OthersAgree DEF rowVars
  <2>4. QED BY <1>1, <2>1, <2>2, <2>3, LinksStay DEF AddressInv, rowVars
<1>7. ASSUME NEW c \in Calls, NEW request \in Requests, Arrive(c, request), UNCHANGED rowVars
      PROVE  AddressInv'
  <2>1. RequestSound(request)
    BY RequestsSound
  <2>2. /\ call'[c] = request /\ \A d \in Calls \ {c} : call'[d] = call[d]
        /\ session[c].status = "none"
    BY <1>2, <1>7 DEF Arrive, Idle, ServiceInv, RowsFresh
  <2>3. Agrees(c)'
    BY <1>7, <2>1, <2>2, AddressNotNoMail, AuthAssumption DEF Agrees, RequestSound, rowVars
  <2>4. \A d \in Calls \ {c} : Agrees(d)'
    BY <1>1, <1>3, <1>7, <2>2, OthersAgree DEF rowVars
  <2>5. QED BY <1>1, <1>7, <2>3, <2>4, LinksStay DEF AddressInv, rowVars
<1>8. QED
  BY <1>4, <1>5, <1>6, <1>7 DEF ServiceNext, ServiceStep, ExpireToken, serviceVars

(* A session is of a user whose address was given for the account that      *)
(* signed in, and so is what it answers.                                    *)
THEOREM SessionsAreOfAddress == ServiceSpec => []SessionsOfAddress
<1>1. ServiceInit => AddressInv
  BY AuthAssumption
  DEF ServiceInit, AddressInv, Linked, NotLinked, Agrees, Idle, Lifecycle!NoSession, Tokens
<1>2. AddressInv => SessionsOfAddress
  BY DEF AddressInv, Agrees, SessionsOfAddress
<1>3. ServiceSpec => []AddressInv
  BY <1>1, AddressInductive, ServiceCorrect, PTL DEF ServiceSpec
<1>4. QED
  BY <1>2, <1>3, PTL
=============================================================================
