------------------------------ MODULE AuthService ------------------------------
(***************************************************************************)
(* The identity module of the API: auth.service.ts and auth.controller.ts  *)
(* over the tables User, OAuthIdentity and UserSession.                    *)
(*                                                                         *)
(* A call is one HTTP request.  It makes its database calls one by one and *)
(* awaits each; a step here is one of them, and steps of other calls run   *)
(* between two of them.  Reads that only fetch what nothing writes (the    *)
(* memberships and organisations of buildAuthContext) and the writes of    *)
(* time stamps (touch) are part of the step before them.  An answer is     *)
(* kept in the call's record until the caller takes it.                    *)
(*                                                                         *)
(* A session's token, and a new user's identifier, are random: both are    *)
(* named by the call that makes them.                                      *)
(***************************************************************************)
EXTENDS Integers, FiniteSets

CONSTANTS
  Calls,            (* requests to the API, each made once                 *)
  Subjects,         (* accounts at the OAuth providers                     *)
  ProviderOf,       (* the provider of each account                        *)
  Mails,            (* e-mail addresses                                    *)
  Profiles,         (* what the providers may say at a login: an account   *)
                    (* and its address, which may be another next time,    *)
                    (* that of another account, or none                    *)
  Orgs, HomeOrg,    (* organisations; everybody's default one              *)
  Memberships,      (* organisations the seeded user is a member of        *)
  SeededUser,       (* usr_user_001, who is also the user of an unknown    *)
                    (* caller                                              *)
  SeededMail,
  NoAddress,        (* a profile, or a user, without an e-mail address     *)
  NoToken, DemoToken, NoUser, NoMail, NoOrg, NoSubject,
  MaxFaults         (* bound: calls that fail and answers that are lost    *)

Tokens == Calls
People == Calls \cup {SeededUser}
Addresses == Mails \cup {NoAddress}

ASSUME AuthAssumption ==
  /\ DOMAIN ProviderOf = Subjects
  /\ Profiles \subseteq [subject : Subjects, email : Addresses]
  /\ HomeOrg \in Memberships /\ Memberships \subseteq Orgs
  /\ NoOrg \notin Orgs
  /\ SeededUser \notin Calls /\ NoUser \notin People
  /\ NoToken \notin Tokens /\ DemoToken \notin Tokens /\ NoToken # DemoToken
  /\ SeededMail \in Mails /\ NoAddress \notin Mails /\ NoMail \notin Addresses
  /\ NoSubject \notin Subjects
  /\ MaxFaults \in Nat

VARIABLES
  mail,         (* User: email, NoMail where there is no row               *)
  identity,     (* OAuthIdentity: the user of an account, and the user the *)
                (* row was made for, whom its key names; NoUser without    *)
                (* row                                                     *)
  session,      (* UserSession: session_status, user_id, organization_id   *)
  expired,      (* the tokens whose seven days are over                    *)
  call,         (* calls: next step, arguments, what they read or answer   *)
  revokedAt,    (* history: the tokens revoked when a call began           *)
  usersAt,      (* history: the users there were when a call began         *)
  faults

rowVars == <<mail, identity, session>>
historyVars == <<revokedAt, usersAt>>
serviceVars == <<rowVars, expired, call, historyVars, faults>>

Lifecycle == INSTANCE SessionLifecycle

Idle == [pc |-> "idle", token |-> NoToken, subject |-> NoSubject,
         mail |-> NoMail, user |-> NoUser, org |-> NoOrg]
NotLinked == [user |-> NoUser, key |-> NoUser]

LoginSteps == {"identity", "user", "create", "link", "session"}
Running == LoginSteps \cup {"find", "move", "check", "revoke"}

ServiceTypeOK ==
  /\ mail \in [People -> Addresses \cup {NoMail}]
  /\ identity \in [Subjects -> [user : People \cup {NoUser}, key : People \cup {NoUser}]]
  /\ session \in [Tokens -> [status : {"none", "active", "revoked"},
                             user : People \cup {NoUser}, org : Orgs \cup {NoOrg}]]
  /\ expired \in SUBSET Tokens
  /\ call \in [Calls -> [pc : Running \cup {"idle", "answered", "failed"},
                         token : Tokens \cup {NoToken, DemoToken},
                         subject : Subjects \cup {NoSubject},
                         mail : Addresses \cup {NoMail},
                         user : People \cup {NoUser}, org : Orgs \cup {NoOrg}]]
  /\ revokedAt \in [Calls -> SUBSET Tokens]
  /\ usersAt \in [Calls -> SUBSET People]
  /\ faults \in 0..MaxFaults

ServiceInit ==
  /\ mail = [u \in People |-> IF u = SeededUser THEN SeededMail ELSE NoMail]
  /\ identity = [s \in Subjects |-> NotLinked]
  /\ session = [t \in Tokens |-> Lifecycle!NoSession]
  /\ expired = {}
  /\ call = [c \in Calls |-> Idle]
  /\ revokedAt = [c \in Calls |-> {}]
  /\ usersAt = [c \in Calls |-> {}]
  /\ faults = 0

-----------------------------------------------------------------------------
(* A call arrives with its arguments. *)

Users == {u \in People : mail[u] # NoMail}
Revoked == {t \in Tokens : session[t].status = "revoked"}

Arrive(c, request) ==
  /\ call[c] = Idle
  /\ call' = [call EXCEPT ![c] = request]
  /\ revokedAt' = [revokedAt EXCEPT ![c] = Revoked]
  /\ usersAt' = [usersAt EXCEPT ![c] = Users]

LoginRequest(p) ==
  [Idle EXCEPT !.pc = "identity", !.subject = p.subject, !.mail = p.email]
ContextRequest(t) == [Idle EXCEPT !.pc = "find", !.token = t]
SwitchRequest(t, u, o) ==
  [Idle EXCEPT !.pc = "move", !.token = t, !.user = u, !.org = o]
LogoutRequest(t) == [Idle EXCEPT !.pc = "revoke", !.token = t]

Requests ==
  {LoginRequest(p) : p \in Profiles} \cup
  {ContextRequest(t) : t \in Tokens \cup {NoToken, DemoToken}} \cup
  {SwitchRequest(t, u, o) : t \in Tokens \cup {NoToken, DemoToken}, u \in People, o \in Orgs} \cup
  {LogoutRequest(t) : t \in Tokens \cup {DemoToken}}

GoTo(c, step) == call' = [call EXCEPT ![c].pc = step]

-----------------------------------------------------------------------------
(* handleOAuthCallback: the identity, its user or the one with the same     *)
(* e-mail address or a new one, the identity again, a session.              *)

ReadIdentity(c) ==
  /\ call[c].pc = "identity"
  /\ call' = [call EXCEPT ![c].pc = "user", ![c].user = identity[call[c].subject].user]
  /\ UNCHANGED <<rowVars, expired, historyVars, faults>>

(* findById of the identity's user, who keeps the address of old if the     *)
(* profile has a new one, or else findByEmail, unless the profile has none; *)
(* it takes the first row it meets.                                         *)
NobodyByMail(m) == {}
UsersByMail(m) == {u \in People : m # NoAddress /\ mail[u] = m}

UserFound(c, u) ==
  /\ call[c].pc = "user"
  /\ u = call[c].user \/ (call[c].user = NoUser /\ u \in UsersByMail(call[c].mail))
  /\ u \in People
  /\ call' = [call EXCEPT ![c].pc = "link", ![c].user = u]
  /\ UNCHANGED <<rowVars, expired, historyVars, faults>>

UserMissing(c) ==
  /\ call[c].pc = "user"
  /\ call[c].user = NoUser /\ UsersByMail(call[c].mail) = {}
  /\ GoTo(c, "create")
  /\ UNCHANGED <<rowVars, expired, historyVars, faults>>

CreateUser(c) ==
  /\ call[c].pc = "create"
  /\ mail' = [mail EXCEPT ![c] = call[c].mail]
  /\ call' = [call EXCEPT ![c].pc = "link", ![c].user = c]
  /\ UNCHANGED <<identity, session, expired, historyVars, faults>>

(* save is an upsert by provider and account.  The key of a new row names   *)
(* the provider and the user, so that a user's second account at a provider *)
(* is refused: such a call can only fail, in FailCall.                      *)
KeyTaken(s, u) == \E r \in Subjects : ProviderOf[r] = ProviderOf[s] /\ identity[r].key = u

LinkIdentity(c) ==
  LET s == call[c].subject
      u == call[c].user
  IN  /\ call[c].pc = "link"
      /\ \/ /\ identity[s] = NotLinked /\ ~KeyTaken(s, u)
            /\ identity' = [identity EXCEPT ![s] = [user |-> u, key |-> u]]
         \/ /\ identity[s] # NotLinked
            /\ identity' = [identity EXCEPT ![s].user = u]
      /\ GoTo(c, "session")
      /\ UNCHANGED <<mail, session, expired, historyVars, faults>>

AnswerForCaller(c, t, u, o) ==
  call' = [call EXCEPT ![c].pc = "answered", ![c].token = t, ![c].org = o]
Answer(c, t, u, o) ==
  call' = [call EXCEPT ![c].pc = "answered", ![c].token = t, ![c].user = u, ![c].org = o]

SessionUser(c) == call[c].user

CreateSession(c) ==
  /\ call[c].pc = "session"
  /\ session' = [session EXCEPT ![c] =
                   [status |-> "active", user |-> SessionUser(c), org |-> HomeOrg]]
  /\ Answer(c, c, call[c].user, HomeOrg)
  /\ UNCHANGED <<mail, identity, expired, historyVars, faults>>

-----------------------------------------------------------------------------
(* Sessions that exist: getCurrentAuthContext, switchOrganization, logout.  *)

IsActiveUnlessNone(t) == t \in Tokens /\ session[t].status # "none"
IsActive(t) == t \in Tokens /\ session[t].status = "active"

(* verifySessionToken, then findActiveByToken. *)
IsValid(t) == IsActive(t) /\ t \notin expired

(* buildAuthContext shows an organisation only to its members. *)
ShownOrg(u, o) == IF u = SeededUser /\ o \in Memberships THEN o ELSE HomeOrg

AnswerFromSession(c) ==
  LET row == session[call[c].token]
  IN  /\ IsValid(call[c].token)
      /\ Answer(c, call[c].token, row.user, ShownOrg(row.user, row.org))

(* Without a session the context is that of the seeded user. *)
FindSession(c) ==
  /\ call[c].pc = "find"
  /\ \/ AnswerFromSession(c)
     \/ ~IsValid(call[c].token) /\ Answer(c, NoToken, SeededUser, HomeOrg)
  /\ UNCHANGED <<rowVars, expired, historyVars, faults>>

(* updateMany where the token is active, whoever is a member of what. *)
MoveSession(c) ==
  LET t == call[c].token
  IN  /\ call[c].pc = "move"
      /\ session' = IF IsActive(t) THEN [session EXCEPT ![t].org = call[c].org] ELSE session
      /\ GoTo(c, "check")
      /\ UNCHANGED <<mail, identity, expired, historyVars, faults>>

(* Without a session the context is that of the user the caller names. *)
CheckSession(c) ==
  /\ call[c].pc = "check"
  /\ \/ AnswerFromSession(c)
     \/ /\ ~IsValid(call[c].token)
        /\ Answer(c, NoToken, call[c].user, ShownOrg(call[c].user, call[c].org))
  /\ UNCHANGED <<rowVars, expired, historyVars, faults>>

RevokeSession(c) ==
  LET t == call[c].token
  IN  /\ call[c].pc = "revoke"
      /\ session' = IF IsActive(t) THEN [session EXCEPT ![t].status = "revoked"] ELSE session
      /\ Answer(c, NoToken, NoUser, NoOrg)
      /\ UNCHANGED <<mail, identity, expired, historyVars, faults>>

-----------------------------------------------------------------------------
CallStep(c) ==
  \/ ReadIdentity(c) \/ (\E u \in People : UserFound(c, u)) \/ UserMissing(c)
  \/ CreateUser(c) \/ LinkIdentity(c) \/ CreateSession(c)
  \/ FindSession(c) \/ MoveSession(c) \/ CheckSession(c) \/ RevokeSession(c)

(* A database call throws, a refused identity among them, and the call is   *)
(* answered with a status of 500.                                           *)
FailCall(c) ==
  /\ call[c].pc \in Running
  /\ faults < MaxFaults
  /\ faults' = faults + 1
  /\ GoTo(c, "failed")
  /\ UNCHANGED <<rowVars, expired, historyVars>>

ExpireToken(t) ==
  /\ session[t].status # "none" /\ t \notin expired
  /\ expired' = expired \cup {t}
  /\ UNCHANGED <<rowVars, call, historyVars, faults>>

ServiceStep ==
  \/ \E c \in Calls : CallStep(c) \/ FailCall(c)
  \/ \E t \in Tokens : ExpireToken(t)

(* Callers of any kind, who may have any token and miss any answer. *)
ServiceNext ==
  \/ ServiceStep
  \/ /\ \/ \E c \in Calls, request \in Requests : Arrive(c, request)
        \/ UNCHANGED <<call, historyVars>>
     /\ faults' \in faults..MaxFaults
     /\ UNCHANGED <<rowVars, expired>>

ServiceSpec == ServiceInit /\ [][ServiceNext]_serviceVars

-----------------------------------------------------------------------------
(* Properties. *)

(* No call is answered from a session that was revoked before the call      *)
(* began, though the look-up and the revocation of other calls interleave.  *)
RevokedRefused ==
  \A c \in Calls : call[c].pc = "answered" => call[c].token \notin revokedAt[c]

(* Two users with one e-mail address can only come of logins that overlap:  *)
(* neither user was there when the login that made the other began.  The    *)
(* table has no unique index on the address.                                *)
DuplicatesOverlapped ==
  \A u, v \in People :
    u # v /\ mail[u] = mail[v] /\ mail[u] \in Mails =>
      /\ u \in Calls /\ v \in Calls
      /\ u \notin usersAt[v] /\ v \notin usersAt[u]

(* A provider gave this address, or none, for this account at some login.   *)
Gave(s, m) == \E d \in Calls : call[d].subject = s /\ call[d].mail = m

(* Whatever logins overlap and whatever addresses change or are shared, a   *)
(* session is of a user whose e-mail address a provider has given, at this  *)
(* login or an earlier one, for the very account that signed in; and every  *)
(* answer for the session's token is of that user.                          *)
SessionsOfAddress ==
  /\ \A c \in Calls : session[c].status # "none" =>
       /\ call[c].subject \in Subjects
       /\ Gave(call[c].subject, mail[session[c].user])
  /\ \A c \in Calls : call[c].pc = "answered" /\ call[c].token \in Tokens =>
       /\ session[call[c].token].status # "none"
       /\ session[call[c].token].user = call[c].user

(* Rows of sessions change only as the abstract lifecycle allows.           *)
ImplementsLifecycle == Lifecycle!Spec
=============================================================================
