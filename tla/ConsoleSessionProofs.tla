-------------------------- MODULE ConsoleSessionProofs --------------------------
(***************************************************************************)
(* Theorems about ConsoleSession, for any number of handlers, calls,       *)
(* accounts, organisations and faults.                                     *)
(***************************************************************************)
EXTENDS ConsoleSession, AuthServiceProofs

Contexts == [token : Tokens \cup {NoToken, DemoToken}, user : People, org : Orgs \cup {NoOrg}]

HandlerRecords == [kind : Kinds \cup {"none"},
                   pc : {"new", "waiting", "away", "context", "done", "gone"},
                   token : Tokens \cup {NoToken, DemoToken},
                   call : Calls \cup {NoCall}]

Owned(t, u) == session[t].status # "none" /\ session[t].user = u

OrgsOf(u) == IF u = SeededUser THEN Memberships ELSE {HomeOrg}

(* Every session is a person's, in an organisation of that person.          *)
SessionsSound ==
  \A t \in Tokens : session[t].status # "none" =>
    session[t].user \in People /\ session[t].org \in OrgsOf(session[t].user)

(* An answer with a token is of the session's user.                         *)
AnswersSound ==
  \A c \in Calls : call[c].pc = "answered" =>
    /\ call[c].token \in Tokens \cup {NoToken}
    /\ call[c].token \in Tokens => Owned(call[c].token, call[c].user)

(* Only the seeded user switches, and only to where he is a member.         *)
SwitchSound(request) ==
  /\ request.user = SeededUser /\ request.org \in Memberships
  /\ request.token \in Tokens => Owned(request.token, SeededUser)

SwitchesSound ==
  \A c \in Calls : call[c].pc \in {"move", "check"} => SwitchSound(call[c])

(* A context is awaited of a call that answers with one.                    *)
AwaitsContext(h) ==
  \/ handler[h].pc = "waiting" /\ handler[h].kind # "logout"
  \/ handler[h].pc \in {"away", "context"}

AwaitedSound ==
  \A h \in Handlers, c \in Calls : handler[h].call = c /\ AwaitsContext(h) =>
    /\ call[c].pc \notin {"idle", "revoke"}
    /\ call[c].pc = "answered" => call[c].user \in People

(* At a provider of its own the call is a login, answered with its token.   *)
AwayIsLogin ==
  \A h \in Handlers, c \in Calls : handler[h].call = c /\ handler[h].pc = "away" =>
    /\ call[c].pc \in LoginSteps \cup {"answered", "failed"}
    /\ call[c].pc = "answered" => call[c].token = c

PageSound == ShowsToken => Owned(page.token, page.user)

ConsoleInv ==
  /\ ServiceInv /\ TypeOK
  /\ SessionsSound /\ AnswersSound /\ SwitchesSound
  /\ AwaitedSound /\ AwayIsLogin /\ PageSound

-----------------------------------------------------------------------------
(* Everybody's default organisation is one of theirs.                       *)
LEMMA HomeIsTheirs == \A u : HomeOrg \in OrgsOf(u)
  BY AuthAssumption DEF OrgsOf

(* The invariant holds at the start.                                        *)
LEMMA ConsoleInitInv == Init => ConsoleInv
<1> SUFFICES ASSUME Init PROVE ConsoleInv
  OBVIOUS
<1>1. ServiceInv
  BY InitInv DEF Init
<1>2. TypeOK
  BY <1>1 DEF Init, TypeOK, ServiceInv
<1>3. SessionsSound /\ AnswersSound /\ SwitchesSound
  BY DEF Init, ServiceInit, SessionsSound, AnswersSound, SwitchesSound, Idle, Lifecycle!NoSession
<1>4. AwaitedSound /\ AwayIsLogin /\ PageSound
  BY DEF Init, AwaitedSound, AwaitsContext, AwayIsLogin, PageSound, ShowsToken
<1>5. QED
  BY <1>1, <1>2, <1>3, <1>4 DEF ConsoleInv

-----------------------------------------------------------------------------
(* What a step of the service does to the calls and sessions the console    *)
(* knows of.                                                                *)
SessionsKept ==
  \A t \in Tokens : session[t].status # "none" =>
    session'[t].status # "none" /\ session'[t].user = session[t].user

Progress(c) ==
  /\ \A d \in Calls \ {c} : call'[d] = call[d]
  /\ call'[c].pc \notin {"idle", "revoke"}
  /\ call'[c].pc \in {"move", "check"} => 
       /\ call[c].pc = "move"
       /\ call'[c].token = call[c].token /\ call'[c].user = call[c].user /\ call'[c].org = call[c].org
  /\ call[c].pc \in LoginSteps => call'[c].pc \in LoginSteps \cup {"answered", "failed"}
  /\ call'[c].pc = "answered" =>
       /\ call'[c].token \in Tokens \cup {NoToken}
       /\ call'[c].token \in Tokens =>
            session'[call'[c].token].status # "none" /\ session'[call'[c].token].user = call'[c].user
       /\ call[c].pc # "revoke" => call'[c].user \in People
       /\ call[c].pc \in LoginSteps => call'[c].token = c

(* Steps that only move the call on.                                        *)
LEMMA ProgressOnly ==
  ASSUME ConsoleInv, NEW c \in Calls,
         ReadIdentity(c) \/ (\E u \in People : UserFound(c, u)) \/ UserMissing(c)
           \/ CreateUser(c) \/ LinkIdentity(c) \/ FailCall(c)
  PROVE  UNCHANGED session /\ Progress(c)
<1>1. call \in [Calls -> CallRecords]
  BY DEF ConsoleInv, ServiceInv, ServiceTypeOK, CallRecords
<1>2. UNCHANGED session
  BY DEF ReadIdentity, UserFound, UserMissing, CreateUser, LinkIdentity, FailCall, rowVars
<1>3. CASE FailCall(c)
  <2>1. call'[c].pc = "failed" /\ \A d \in Calls \ {c} : call'[d] = call[d]
    BY <1>1, <1>3 DEF FailCall, GoTo, CallRecords
  <2>2. QED
    BY <1>2, <2>1 DEF Progress, LoginSteps
<1>4. CASE ReadIdentity(c)
  <2>1. call'[c].pc = "user" /\ \A d \in Calls \ {c} : call'[d] = call[d]
    BY <1>1, <1>4 DEF ReadIdentity, CallRecords
  <2>2. QED
    BY <1>2, <2>1 DEF Progress, LoginSteps
<1>5. ASSUME NEW u \in People, UserFound(c, u) PROVE Progress(c)
  <2>1. call'[c].pc = "link" /\ \A d \in Calls \ {c} : call'[d] = call[d]
    BY <1>1, <1>5 DEF UserFound, CallRecords
  <2>2. QED
    BY <1>2, <2>1 DEF Progress, LoginSteps
<1>6. CASE UserMissing(c)
  <2>1. call'[c].pc = "create" /\ \A d \in Calls \ {c} : call'[d] = call[d]
    BY <1>1, <1>6 DEF UserMissing, GoTo, CallRecords
  <2>2. QED
    BY <1>2, <2>1 DEF Progress, LoginSteps
<1>7. CASE CreateUser(c)
  <2>1. call'[c].pc = "link" /\ \A d \in Calls \ {c} : call'[d] = call[d]
    BY <1>1, <1>7 DEF CreateUser, CallRecords
  <2>2. QED
    BY <1>2, <2>1 DEF Progress, LoginSteps
<1>8. CASE LinkIdentity(c)
  <2>1. call'[c].pc = "session" /\ \A d \in Calls \ {c} : call'[d] = call[d]
    BY <1>1, <1>8 DEF LinkIdentity, GoTo, CallRecords
  <2>2. QED
    BY <1>2, <2>1 DEF Progress, LoginSteps
<1>9. QED
  BY <1>2, <1>3, <1>4, <1>5, <1>6, <1>7, <1>8

(* An answer from a session is its user's.                                  *)
LEMMA SessionAnswers ==
  ASSUME ConsoleInv, NEW c \in Calls, call[c].pc \in {"find", "check"}, AnswerFromSession(c),
         UNCHANGED session
  PROVE  Progress(c)
<1> DEFINE t == call[c].token
<1>1. t \in Tokens /\ session[t].status = "active"
  BY DEF AnswerFromSession, IsValid, IsActive
<1>2. call \in [Calls -> CallRecords]
  BY DEF ConsoleInv, ServiceInv, ServiceTypeOK, CallRecords
<1>3. /\ call'[c].pc = "answered" /\ call'[c].token = t /\ call'[c].user = session[t].user
      /\ \A d \in Calls \ {c} : call'[d] = call[d]
  BY <1>2 DEF AnswerFromSession, Answer, CallRecords
<1>4. session[t].user \in People
  BY <1>1 DEF ConsoleInv, SessionsSound
<1>5. call[c].pc \notin LoginSteps
  BY DEF LoginSteps
<1> HIDE DEF t
<1>6. QED
  BY <1>1, <1>3, <1>4, <1>5 DEF Progress

(* An answer without a session is a person's.                               *)
LEMMA PlainAnswers ==
  ASSUME ConsoleInv, NEW c \in Calls, call[c].pc \in {"find", "check", "revoke"}, NEW u, NEW o,
         u \in People \/ call[c].pc = "revoke", Answer(c, NoToken, u, o)
  PROVE  Progress(c)
<1>1. call \in [Calls -> CallRecords]
  BY DEF ConsoleInv, ServiceInv, ServiceTypeOK, CallRecords
<1>2. /\ call'[c].pc = "answered" /\ call'[c].token = NoToken /\ call'[c].user = u
      /\ \A d \in Calls \ {c} : call'[d] = call[d]
  BY <1>1 DEF Answer, CallRecords
<1>3. NoToken \notin Tokens /\ call[c].pc \notin LoginSteps
  BY AuthAssumption DEF LoginSteps
<1>4. QED
  BY <1>2, <1>3 DEF Progress

(* Every step of a call, with what it does to the sessions.                 *)
LEMMA CallEffect ==
  ASSUME ConsoleInv, NEW c \in Calls, CallStep(c) \/ FailCall(c)
  PROVE  Progress(c) /\ SessionsKept /\ SessionsSound'
<1> USE DEF rowVars
<1>1. call \in [Calls -> CallRecords] /\ session \in [Tokens -> SessionRecords]
  BY DEF ConsoleInv, ServiceInv, ServiceTypeOK, CallRecords, SessionRecords
<1>2. UNCHANGED session => SessionsKept /\ SessionsSound'
  BY DEF SessionsKept, ConsoleInv, SessionsSound
<1>3. CASE FindSession(c)
  <2>1. UNCHANGED session /\ SeededUser \in People /\ call[c].pc = "find"
    BY <1>3 DEF FindSession, People
  <2>2. Progress(c)
    BY <1>3, <2>1, SessionAnswers, PlainAnswers DEF FindSession
  <2>3. QED
    BY <1>2, <2>1, <2>2
<1>4. CASE CheckSession(c)
  <2>1. UNCHANGED session /\ call[c].pc = "check" /\ call[c].user \in People
    BY <1>4 DEF CheckSession, ConsoleInv, ServiceInv, CallsSound
  <2>2. Progress(c)
    BY <1>4, <2>1, SessionAnswers, PlainAnswers DEF CheckSession
  <2>3. QED
    BY <1>2, <2>1, <2>2
<1>5. CASE CreateSession(c)
  <2> DEFINE row == [status |-> "active", user |-> call[c].user, org |-> HomeOrg]
  <2>1. call[c].pc = "session" /\ call[c].user \in People /\ session[c].status = "none"
        /\ c \in Tokens
    BY <1>5 DEF CreateSession, ConsoleInv, ServiceInv, CallsSound, RowsFresh, Running, LoginSteps,
                Tokens
  <2>2. session'[c] = row /\ \A t \in Tokens \ {c} : session'[t] = session[t]
    BY <1>1, <1>5, <2>1 DEF CreateSession, SessionUser
  <2>3. row.status # "none" /\ row.user = call[c].user /\ row.org \in OrgsOf(row.user)
    BY HomeIsTheirs
  <2>4. /\ call'[c].pc = "answered" /\ call'[c].token = c /\ call'[c].user = call[c].user
        /\ \A d \in Calls \ {c} : call'[d] = call[d]
    BY <1>1, <1>5 DEF CreateSession, Answer, CallRecords
  <2> HIDE DEF row
  <2>5. Progress(c)
    BY <2>1, <2>2, <2>3, <2>4 DEF Progress
  <2>6. SessionsKept
    BY <2>1, <2>2 DEF SessionsKept
  <2>7. SessionsSound'
    BY <2>1, <2>2, <2>3 DEF ConsoleInv, SessionsSound, OrgsOf
  <2>8. QED
    BY <2>5, <2>6, <2>7
<1>6. CASE MoveSession(c)
  <2> DEFINE t == call[c].token
             row == [session[t] EXCEPT !.org = call[c].org]
  <2>1. call[c].pc = "move" /\ SwitchSound(call[c])
    BY <1>6 DEF MoveSession, ConsoleInv, SwitchesSound
  <2>2. /\ call'[c].pc = "check" /\ call'[c].token = t /\ call'[c].user = call[c].user
        /\ call'[c].org = call[c].org
        /\ \A d \in Calls \ {c} : call'[d] = call[d]
    BY <1>1, <1>6 DEF MoveSession, GoTo, CallRecords
  <2>3. Progress(c)
    BY <2>1, <2>2 DEF Progress, LoginSteps
  <2>4. CASE IsActive(t)
    <3>1. t \in Tokens /\ session[t].status # "none" /\ session[t].user = SeededUser
      BY <2>1, <2>4 DEF IsActive, SwitchSound, Owned
    <3>2. /\ row.status = session[t].status /\ row.user = session[t].user
          /\ row.org \in OrgsOf(row.user)
      BY <1>1, <2>1, <3>1 DEF SessionRecords, SwitchSound, OrgsOf
    <3>3. session' = [session EXCEPT ![t] = row]
      BY <1>6, <2>4 DEF MoveSession
    <3> HIDE DEF row, t
    <3>4. session'[t] = row /\ \A u \in Tokens \ {t} : session'[u] = session[u]
      BY <1>1, <3>1, <3>3
    <3>5. SessionsKept
      BY <3>2, <3>4 DEF SessionsKept
    <3>6. SessionsSound'
      BY <3>1, <3>2, <3>4 DEF ConsoleInv, SessionsSound, OrgsOf
    <3>7. QED
      BY <2>3, <3>5, <3>6
  <2>5. CASE ~IsActive(t)
    BY <1>2, <1>6, <2>3, <2>5 DEF MoveSession
  <2>6. QED
    BY <2>4, <2>5
<1>7. CASE RevokeSession(c)
  <2> DEFINE t == call[c].token
             row == [session[t] EXCEPT !.status = "revoked"]
  <2>1. Progress(c)
    BY <1>7, PlainAnswers DEF RevokeSession
  <2>2. CASE IsActive(t)
    <3>1. t \in Tokens /\ session[t].status = "active"
      BY <2>2 DEF IsActive
    <3>2. row.status # "none" /\ row.user = session[t].user /\ row.org = session[t].org
      BY <1>1, <3>1 DEF SessionRecords
    <3>3. session' = [session EXCEPT ![t] = row]
      BY <1>7, <2>2 DEF RevokeSession
    <3> HIDE DEF row, t
    <3>4. session'[t] = row /\ \A u \in Tokens \ {t} : session'[u] = session[u]
      BY <1>1, <3>1, <3>3
    <3>5. SessionsKept
      BY <3>2, <3>4 DEF SessionsKept
    <3>6. SessionsSound'
      BY <3>1, <3>2, <3>4 DEF ConsoleInv, SessionsSound, OrgsOf
    <3>7. QED
      BY <2>1, <3>5, <3>6
  <2>3. CASE ~IsActive(t)
    BY <1>2, <1>7, <2>1, <2>3 DEF RevokeSession
  <2>4. QED
    BY <2>2, <2>3
<1>8. CASE ReadIdentity(c) \/ (\E u \in People : UserFound(c, u)) \/ UserMissing(c)
             \/ CreateUser(c) \/ LinkIdentity(c) \/ FailCall(c)
  BY <1>2, <1>8, ProgressOnly
<1>9. QED
  BY <1>3, <1>4, <1>5, <1>6, <1>7, <1>8 DEF CallStep

-----------------------------------------------------------------------------
(* A step of the service, while every handler waits.                        *)
LEMMA ServiceStepInv ==
  ASSUME ConsoleInv, ServiceStep, UNCHANGED <<pageVars, handler, overlapped>>
  PROVE  ConsoleInv'
<1> USE DEF pageVars
<1>1. ServiceInv'
  BY CallInv, ExpireTokenInv DEF ServiceStep, ConsoleInv
<1>2. TypeOK'
  BY <1>1 DEF ConsoleInv, TypeOK, ServiceInv
<1>3. ASSUME NEW c \in Calls, CallStep(c) \/ FailCall(c) PROVE ConsoleInv'
  <2>1. Progress(c) /\ SessionsKept /\ SessionsSound'
    BY <1>3, CallEffect
  <2>2. call[c].pc # "idle"
    BY <1>3 DEF CallStep, FailCall, ReadIdentity, UserFound, UserMissing, CreateUser, LinkIdentity,
                CreateSession, FindSession, MoveSession, CheckSession, RevokeSession, Running, LoginSteps
  <2>3. AnswersSound'
    BY <2>1 DEF ConsoleInv, AnswersSound, Progress, SessionsKept, Owned
  <2>4. SwitchesSound'
    BY <2>1 DEF ConsoleInv, SwitchesSound, SwitchSound, Progress, SessionsKept, Owned
  <2>5. AwaitedSound'
    BY <2>1 DEF ConsoleInv, AwaitedSound, AwaitsContext, Progress
  <2>6. AwayIsLogin'
    <3> SUFFICES ASSUME NEW h \in Handlers, NEW d \in Calls,
                        handler[h].call = d, handler[h].pc = "away"
                 PROVE  /\ call'[d].pc \in LoginSteps \cup {"answered", "failed"}
                        /\ call'[d].pc = "answered" => call'[d].token = d
      BY DEF AwayIsLogin
    <3>1. /\ call[d].pc \in LoginSteps \cup {"answered", "failed"}
          /\ call[d].pc = "answered" => call[d].token = d
      BY DEF ConsoleInv, AwayIsLogin
    <3>2. CASE d # c
      BY <2>1, <3>1, <3>2 DEF Progress
    <3>3. CASE d = c
      <4>1. call[c].pc \notin {"answered", "failed"}
        BY <1>3 DEF CallStep, FailCall, ReadIdentity, UserFound, UserMissing, CreateUser, LinkIdentity,
                CreateSession, FindSession, MoveSession, CheckSession, RevokeSession, Running, LoginSteps
      <4>2. QED
        BY <2>1, <3>1, <3>3, <4>1 DEF Progress
    <3>4. QED
      BY <3>2, <3>3
  <2>7. PageSound'
    BY <2>1 DEF ConsoleInv, PageSound, ShowsToken, SessionsKept, Owned
  <2>8. QED
    BY <1>1, <1>2, <2>1, <2>3, <2>4, <2>5, <2>6, <2>7 DEF ConsoleInv
<1>4. ASSUME NEW t \in Tokens, ExpireToken(t) PROVE ConsoleInv'
  <2>1. UNCHANGED <<session, call>>
    BY <1>4 DEF ExpireToken, rowVars
  <2>2. (SessionsSound /\ AnswersSound /\ SwitchesSound)'
    BY <2>1 DEF ConsoleInv, SessionsSound, AnswersSound, SwitchesSound, SwitchSound, Owned
  <2>3. (AwaitedSound /\ AwayIsLogin /\ PageSound)'
    BY <2>1 DEF ConsoleInv, AwaitedSound, AwaitsContext, AwayIsLogin, PageSound, ShowsToken, Owned
  <2>4. QED
    BY <1>1, <1>2, <2>2, <2>3 DEF ConsoleInv
<1>5. QED
  BY <1>3, <1>4 DEF ServiceStep

(* The types of what the page has.                                          *)
PageTypes ==
  /\ page \in Contexts \cup {NoPage}
  /\ stored \in Tokens \cup {NoToken, DemoToken}
  /\ cookie \in Tokens \cup {NoToken}
  /\ handler \in [Handlers -> HandlerRecords]
  /\ overlapped \in SUBSET Handlers

(* A handler sends a call, keeps its page or leaves it, and may end others. *)
LEMMA SendInv ==
  ASSUME ConsoleInv, NEW h \in Handlers, NEW c \in Calls, NEW request \in Requests,
         Send(c, request), faults' \in 0..MaxFaults, PageTypes',
         handler'[h].call = c,
         \A g \in Handlers \ {h} : handler'[g] = handler[g] \/ handler'[g].pc = "gone",
         request.pc = "revoke" => handler'[h].pc = "waiting" /\ handler'[h].kind = "logout",
         handler'[h].pc = "away" => request.pc = "identity",
         request.pc = "move" => SwitchSound(request),
         page' \in {page, NoPage}
  PROVE  ConsoleInv'
<1>1. UNCHANGED <<mail, identity, session, expired>> /\ Arrive(c, request)
  BY DEF Send, rowVars
<1>2. ServiceInv'
  BY <1>1, ArriveInv DEF ConsoleInv, rowVars
<1>3. TypeOK'
  BY <1>2 DEF ServiceInv, TypeOK, PageTypes, Contexts, HandlerRecords
<1>4. request.pc \in {"identity", "find", "move", "revoke"}
  BY RequestsSound DEF RequestSound
<1>5. call'[c] = request /\ call[c].pc = "idle" /\ \A d \in Calls \ {c} : call'[d] = call[d]
  <2>1. call \in [Calls -> CallRecords]
    BY DEF ConsoleInv, ServiceInv, ServiceTypeOK, CallRecords
  <2>2. QED
    BY <1>1, <2>1 DEF Arrive, Idle
<1>6. SessionsSound'
  BY <1>1 DEF ConsoleInv, SessionsSound
<1>7. AnswersSound'
  BY <1>1, <1>4, <1>5 DEF ConsoleInv, AnswersSound, Owned
<1>8. SwitchesSound'
  BY <1>1, <1>4, <1>5 DEF ConsoleInv, SwitchesSound, SwitchSound, Owned
<1>9. AwaitedSound'
  <2> SUFFICES ASSUME NEW g \in Handlers, NEW d \in Calls, handler'[g].call = d, AwaitsContext(g)'
               PROVE  /\ call'[d].pc \notin {"idle", "revoke"}
                      /\ call'[d].pc = "answered" => call'[d].user \in People
    BY DEF AwaitedSound
  <2>1. CASE g = h
    BY <1>4, <1>5, <2>1 DEF AwaitsContext
  <2>2. CASE g # h
    <3>1. handler'[g] = handler[g]
      BY <2>2 DEF AwaitsContext
    <3>2. d # c
      BY <1>5, <3>1 DEF ConsoleInv, AwaitedSound, AwaitsContext
    <3>3. QED
      BY <1>5, <3>1, <3>2 DEF ConsoleInv, AwaitedSound, AwaitsContext
  <2>3. QED
    BY <2>1, <2>2
<1>10. AwayIsLogin'
  <2> SUFFICES ASSUME NEW g \in Handlers, NEW d \in Calls, handler'[g].call = d, handler'[g].pc = "away"
               PROVE  /\ call'[d].pc \in LoginSteps \cup {"answered", "failed"}
                      /\ call'[d].pc = "answered" => call'[d].token = d
    BY DEF AwayIsLogin
  <2>1. CASE g = h
    BY <1>5, <2>1 DEF LoginSteps
  <2>2. CASE g # h
    <3>1. handler'[g] = handler[g]
      BY <2>2
    <3>2. d # c
      BY <1>5, <3>1 DEF ConsoleInv, AwayIsLogin, LoginSteps
    <3>3. QED
      BY <1>5, <3>1, <3>2 DEF ConsoleInv, AwayIsLogin
  <2>3. QED
    BY <2>1, <2>2
<1>11. PageSound'
  BY <1>1 DEF ConsoleInv, PageSound, ShowsToken, Owned
<1>12. QED
  BY <1>2, <1>3, <1>6, <1>7, <1>8, <1>9, <1>10, <1>11 DEF ConsoleInv

(* A handler ends, or begins without a call, while the service rests.       *)
LEMMA RestsInv ==
  ASSUME ConsoleInv, NEW h \in Handlers, ServiceRests, faults' \in 0..MaxFaults, PageTypes',
         handler'[h].pc = "done" \/ handler'[h].call = NoCall,
         \A g \in Handlers \ {h} : handler'[g] = handler[g],
         page' # NoPage /\ page'.token \in Tokens => Owned(page'.token, page'.user)
  PROVE  ConsoleInv'
<1>1. UNCHANGED <<session, call>> /\ ServiceInv'
  <2>1. UNCHANGED <<rowVars, expired, call, historyVars>>
    BY DEF ServiceRests
  <2>2. ServiceInv'
    BY <2>1, RestInv DEF ConsoleInv
  <2>3. QED
    BY <2>1, <2>2 DEF rowVars
<1>2. TypeOK'
  BY <1>1 DEF ServiceInv, TypeOK, PageTypes, Contexts, HandlerRecords
<1>3. (SessionsSound /\ AnswersSound /\ SwitchesSound)'
  BY <1>1 DEF ConsoleInv, SessionsSound, AnswersSound, SwitchesSound, SwitchSound, Owned
<1>4. NoCall \notin Calls
  BY ConsoleAssumption
<1>5. AwaitedSound'
  BY <1>1, <1>4 DEF ConsoleInv, AwaitedSound, AwaitsContext
<1>6. AwayIsLogin'
  BY <1>1, <1>4 DEF ConsoleInv, AwayIsLogin
<1>7. PageSound'
  BY <1>1 DEF PageSound, ShowsToken, Owned
<1>8. QED
  BY <1>1, <1>2, <1>3, <1>5, <1>6, <1>7 DEF ConsoleInv

-----------------------------------------------------------------------------
(* The context an awaited call was answered with.                           *)
LEMMA ContextSound ==
  ASSUME ConsoleInv, NEW h \in Handlers, AwaitsContext(h), Answered(h)
  PROVE  LET context == Context(handler[h].call)
         IN  /\ context \in Contexts /\ context.token \in Tokens \cup {NoToken}
             /\ context.token \in Tokens => Owned(context.token, context.user)
<1>1. PICK c \in Calls : handler[h].call = c /\ call[c].pc = "answered"
  BY DEF Answered
<1>2. call[c].user \in People
  BY <1>1 DEF ConsoleInv, AwaitedSound
<1>3. /\ call[c].token \in Tokens \cup {NoToken}
      /\ call[c].token \in Tokens => Owned(call[c].token, call[c].user)
  BY <1>1 DEF ConsoleInv, AnswersSound
<1>4. call[c].org \in Orgs \cup {NoOrg}
  BY DEF ConsoleInv, ServiceInv, ServiceTypeOK
<1>5. QED
  BY <1>1, <1>2, <1>3, <1>4 DEF Context, Contexts

(* The demo data's context.                                                 *)
LEMMA DemoSound == DemoContext \in Contexts /\ DemoContext.token = DemoToken /\ DemoToken \notin Tokens
  BY AuthAssumption DEF DemoContext, Contexts, People

(* What a page is answered with.                                            *)
PageAnswer ==
  /\ page' \in Contexts
  /\ page'.token \in Tokens => Owned(page'.token, page'.user)

(* The service's answer is sound.                                           *)
LEMMA ReceivedContext ==
  ASSUME ConsoleInv, NEW h \in Handlers, AwaitsContext(h), Received(h),
         page' = Context(handler[h].call)
  PROVE  PageAnswer /\ page'.token \in Tokens \cup {NoToken} /\ faults' \in 0..MaxFaults
<1>1. faults' \in 0..MaxFaults
  BY DEF Received, ConsoleInv, ServiceInv, ServiceTypeOK
<1>2. QED
  BY <1>1, ContextSound DEF Received, PageAnswer

(* An answer lost is one more fault.                                        *)
LEMMA FallbackFaults ==
  ASSUME ConsoleInv, NEW h, Fallback(h) PROVE faults' \in 0..MaxFaults
  BY AuthAssumption DEF Fallback, ConsoleInv, ServiceInv, ServiceTypeOK

(* The demo data's answer is sound.                                         *)
LEMMA FallbackContext ==
  ASSUME ConsoleInv, NEW h \in Handlers, Fallback(h), page' = DemoContext
  PROVE  PageAnswer /\ page'.token = DemoToken /\ faults' \in 0..MaxFaults
  BY FallbackFaults, DemoSound DEF PageAnswer

(* A handler that was answered ends.                                        *)
LEMMA FinishInv ==
  ASSUME ConsoleInv, NEW h \in Handlers, PageAnswer, faults' \in 0..MaxFaults,
         Finish(h), ServiceRests, UNCHANGED overlapped,
         stored' \in Tokens \cup {NoToken, DemoToken}, cookie' \in Tokens \cup {NoToken}
  PROVE  ConsoleInv'
<1>1. handler \in [Handlers -> HandlerRecords] /\ overlapped \in SUBSET Handlers
  BY DEF ConsoleInv, TypeOK, HandlerRecords
<1>2. [handler[h] EXCEPT !.pc = "done"] \in HandlerRecords
  BY <1>1 DEF HandlerRecords
<1>3. handler' = [handler EXCEPT ![h] = [handler[h] EXCEPT !.pc = "done"]]
  BY DEF Finish
<1>4. handler' \in [Handlers -> HandlerRecords] /\ \A g \in Handlers \ {h} : handler'[g] = handler[g]
  BY <1>1, <1>2, <1>3
<1>5. handler'[h].pc = "done"
  BY <1>1, <1>3 DEF HandlerRecords
<1>6. PageTypes'
  BY <1>1, <1>4 DEF PageTypes, PageAnswer
<1>7. QED
  BY <1>4, <1>5, <1>6, RestsInv DEF PageAnswer

(* What persistSession stores is a token.                                   *)
LEMMA StoredType ==
  ASSUME ConsoleInv, NEW context \in Contexts
  PROVE  Persisted(context) \in Tokens \cup {NoToken, DemoToken}
  BY DEF Persisted, Or, Contexts, ConsoleInv, TypeOK

(* bootstrap shows the context it was answered.                             *)
LEMMA BootstrapEndsInv ==
  ASSUME ConsoleInv, NEW h \in Handlers, BootstrapEnds(h) PROVE ConsoleInv'
<1>1. AwaitsContext(h)
  BY DEF BootstrapEnds, Awaits, AwaitsContext
<1>2. PageAnswer /\ faults' \in 0..MaxFaults
  BY <1>1, ReceivedContext, FallbackContext DEF BootstrapEnds
<1>3. stored' \in Tokens \cup {NoToken, DemoToken}
  BY <1>2, StoredType DEF BootstrapEnds, PersistedUnlessLost, PageAnswer
<1>4. cookie' \in Tokens \cup {NoToken}
  BY DEF BootstrapEnds, ConsoleInv, TypeOK
<1>5. QED
  BY <1>2, <1>3, <1>4, FinishInv DEF BootstrapEnds

(* A login or a switch shows the context it was answered, and its cookie.   *)
LEMMA ContextEndsInv ==
  ASSUME ConsoleInv, NEW h \in Handlers, ContextEnds(h) PROVE ConsoleInv'
<1>1. AwaitsContext(h)
  BY DEF ContextEnds, Awaits, AwaitsContext
<1>2. PageAnswer /\ faults' \in 0..MaxFaults
  BY <1>1, ReceivedContext, FallbackContext DEF ContextEnds
<1>3. stored' \in Tokens \cup {NoToken, DemoToken}
  BY <1>2, StoredType DEF ContextEnds, PageAnswer
<1>4. cookie' \in Tokens \cup {NoToken}
  <2>1. CASE Received(h) /\ page' = Context(handler[h].call) /\ cookie' = CookieOf(page')
    <3>1. page'.token \in Tokens \cup {NoToken}
      BY <1>1, <2>1, ReceivedContext
    <3>2. QED
      BY <2>1, <3>1 DEF CookieOf, Or, ConsoleInv, TypeOK
  <2>2. CASE UNCHANGED cookie
    BY <2>2 DEF ConsoleInv, TypeOK
  <2>3. QED
    BY <2>1, <2>2 DEF ContextEnds
<1>5. QED
  BY <1>2, <1>3, <1>4, FinishInv DEF ContextEnds

(* A sign-out shows the context it was answered.                            *)
LEMMA SignedOutContextInv ==
  ASSUME ConsoleInv, NEW h \in Handlers, SignedOutContext(h) PROVE ConsoleInv'
<1>1. AwaitsContext(h)
  BY DEF SignedOutContext, AwaitsContext
<1>2. PageAnswer /\ faults' \in 0..MaxFaults
  BY <1>1, ReceivedContext, FallbackContext DEF SignedOutContext, PageAfterSignOut
<1>3. stored' \in Tokens \cup {NoToken, DemoToken} /\ cookie' \in Tokens \cup {NoToken}
  BY DEF SignedOutContext, ConsoleInv, TypeOK
<1>4. QED
  BY <1>2, <1>3, FinishInv DEF SignedOutContext

-----------------------------------------------------------------------------
(* What a handler that begins does to the others: it leaves them or ends    *)
(* them with their page.                                                    *)
OthersSound(others) ==
  /\ others \in [Handlers -> HandlerRecords]
  /\ \A g \in Handlers : others[g] = handler[g] \/ others[g].pc = "gone"

(* Leaving the page ends the handlers in flight.                            *)
LEMMA Leaving == ConsoleInv => OthersSound(HandlersLeft)
<1> SUFFICES ASSUME ConsoleInv PROVE OthersSound(HandlersLeft)
  OBVIOUS
<1>1. handler \in [Handlers -> HandlerRecords]
  BY DEF ConsoleInv, TypeOK, HandlerRecords
<1>2. ASSUME NEW g \in Handlers
      PROVE  [handler[g] EXCEPT !.pc = "gone"] \in HandlerRecords
             /\ [handler[g] EXCEPT !.pc = "gone"].pc = "gone"
  BY <1>1 DEF HandlerRecords
<1>3. QED
  BY <1>1, <1>2 DEF OthersSound, HandlersLeft

(* Staying on it leaves them all.                                           *)
LEMMA Staying == ConsoleInv => OthersSound(handler)
  BY DEF ConsoleInv, TypeOK, HandlerRecords, OthersSound

(* Active handlers are handlers.                                            *)
LEMMA ActiveHandlers == Active \subseteq Handlers
  BY DEF Active

(* Handlers, when one of them begins as k.                                  *)
LEMMA BeginEffect ==
  ASSUME ConsoleInv, NEW h \in Handlers, NEW others, OthersSound(others),
         NEW k \in HandlerRecords, handler' = [others EXCEPT ![h] = k]
  PROVE  /\ handler' \in [Handlers -> HandlerRecords] /\ handler'[h] = k
         /\ \A g \in Handlers \ {h} : handler'[g] = handler[g] \/ handler'[g].pc = "gone"
  BY DEF OthersSound

(* The same for Start.                                                      *)
LEMMA StartEffect ==
  ASSUME ConsoleInv, NEW h \in Handlers, NEW kind \in Kinds,
         NEW t \in Tokens \cup {NoToken, DemoToken}, NEW c \in Calls \cup {NoCall},
         NEW others, OthersSound(others), Start(h, kind, t, c, others)
  PROVE  /\ handler' \in [Handlers -> HandlerRecords] /\ overlapped' \in SUBSET Handlers
         /\ handler'[h].kind = kind /\ handler'[h].pc = "waiting" /\ handler'[h].call = c
         /\ \A g \in Handlers \ {h} : handler'[g] = handler[g] \/ handler'[g].pc = "gone"
<1> DEFINE k == [kind |-> kind, pc |-> "waiting", token |-> t, call |-> c]
<1>1. k \in HandlerRecords /\ k.kind = kind /\ k.pc = "waiting" /\ k.call = c
  BY DEF HandlerRecords
<1>2. handler' = [others EXCEPT ![h] = k]
  BY DEF Start
<1>3. overlapped' \in SUBSET Handlers
  BY ActiveHandlers DEF Start, ConsoleInv, TypeOK
<1> HIDE DEF k
<1>4. QED
  BY <1>1, <1>2, <1>3, BeginEffect

(* The bound on faults.                                                     *)
LEMMA FaultsSame == ConsoleInv /\ UNCHANGED faults => faults' \in 0..MaxFaults
  BY DEF ConsoleInv, ServiceInv, ServiceTypeOK

(* The requests the console makes.                                          *)
LEMMA LoadRequest ==
  ASSUME NEW t \in Tokens \cup {NoToken, DemoToken}
  PROVE  ContextRequest(t) \in Requests /\ ContextRequest(t).pc = "find"
<1>1. ContextRequest(t) \in Requests
  BY DEF Requests
<1>2. QED
  BY <1>1 DEF ContextRequest, Idle

(* A sign-in's.                                                             *)
LEMMA SignInRequest ==
  ASSUME NEW p \in Profiles
  PROVE  LoginRequest(p) \in Requests /\ LoginRequest(p).pc = "identity"
<1>1. LoginRequest(p) \in Requests
  BY DEF Requests
<1>2. QED
  BY <1>1 DEF LoginRequest, Idle

(* A sign-out's.                                                            *)
LEMMA SignOutRequest ==
  ASSUME NEW t \in Tokens \cup {DemoToken}
  PROVE  LogoutRequest(t) \in Requests /\ LogoutRequest(t).pc = "revoke"
<1>1. LogoutRequest(t) \in Requests
  BY DEF Requests
<1>2. QED
  BY <1>1 DEF LogoutRequest, Idle

(* A switch's.                                                              *)
LEMMA MoveRequest ==
  ASSUME NEW t \in Tokens \cup {NoToken, DemoToken}, NEW u \in People, NEW o \in Orgs
  PROVE  /\ SwitchRequest(t, u, o) \in Requests /\ SwitchRequest(t, u, o).pc = "move"
         /\ SwitchRequest(t, u, o).token = t /\ SwitchRequest(t, u, o).user = u
         /\ SwitchRequest(t, u, o).org = o
<1>1. SwitchRequest(t, u, o) \in Requests
  BY DEF Requests
<1>2. QED
  BY <1>1 DEF SwitchRequest, Idle

-----------------------------------------------------------------------------
(* bootstrap asks for the context of the token stored, or of the cookie.    *)
LEMMA LoadInv ==
  ASSUME ConsoleInv, NEW h \in Handlers, NEW c \in Calls, Load(h, c) PROVE ConsoleInv'
<1> DEFINE t == Or(stored, cookie)
<1>1. /\ stored \in Tokens \cup {NoToken, DemoToken} /\ cookie \in Tokens \cup {NoToken}
      /\ t \in Tokens \cup {NoToken, DemoToken}
  BY DEF ConsoleInv, TypeOK, Or
<1>2. OthersSound(HandlersLeft)
  BY Leaving
<1>3. Start(h, "bootstrap", stored, c, HandlersLeft) /\ "bootstrap" \in Kinds
  BY DEF Load, Kinds
<1>4. /\ handler' \in [Handlers -> HandlerRecords] /\ overlapped' \in SUBSET Handlers
      /\ handler'[h].kind = "bootstrap" /\ handler'[h].pc = "waiting" /\ handler'[h].call = c
      /\ \A g \in Handlers \ {h} : handler'[g] = handler[g] \/ handler'[g].pc = "gone"
  BY <1>1, <1>2, <1>3, StartEffect
<1>5. PageTypes' /\ page' = NoPage /\ faults' \in 0..MaxFaults
  BY <1>1, <1>4, FaultsSame DEF Load, PageTypes
<1>6. ContextRequest(t) \in Requests /\ ContextRequest(t).pc = "find" /\ Send(c, ContextRequest(t))
  BY <1>1, LoadRequest DEF Load
<1> HIDE DEF t
<1>7. QED
  BY <1>4, <1>5, <1>6, SendInv

(* handleOAuthLogin begins.                                                 *)
LEMMA SignInInv ==
  ASSUME ConsoleInv, NEW h \in Handlers, NEW c \in Calls, NEW p \in Profiles, SignIn(h, c, p)
  PROVE  ConsoleInv'
<1>1. OthersSound(handler)
  BY Staying
<1>2. Start(h, "login", NoToken, c, handler) /\ "login" \in Kinds
  BY DEF SignIn, Kinds
<1>3. /\ handler' \in [Handlers -> HandlerRecords] /\ overlapped' \in SUBSET Handlers
      /\ handler'[h].kind = "login" /\ handler'[h].pc = "waiting" /\ handler'[h].call = c
      /\ \A g \in Handlers \ {h} : handler'[g] = handler[g] \/ handler'[g].pc = "gone"
  BY <1>1, <1>2, StartEffect
<1>4. PageTypes' /\ page' = page /\ faults' \in 0..MaxFaults
  BY <1>3, FaultsSame DEF SignIn, PageTypes, pageVars, ConsoleInv, TypeOK, Contexts
<1>5. /\ LoginRequest(p) \in Requests /\ LoginRequest(p).pc = "identity"
      /\ Send(c, LoginRequest(p))
  BY SignInRequest DEF SignIn
<1>6. QED
  BY <1>3, <1>4, <1>5, SendInv

(* It begins without the API.                                               *)
LEMMA SignInFallbackInv ==
  ASSUME ConsoleInv, NEW h \in Handlers, SignInFallback(h) PROVE ConsoleInv'
<1>1. OthersSound(handler)
  BY Staying
<1>2. Start(h, "login", NoToken, NoCall, handler) /\ "login" \in Kinds
  BY DEF SignInFallback, Kinds
<1>3. /\ handler' \in [Handlers -> HandlerRecords] /\ overlapped' \in SUBSET Handlers
      /\ handler'[h].call = NoCall
  BY <1>1, <1>2, StartEffect
<1>4. \A g \in Handlers \ {h} : handler'[g] = handler[g]
  BY <1>2 DEF Start, ConsoleInv, TypeOK
<1>5. PageTypes' /\ page' = page
  BY <1>3 DEF SignInFallback, PageTypes, pageVars, ConsoleInv, TypeOK, Contexts
<1>6. faults' \in 0..MaxFaults
  BY AuthAssumption DEF SignInFallback, ConsoleInv, ServiceInv, ServiceTypeOK
<1>7. ServiceRests
  BY DEF SignInFallback, ServiceRests
<1>8. page # NoPage /\ page.token \in Tokens => Owned(page.token, page.user)
  BY DEF ConsoleInv, PageSound, ShowsToken
<1>9. QED
  BY <1>3, <1>4, <1>5, <1>6, <1>7, <1>8, RestsInv

(* It leaves for a provider of its own.                                     *)
LEMMA SignInAwayInv ==
  ASSUME ConsoleInv, NEW h \in Handlers, NEW c \in Calls, NEW p \in Profiles, SignInAway(h, c, p)
  PROVE  ConsoleInv'
<1> DEFINE k == [kind |-> "login", pc |-> "away", token |-> NoToken, call |-> c]
<1>1. k \in HandlerRecords /\ k.kind = "login" /\ k.pc = "away" /\ k.call = c
  BY DEF HandlerRecords, Kinds
<1>2. OthersSound(HandlersLeft) /\ handler' = [HandlersLeft EXCEPT ![h] = k]
  BY Leaving DEF SignInAway
<1> HIDE DEF k
<1>3. /\ handler' \in [Handlers -> HandlerRecords] /\ handler'[h] = k
      /\ \A g \in Handlers \ {h} : handler'[g] = handler[g] \/ handler'[g].pc = "gone"
  BY <1>1, <1>2, BeginEffect
<1>4. overlapped' \in SUBSET Handlers
  BY ActiveHandlers DEF SignInAway, ConsoleInv, TypeOK
<1>5. PageTypes' /\ page' = NoPage /\ faults' \in 0..MaxFaults
  BY <1>3, <1>4, FaultsSame DEF SignInAway, PageTypes, ConsoleInv, TypeOK
<1>6. /\ LoginRequest(p) \in Requests /\ LoginRequest(p).pc = "identity"
      /\ Send(c, LoginRequest(p))
  BY SignInRequest DEF SignInAway
<1>7. QED
  BY <1>1, <1>3, <1>5, <1>6, SendInv

(* Only the seeded user is offered a choice, of what he is a member of.     *)
LEMMA SwitchToInv ==
  ASSUME ConsoleInv, NEW h \in Handlers, NEW c \in Calls, NEW o \in Orgs, SwitchTo(h, c, o)
  PROVE  ConsoleInv'
<1>1. page \in Contexts /\ page # NoPage /\ o \in Memberships /\ page.user = SeededUser
  BY DEF SwitchTo, SignedIn, OrgsOffered, ConsoleInv, TypeOK, Contexts
<1>2. page.token \in Tokens \cup {NoToken, DemoToken} /\ page.user \in People
  BY <1>1 DEF Contexts
<1>3. OthersSound(handler)
  BY Staying
<1>4. Start(h, "switch", page.token, c, handler) /\ "switch" \in Kinds
  BY DEF SwitchTo, Kinds
<1>5. /\ handler' \in [Handlers -> HandlerRecords] /\ overlapped' \in SUBSET Handlers
      /\ handler'[h].kind = "switch" /\ handler'[h].pc = "waiting" /\ handler'[h].call = c
      /\ \A g \in Handlers \ {h} : handler'[g] = handler[g] \/ handler'[g].pc = "gone"
  BY <1>2, <1>3, <1>4, StartEffect
<1>6. PageTypes' /\ page' = page /\ faults' \in 0..MaxFaults
  BY <1>5, FaultsSame DEF SwitchTo, PageTypes, pageVars, ConsoleInv, TypeOK, Contexts
<1> DEFINE request == SwitchRequest(page.token, page.user, o)
<1>7. /\ request \in Requests /\ request.pc = "move" /\ request.token = page.token
      /\ request.user = page.user /\ request.org = o
  BY <1>2, MoveRequest
<1>8. Send(c, request)
  BY DEF SwitchTo
<1> HIDE DEF request
<1>9. SwitchSound(request)
  BY <1>1, <1>7 DEF SwitchSound, ConsoleInv, PageSound, ShowsToken
<1>10. QED
  BY <1>5, <1>6, <1>7, <1>8, <1>9, SendInv

(* handleLogout begins.                                                     *)
LEMMA SignOutInv ==
  ASSUME ConsoleInv, NEW h \in Handlers, NEW c \in Calls, SignOut(h, c) PROVE ConsoleInv'
<1>1. page.token \in Tokens \cup {DemoToken}
  BY DEF SignOut, SignedIn, ConsoleInv, TypeOK
<1>2. OthersSound(handler)
  BY Staying
<1>3. Start(h, "logout", page.token, c, handler) /\ "logout" \in Kinds
  BY DEF SignOut, Kinds
<1>4. /\ handler' \in [Handlers -> HandlerRecords] /\ overlapped' \in SUBSET Handlers
      /\ handler'[h].kind = "logout" /\ handler'[h].pc = "waiting" /\ handler'[h].call = c
      /\ \A g \in Handlers \ {h} : handler'[g] = handler[g] \/ handler'[g].pc = "gone"
  BY <1>1, <1>2, <1>3, StartEffect
<1>5. PageTypes' /\ page' = page /\ faults' \in 0..MaxFaults
  BY <1>4, FaultsSame DEF SignOut, PageTypes, pageVars, ConsoleInv, TypeOK, Contexts
<1>6. /\ LogoutRequest(page.token) \in Requests /\ LogoutRequest(page.token).pc = "revoke"
      /\ Send(c, LogoutRequest(page.token))
  BY <1>1, SignOutRequest DEF SignOut
<1>7. QED
  BY <1>4, <1>5, <1>6, SendInv

(* The login at the provider was answered with its session's token.         *)
LEMMA ReturnWithTokenInv ==
  ASSUME ConsoleInv, NEW h \in Handlers, NEW c \in Calls, ReturnWithToken(h, c) PROVE ConsoleInv'
<1> DEFINE t == call[handler[h].call].token
           k == [kind |-> "bootstrap", pc |-> "waiting", token |-> t, call |-> c]
<1>1. t \in Tokens
  BY DEF ReturnWithToken, Answered, ConsoleInv, AwayIsLogin, Tokens
<1>2. k \in HandlerRecords /\ k.kind = "bootstrap" /\ k.pc = "waiting" /\ k.call = c
  BY <1>1 DEF HandlerRecords, Kinds
<1>3. OthersSound(handler) /\ handler' = [handler EXCEPT ![h] = k]
  BY Staying DEF ReturnWithToken
<1> HIDE DEF k
<1>4. /\ handler' \in [Handlers -> HandlerRecords] /\ handler'[h] = k
      /\ \A g \in Handlers \ {h} : handler'[g] = handler[g] \/ handler'[g].pc = "gone"
  BY <1>2, <1>3, BeginEffect
<1>5. PageTypes' /\ page' = page /\ faults' \in 0..MaxFaults
  BY <1>1, <1>4, FaultsSame DEF ReturnWithToken, PageTypes, ConsoleInv, TypeOK, Contexts
<1>6. ContextRequest(t) \in Requests /\ ContextRequest(t).pc = "find" /\ Send(c, ContextRequest(t))
  BY <1>1, LoadRequest DEF ReturnWithToken
<1> HIDE DEF t
<1>7. QED
  BY <1>2, <1>4, <1>5, <1>6, SendInv

(* It clears what is stored and asks for a context.                         *)
LEMMA SignOutEndsInv ==
  ASSUME ConsoleInv, NEW h \in Handlers, NEW c \in Calls, SignOutEnds(h, c) PROVE ConsoleInv'
<1> DEFINE k == [handler[h] EXCEPT !.pc = "context", !.call = c]
<1>1. k \in HandlerRecords /\ k.pc = "context" /\ k.call = c
  BY DEF ConsoleInv, TypeOK, HandlerRecords
<1>2. OthersSound(handler) /\ handler' = [handler EXCEPT ![h] = k]
  BY Staying DEF SignOutEnds
<1> HIDE DEF k
<1>3. /\ handler' \in [Handlers -> HandlerRecords] /\ handler'[h] = k
      /\ \A g \in Handlers \ {h} : handler'[g] = handler[g] \/ handler'[g].pc = "gone"
  BY <1>1, <1>2, BeginEffect
<1>4. cookie' \in Tokens \cup {NoToken}
  BY DEF SignOutEnds, ConsoleInv, TypeOK
<1>5. faults' \in 0..MaxFaults
  BY FaultsSame, FallbackFaults DEF SignOutEnds, Received
<1>6. PageTypes' /\ page' = page
  BY <1>3, <1>4 DEF SignOutEnds, PageTypes, ConsoleInv, TypeOK, Contexts
<1>7. /\ ContextRequest(cookie') \in Requests /\ ContextRequest(cookie').pc = "find"
      /\ Send(c, ContextRequest(cookie'))
  BY <1>4, LoadRequest DEF SignOutEnds
<1>8. QED
  BY <1>1, <1>3, <1>5, <1>6, <1>7, SendInv

-----------------------------------------------------------------------------
(* Every step of a handler.                                                 *)
LEMMA HandlerStepInv ==
  ASSUME ConsoleInv, NEW h \in Handlers, HandlerStep(h) PROVE ConsoleInv'
<1>1. CASE SignInFallback(h)
  BY <1>1, SignInFallbackInv
<1>2. ASSUME NEW c \in Calls,
             Load(h, c) \/ SignOut(h, c) \/ SignOutEnds(h, c) \/ ReturnWithToken(h, c)
      PROVE  ConsoleInv'
  BY <1>2, LoadInv, SignOutInv, SignOutEndsInv, ReturnWithTokenInv
<1>3. ASSUME NEW c \in Calls, NEW p \in Profiles, SignIn(h, c, p) \/ SignInAway(h, c, p)
      PROVE  ConsoleInv'
  BY <1>3, SignInInv, SignInAwayInv
<1>4. ASSUME NEW c \in Calls, NEW o \in Orgs, SwitchTo(h, c, o) PROVE ConsoleInv'
  BY <1>4, SwitchToInv
<1>5. CASE BootstrapEnds(h) \/ ContextEnds(h) \/ SignedOutContext(h)
  BY <1>5, BootstrapEndsInv, ContextEndsInv, SignedOutContextInv
<1>6. QED
  BY <1>1, <1>2, <1>3, <1>4, <1>5 DEF HandlerStep

(* Steps that leave everything as it is.                                    *)
LEMMA ConsoleStutterInv ==
  ASSUME ConsoleInv, UNCHANGED vars PROVE ConsoleInv'
<1>1. /\ UNCHANGED <<rowVars, expired, call, historyVars>> /\ UNCHANGED faults
      /\ UNCHANGED <<page, stored, cookie, handler, overlapped>>
  BY DEF vars, serviceVars, pageVars
<1>2. faults' \in 0..MaxFaults
  BY <1>1, FaultsSame
<1>3. ServiceInv'
  BY <1>1, <1>2, RestInv DEF ConsoleInv
<1>4. TypeOK'
  BY <1>1, <1>3 DEF ConsoleInv, TypeOK, ServiceInv
<1>5. UNCHANGED <<session, call>>
  BY <1>1 DEF rowVars
<1>6. (SessionsSound /\ AnswersSound /\ SwitchesSound)'
  BY <1>5 DEF ConsoleInv, SessionsSound, AnswersSound, SwitchesSound, SwitchSound, Owned
<1>7. (AwaitedSound /\ AwayIsLogin /\ PageSound)'
  BY <1>1, <1>5 DEF ConsoleInv, AwaitedSound, AwaitsContext, AwayIsLogin, PageSound, ShowsToken, Owned
<1>8. QED
  BY <1>3, <1>4, <1>6, <1>7 DEF ConsoleInv

(* The invariant is inductive.                                              *)
LEMMA ConsoleInductive == ConsoleInv /\ [Next]_vars => ConsoleInv'
<1> SUFFICES ASSUME ConsoleInv, [Next]_vars PROVE ConsoleInv'
  OBVIOUS
<1>1. CASE ServiceStep /\ UNCHANGED <<pageVars, handler, overlapped>>
  BY <1>1, ServiceStepInv
<1>2. ASSUME NEW h \in Handlers, HandlerStep(h) PROVE ConsoleInv'
  BY <1>2, HandlerStepInv
<1>3. CASE UNCHANGED vars
  BY <1>3, ConsoleStutterInv
<1>4. QED
  BY <1>1, <1>2, <1>3 DEF Next

(* The invariant of console and service together.                           *)
THEOREM ConsoleCorrect == Spec => []ConsoleInv
  BY ConsoleInitInv, ConsoleInductive, PTL DEF Spec

(* Every variable of the console and of the service keeps its type.         *)
THEOREM ConsoleTypes == Spec => []TypeOK
<1>1. ConsoleInv => TypeOK
  BY DEF ConsoleInv
<1>2. QED
  BY <1>1, ConsoleCorrect, PTL

(* The page never shows one user with the token of another's session,       *)
(* whatever answers are late, lost or made up.                              *)
THEOREM PageTokenIsOfUser == Spec => []TokenIsOfUser
<1>1. ConsoleInv => TokenIsOfUser
  BY DEF ConsoleInv, PageSound, TokenIsOfUser, Owned
<1>2. QED
  BY <1>1, ConsoleCorrect, PTL

(* No session is moved to an organisation its user is not a member of,      *)
(* though only the console asks who is a member of what.                    *)
THEOREM SessionsStayHome == Spec => []SessionOrgIsMember
<1>1. ConsoleInv => SessionOrgIsMember
  BY DEF ConsoleInv, SessionsSound, SessionOrgIsMember, OrgsOf
<1>2. QED
  BY <1>1, ConsoleCorrect, PTL

-----------------------------------------------------------------------------
(* The console is one of the callers the service is specified for: its      *)
(* steps are requests, steps of the service, or answers taken or lost.      *)
LEMMA FaultsGrow ==
  ConsoleInv /\ (UNCHANGED faults \/ (faults < MaxFaults /\ faults' = faults + 1)) =>
    faults' \in faults..MaxFaults
  BY AuthAssumption DEF ConsoleInv, ServiceInv, ServiceTypeOK

(* A handler that sends a call. *)
LEMMA SendsAsCaller ==
  ASSUME ConsoleInv, NEW c \in Calls, NEW request \in Requests, Send(c, request),
         UNCHANGED faults \/ (faults < MaxFaults /\ faults' = faults + 1)
  PROVE  ServiceNext
  BY FaultsGrow DEF Send, ServiceNext

(* A handler that sends none. *)
LEMMA RestsAsCaller ==
  ASSUME ConsoleInv, UNCHANGED <<rowVars, expired, call, historyVars>>,
         UNCHANGED faults \/ (faults < MaxFaults /\ faults' = faults + 1)
  PROVE  ServiceNext
  BY FaultsGrow DEF ServiceNext

(* Every step of a handler is a caller's.                                   *)
LEMMA HandlerIsCaller ==
  ASSUME ConsoleInv, NEW h \in Handlers, HandlerStep(h) PROVE ServiceNext
<1>1. CASE SignInFallback(h)
  BY <1>1, RestsAsCaller DEF SignInFallback
<1>2. CASE BootstrapEnds(h) \/ ContextEnds(h) \/ SignedOutContext(h)
  BY <1>2, RestsAsCaller
     DEF BootstrapEnds, ContextEnds, SignedOutContext, ServiceRests, Received, Fallback
<1>3. ASSUME NEW c \in Calls, Load(h, c) PROVE ServiceNext
  <2>1. Or(stored, cookie) \in Tokens \cup {NoToken, DemoToken}
    BY DEF ConsoleInv, TypeOK, Or
  <2>2. QED
    BY <1>3, <2>1, LoadRequest, SendsAsCaller DEF Load
<1>4. ASSUME NEW c \in Calls, SignOut(h, c) PROVE ServiceNext
  <2>1. page.token \in Tokens \cup {DemoToken}
    BY <1>4 DEF SignOut, SignedIn, ConsoleInv, TypeOK
  <2>2. QED
    BY <1>4, <2>1, SignOutRequest, SendsAsCaller DEF SignOut
<1>5. ASSUME NEW c \in Calls, SignOutEnds(h, c) PROVE ServiceNext
  <2>1. cookie' \in Tokens \cup {NoToken}
    BY <1>5 DEF SignOutEnds, ConsoleInv, TypeOK
  <2>2. ContextRequest(cookie') \in Requests
    BY <2>1, LoadRequest
  <2>3. QED
    BY <1>5, <2>2, SendsAsCaller DEF SignOutEnds, Received, Fallback
<1>6. ASSUME NEW c \in Calls, ReturnWithToken(h, c) PROVE ServiceNext
  <2>1. call[handler[h].call].token \in Tokens
    BY <1>6 DEF ReturnWithToken, Answered, ConsoleInv, AwayIsLogin, Tokens
  <2>2. QED
    BY <1>6, <2>1, LoadRequest, SendsAsCaller DEF ReturnWithToken
<1>7. ASSUME NEW c \in Calls, NEW p \in Profiles, SignIn(h, c, p) \/ SignInAway(h, c, p)
      PROVE  ServiceNext
  BY <1>7, SignInRequest, SendsAsCaller DEF SignIn, SignInAway
<1>8. ASSUME NEW c \in Calls, NEW o \in Orgs, SwitchTo(h, c, o) PROVE ServiceNext
  <2>1. page.token \in Tokens \cup {NoToken, DemoToken} /\ page.user \in People
    BY <1>8 DEF SwitchTo, SignedIn, ConsoleInv, TypeOK
  <2>2. QED
    BY <1>8, <2>1, MoveRequest, SendsAsCaller DEF SwitchTo
<1>9. QED
  BY <1>1, <1>2, <1>3, <1>4, <1>5, <1>6, <1>7, <1>8 DEF HandlerStep

(* The console with its service is an instance of the service with callers, *)
(* so that what holds of the service whoever calls holds behind the console.*)
THEOREM ConsoleCallsService == Spec => ServiceSpec
<1>1. Init => ServiceInit
  BY DEF Init
<1>2. ConsoleInv /\ [Next]_vars => [ServiceNext]_serviceVars
  BY HandlerIsCaller DEF Next, ServiceNext, vars
<1>3. QED
  BY <1>1, <1>2, ConsoleCorrect, PTL DEF Spec, ServiceSpec

(* What is proved of the service for any caller holds behind the console.   *)
THEOREM ServiceBehindConsole ==
  Spec => /\ []RevokedRefused /\ []DuplicatesOverlapped /\ []SessionsOfAddress
          /\ ImplementsLifecycle
  BY ConsoleCallsService, RevokedStayOut, DuplicatesOnlyOverlap, SessionsAreOfAddress,
     LifecycleImplemented, PTL

-----------------------------------------------------------------------------
(* One action at a time, without faults.  The history of overlaps is right: *)
(* a handler in flight that is not in it is the only one, and one that was  *)
(* left with its page is in it.  Every running call has a handler that      *)
(* waits for it or was left, and only a sign-out revokes.                   *)
HeldBegan == \A h \in Handlers, c \in Calls : handler[h].call = c => call[c].pc # "idle"

OneOrOverlapped ==
  /\ \A h \in Active : h \in overlapped \/ Active = {h}
  /\ \A h \in Handlers : handler[h].pc = "gone" => h \in overlapped

Holds(h, c) == handler[h].call = c /\ (InFlight(h) \/ handler[h].pc = "gone")
SignsOut(h, t) == handler[h].kind = "logout" /\ handler[h].token = t

CallsHeld ==
  /\ \A c \in Calls :
       /\ call[c].pc # "failed"
       /\ call[c].pc \in Running => \E h \in Handlers : Holds(h, c)
       /\ call[c].pc = "revoke" =>
            \E h \in Handlers : Holds(h, c) /\ SignsOut(h, call[c].token) /\ handler[h].pc # "context"
  /\ \A h \in Handlers : InFlight(h) => handler[h].call \in Calls

KindsRight ==
  \A h \in Handlers :
    /\ handler[h].pc = "new" => handler[h].kind = "none"
    /\ handler[h].pc = "away" => handler[h].kind = "login"

HandlersInv == HeldBegan /\ OneOrOverlapped /\ CallsHeld /\ KindsRight

(* A call is made. *)
Sent(c, request) ==
  /\ call[c].pc = "idle" /\ call'[c] = request
  /\ \A d \in Calls \ {c} : call'[d] = call[d]
  /\ UNCHANGED <<session, expired>>

(* A handler begins, beside the others or after their page was left.        *)
Left(g) ==
  /\ InFlight(g) /\ handler'[g].pc = "gone" /\ handler'[g].call = handler[g].call
  /\ handler'[g].kind = handler[g].kind /\ handler'[g].token = handler[g].token

Begun(h, kind, pc, t, c) ==
  /\ handler[h].pc = "new"
  /\ handler'[h] = [kind |-> kind, pc |-> pc, token |-> t, call |-> c]
  /\ \A g \in Handlers \ {h} : handler'[g] = handler[g] \/ Left(g)
  /\ overlapped' = IF Active = {} THEN overlapped ELSE overlapped \cup Active \cup {h}
  /\ pc \in {"waiting", "away"}

(* A handler goes on to another call. *)
GoneOn(h, c) ==
  /\ InFlight(h) /\ Answered(h) /\ handler'[h].call = c
  /\ handler'[h].pc \in {"waiting", "context"}
  /\ \A g \in Handlers \ {h} : handler'[g] = handler[g]
  /\ UNCHANGED overlapped

(* A handler ends with its answer. *)
Ended(h) ==
  /\ InFlight(h) /\ Answered(h)
  /\ handler'[h].pc = "done" /\ handler'[h].call = handler[h].call
  /\ handler'[h].kind = handler[h].kind /\ handler'[h].token = handler[h].token
  /\ \A g \in Handlers \ {h} : handler'[g] = handler[g]
  /\ UNCHANGED <<session, expired, call, overlapped>>

LEMMA SentIs ==
  ASSUME ConsoleInv, NEW c \in Calls, NEW request, Send(c, request) PROVE Sent(c, request)
  BY DEF Send, Arrive, Sent, Idle, rowVars, ConsoleInv, ServiceInv, ServiceTypeOK

LEMMA FaultsStayZero ==
  ASSUME ConsoleInv, [Next]_vars, faults' = 0 PROVE faults = 0
<1>1. faults \in Nat /\ MaxFaults \in Nat
  BY AuthAssumption DEF ConsoleInv, ServiceInv, ServiceTypeOK
<1>2. CASE ServiceStep
  <2>1. ASSUME NEW c \in Calls, CallStep(c) PROVE UNCHANGED faults
    BY <2>1 DEF CallStep, ReadIdentity, UserFound, UserMissing, CreateUser, LinkIdentity,
       CreateSession, FindSession, MoveSession, CheckSession, RevokeSession
  <2>2. ASSUME NEW c \in Calls, FailCall(c) PROVE faults' = faults + 1
    BY <2>2 DEF FailCall
  <2>3. ASSUME NEW t \in Tokens, ExpireToken(t) PROVE UNCHANGED faults
    BY <2>3 DEF ExpireToken
  <2>4. QED
    BY <1>1, <1>2, <2>1, <2>2, <2>3 DEF ServiceStep
<1>3. ASSUME NEW h \in Handlers, HandlerStep(h) PROVE faults = 0
  BY <1>1, <1>3 DEF HandlerStep, SignInFallback, Load, SignOut, SignOutEnds, ReturnWithToken,
     SignIn, SignInAway, SwitchTo, BootstrapEnds, ContextEnds, SignedOutContext, Received,
     Fallback
<1>4. CASE UNCHANGED vars
  BY <1>4 DEF vars, serviceVars
<1>5. QED
  BY <1>2, <1>3, <1>4 DEF Next

(* Without faults no handler is answered by the demo data.                  *)
LEMMA NoFallback ==
  ASSUME ConsoleInv, CallsHeld, faults' = 0, faults = 0, NEW h \in Handlers, InFlight(h)
  PROVE  ~Fallback(h)
<1>1. handler[h].call \in Calls /\ call[handler[h].call].pc # "failed"
  BY DEF CallsHeld
<1>2. QED
  BY <1>1 DEF Fallback, Failed

LEMMA LeftBehind ==
  ASSUME ConsoleInv, NEW h \in Handlers, handler[h].pc = "new", NEW k \in HandlerRecords,
         handler' = [HandlersLeft EXCEPT ![h] = k]
  PROVE  /\ handler'[h] = k
         /\ \A g \in Handlers \ {h} : handler'[g] = handler[g] \/ Left(g)
<1>1. handler \in [Handlers -> HandlerRecords]
  BY DEF ConsoleInv, TypeOK, HandlerRecords
<1>2. ASSUME NEW g \in Handlers, NEW q, q = [handler[g] EXCEPT !.pc = "gone"]
      PROVE  q.pc = "gone" /\ q.kind = handler[g].kind /\ q.token = handler[g].token
             /\ q.call = handler[g].call
  BY <1>1, <1>2 DEF HandlerRecords
<1>3. handler'[h] = k
        /\ \A g \in Handlers \ {h} : handler'[g] = HandlersLeft[g]
  BY DEF HandlersLeft
<1>4. ASSUME NEW g \in Handlers \ {h} PROVE handler'[g] = handler[g] \/ Left(g)
  <2>1. CASE InFlight(g)
    <3>1. handler'[g] = [handler[g] EXCEPT !.pc = "gone"]
      BY <1>3, <2>1 DEF HandlersLeft
    <3>2. QED
      BY <1>2, <2>1, <3>1 DEF Left
  <2>2. CASE ~InFlight(g)
    BY <1>3, <2>2 DEF HandlersLeft
  <2>3. QED
    BY <2>1, <2>2
<1>5. QED
  BY <1>3, <1>4

LEMMA BeginsBeside ==
  ASSUME ConsoleInv, NEW h \in Handlers, NEW kind \in Kinds,
         NEW t \in Tokens \cup {NoToken, DemoToken}, NEW c \in Calls,
         Start(h, kind, t, c, handler)
  PROVE  Begun(h, kind, "waiting", t, c)
  BY DEF Start, NextHandler, Begun, ConsoleInv, TypeOK

LEMMA LoadBegins ==
  ASSUME ConsoleInv, NEW h \in Handlers, NEW c \in Calls, Load(h, c)
  PROVE  Begun(h, "bootstrap", "waiting", stored, c) /\ Sent(c, ContextRequest(Or(stored, cookie)))
<1> DEFINE k == [kind |-> "bootstrap", pc |-> "waiting", token |-> stored, call |-> c]
<1>1. k \in HandlerRecords /\ handler' = [HandlersLeft EXCEPT ![h] = k] /\ handler[h].pc = "new"
  BY DEF Load, Start, NextHandler, HandlerRecords, Kinds, ConsoleInv, TypeOK
<1>2. Sent(c, ContextRequest(Or(stored, cookie)))
  BY SentIs DEF Load
<1>3. overlapped' = IF Active = {} THEN overlapped ELSE overlapped \cup Active \cup {h}
  BY DEF Load, Start
<1>4. /\ handler'[h] = k
      /\ \A g \in Handlers \ {h} : handler'[g] = handler[g] \/ Left(g)
  <2> HIDE DEF k
  <2>1. QED
    BY <1>1, LeftBehind
<1>5. QED
  BY <1>1, <1>2, <1>3, <1>4 DEF Begun

LEMMA AwayBegins ==
  ASSUME ConsoleInv, NEW h \in Handlers, NEW c \in Calls, NEW p \in Profiles, SignInAway(h, c, p)
  PROVE  Begun(h, "login", "away", NoToken, c) /\ Sent(c, LoginRequest(p))
<1> DEFINE k == [kind |-> "login", pc |-> "away", token |-> NoToken, call |-> c]
<1>1. k \in HandlerRecords /\ handler' = [HandlersLeft EXCEPT ![h] = k] /\ handler[h].pc = "new"
  BY DEF SignInAway, NextHandler, HandlerRecords, Kinds
<1>2. Sent(c, LoginRequest(p))
  BY SentIs DEF SignInAway
<1>3. overlapped' = IF Active = {} THEN overlapped ELSE overlapped \cup Active \cup {h}
  BY DEF SignInAway
<1>4. /\ handler'[h] = k
      /\ \A g \in Handlers \ {h} : handler'[g] = handler[g] \/ Left(g)
  <2> HIDE DEF k
  <2>1. QED
    BY <1>1, LeftBehind
<1>5. QED
  BY <1>1, <1>2, <1>3, <1>4 DEF Begun

(* How a handler's step moves the handlers on, without faults.              *)
LEMMA BeginsOrGoesOn ==
  ASSUME ConsoleInv, CallsHeld, NEW h \in Handlers, HandlerStep(h), faults = 0, faults' = 0
  PROVE  \/ \E c \in Calls :
              \/ Load(h, c) /\ Begun(h, "bootstrap", "waiting", stored, c)
                 /\ Sent(c, ContextRequest(Or(stored, cookie)))
              \/ SignOut(h, c) /\ Begun(h, "logout", "waiting", page.token, c)
                 /\ Sent(c, LogoutRequest(page.token))
              \/ \E p \in Profiles, pc \in {"waiting", "away"} :
                   /\ SignIn(h, c, p) \/ SignInAway(h, c, p)
                   /\ Begun(h, "login", pc, NoToken, c) /\ Sent(c, LoginRequest(p))
              \/ \E o \in Orgs :
                   /\ SwitchTo(h, c, o) /\ Begun(h, "switch", "waiting", page.token, c)
                   /\ Sent(c, SwitchRequest(page.token, page.user, o))
              \/ SignOutEnds(h, c) /\ GoneOn(h, c) /\ Sent(c, ContextRequest(NoToken))
              \/ /\ ReturnWithToken(h, c) /\ GoneOn(h, c)
                 /\ Sent(c, ContextRequest(call[handler[h].call].token))
         \/ (BootstrapEnds(h) \/ ContextEnds(h) \/ SignedOutContext(h)) /\ Ended(h)
<1>0. handler \in [Handlers -> HandlerRecords]
  BY DEF ConsoleInv, TypeOK, HandlerRecords
<1>1. ~SignInFallback(h)
  BY AuthAssumption DEF SignInFallback
<1>2. ASSUME NEW c \in Calls, Load(h, c)
      PROVE  Begun(h, "bootstrap", "waiting", stored, c)
             /\ Sent(c, ContextRequest(Or(stored, cookie)))
  BY <1>2, LoadBegins
<1>3. ASSUME NEW c \in Calls, SignOut(h, c)
      PROVE  Begun(h, "logout", "waiting", page.token, c) /\ Sent(c, LogoutRequest(page.token))
  <2>1. page.token \in Tokens \cup {NoToken, DemoToken} /\ "logout" \in Kinds
    BY <1>3 DEF SignOut, SignedIn, ConsoleInv, TypeOK, Kinds
  <2>2. QED
    BY <1>3, <2>1, BeginsBeside, SentIs DEF SignOut
<1>4. ASSUME NEW c \in Calls, NEW p \in Profiles, SignIn(h, c, p)
      PROVE  Begun(h, "login", "waiting", NoToken, c) /\ Sent(c, LoginRequest(p))
  BY <1>4, BeginsBeside, SentIs DEF SignIn, Kinds
<1>5. ASSUME NEW c \in Calls, NEW p \in Profiles, SignInAway(h, c, p)
      PROVE  Begun(h, "login", "away", NoToken, c) /\ Sent(c, LoginRequest(p))
  BY <1>5, AwayBegins
<1>6. ASSUME NEW c \in Calls, NEW o \in Orgs, SwitchTo(h, c, o)
      PROVE  Begun(h, "switch", "waiting", page.token, c)
             /\ Sent(c, SwitchRequest(page.token, page.user, o))
  <2>1. page.token \in Tokens \cup {NoToken, DemoToken} /\ "switch" \in Kinds
    BY <1>6 DEF SwitchTo, SignedIn, ConsoleInv, TypeOK, Kinds
  <2>2. QED
    BY <1>6, <2>1, BeginsBeside, SentIs DEF SwitchTo
<1>7. ASSUME NEW c \in Calls, SignOutEnds(h, c)
      PROVE  GoneOn(h, c) /\ Sent(c, ContextRequest(NoToken))
  <2>1. InFlight(h)
    BY <1>7 DEF SignOutEnds, Awaits, InFlight
  <2>2. Answered(h) /\ cookie' = NoToken
    BY <1>7, <2>1, NoFallback DEF SignOutEnds, Received
  <2>3. /\ handler'[h].pc = "context" /\ handler'[h].call = c
        /\ \A g \in Handlers \ {h} : handler'[g] = handler[g]
    BY <1>0, <1>7 DEF SignOutEnds, HandlerRecords
  <2>4. Sent(c, ContextRequest(NoToken))
    BY <1>7, <2>2, SentIs DEF SignOutEnds
  <2>5. QED
    BY <1>7, <2>1, <2>2, <2>3, <2>4 DEF GoneOn, SignOutEnds
<1>8. ASSUME NEW c \in Calls, ReturnWithToken(h, c)
      PROVE  GoneOn(h, c) /\ Sent(c, ContextRequest(call[handler[h].call].token))
  <2>1. InFlight(h) /\ Answered(h)
    BY <1>8 DEF ReturnWithToken, InFlight
  <2>2. /\ handler'[h].pc = "waiting" /\ handler'[h].call = c
        /\ \A g \in Handlers \ {h} : handler'[g] = handler[g]
    BY <1>0, <1>8 DEF ReturnWithToken
  <2>3. Sent(c, ContextRequest(call[handler[h].call].token))
    BY <1>8, SentIs DEF ReturnWithToken
  <2>4. QED
    BY <1>8, <2>1, <2>2, <2>3 DEF GoneOn, ReturnWithToken
<1>9. ASSUME BootstrapEnds(h) \/ ContextEnds(h) \/ SignedOutContext(h) PROVE Ended(h)
  <2>1. InFlight(h)
    BY <1>9 DEF BootstrapEnds, ContextEnds, SignedOutContext, Awaits, InFlight
  <2>2. Answered(h)
    BY <1>9, <2>1, NoFallback DEF BootstrapEnds, ContextEnds, SignedOutContext, Received
  <2>3. Finish(h) /\ UNCHANGED <<session, expired, call, overlapped>>
    BY <1>9 DEF BootstrapEnds, ContextEnds, SignedOutContext, ServiceRests, rowVars
  <2>4. /\ handler'[h].pc = "done" /\ handler'[h].call = handler[h].call
        /\ handler'[h].kind = handler[h].kind /\ handler'[h].token = handler[h].token
        /\ \A g \in Handlers \ {h} : handler'[g] = handler[g]
    BY <1>0, <2>3 DEF Finish, HandlerRecords
  <2>5. QED
    BY <2>1, <2>2, <2>3, <2>4 DEF Ended
<1>10. QED
  BY <1>1, <1>2, <1>3, <1>4, <1>5, <1>6, <1>7, <1>8, <1>9 DEF HandlerStep

-----------------------------------------------------------------------------
(* The handlers' invariant.                                                 *)

(* What a step of a call does to its record.                                *)
Shown(c) ==
  /\ call[c].token \in Tokens /\ session[call[c].token].status = "active"
  /\ call[c].org = ShownOrg(call[c].user, session[call[c].token].org)

AnsweredBySession(c) ==
  /\ call'[c].pc = "answered"
  /\ \/ IsValid(call[c].token) /\ call'[c].token = call[c].token /\ Shown(c)'
     \/ ~IsValid(call[c].token) /\ call'[c].token = NoToken

StatusesStay ==
  /\ UNCHANGED expired
  /\ \A t \in Tokens : session'[t].status = session[t].status

StepOf(c) ==
  /\ call[c].pc \in Running /\ call'[c].pc # "failed" /\ UNCHANGED <<expired, faults>>
  /\ \A d \in Calls \ {c} : call'[d] = call[d]
  /\ call[c].pc \in LoginSteps =>
       /\ \A t \in Tokens \ {c} : session'[t] = session[t]
       /\ \/ call'[c].pc \in LoginSteps /\ UNCHANGED session
          \/ /\ call'[c].pc = "answered" /\ call'[c].token = c /\ Shown(c)'
  /\ call[c].pc \in {"find", "check"} => UNCHANGED session /\ AnsweredBySession(c)
  /\ call[c].pc = "move" =>
       call'[c].pc = "check" /\ call'[c].token = call[c].token /\ StatusesStay
  /\ call[c].pc = "revoke" =>
       /\ call'[c].pc = "answered" /\ call'[c].token = NoToken
       /\ \A t \in Tokens : session'[t] = session[t] \/ t = call[c].token
       /\ call[c].token \in Tokens => session'[call[c].token].status # "active"

LEMMA LoginStepOf ==
  ASSUME ConsoleInv, NEW c \in Calls,
         ReadIdentity(c) \/ (\E u \in People : UserFound(c, u)) \/ UserMissing(c)
           \/ CreateUser(c) \/ LinkIdentity(c)
  PROVE  StepOf(c)
<1>1. call \in [Calls -> CallRecords]
  BY DEF ConsoleInv, ServiceInv, ServiceTypeOK, CallRecords
<1>2. /\ call[c].pc \in LoginSteps /\ UNCHANGED <<session, expired, faults>>
      /\ call'[c].pc \in LoginSteps /\ \A d \in Calls \ {c} : call'[d] = call[d]
  BY <1>1 DEF ReadIdentity, UserFound, UserMissing, CreateUser, LinkIdentity, GoTo, CallRecords,
     LoginSteps, rowVars
<1>3. QED
  BY <1>2 DEF StepOf, Running, LoginSteps

LEMMA SessionStepOf ==
  ASSUME ConsoleInv, NEW c \in Calls, FindSession(c) \/ CheckSession(c)
  PROVE  StepOf(c)
<1>1. call \in [Calls -> CallRecords] /\ session \in [Tokens -> SessionRecords]
  BY DEF ConsoleInv, ServiceInv, ServiceTypeOK, CallRecords, SessionRecords
<1>2. UNCHANGED <<session, expired, faults>> /\ call[c].pc \in {"find", "check"}
  BY DEF FindSession, CheckSession, rowVars
<1>3. CASE AnswerFromSession(c)
  <2> DEFINE t == call[c].token
             row == session[t]
  <2>1. /\ IsValid(t) /\ call'[c].pc = "answered" /\ call'[c].token = t
        /\ call'[c].user = row.user /\ call'[c].org = ShownOrg(row.user, row.org)
        /\ \A d \in Calls \ {c} : call'[d] = call[d]
    BY <1>1, <1>3 DEF AnswerFromSession, Answer, CallRecords
  <2>2. t \in Tokens /\ row.status = "active"
    BY <2>1 DEF IsValid, IsActive
  <2>3. Shown(c)'
    BY <1>2, <2>1, <2>2 DEF Shown
  <2>4. QED
    BY <1>2, <2>1, <2>3 DEF StepOf, AnsweredBySession, Running, LoginSteps
<1>4. CASE ~AnswerFromSession(c)
  <2>1. PICK u, o : ~IsValid(call[c].token) /\ Answer(c, NoToken, u, o)
    BY <1>4 DEF FindSession, CheckSession
  <2>2. /\ call'[c].pc = "answered" /\ call'[c].token = NoToken
        /\ \A d \in Calls \ {c} : call'[d] = call[d]
    BY <1>1, <2>1 DEF Answer, CallRecords
  <2>3. QED
    BY <1>2, <2>1, <2>2 DEF StepOf, AnsweredBySession, Running, LoginSteps
<1>5. QED
  BY <1>3, <1>4

LEMMA WriteStepOf ==
  ASSUME ConsoleInv, NEW c \in Calls, CreateSession(c) \/ MoveSession(c) \/ RevokeSession(c)
  PROVE  StepOf(c)
<1>1. call \in [Calls -> CallRecords] /\ session \in [Tokens -> SessionRecords]
  BY DEF ConsoleInv, ServiceInv, ServiceTypeOK, CallRecords, SessionRecords
<1>2. CASE CreateSession(c)
  <2> DEFINE row == [status |-> "active", user |-> call[c].user, org |-> HomeOrg]
  <2>1. call[c].pc = "session" /\ c \in Tokens /\ UNCHANGED <<expired, faults>>
    BY <1>2 DEF CreateSession, Tokens
  <2>2. session'[c] = row /\ \A t \in Tokens \ {c} : session'[t] = session[t]
    BY <1>1, <1>2, <2>1 DEF CreateSession, SessionUser
  <2>3. /\ call'[c].pc = "answered" /\ call'[c].token = c /\ call'[c].org = HomeOrg
        /\ \A d \in Calls \ {c} : call'[d] = call[d]
    BY <1>1, <1>2 DEF CreateSession, Answer, CallRecords
  <2>4. row.status = "active" /\ row.org = HomeOrg
    OBVIOUS
  <2> HIDE DEF row
  <2>5. Shown(c)'
    BY <2>1, <2>2, <2>3, <2>4 DEF Shown, ShownOrg
  <2>6. QED
    BY <2>1, <2>2, <2>3, <2>5 DEF StepOf, Running, LoginSteps
<1>3. CASE MoveSession(c)
  <2>1. /\ call[c].pc = "move" /\ UNCHANGED <<expired, faults>>
        /\ call'[c].pc = "check" /\ call'[c].token = call[c].token
        /\ \A d \in Calls \ {c} : call'[d] = call[d]
    BY <1>1, <1>3 DEF MoveSession, GoTo, CallRecords
  <2>2. ASSUME NEW t \in Tokens PROVE session'[t].status = session[t].status
    BY <1>1, <1>3 DEF MoveSession, SessionRecords
  <2>3. QED
    BY <2>1, <2>2 DEF StepOf, StatusesStay, Running, LoginSteps
<1>4. CASE RevokeSession(c)
  <2>1. /\ call[c].pc = "revoke" /\ UNCHANGED <<expired, faults>>
        /\ call'[c].pc = "answered" /\ call'[c].token = NoToken
        /\ \A d \in Calls \ {c} : call'[d] = call[d]
    BY <1>1, <1>4 DEF RevokeSession, Answer, CallRecords
  <2> DEFINE t == call[c].token
  <2>2. \A u \in Tokens : session'[u] = session[u] \/ u = t
    BY <1>1, <1>4 DEF RevokeSession
  <2>3. t \in Tokens => session'[t].status # "active"
    BY <1>1, <1>4 DEF RevokeSession, IsActive, SessionRecords
  <2>4. QED
    BY <2>1, <2>2, <2>3 DEF StepOf, Running, LoginSteps
<1>5. QED
  BY <1>2, <1>3, <1>4

LEMMA StepIs ==
  ASSUME ConsoleInv, NEW c \in Calls, CallStep(c) PROVE StepOf(c)
  BY LoginStepOf, SessionStepOf, WriteStepOf DEF CallStep

(* The invariant holds at the start and after every step.                   *)
LEMMA HandlersInvInit == Init => HandlersInv
<1> SUFFICES ASSUME Init PROVE HandlersInv
  OBVIOUS
<1>1. \A h \in Handlers : handler[h].pc = "new" /\ handler[h].call = NoCall
  BY DEF Init
<1>2. NoCall \notin Calls /\ \A c \in Calls : call[c].pc = "idle"
  BY ConsoleAssumption DEF Init, ServiceInit, Idle
<1>3. Active = {}
  BY <1>1, <1>2 DEF Active, InFlight, CallRuns
<1>4. KindsRight
  BY DEF Init, KindsRight
<1>5. QED
  BY <1>1, <1>2, <1>3, <1>4 DEF HandlersInv, HeldBegan, OneOrOverlapped, CallsHeld, InFlight,
     Running, LoginSteps

(* A call moves on. *)
LEMMA StepKeepsHandlers ==
  ASSUME ConsoleInv, HandlersInv, ServiceStep, UNCHANGED <<pageVars, handler, overlapped>>,
         faults = 0, faults' = 0
  PROVE  HandlersInv'
<1>1. ASSUME NEW c \in Calls, CallStep(c) \/ FailCall(c) PROVE HandlersInv'
  <2>1. Progress(c) /\ call[c].pc \in Running
    BY <1>1, CallEffect, StepIs DEF StepOf, FailCall
  <2>2. HeldBegan'
    BY <2>1 DEF HandlersInv, HeldBegan, Progress
  <2>3. Active' \subseteq Active
    BY <2>1 DEF Active, InFlight, CallRuns, Progress
  <2>4. OneOrOverlapped'
    BY <2>3 DEF HandlersInv, OneOrOverlapped
  <2>5. call'[c].pc # "failed"
    BY <1>1, StepIs DEF StepOf, FailCall
  <2>6. CallsHeld'
    BY <2>1, <2>5 DEF HandlersInv, CallsHeld, Holds, SignsOut, InFlight, Progress
  <2>7. QED
    BY <2>2, <2>4, <2>6 DEF HandlersInv, KindsRight
<1>2. ASSUME NEW t \in Tokens, ExpireToken(t) PROVE HandlersInv'
  <2>1. UNCHANGED call
    BY <1>2 DEF ExpireToken
  <2>2. Active' = Active
    BY <2>1 DEF Active, InFlight, CallRuns
  <2>3. QED
    BY <2>1, <2>2 DEF HandlersInv, HeldBegan, OneOrOverlapped, CallsHeld, KindsRight, Holds,
       SignsOut, InFlight
<1>3. QED
  BY <1>1, <1>2 DEF ServiceStep

(* What the invariant says of the overlaps is kept by every handler step,   *)
(* also when a call failed.                                                 *)
LEMMA BegunKeepsOverlaps ==
  ASSUME ConsoleInv, HeldBegan, OneOrOverlapped, NEW h \in Handlers, NEW kind, NEW pc, NEW t,
         NEW c \in Calls \cup {NoCall}, Begun(h, kind, pc, t, c),
         c \in Calls => call[c].pc = "idle" /\ call'[c].pc # "idle",
         \A d \in Calls \ {c} : call'[d] = call[d]
  PROVE  HeldBegan' /\ OneOrOverlapped'
<1>1. handler'[h].call = c /\ handler'[h].pc = pc /\ NoCall \notin Calls
  BY ConsoleAssumption DEF Begun
<1>2. \A g \in Handlers \ {h} :
        /\ handler'[g].call = handler[g].call
        /\ handler'[g].pc = handler[g].pc \/ (InFlight(g) /\ handler'[g].pc = "gone")
  BY DEF Begun, Left
<1>3. HeldBegan'
  BY <1>1, <1>2 DEF HeldBegan
<1>4. \A g \in Handlers \ {h}, d \in Calls : handler[g].call = d => call'[d] = call[d]
  BY DEF HeldBegan
<1>5. Active' \subseteq Active \cup {h}
  BY <1>2, <1>4 DEF Active, InFlight, CallRuns
<1>6. \A g \in Handlers : handler'[g].pc = "gone" => handler[g].pc = "gone" \/ g \in Active
  BY <1>1, <1>2 DEF Active, Begun
<1>7. OneOrOverlapped'
  <2>1. CASE Active = {}
    BY <1>5, <1>6, <2>1 DEF OneOrOverlapped, Begun
  <2>2. CASE Active # {}
    BY <1>5, <1>6, <2>2 DEF OneOrOverlapped, Begun
  <2>3. QED
    BY <2>1, <2>2
<1>8. QED
  BY <1>3, <1>7

LEMMA OwnKeepsOverlaps ==
  ASSUME ConsoleInv, HeldBegan, OneOrOverlapped, NEW h \in Handlers, InFlight(h),
         handler'[h].pc # "gone", \A g \in Handlers \ {h} : handler'[g] = handler[g],
         UNCHANGED overlapped,
         \A d \in Calls : call'[d] = call[d] \/ (call[d].pc = "idle" /\ call'[d].pc # "idle"),
         handler'[h].call \in Calls => call'[handler'[h].call].pc # "idle"
  PROVE  HeldBegan' /\ OneOrOverlapped'
<1>1. HeldBegan'
  BY DEF HeldBegan
<1>2. \A g \in Handlers \ {h}, d \in Calls : handler[g].call = d => call'[d] = call[d]
  BY DEF HeldBegan
<1>3. Active' \subseteq Active
  BY <1>2 DEF Active, InFlight, CallRuns
<1>4. QED
  BY <1>1, <1>3 DEF OneOrOverlapped

(* Without faults every handler step keeps the calls held.                  *)
LEMMA BegunKeepsCalls ==
  ASSUME ConsoleInv, HandlersInv, faults = 0, NEW h \in Handlers, NEW kind, NEW pc, NEW t,
         NEW c \in Calls, NEW request \in Requests, Begun(h, kind, pc, t, c), Sent(c, request),
         request.pc \in {"identity", "find", "move", "revoke"},
         request.pc = "revoke" => kind = "logout" /\ request.token = t
  PROVE  CallsHeld'
<1>1. /\ handler'[h].call = c /\ handler'[h].pc = pc /\ handler'[h].kind = kind
      /\ handler'[h].token = t /\ InFlight(h)' /\ handler'[h].pc # "context"
  BY DEF Begun, InFlight
<1>2. \A g \in Handlers \ {h} :
        /\ handler'[g].call = handler[g].call /\ handler'[g].kind = handler[g].kind
        /\ handler'[g].token = handler[g].token
        /\ handler'[g].pc = handler[g].pc \/ (InFlight(g) /\ handler'[g].pc = "gone")
  BY DEF Begun, Left
<1>3. ~InFlight(h) /\ handler[h].pc # "gone"
  BY DEF Begun, InFlight
<1>4. \A g \in Handlers, d \in Calls : Holds(g, d) =>
        g # h /\ Holds(g, d)' /\ (handler[g].pc # "context" => handler'[g].pc # "context")
  BY <1>2, <1>3 DEF Holds, InFlight
<1>5. Holds(h, c)'
  BY <1>1 DEF Holds
<1>6. ASSUME NEW d \in Calls
      PROVE  /\ call'[d].pc # "failed"
             /\ call'[d].pc \in Running => \E g \in Handlers : Holds(g, d)'
             /\ call'[d].pc = "revoke" =>
                  \E g \in Handlers : Holds(g, d)' /\ SignsOut(g, call[d].token)' /\ handler'[g].pc # "context"
  <2>1. CASE d = c
    BY <1>1, <1>5, <2>1 DEF Sent, SignsOut
  <2>2. CASE d # c
    BY <1>2, <1>4, <2>2 DEF Sent, HandlersInv, CallsHeld, SignsOut
  <2>3. QED
    BY <2>1, <2>2
<1>7. \A g \in Handlers : InFlight(g)' => handler'[g].call \in Calls
  BY <1>1, <1>2 DEF HandlersInv, CallsHeld, InFlight
<1>8. QED
  BY <1>6, <1>7 DEF CallsHeld

LEMMA GoneOnKeepsCalls ==
  ASSUME ConsoleInv, HandlersInv, faults = 0, NEW h \in Handlers,
         NEW c \in Calls, NEW request, GoneOn(h, c), Sent(c, request), request.pc = "find"
  PROVE  CallsHeld'
<1>1. InFlight(h)' /\ Holds(h, c)'
  BY DEF GoneOn, InFlight, Holds
<1>2. \A d \in Calls : call[d].pc \in Running /\ Holds(h, d) => FALSE
  BY DEF GoneOn, Answered, Holds, Running, LoginSteps
<1>3. \A g \in Handlers \ {h}, d \in Calls : Holds(g, d) => Holds(g, d)'
  BY DEF GoneOn, Holds, InFlight
<1>4. ASSUME NEW d \in Calls
      PROVE  /\ call'[d].pc # "failed"
             /\ call'[d].pc \in Running => \E g \in Handlers : Holds(g, d)'
             /\ call'[d].pc = "revoke" =>
                  \E g \in Handlers : Holds(g, d)' /\ SignsOut(g, call[d].token)' /\ handler'[g].pc # "context"
  <2>1. CASE d = c
    BY <1>1, <2>1 DEF Sent
  <2>2. CASE d # c
    <3>1. call'[d] = call[d]
      BY <2>2 DEF Sent
    <3>2. "revoke" \in Running
      BY DEF Running
    <3>3. call[d].pc = "revoke" =>
            \E g \in Handlers : g # h /\ Holds(g, d) /\ SignsOut(g, call[d].token) /\ handler[g].pc # "context"
      BY <1>2, <3>2 DEF HandlersInv, CallsHeld
    <3>4. QED
      BY <1>2, <1>3, <3>1, <3>3 DEF HandlersInv, CallsHeld, SignsOut, GoneOn
  <2>3. QED
    BY <2>1, <2>2
<1>5. \A g \in Handlers : InFlight(g)' => handler'[g].call \in Calls
  BY DEF HandlersInv, CallsHeld, InFlight, GoneOn
<1>6. QED
  BY <1>4, <1>5 DEF CallsHeld

LEMMA EndedKeepsCalls ==
  ASSUME ConsoleInv, HandlersInv, faults = 0, NEW h \in Handlers, Ended(h)
  PROVE  CallsHeld'
<1>1. \A d \in Calls : call[d].pc \in Running /\ Holds(h, d) => FALSE
  BY DEF Ended, Answered, Holds, Running, LoginSteps
<1>2. \A g \in Handlers \ {h}, d \in Calls : Holds(g, d) => Holds(g, d)'
  BY DEF Ended, Holds, InFlight
<1>3. "revoke" \in Running
  BY DEF Running
<1>4. ASSUME NEW d \in Calls
      PROVE  /\ call'[d].pc # "failed"
             /\ call'[d].pc \in Running => \E g \in Handlers : Holds(g, d)'
             /\ call'[d].pc = "revoke" =>
                  \E g \in Handlers : Holds(g, d)' /\ SignsOut(g, call[d].token)' /\ handler'[g].pc # "context"
  <2>1. call' = call
    BY DEF Ended
  <2>2. call[d].pc = "revoke" =>
          \E g \in Handlers : g # h /\ Holds(g, d) /\ SignsOut(g, call[d].token) /\ handler[g].pc # "context"
    BY <1>1, <1>3 DEF HandlersInv, CallsHeld
  <2>3. QED
    BY <1>1, <1>2, <2>1, <2>2 DEF HandlersInv, CallsHeld, SignsOut, Ended
<1>5. \A g \in Handlers : InFlight(g)' => handler'[g].call \in Calls
  BY DEF HandlersInv, CallsHeld, InFlight, Ended
<1>6. QED
  BY <1>4, <1>5 DEF CallsHeld

LEMMA HandlerKeepsKinds ==
  ASSUME ConsoleInv, CallsHeld, KindsRight, NEW h \in Handlers, HandlerStep(h), faults = 0,
         faults' = 0
  PROVE  KindsRight'
<1>1. ASSUME NEW kind, NEW pc, NEW t, NEW c, Begun(h, kind, pc, t, c),
             pc = "away" => kind = "login"
      PROVE  KindsRight'
  <2>1. handler'[h].kind = kind /\ handler'[h].pc = pc /\ pc # "new"
    BY <1>1 DEF Begun
  <2>2. QED
    BY <1>1, <2>1 DEF Begun, Left, KindsRight
<1>2. ASSUME NEW c, GoneOn(h, c) PROVE KindsRight'
  BY <1>2 DEF GoneOn, KindsRight
<1>3. ASSUME Ended(h) PROVE KindsRight'
  BY <1>3 DEF Ended, KindsRight
<1>4. QED
  BY <1>1, <1>2, <1>3, BeginsOrGoesOn

LEMMA HandlerKeepsHandlers ==
  ASSUME ConsoleInv, HandlersInv, NEW h \in Handlers, HandlerStep(h), faults = 0, faults' = 0
  PROVE  HandlersInv'
<1>0. KindsRight'
  BY HandlerKeepsKinds DEF HandlersInv
<1>1. ASSUME NEW kind, NEW pc, NEW t, NEW c \in Calls, NEW request \in Requests,
             Begun(h, kind, pc, t, c), Sent(c, request),
             request.pc \in {"identity", "find", "move", "revoke"},
             request.pc = "revoke" => kind = "logout" /\ request.token = t
      PROVE  HandlersInv'
  <2>1. call[c].pc = "idle" /\ call'[c].pc # "idle" /\ \A d \in Calls \ {c} : call'[d] = call[d]
    BY <1>1 DEF Sent
  <2>2. HeldBegan' /\ OneOrOverlapped'
    BY <1>1, <2>1, BegunKeepsOverlaps DEF HandlersInv
  <2>3. CallsHeld'
    BY <1>1, BegunKeepsCalls
  <2>4. QED
    BY <1>0, <2>2, <2>3 DEF HandlersInv
<1>2. ASSUME NEW c \in Calls, NEW t \in Tokens \cup {NoToken, DemoToken}, GoneOn(h, c),
             Sent(c, ContextRequest(t))
      PROVE  HandlersInv'
  <2>1. ContextRequest(t).pc = "find"
    BY <1>2, LoadRequest
  <2>2. /\ InFlight(h) /\ handler'[h].pc # "gone"
        /\ \A g \in Handlers \ {h} : handler'[g] = handler[g]
        /\ UNCHANGED overlapped /\ handler'[h].call = c
    BY <1>2 DEF GoneOn
  <2>3. /\ \A d \in Calls : call'[d] = call[d] \/ (call[d].pc = "idle" /\ call'[d].pc # "idle")
        /\ call'[c].pc # "idle"
    BY <1>2, <2>1 DEF Sent
  <2>4. HeldBegan' /\ OneOrOverlapped'
    BY <2>2, <2>3, OwnKeepsOverlaps DEF HandlersInv
  <2>5. CallsHeld'
    BY <1>2, <2>1, GoneOnKeepsCalls
  <2>6. QED
    BY <1>0, <2>4, <2>5 DEF HandlersInv
<1>3. ASSUME Ended(h) PROVE HandlersInv'
  <2>1. /\ InFlight(h) /\ handler'[h].pc # "gone" /\ handler'[h].call = handler[h].call
        /\ \A g \in Handlers \ {h} : handler'[g] = handler[g]
        /\ UNCHANGED <<call, overlapped>>
    BY <1>3 DEF Ended
  <2>2. handler'[h].call \in Calls => call'[handler'[h].call].pc # "idle"
    BY <2>1 DEF HandlersInv, HeldBegan
  <2>3. HeldBegan' /\ OneOrOverlapped'
    BY <2>1, <2>2, OwnKeepsOverlaps DEF HandlersInv
  <2>4. CallsHeld'
    BY <1>3, EndedKeepsCalls
  <2>5. QED
    BY <1>0, <2>3, <2>4 DEF HandlersInv
<1>4. ASSUME NEW c \in Calls, Load(h, c), Begun(h, "bootstrap", "waiting", stored, c),
             Sent(c, ContextRequest(Or(stored, cookie)))
      PROVE  HandlersInv'
  <2>1. Or(stored, cookie) \in Tokens \cup {NoToken, DemoToken}
    BY DEF ConsoleInv, TypeOK, Or
  <2>2. QED
    BY <1>1, <1>4, <2>1, LoadRequest
<1>5. ASSUME NEW c \in Calls, SignOut(h, c), Begun(h, "logout", "waiting", page.token, c),
             Sent(c, LogoutRequest(page.token))
      PROVE  HandlersInv'
  <2>1. page.token \in Tokens \cup {DemoToken}
    BY <1>5 DEF SignOut, SignedIn, ConsoleInv, TypeOK
  <2>2. LogoutRequest(page.token).token = page.token
    BY DEF LogoutRequest, Idle
  <2>3. QED
    BY <1>1, <1>5, <2>1, <2>2, SignOutRequest
<1>6. ASSUME NEW c \in Calls, NEW p \in Profiles, NEW pc,
             Begun(h, "login", pc, NoToken, c), Sent(c, LoginRequest(p))
      PROVE  HandlersInv'
  BY <1>1, <1>6, SignInRequest
<1>7. ASSUME NEW c \in Calls, NEW o \in Orgs, SwitchTo(h, c, o),
             Begun(h, "switch", "waiting", page.token, c),
             Sent(c, SwitchRequest(page.token, page.user, o))
      PROVE  HandlersInv'
  <2>1. page.token \in Tokens \cup {NoToken, DemoToken} /\ page.user \in People
    BY <1>7 DEF SwitchTo, SignedIn, ConsoleInv, TypeOK
  <2>2. QED
    BY <1>1, <1>7, <2>1, MoveRequest
<1>8. ASSUME NEW c \in Calls, ReturnWithToken(h, c), GoneOn(h, c),
             Sent(c, ContextRequest(call[handler[h].call].token))
      PROVE  HandlersInv'
  <2>1. call[handler[h].call].token \in Tokens
    BY <1>8 DEF ReturnWithToken, Answered, ConsoleInv, AwayIsLogin, Tokens
  <2>2. QED
    BY <1>2, <1>8, <2>1
<1>9. QED
  BY <1>2, <1>3, <1>4, <1>5, <1>6, <1>7, <1>8, BeginsOrGoesOn DEF HandlersInv

-----------------------------------------------------------------------------
(* Agreement.  While no handlers overlapped, the page, the stored token and *)
(* the cookie agree when nothing runs, and a handler in flight finds them   *)
(* as it left them and its call's answer in accord with them.               *)
RestSound ==
  \/ /\ ~IsValid(stored) /\ ~IsValid(cookie)
     /\ page # NoPage => page.token = NoToken
  \/ /\ stored \in Tokens /\ cookie = stored /\ session[stored].status = "active"
     /\ page # NoPage /\ page.token = stored
     /\ page.org = ShownOrg(page.user, session[stored].org)

(* The token sent and the cookie: of one session, or both of none.          *)
Paired(t) ==
  \/ ~IsValid(t) /\ ~IsValid(cookie)
  \/ t \in Tokens /\ cookie = t /\ session[t].status = "active"

BootPhase(t, c) ==
  /\ t = NoToken => stored = NoToken
  /\ call[c].pc \in {"find", "answered"}
  /\ call[c].pc = "find" => Paired(t) /\ call[c].token = Or(t, cookie)
  /\ call[c].pc = "answered" =>
       \/ call[c].token = NoToken /\ ~IsValid(cookie)
       \/ call[c].token = cookie /\ Shown(c)

LoginPhase(c) ==
  /\ call[c].pc \in LoginSteps \cup {"answered"}
  /\ call[c].pc = "answered" => Shown(c)

SwitchPhase(c) ==
  /\ stored \in Tokens /\ cookie = stored /\ session[stored].status = "active"
  /\ call[c].pc \in {"move", "check", "answered"}
  /\ call[c].pc \in {"move", "check"} => call[c].token = stored
  /\ call[c].pc = "answered" =>
       \/ call[c].token = stored /\ Shown(c)
       \/ call[c].token = NoToken /\ stored \in expired

SignedOutPhase(c) ==
  /\ stored = NoToken /\ cookie = NoToken
  /\ call[c].pc \in {"find", "answered"} /\ call[c].token = NoToken

Phase(h, c) ==
  \/ Awaits(h, "bootstrap") /\ BootPhase(handler[h].token, c)
  \/ handler[h].kind = "login" /\ handler[h].pc \in {"waiting", "away"} /\ LoginPhase(c)
  \/ Awaits(h, "switch") /\ SwitchPhase(c)
  \/ Awaits(h, "logout")
  \/ handler[h].pc = "context" /\ SignedOutPhase(c)

Agreeing ==
  overlapped = {} =>
    /\ Active = {} => RestSound
    /\ \A h \in Handlers, c \in Calls : InFlight(h) /\ handler[h].call = c => Phase(h, c)

(* A call moves on, while its handler is the only one. *)
LEMMA StepKeepsPhase ==
  ASSUME ConsoleInv, NEW c \in Calls, NEW h \in Handlers, StepOf(c), Phase(h, c),
         UNCHANGED <<page, stored, cookie, handler>>
  PROVE  Phase(h, c)'
<1>1. ASSUME Awaits(h, "bootstrap"), BootPhase(handler[h].token, c)
      PROVE  BootPhase(handler[h].token, c)'
  <2> DEFINE t == handler[h].token
  <2>1. call[c].pc = "find" /\ Paired(t) /\ call[c].token = Or(t, cookie)
    BY <1>1 DEF BootPhase, StepOf, Running, LoginSteps
  <2>2. UNCHANGED <<session, expired>> /\ AnsweredBySession(c)
    BY <2>1 DEF StepOf
  <2>3. ~IsValid(NoToken)
    BY AuthAssumption DEF IsValid, IsActive
  <2>4. ~IsValid(cookie) => ~IsValid(cookie)'
    BY <2>2 DEF IsValid, IsActive
  <2>5. CASE IsValid(call[c].token)
    <3>1. call[c].token = cookie
      BY <2>1, <2>5 DEF Paired, Or
    <3>2. QED
      BY <1>1, <2>2, <2>5, <3>1 DEF BootPhase, AnsweredBySession
  <2>6. CASE ~IsValid(call[c].token)
    <3>1. ~IsValid(cookie)
      BY <2>1, <2>6, AuthAssumption DEF Paired, Or
    <3>2. QED
      BY <1>1, <2>2, <2>4, <2>6, <3>1 DEF BootPhase, AnsweredBySession
  <2>7. QED
    BY <2>5, <2>6
<1>2. ASSUME LoginPhase(c) PROVE LoginPhase(c)'
  BY <1>2 DEF LoginPhase, StepOf, Running, LoginSteps
<1>3. ASSUME SwitchPhase(c) PROVE SwitchPhase(c)'
  <2>1. call[c].pc \in {"move", "check"} /\ call[c].token = stored
    BY <1>3 DEF SwitchPhase, StepOf, Running, LoginSteps
  <2>2. CASE call[c].pc = "move"
    BY <1>3, <2>1, <2>2 DEF SwitchPhase, StepOf, StatusesStay
  <2>3. CASE call[c].pc = "check"
    <3>1. UNCHANGED <<session, expired>> /\ AnsweredBySession(c)
      BY <2>3 DEF StepOf
    <3>2. IsValid(stored) <=> stored \notin expired
      BY <1>3 DEF SwitchPhase, IsValid, IsActive
    <3>3. QED
      BY <1>3, <2>1, <3>1, <3>2 DEF SwitchPhase, AnsweredBySession
  <2>4. QED
    BY <2>1, <2>2, <2>3
<1>4. ASSUME SignedOutPhase(c) PROVE SignedOutPhase(c)'
  <2>1. call[c].pc = "find" /\ call[c].token = NoToken
    BY <1>4 DEF SignedOutPhase, StepOf, Running, LoginSteps
  <2>2. ~IsValid(NoToken)
    BY AuthAssumption DEF IsValid, IsActive
  <2>3. QED
    BY <1>4, <2>1, <2>2 DEF SignedOutPhase, StepOf, AnsweredBySession
<1>5. QED
  BY <1>1, <1>2, <1>3, <1>4 DEF Phase, Awaits

(* The handler of the call that moves, if none overlapped. *)
LEMMA OnlyHolder ==
  ASSUME ConsoleInv, HandlersInv, overlapped = {}, NEW c \in Calls, call[c].pc \in Running
  PROVE  \E h \in Handlers : InFlight(h) /\ handler[h].call = c /\ Active = {h}
<1>1. PICK h \in Handlers : Holds(h, c)
  BY DEF HandlersInv, CallsHeld
<1>2. handler[h].pc # "gone"
  BY DEF HandlersInv, OneOrOverlapped
<1>3. InFlight(h) /\ h \in Active
  BY <1>1, <1>2 DEF Holds, Active
<1>4. QED
  BY <1>1, <1>3 DEF Holds, HandlersInv, OneOrOverlapped

LEMMA StepKeepsAgreeing ==
  ASSUME ConsoleInv, HandlersInv, Agreeing, ServiceStep,
         UNCHANGED <<pageVars, handler, overlapped>>, faults = 0, faults' = 0
  PROVE  Agreeing'
<1> USE DEF pageVars
<1>1. ASSUME NEW c \in Calls, CallStep(c), overlapped = {}
      PROVE  /\ Active' # {}
             /\ \A h \in Handlers, d \in Calls : InFlight(h) /\ handler[h].call = d => Phase(h, d)'
  <2>1. StepOf(c) /\ call[c].pc \in Running
    BY <1>1, StepIs DEF StepOf
  <2>2. PICK h \in Handlers : InFlight(h) /\ handler[h].call = c /\ Active = {h}
    BY <1>1, <2>1, OnlyHolder
  <2>3. Phase(h, c)
    BY <1>1, <2>2 DEF Agreeing
  <2>4. Phase(h, c)'
    BY <2>1, <2>3, StepKeepsPhase
  <2>5. h \in Active'
    BY <2>2 DEF Active, InFlight
  <2>6. \A g \in Handlers : InFlight(g) => g = h
    BY <2>2 DEF Active
  <2>7. QED
    BY <2>2, <2>4, <2>5, <2>6
<1>2. ASSUME NEW t \in Tokens, ExpireToken(t), overlapped = {}
      PROVE  Agreeing'
  <2>1. UNCHANGED <<session, call>> /\ expired \subseteq expired'
    BY <1>2 DEF ExpireToken, rowVars
  <2>2. Active' = Active
    BY <2>1 DEF Active, InFlight, CallRuns
  <2>3. ASSUME NEW u, ~IsValid(u) PROVE ~IsValid(u)'
    BY <2>1, <2>3 DEF IsValid, IsActive
  <2>4. RestSound => RestSound'
    BY <2>1, <2>3 DEF RestSound
  <2>5. ASSUME NEW h \in Handlers, NEW c \in Calls, Phase(h, c) PROVE Phase(h, c)'
    <3>1. ASSUME BootPhase(handler[h].token, c) PROVE BootPhase(handler[h].token, c)'
      BY <2>1, <2>3, <3>1 DEF BootPhase, Paired, Shown
    <3>2. ASSUME LoginPhase(c) PROVE LoginPhase(c)'
      BY <2>1, <3>2 DEF LoginPhase, Shown
    <3>3. ASSUME SwitchPhase(c) PROVE SwitchPhase(c)'
      BY <2>1, <3>3 DEF SwitchPhase, Shown
    <3>4. ASSUME SignedOutPhase(c) PROVE SignedOutPhase(c)'
      BY <2>1, <3>4 DEF SignedOutPhase
    <3>5. QED
      BY <2>5, <3>1, <3>2, <3>3, <3>4 DEF Phase, Awaits
  <2>6. QED
    BY <1>2, <2>2, <2>4, <2>5 DEF Agreeing, InFlight
<1>3. ASSUME NEW c \in Calls, FailCall(c) PROVE FALSE
  BY <1>3 DEF FailCall
<1>4. QED
  BY <1>1, <1>2, <1>3 DEF ServiceStep, Agreeing, InFlight

(* A handler begins. *)
LEMMA BegunAgrees ==
  ASSUME ConsoleInv, Agreeing, NEW h \in Handlers, NEW kind, NEW pc, NEW t, NEW c \in Calls,
         Begun(h, kind, pc, t, c), Active = {} /\ RestSound => Phase(h, c)'
  PROVE  Agreeing'
<1>1. CASE Active # {}
  BY <1>1 DEF Begun, Agreeing
<1>2. CASE Active = {}
  <2>1. overlapped' = {} => RestSound
    BY <1>2 DEF Begun, Agreeing
  <2>2. \A g \in Handlers : ~InFlight(g)
    BY <1>2 DEF Active
  <2>3. handler'[h].pc = pc /\ handler'[h].call = c /\ pc \in {"waiting", "away"}
    BY DEF Begun
  <2>4. h \in Active'
    BY <2>3 DEF Active, InFlight
  <2>5. \A g \in Handlers : InFlight(g)' => g = h
    BY <2>2 DEF Begun, Left, InFlight
  <2>6. QED
    BY <1>2, <2>1, <2>3, <2>4, <2>5 DEF Agreeing
<1>3. QED
  BY <1>1, <1>2

LEMMA LoadAgrees ==
  ASSUME ConsoleInv, Agreeing, NEW h \in Handlers, NEW c \in Calls, Load(h, c),
         Begun(h, "bootstrap", "waiting", stored, c), Sent(c, ContextRequest(Or(stored, cookie)))
  PROVE  Agreeing'
<1>1. ASSUME RestSound PROVE Phase(h, c)'
  <2>1. /\ Awaits(h, "bootstrap")' /\ handler'[h].token = stored
        /\ UNCHANGED <<stored, cookie, session, expired>>
    BY DEF Begun, Awaits, Sent, Load
  <2>2. call'[c].pc = "find" /\ call'[c].token = Or(stored, cookie)
    BY DEF Sent, ContextRequest, Idle
  <2>3. Paired(stored)
    BY <1>1 DEF RestSound, Paired
  <2>4. Paired(stored)'
    BY <2>1, <2>3 DEF Paired, IsValid, IsActive
  <2>5. BootPhase(handler[h].token, c)'
    BY <2>1, <2>2, <2>4 DEF BootPhase, Paired, Or
  <2>6. QED
    BY <2>1, <2>5 DEF Phase
<1>2. QED
  BY <1>1, BegunAgrees

LEMMA LoginAgrees ==
  ASSUME ConsoleInv, Agreeing, NEW h \in Handlers, NEW c \in Calls, NEW p \in Profiles,
         NEW pc \in {"waiting", "away"},
         Begun(h, "login", pc, NoToken, c), Sent(c, LoginRequest(p))
  PROVE  Agreeing'
<1>1. handler'[h].kind = "login" /\ handler'[h].pc = pc
  BY DEF Begun
<1>2. call'[c].pc = "identity"
  BY DEF Sent, LoginRequest, Idle
<1>3. LoginPhase(c)'
  BY <1>2 DEF LoginPhase, LoginSteps
<1>4. Phase(h, c)'
  BY <1>1, <1>3 DEF Phase
<1>5. QED
  BY <1>4, BegunAgrees

LEMMA SwitchAgrees ==
  ASSUME ConsoleInv, Agreeing, NEW h \in Handlers, NEW c \in Calls, NEW o \in Orgs,
         SwitchTo(h, c, o), Begun(h, "switch", "waiting", page.token, c),
         Sent(c, SwitchRequest(page.token, page.user, o))
  PROVE  Agreeing'
<1>1. ASSUME RestSound PROVE Phase(h, c)'
  <2>1. Awaits(h, "switch")' /\ UNCHANGED <<page, stored, cookie, session, expired>>
    BY DEF Begun, Awaits, Sent, SwitchTo, pageVars
  <2>2. call'[c].pc = "move" /\ call'[c].token = page.token
    BY DEF Sent, SwitchRequest, Idle
  <2>3. stored \in Tokens /\ cookie = stored /\ session[stored].status = "active" /\ page.token = stored
    BY <1>1 DEF RestSound, SwitchTo, SignedIn
  <2>4. SwitchPhase(c)'
    BY <2>1, <2>2, <2>3 DEF SwitchPhase
  <2>5. QED
    BY <2>1, <2>4 DEF Phase
<1>2. QED
  BY <1>1, BegunAgrees

LEMMA SignOutAgrees ==
  ASSUME ConsoleInv, Agreeing, NEW h \in Handlers, NEW c \in Calls,
         Begun(h, "logout", "waiting", page.token, c)
  PROVE  Agreeing'
<1>1. Phase(h, c)'
  BY DEF Begun, Phase, Awaits
<1>2. QED
  BY <1>1, BegunAgrees

(* A handler goes on. *)
LEMMA GoneOnAgrees ==
  ASSUME ConsoleInv, HandlersInv, Agreeing, NEW h \in Handlers, NEW c \in Calls, GoneOn(h, c),
         overlapped = {} /\ (\A d \in Calls : handler[h].call = d => Phase(h, d)) => Phase(h, c)'
  PROVE  Agreeing'
<1> SUFFICES ASSUME overlapped = {}
             PROVE  /\ Active' # {}
                    /\ \A g \in Handlers, d \in Calls : InFlight(g)' /\ handler'[g].call = d => Phase(g, d)'
  BY DEF GoneOn, Agreeing
<1>1. Active = {h}
  BY DEF GoneOn, Active, HandlersInv, OneOrOverlapped
<1>2. h \in Active' /\ handler'[h].call = c
  BY DEF GoneOn, Active, InFlight
<1>3. \A g \in Handlers : InFlight(g)' => g = h
  BY <1>1 DEF GoneOn, Active, InFlight
<1>4. Phase(h, c)'
  BY DEF Agreeing, GoneOn
<1>5. QED
  BY <1>2, <1>3, <1>4

LEMMA SignOutEndsAgrees ==
  ASSUME ConsoleInv, HandlersInv, Agreeing, NEW h \in Handlers, NEW c \in Calls,
         faults = 0, faults' = 0,
         SignOutEnds(h, c), GoneOn(h, c), Sent(c, ContextRequest(NoToken))
  PROVE  Agreeing'
<1>1. InFlight(h)
  BY DEF GoneOn
<1>2. stored' = NoToken /\ cookie' = NoToken
  BY <1>1, NoFallback DEF SignOutEnds, HandlersInv
<1>3. handler'[h].pc = "context"
  BY DEF SignOutEnds, ConsoleInv, TypeOK
<1>4. call'[c].pc = "find" /\ call'[c].token = NoToken
  BY DEF Sent, ContextRequest, Idle
<1>5. Phase(h, c)'
  BY <1>2, <1>3, <1>4 DEF Phase, SignedOutPhase
<1>6. QED
  BY <1>5, GoneOnAgrees

LEMMA ReturnAgrees ==
  ASSUME ConsoleInv, HandlersInv, Agreeing, NEW h \in Handlers, NEW c \in Calls,
         ReturnWithToken(h, c), GoneOn(h, c), Sent(c, ContextRequest(call[handler[h].call].token))
  PROVE  Agreeing'
<1>1. PICK d \in Calls : handler[h].call = d /\ call[d].pc = "answered"
  BY DEF ReturnWithToken, Answered
<1> DEFINE t == call[d].token
<1>2. ASSUME overlapped = {}, Phase(h, d) PROVE Phase(h, c)'
  <2>1. Shown(d)
    BY <1>1, <1>2 DEF Phase, Awaits, ReturnWithToken, LoginPhase
  <2>2. t \in Tokens /\ session[t].status = "active" /\ t # NoToken
    BY <2>1, AuthAssumption DEF Shown
  <2>3. /\ handler'[h].kind = "bootstrap" /\ handler'[h].pc = "waiting" /\ handler'[h].token = t
        /\ cookie' = t
    BY <1>1 DEF ReturnWithToken, ConsoleInv, TypeOK
  <2>4. call'[c].pc = "find" /\ call'[c].token = t /\ UNCHANGED <<session, expired>>
    BY <1>1 DEF Sent, ContextRequest, Idle
  <2> HIDE DEF t
  <2>5. BootPhase(handler[h].token, c)'
    BY <2>2, <2>3, <2>4 DEF BootPhase, Paired, Or
  <2>6. QED
    BY <2>3, <2>5 DEF Phase, Awaits
<1>3. QED
  BY <1>1, <1>2, GoneOnAgrees

(* A handler ends. *)
LEMMA EndedAgrees ==
  ASSUME ConsoleInv, HandlersInv, Agreeing, NEW h \in Handlers, Ended(h),
         faults = 0, faults' = 0,
         BootstrapEnds(h) \/ ContextEnds(h) \/ SignedOutContext(h)
  PROVE  Agreeing'
<1> SUFFICES ASSUME overlapped = {} PROVE Agreeing'
  BY DEF Ended, Agreeing
<1>1. ~Fallback(h)
  BY NoFallback DEF Ended, HandlersInv
<1>2. PICK d \in Calls : handler[h].call = d /\ call[d].pc = "answered"
  BY DEF Ended, Answered
<1>3. Phase(h, d)
  BY <1>2 DEF Agreeing, Ended
<1>4. NoToken \notin Tokens /\ ~IsValid(NoToken) /\ UNCHANGED <<session, expired>>
  BY AuthAssumption DEF IsValid, IsActive, Ended
<1>5. page' = Context(d) /\ Context(d) # NoPage
  <2>1. page' = Context(d)
    BY <1>1, <1>2 DEF BootstrapEnds, ContextEnds, SignedOutContext, PageAfterSignOut
  <2>2. Context(d) \in Contexts
    BY <1>2, ContextSound
       DEF Ended, BootstrapEnds, ContextEnds, SignedOutContext, Awaits, AwaitsContext
  <2>3. QED
    BY <2>1, <2>2, ConsoleAssumption DEF Contexts
<1>6. page'.token = call[d].token /\ page'.user = call[d].user /\ page'.org = call[d].org
  BY <1>5 DEF Context
<1>7. ASSUME Shown(d), stored' = call[d].token, cookie' = call[d].token PROVE RestSound'
  BY <1>4, <1>5, <1>6, <1>7 DEF RestSound, Shown
<1>8. ASSUME call[d].token = NoToken, ~IsValid(stored'), ~IsValid(cookie') PROVE RestSound'
  BY <1>4, <1>6, <1>8 DEF RestSound, IsValid, IsActive
<1>9. CASE BootstrapEnds(h)
  <2>1. BootPhase(handler[h].token, d) /\ UNCHANGED cookie
    BY <1>3, <1>9 DEF Phase, Awaits, BootstrapEnds
  <2>2. /\ page'.token # NoToken => stored' = page'.token
        /\ page'.token = NoToken => stored' = IF handler[h].token # NoToken THEN NoToken ELSE stored
    BY <1>9 DEF BootstrapEnds, PersistedUnlessLost, Persisted, Or
  <2>3. ASSUME call[d].token = NoToken, ~IsValid(cookie) PROVE RestSound'
    <3>1. stored' = NoToken
      BY <1>6, <2>1, <2>2, <2>3 DEF BootPhase
    <3>2. QED
      BY <1>4, <1>8, <2>1, <2>3, <3>1 DEF IsValid, IsActive
  <2>4. ASSUME call[d].token = cookie, Shown(d) PROVE RestSound'
    <3>1. stored' = call[d].token
      BY <1>4, <1>6, <2>2, <2>4 DEF Shown
    <3>2. QED
      BY <1>7, <2>1, <2>4, <3>1
  <2>5. RestSound'
    BY <1>2, <2>1, <2>3, <2>4 DEF BootPhase
  <2>6. QED
    BY <2>5 DEF Ended, Agreeing, Active, InFlight, HandlersInv, OneOrOverlapped
<1>10. CASE ContextEnds(h)
  <2>1. stored' = Or(page'.token, stored) /\ cookie' = Or(page'.token, cookie)
    BY <1>1, <1>10 DEF ContextEnds, Persisted, CookieOf
  <2>2. ASSUME Shown(d) PROVE RestSound'
    BY <1>4, <1>6, <1>7, <2>1, <2>2 DEF Or, Shown
  <2>3. ASSUME SwitchPhase(d), call[d].token = NoToken PROVE RestSound'
    <3>1. stored \in expired /\ cookie = stored /\ stored' = stored /\ cookie' = cookie
      BY <1>2, <1>4, <1>6, <2>1, <2>3 DEF SwitchPhase, Or
    <3>2. QED
      BY <1>8, <2>3, <3>1 DEF IsValid
  <2>4. RestSound'
    BY <1>2, <1>3, <1>10, <2>2, <2>3
       DEF ContextEnds, Phase, Awaits, LoginPhase, SwitchPhase
  <2>5. QED
    BY <2>4 DEF Ended, Agreeing, Active, InFlight, HandlersInv, OneOrOverlapped
<1>11. CASE SignedOutContext(h)
  <2>1. SignedOutPhase(d) /\ UNCHANGED <<stored, cookie>>
    BY <1>3, <1>11 DEF SignedOutContext, Phase, Awaits
  <2>2. RestSound'
    BY <1>4, <1>8, <2>1 DEF SignedOutPhase
  <2>3. QED
    BY <2>2 DEF Ended, Agreeing, Active, InFlight, HandlersInv, OneOrOverlapped
<1>12. QED
  BY <1>9, <1>10, <1>11

LEMMA HandlerKeepsAgreeing ==
  ASSUME ConsoleInv, HandlersInv, Agreeing, NEW h \in Handlers, HandlerStep(h), faults = 0,
         faults' = 0
  PROVE  Agreeing'
  BY BeginsOrGoesOn, LoadAgrees, LoginAgrees, SwitchAgrees, SignOutAgrees, SignOutEndsAgrees,
     ReturnAgrees, EndedAgrees DEF HandlersInv

-----------------------------------------------------------------------------
(* Revocations.  A revoked session's sign-out overlapped with another       *)
(* handler, or is the only one still in flight, or neither the page nor an  *)
(* answer on its way has the session's token any more.                      *)
Explained(t) == \E h \in Handlers : h \in overlapped /\ SignsOut(h, t)

Forgotten(t) ==
  /\ ~(page # NoPage /\ page.token = t)
  /\ \A h \in Handlers, c \in Calls :
       InFlight(h) /\ handler[h].call = c /\ call[c].pc = "answered" => call[c].token # t

SigningOut(t) ==
  \E h \in Handlers :
    /\ SignsOut(h, t) /\ Active = {h}
    /\ \/ handler[h].pc = "waiting"
       \/ /\ handler[h].pc = "context"
          /\ \A c \in Calls : handler[h].call = c =>
               call[c].pc \in {"find", "answered"} /\ call[c].token = NoToken

Revocations ==
  \A t \in Tokens : session[t].status = "revoked" =>
    Explained(t) \/ Forgotten(t) \/ SigningOut(t)

(* A session is only ever revoked by the call that says so, and an answer   *)
(* with a token is of a session active then.                                *)
LEMMA StepRevokes ==
  ASSUME ConsoleInv, NEW c \in Calls, StepOf(c), NEW t \in Tokens
  PROVE  /\ session'[t].status = "revoked" =>
              session[t].status = "revoked" \/ (call[c].pc = "revoke" /\ call[c].token = t)
         /\ call'[c].pc = "answered" /\ session[t].status = "revoked" /\ session'[t].status = "revoked" =>
              call'[c].token # t
<1>1. CASE call[c].pc \in LoginSteps
  BY <1>1 DEF StepOf, Shown, LoginSteps
<1>2. CASE call[c].pc \in {"find", "check"}
  BY <1>2, AuthAssumption DEF StepOf, AnsweredBySession, Shown, IsValid, IsActive
<1>3. CASE call[c].pc = "move"
  BY <1>3 DEF StepOf, StatusesStay
<1>4. CASE call[c].pc = "revoke"
  BY <1>4, AuthAssumption DEF StepOf
<1>5. QED
  BY <1>1, <1>2, <1>3, <1>4 DEF StepOf, Running

LEMMA StepKeepsRevocations ==
  ASSUME ConsoleInv, HandlersInv, Revocations, ServiceStep,
         UNCHANGED <<pageVars, handler, overlapped>>, faults = 0, faults' = 0
  PROVE  Revocations'
<1> USE DEF pageVars
<1>1. ASSUME NEW c \in Calls, CallStep(c), NEW t \in Tokens, session'[t].status = "revoked"
      PROVE  (Explained(t) \/ Forgotten(t) \/ SigningOut(t))'
  <2>1. StepOf(c) /\ Progress(c) /\ call[c].pc \in Running
    BY <1>1, StepIs, CallEffect DEF StepOf
  <2>2. Active' \subseteq Active /\ \A h \in Handlers : InFlight(h) => h \in Active'
    BY <2>1 DEF Active, InFlight, CallRuns, Progress
  <2>3. CASE session[t].status = "revoked"
    <3>1. ASSUME Explained(t) PROVE Explained(t)'
      BY <3>1 DEF Explained, SignsOut
    <3>2. ASSUME Forgotten(t) PROVE Forgotten(t)'
      BY <1>1, <2>1, <2>3, <3>2, StepRevokes DEF Forgotten, InFlight, StepOf
    <3>3. ASSUME SigningOut(t) PROVE SigningOut(t)'
      <4>1. PICK h \in Handlers :
              /\ SignsOut(h, t) /\ Active = {h}
              /\ \/ handler[h].pc = "waiting"
                 \/ /\ handler[h].pc = "context"
                    /\ \A d \in Calls : handler[h].call = d =>
                         call[d].pc \in {"find", "answered"} /\ call[d].token = NoToken
        BY <3>3 DEF SigningOut
      <4>2. Active' = {h}
        BY <2>2, <4>1 DEF InFlight
      <4>3. ~IsValid(NoToken)
        BY AuthAssumption DEF IsValid, IsActive
      <4>4. call[c].pc \in {"find", "answered"} /\ call[c].token = NoToken =>
              call'[c].pc \in {"find", "answered"} /\ call'[c].token = NoToken
        BY <2>1, <4>3 DEF StepOf, AnsweredBySession, Running, LoginSteps
      <4>5. QED
        BY <2>1, <4>1, <4>2, <4>4 DEF SigningOut, SignsOut, StepOf
    <3>4. QED
      BY <2>3, <3>1, <3>2, <3>3 DEF Revocations
  <2>4. CASE session[t].status # "revoked"
    <3>1. call[c].pc = "revoke" /\ call[c].token = t
      BY <1>1, <2>1, <2>4, StepRevokes
    <3>2. PICK h \in Handlers : Holds(h, c) /\ SignsOut(h, t) /\ handler[h].pc # "context"
      BY <3>1 DEF HandlersInv, CallsHeld
    <3>3. CASE h \in overlapped
      BY <3>2, <3>3 DEF Explained, SignsOut
    <3>4. CASE h \notin overlapped
      <4>1. InFlight(h)
        BY <3>2, <3>4 DEF Holds, HandlersInv, OneOrOverlapped
      <4>2. handler[h].pc = "waiting"
        BY <3>2, <4>1 DEF InFlight, HandlersInv, KindsRight, SignsOut
      <4>3. Active = {h}
        BY <3>4, <4>1 DEF HandlersInv, OneOrOverlapped, Active
      <4>4. Active' = {h}
        BY <2>2, <4>1, <4>3
      <4>5. QED
        BY <3>2, <4>2, <4>4 DEF SigningOut, SignsOut
    <3>5. QED
      BY <3>3, <3>4
  <2>5. QED
    BY <2>3, <2>4
<1>2. ASSUME NEW t \in Tokens, ExpireToken(t) PROVE Revocations'
  <2>1. UNCHANGED <<session, call>>
    BY <1>2 DEF ExpireToken, rowVars
  <2>2. Active' = Active
    BY <2>1 DEF Active, InFlight, CallRuns
  <2>3. QED
    BY <2>1, <2>2 DEF Revocations, Explained, Forgotten, SigningOut, SignsOut, InFlight
<1>3. ASSUME NEW c \in Calls, FailCall(c) PROVE FALSE
  BY <1>3 DEF FailCall
<1>4. QED
  BY <1>1, <1>2, <1>3 DEF ServiceStep, Revocations

LEMMA BegunKeepsRevocations ==
  ASSUME ConsoleInv, HandlersInv, Revocations, NEW h \in Handlers, NEW kind, NEW pc, NEW s,
         NEW c \in Calls, NEW request, Begun(h, kind, pc, s, c), Sent(c, request),
         request.pc # "answered", page' \in {page, NoPage}
  PROVE  Revocations'
<1> SUFFICES ASSUME NEW t \in Tokens, session'[t].status = "revoked"
             PROVE  Explained(t)' \/ Forgotten(t)'
  BY DEF Revocations
<1>1. session[t].status = "revoked"
  BY DEF Sent
<1>2. \A g \in Handlers : SignsOut(g, t) => g # h
  BY DEF HandlersInv, KindsRight, Begun, SignsOut
<1>3. \A g \in Handlers \ {h} : SignsOut(g, t) => SignsOut(g, t)'
  BY DEF Begun, Left, SignsOut
<1>4. overlapped \subseteq overlapped' /\ (Active # {} => Active \subseteq overlapped')
  BY DEF Begun
<1>5. CASE Explained(t)
  BY <1>2, <1>3, <1>4, <1>5 DEF Explained
<1>6. CASE SigningOut(t)
  BY <1>2, <1>3, <1>4, <1>6 DEF Explained, SigningOut
<1>7. CASE Forgotten(t)
  <2>1. handler'[h].call = c /\ call'[c].pc # "answered"
    BY DEF Begun, Sent
  <2>2. ASSUME NEW g \in Handlers \ {h}, NEW d \in Calls, InFlight(g)', handler'[g].call = d
        PROVE  InFlight(g) /\ handler[g].call = d /\ call'[d] = call[d]
    <3>1. handler'[g] = handler[g]
      BY <2>2 DEF Begun, Left, InFlight
    <3>2. d # c
      BY <2>2, <3>1 DEF HandlersInv, HeldBegan, Sent
    <3>3. QED
      BY <2>2, <3>1, <3>2 DEF InFlight, Sent
  <2>3. QED
    BY <1>7, <2>1, <2>2 DEF Forgotten
<1>8. QED
  BY <1>1, <1>5, <1>6, <1>7 DEF Revocations

LEMMA GoneOnKeepsRevocations ==
  ASSUME ConsoleInv, HandlersInv, Revocations, NEW h \in Handlers, NEW c \in Calls,
         NEW u \in Tokens \cup {NoToken, DemoToken},
         GoneOn(h, c), Sent(c, ContextRequest(u)),
         \/ SignOutEnds(h, c) /\ u = NoToken
         \/ ReturnWithToken(h, c)
  PROVE  Revocations'
<1> SUFFICES ASSUME NEW t \in Tokens, session'[t].status = "revoked"
             PROVE  Explained(t)' \/ Forgotten(t)' \/ SigningOut(t)'
  BY DEF Revocations
<1>1. session[t].status = "revoked" /\ call'[c].pc = "find" /\ call'[c].token = u
  BY DEF Sent, ContextRequest, Idle
<1>2. SignsOut(h, t) => SignOutEnds(h, c)
  BY DEF HandlersInv, KindsRight, SignsOut, ReturnWithToken
<1>3. SignOutEnds(h, c) =>
        /\ handler'[h].pc = "context"
        /\ handler'[h].kind = handler[h].kind /\ handler'[h].token = handler[h].token
  BY DEF SignOutEnds, ConsoleInv, TypeOK
<1>4. \A g \in Handlers : SignsOut(g, t) => SignsOut(g, t)'
  BY <1>2, <1>3 DEF GoneOn, SignsOut
<1>5. CASE Explained(t)
  BY <1>4, <1>5 DEF Explained, GoneOn
<1>6. CASE SigningOut(t)
  <2>1. SignsOut(h, t) /\ Active = {h}
    BY <1>6 DEF SigningOut, GoneOn, Active
  <2>2. SignOutEnds(h, c) /\ u = NoToken
    BY <1>2, <2>1 DEF SignOutEnds, ReturnWithToken, Awaits
  <2>3. ASSUME NEW g \in Handlers \ {h} PROVE g \notin Active'
    <3>1. g \notin Active /\ handler'[g] = handler[g]
      BY <2>1 DEF GoneOn
    <3>2. handler[g].call # c
      BY DEF HandlersInv, HeldBegan, Sent
    <3>3. QED
      BY <3>1, <3>2 DEF Active, InFlight, CallRuns, Sent
  <2>4. h \in Active'
    BY DEF GoneOn, Active, InFlight
  <2>5. Active' = {h}
    BY <2>3, <2>4 DEF Active
  <2>6. QED
    BY <1>1, <1>3, <1>4, <2>1, <2>2, <2>5 DEF SigningOut, GoneOn
<1>7. CASE Forgotten(t)
  <2>1. page' = page
    BY DEF SignOutEnds, ReturnWithToken
  <2>2. ASSUME NEW g \in Handlers \ {h}, NEW d \in Calls, handler'[g].call = d
        PROVE  handler[g] = handler'[g] /\ call'[d] = call[d]
    BY <2>2 DEF GoneOn, HandlersInv, HeldBegan, Sent
  <2>3. QED
    BY <1>1, <1>7, <2>1, <2>2 DEF Forgotten, GoneOn, InFlight
<1>8. QED
  BY <1>1, <1>5, <1>6, <1>7 DEF Revocations

LEMMA EndedKeepsRevocations ==
  ASSUME ConsoleInv, HandlersInv, Revocations, NEW h \in Handlers, Ended(h),
         faults = 0, faults' = 0,
         BootstrapEnds(h) \/ ContextEnds(h) \/ SignedOutContext(h)
  PROVE  Revocations'
<1> SUFFICES ASSUME NEW t \in Tokens, session'[t].status = "revoked"
             PROVE  Explained(t)' \/ Forgotten(t)'
  BY DEF Revocations
<1>1. session[t].status = "revoked"
  BY DEF Ended
<1>2. ~Fallback(h)
  BY NoFallback DEF Ended, HandlersInv
<1>3. PICK d \in Calls : handler[h].call = d /\ call[d].pc = "answered"
  BY DEF Ended, Answered
<1>4. page'.token = call[d].token
  BY <1>2, <1>3 DEF BootstrapEnds, ContextEnds, SignedOutContext, PageAfterSignOut, Context
<1>5. \A g \in Handlers : InFlight(g)' => g # h /\ InFlight(g) /\ handler'[g] = handler[g]
  BY DEF Ended, InFlight
<1>6. CASE Explained(t)
  BY <1>6 DEF Explained, SignsOut, Ended
<1>7. CASE SigningOut(t)
  <2>1. SignsOut(h, t) /\ Active = {h}
    BY <1>7 DEF SigningOut, Ended, Active
  <2>2. handler[h].pc = "context" /\ call[d].token = NoToken
    BY <1>3, <1>7, <2>1 DEF SigningOut, SignsOut, BootstrapEnds, ContextEnds, SignedOutContext, Awaits
  <2>3. page'.token # t
    BY <1>4, <2>2, AuthAssumption
  <2>4. \A g \in Handlers : ~InFlight(g)'
    BY <1>5, <2>1 DEF Active
  <2>5. QED
    BY <2>3, <2>4 DEF Forgotten
<1>8. CASE Forgotten(t)
  <2>1. page'.token # t
    BY <1>3, <1>4, <1>8 DEF Forgotten, Ended
  <2>2. QED
    BY <1>5, <1>8, <2>1 DEF Forgotten, Ended
<1>9. QED
  BY <1>1, <1>6, <1>7, <1>8 DEF Revocations

LEMMA HandlerKeepsRevocations ==
  ASSUME ConsoleInv, HandlersInv, Revocations, NEW h \in Handlers, HandlerStep(h), faults = 0,
         faults' = 0
  PROVE  Revocations'
<1>1. ASSUME NEW c \in Calls, NEW kind, NEW pc, NEW t, NEW request, Begun(h, kind, pc, t, c),
             Sent(c, request), request.pc # "answered", page' \in {page, NoPage}
      PROVE  Revocations'
  BY <1>1, BegunKeepsRevocations
<1>2. ASSUME NEW u PROVE ContextRequest(u).pc = "find"
  BY DEF ContextRequest, Idle
<1>3. ASSUME NEW u PROVE LogoutRequest(u).pc = "revoke" /\ LoginRequest(u).pc = "identity"
  BY DEF LogoutRequest, LoginRequest, Idle
<1>4. ASSUME NEW u, NEW v, NEW o PROVE SwitchRequest(u, v, o).pc = "move"
  BY DEF SwitchRequest, Idle
<1>5. ASSUME NEW c \in Calls, Load(h, c), Begun(h, "bootstrap", "waiting", stored, c),
             Sent(c, ContextRequest(Or(stored, cookie)))
      PROVE  Revocations'
  BY <1>1, <1>2, <1>5 DEF Load
<1>6. ASSUME NEW c \in Calls, SignOut(h, c), Begun(h, "logout", "waiting", page.token, c),
             Sent(c, LogoutRequest(page.token))
      PROVE  Revocations'
  BY <1>1, <1>3, <1>6 DEF SignOut, pageVars
<1>7. ASSUME NEW c \in Calls, NEW p \in Profiles, NEW pc,
             SignIn(h, c, p) \/ SignInAway(h, c, p),
             Begun(h, "login", pc, NoToken, c), Sent(c, LoginRequest(p))
      PROVE  Revocations'
  BY <1>1, <1>3, <1>7 DEF SignIn, SignInAway, pageVars
<1>8. ASSUME NEW c \in Calls, NEW o \in Orgs, SwitchTo(h, c, o),
             Begun(h, "switch", "waiting", page.token, c),
             Sent(c, SwitchRequest(page.token, page.user, o))
      PROVE  Revocations'
  BY <1>1, <1>4, <1>8 DEF SwitchTo, pageVars
<1>9. ASSUME NEW c \in Calls, ReturnWithToken(h, c), GoneOn(h, c),
             Sent(c, ContextRequest(call[handler[h].call].token))
      PROVE  Revocations'
  <2>1. call[handler[h].call].token \in Tokens
    BY <1>9 DEF ReturnWithToken, Answered, ConsoleInv, AwayIsLogin, Tokens
  <2>2. QED
    BY <1>9, <2>1, GoneOnKeepsRevocations
<1>10. QED
  BY <1>5, <1>6, <1>7, <1>8, <1>9, GoneOnKeepsRevocations, EndedKeepsRevocations,
     BeginsOrGoesOn DEF HandlersInv

-----------------------------------------------------------------------------
(* The three together, as long as no call failed and no answer was lost.    *)
QuietInv == faults = 0 => HandlersInv /\ Agreeing /\ Revocations

LEMMA QuietInductive == ConsoleInv /\ QuietInv /\ [Next]_vars => QuietInv'
<1> SUFFICES ASSUME ConsoleInv, QuietInv, [Next]_vars, faults' = 0
             PROVE  HandlersInv' /\ Agreeing' /\ Revocations'
  BY DEF QuietInv
<1>1. faults = 0 /\ HandlersInv /\ Agreeing /\ Revocations
  BY FaultsStayZero DEF QuietInv
<1>2. CASE ServiceStep /\ UNCHANGED <<pageVars, handler, overlapped>>
  BY <1>1, <1>2, StepKeepsHandlers, StepKeepsAgreeing, StepKeepsRevocations
<1>3. ASSUME NEW h \in Handlers, HandlerStep(h)
      PROVE  HandlersInv' /\ Agreeing' /\ Revocations'
  BY <1>1, <1>3, HandlerKeepsHandlers, HandlerKeepsAgreeing, HandlerKeepsRevocations
<1>4. CASE UNCHANGED vars
  <2>1. UNCHANGED <<session, expired, call, page, stored, cookie, handler, overlapped>>
    BY <1>4 DEF vars, serviceVars, rowVars, pageVars
  <2>2. Active' = Active /\ \A h : InFlight(h)' <=> InFlight(h)
    BY <2>1 DEF Active, InFlight, CallRuns
  <2>3. HandlersInv'
    BY <1>1, <2>1, <2>2 DEF HandlersInv, HeldBegan, OneOrOverlapped, CallsHeld, KindsRight, Holds,
       SignsOut
  <2>4. Agreeing'
    BY <1>1, <2>1, <2>2 DEF Agreeing, RestSound, Phase, Awaits, BootPhase, LoginPhase, SwitchPhase,
       SignedOutPhase, Paired, Shown, IsValid, IsActive
  <2>5. Revocations'
    BY <1>1, <2>1, <2>2 DEF Revocations, Explained, Forgotten, SigningOut, SignsOut
  <2>6. QED
    BY <2>3, <2>4, <2>5
<1>5. QED
  BY <1>2, <1>3, <1>4 DEF Next

LEMMA QuietAlways == Spec => []QuietInv
<1>1. Init => QuietInv
  <2> SUFFICES ASSUME Init PROVE HandlersInv /\ Agreeing /\ Revocations
    BY DEF QuietInv
  <2>1. \A h \in Handlers : handler[h].pc = "new"
    BY DEF Init
  <2>2. Agreeing
    BY <2>1, AuthAssumption DEF Init, Agreeing, RestSound, IsValid, IsActive, InFlight
  <2>3. Revocations
    BY DEF Init, ServiceInit, Revocations, Lifecycle!NoSession
  <2>4. QED
    BY <2>2, <2>3, HandlersInvInit
<1>2. QED
  BY <1>1, QuietInductive, ConsoleCorrect, PTL DEF Spec

(* Used one action at a time and without faults the page, the stored token, *)
(* the cookie and the session row agree whenever nothing runs.              *)
THEOREM PageAgreesAtRest == Spec => []PageAgrees
<1>1. ConsoleInv /\ QuietInv => PageAgrees
  BY AuthAssumption DEF QuietInv, Agreeing, PageAgrees, AtRest, RestSound
<1>2. QED
  BY <1>1, QuietAlways, ConsoleCorrect, PTL

(* A page at rest shows a revoked session only if the sign-out of that      *)
(* session ran beside another handler.                                      *)
THEOREM StalePagesAreExplained == Spec => []StaleExplained
<1>1. ConsoleInv /\ QuietInv => StaleExplained
  BY DEF QuietInv, Revocations, Explained, Forgotten, SigningOut, SignsOut, StaleExplained, AtRest,
     ShowsToken
<1>2. QED
  BY <1>1, QuietAlways, ConsoleCorrect, PTL

-----------------------------------------------------------------------------
(* Sign-outs are final.  When one that ran alone has been answered, its     *)
(* token is nowhere the page could get it from: not stored, not in the      *)
(* cookie, and not in a call that a handler awaits.                         *)
SignOutsSound ==
  \A h \in Handlers : handler[h].kind = "logout" =>
    /\ handler[h].token # NoToken
    /\ handler[h].token \in Tokens => session[handler[h].token].status # "none"

Absent(t) ==
  /\ stored # t /\ cookie # t
  /\ \A g \in Handlers, c \in Calls :
       InFlight(g) /\ handler[g].call = c => call[c].token # t

NotShown(t) == page # NoPage => page.token # t

AnsweredAlone(h) ==
  h \notin overlapped /\ handler[h].kind = "logout" /\ handler[h].pc \in {"context", "done"}

SignedOutGone ==
  \A h \in Handlers : AnsweredAlone(h) =>
    /\ Absent(handler[h].token)
    /\ handler[h].pc = "done" => NotShown(handler[h].token)

FinalInv == SignOutsSound /\ SignedOutGone

(* A call keeps its token, loses it, or is a login that is given its own,   *)
(* of which there was no session before.                                    *)
LEMMA TokenOfStep ==
  ASSUME ConsoleInv, NEW c \in Calls, CallStep(c) \/ FailCall(c)
  PROVE  \/ call'[c].token \in {call[c].token, NoToken}
         \/ call'[c].token = c /\ session[c].status = "none"
<1>1. call \in [Calls -> CallRecords]
  BY DEF ConsoleInv, ServiceInv, ServiceTypeOK, CallRecords
<1>2. CASE \/ ReadIdentity(c) \/ (\E u \in People : UserFound(c, u)) \/ UserMissing(c)
           \/ CreateUser(c) \/ LinkIdentity(c) \/ MoveSession(c) \/ FailCall(c)
  BY <1>1, <1>2 DEF ReadIdentity, UserFound, UserMissing, CreateUser, LinkIdentity, MoveSession,
     FailCall, GoTo, CallRecords
<1>3. CASE CreateSession(c)
  <2>1. session[c].status = "none"
    BY <1>3 DEF CreateSession, ConsoleInv, ServiceInv, RowsFresh, Running, LoginSteps
  <2>2. QED
    BY <1>1, <1>3, <2>1 DEF CreateSession, Answer, CallRecords
<1>4. CASE FindSession(c) \/ CheckSession(c) \/ RevokeSession(c)
  BY <1>1, <1>4 DEF FindSession, CheckSession, RevokeSession, AnswerFromSession, Answer, CallRecords
<1>5. QED
  BY <1>2, <1>3, <1>4 DEF CallStep

LEMMA StepKeepsFinal ==
  ASSUME ConsoleInv, HandlersInv, FinalInv, ServiceStep,
         UNCHANGED <<pageVars, handler, overlapped>>
  PROVE  FinalInv'
<1> USE DEF pageVars
<1>1. ASSUME NEW c \in Calls, CallStep(c) \/ FailCall(c) PROVE FinalInv'
  <2>1. Progress(c) /\ SessionsKept
    BY <1>1, CallEffect
  <2>2. SignOutsSound'
    BY <2>1 DEF FinalInv, SignOutsSound, SessionsKept
  <2>3. ASSUME NEW h \in Handlers, AnsweredAlone(h) PROVE Absent(handler[h].token)'
    <3> DEFINE t == handler[h].token
    <3>1. Absent(t) /\ t # NoToken /\ (t \in Tokens => session[t].status # "none")
      BY <2>3 DEF FinalInv, SignedOutGone, SignOutsSound, AnsweredAlone
    <3>2. call[c].token # t => call'[c].token # t
      BY <1>1, <3>1, TokenOfStep DEF Tokens
    <3>3. QED
      BY <2>1, <3>1, <3>2 DEF Absent, InFlight, Progress
  <2>4. SignedOutGone'
    BY <2>3 DEF FinalInv, SignedOutGone, AnsweredAlone, NotShown
  <2>5. QED
    BY <2>2, <2>4 DEF FinalInv
<1>2. ASSUME NEW t \in Tokens, ExpireToken(t) PROVE FinalInv'
  <2>1. UNCHANGED <<session, call>>
    BY <1>2 DEF ExpireToken, rowVars
  <2>2. QED
    BY <2>1 DEF FinalInv, SignOutsSound, SignedOutGone, AnsweredAlone, Absent, NotShown, InFlight
<1>3. QED
  BY <1>1, <1>2 DEF ServiceStep

(* A handler that begins takes the token it sends from the page, the store  *)
(* or the cookie, and finds none that was signed out.                       *)
AtHand(u) == u \in {NoToken, stored, cookie} \/ (page # NoPage /\ u = page.token)

LEMMA BegunKeepsFinal ==
  ASSUME ConsoleInv, HandlersInv, FinalInv, NEW h \in Handlers, NEW kind, NEW pc, NEW s,
         NEW c \in Calls, NEW request, Begun(h, kind, pc, s, c), Sent(c, request),
         page' \in {page, NoPage}, UNCHANGED <<stored, cookie>>,
         AtHand(request.token),
         kind = "logout" => SignedIn /\ s = page.token
  PROVE  FinalInv'
<1>1. /\ handler'[h].kind = kind /\ handler'[h].pc = pc /\ handler'[h].token = s
      /\ handler'[h].call = c /\ pc \in {"waiting", "away"}
      /\ UNCHANGED session /\ call'[c] = request
  BY DEF Begun, Sent
<1>2. SignOutsSound'
  <2> SUFFICES ASSUME NEW g \in Handlers, handler'[g].kind = "logout"
               PROVE  /\ handler'[g].token # NoToken
                      /\ handler'[g].token \in Tokens => session[handler'[g].token].status # "none"
    BY <1>1 DEF SignOutsSound
  <2>1. CASE g = h
    <3>1. page # NoPage /\ page.token # NoToken /\ handler'[g].token = page.token
      BY <1>1, <2>1 DEF SignedIn
    <3>2. QED
      BY <3>1 DEF ConsoleInv, PageSound, ShowsToken, Owned
  <2>2. CASE g # h
    <3>1. handler'[g].kind = handler[g].kind /\ handler'[g].token = handler[g].token
      BY <2>2 DEF Begun, Left
    <3>2. QED
      BY <3>1 DEF FinalInv, SignOutsSound
  <2>3. QED
    BY <2>1, <2>2
<1>3. SignedOutGone'
  <2> SUFFICES ASSUME NEW g \in Handlers, AnsweredAlone(g)'
               PROVE  Absent(handler[g].token)' /\ NotShown(handler[g].token)'
    BY DEF SignedOutGone
  <2> DEFINE t == handler[g].token
  <2>1. g # h
    BY <1>1 DEF AnsweredAlone
  <2>2. handler'[g] = handler[g]
    BY <2>1 DEF AnsweredAlone, Begun, Left
  <2>3. g \notin overlapped /\ (Active = {} \/ g \notin Active)
    BY DEF AnsweredAlone, Begun
  <2>4. handler[g].pc = "done"
    BY <2>2, <2>3 DEF AnsweredAlone, Active, InFlight
  <2>5. Absent(t) /\ NotShown(t) /\ t # NoToken
    BY <2>2, <2>3, <2>4 DEF FinalInv, SignedOutGone, AnsweredAlone, SignOutsSound
  <2>6. request.token # t
    BY <2>5 DEF AtHand, Absent, NotShown
  <2>7. ASSUME NEW f \in Handlers, NEW d \in Calls, InFlight(f)', handler'[f].call = d
        PROVE  call'[d].token # t
    <3>1. CASE f = h
      BY <1>1, <2>6, <2>7, <3>1
    <3>2. CASE f # h
      <4>1. handler'[f] = handler[f]
        BY <2>7, <3>2 DEF Begun, Left, InFlight
      <4>2. d # c
        BY <2>7, <4>1 DEF HandlersInv, HeldBegan, Sent
      <4>3. QED
        BY <2>5, <2>7, <4>1, <4>2 DEF Sent, Absent, InFlight
    <3>3. QED
      BY <3>1, <3>2
  <2>8. QED
    BY <2>2, <2>5, <2>7 DEF Absent, NotShown
<1>4. QED
  BY <1>2, <1>3 DEF FinalInv

(* A sign-out is answered: it clears what is stored and the cookie, and if  *)
(* it runs alone no other answer is awaited.  A login that returns brings   *)
(* a token that nobody signed out.                                          *)
LEMMA GoneOnKeepsFinal ==
  ASSUME ConsoleInv, HandlersInv, FinalInv, NEW h \in Handlers, NEW c \in Calls,
         NEW u \in Tokens \cup {NoToken, DemoToken},
         GoneOn(h, c), Sent(c, ContextRequest(u)), UNCHANGED page,
         \/ Awaits(h, "logout") /\ handler'[h].kind = "logout"
              /\ handler'[h].token = handler[h].token
              /\ u = NoToken /\ stored' = NoToken /\ cookie' = NoToken
         \/ handler'[h].kind = "bootstrap" /\ UNCHANGED stored /\ cookie' = u
              /\ \E d \in Calls : handler[h].call = d /\ u = call[d].token
  PROVE  FinalInv'
<1>1. /\ call'[c].token = u /\ \A d \in Calls \ {c} : call'[d] = call[d]
      /\ UNCHANGED <<session, overlapped>> /\ handler'[h].call = c
      /\ \A g \in Handlers \ {h} : handler'[g] = handler[g] /\ handler[g].call # c
      /\ InFlight(h) /\ h \in Active /\ handler'[h].pc # "done"
  BY DEF Sent, ContextRequest, Idle, GoneOn, HandlersInv, HeldBegan, Active
<1>2. SignOutsSound'
  <2>1. \A g \in Handlers : handler'[g].kind = "logout" =>
          handler[g].kind = "logout" /\ handler'[g].token = handler[g].token
    BY <1>1 DEF Awaits
  <2>2. QED
    BY <1>1, <2>1 DEF FinalInv, SignOutsSound
<1>3. SignedOutGone'
  <2> SUFFICES ASSUME NEW g \in Handlers, AnsweredAlone(g)'
               PROVE  /\ Absent(handler[g].token)'
                      /\ handler'[g].pc = "done" => NotShown(handler[g].token)'
    BY DEF SignedOutGone
  <2>1. handler'[g].token # NoToken
    BY <1>2 DEF SignOutsSound, AnsweredAlone
  <2>2. CASE g = h
    <3>1. u = NoToken /\ stored' = NoToken /\ cookie' = NoToken
      BY <2>2 DEF AnsweredAlone
    <3>2. Active = {h}
      BY <1>1, <2>2 DEF AnsweredAlone, HandlersInv, OneOrOverlapped
    <3>3. \A f \in Handlers \ {h} : ~InFlight(f)'
      BY <1>1, <3>2 DEF Active, InFlight
    <3>4. QED
      BY <1>1, <2>1, <2>2, <3>1, <3>3 DEF Absent
  <2>3. CASE g # h
    <3>1. handler'[g] = handler[g] /\ AnsweredAlone(g)
      BY <1>1, <2>3 DEF AnsweredAlone
    <3>2. /\ Absent(handler[g].token)
          /\ handler[g].pc = "done" => NotShown(handler[g].token)
      BY <3>1 DEF FinalInv, SignedOutGone
    <3>3. u # handler[g].token /\ stored' # handler[g].token /\ cookie' # handler[g].token
      BY <1>1, <2>1, <3>1, <3>2 DEF Absent
    <3>4. \A f \in Handlers, d \in Calls : InFlight(f)' /\ handler'[f].call = d =>
            call'[d].token # handler[g].token
      BY <1>1, <3>2, <3>3 DEF Absent, InFlight
    <3>5. QED
      BY <3>1, <3>2, <3>3, <3>4 DEF Absent, NotShown
  <2>4. QED
    BY <2>2, <2>3
<1>4. QED
  BY <1>2, <1>3 DEF FinalInv

(* An answer is shown and kept: it is none of a session signed out alone.   *)
LEMMA EndedKeepsFinal ==
  ASSUME ConsoleInv, HandlersInv, FinalInv, NEW h \in Handlers, Ended(h),
         faults = 0, faults' = 0,
         BootstrapEnds(h) \/ ContextEnds(h) \/ SignedOutContext(h)
  PROVE  FinalInv'
<1>1. ~Fallback(h)
  BY NoFallback DEF Ended, HandlersInv
<1>2. PICK d \in Calls : handler[h].call = d /\ call[d].pc = "answered"
  BY DEF Ended, Answered
<1>3. page'.token = call[d].token
  BY <1>1, <1>2 DEF BootstrapEnds, ContextEnds, SignedOutContext, PageAfterSignOut, Context
<1>4. /\ stored' \in {NoToken, stored, page'.token}
      /\ cookie' \in {cookie, page'.token}
  BY <1>1 DEF BootstrapEnds, ContextEnds, SignedOutContext, PersistedUnlessLost, Persisted,
     CookieOf, Or
<1>5. /\ UNCHANGED <<session, call, overlapped>> /\ InFlight(h) /\ ~InFlight(h)'
      /\ \A g \in Handlers : /\ handler'[g].kind = handler[g].kind
                              /\ handler'[g].token = handler[g].token
                              /\ handler'[g].call = handler[g].call
      /\ \A g \in Handlers \ {h} : handler'[g] = handler[g]
  BY DEF Ended, InFlight
<1>6. SignOutsSound'
  BY <1>5 DEF FinalInv, SignOutsSound
<1>7. SignedOutGone'
  <2> SUFFICES ASSUME NEW g \in Handlers, AnsweredAlone(g)'
               PROVE  Absent(handler[g].token)' /\ NotShown(handler[g].token)'
    BY <1>5 DEF SignedOutGone
  <2>1. AnsweredAlone(g)
    <3>1. CASE g = h
      <4>1. SignedOutContext(h)
        BY <1>5, <3>1 DEF AnsweredAlone, BootstrapEnds, ContextEnds, Awaits
      <4>2. QED
        BY <1>5, <3>1, <4>1 DEF AnsweredAlone, SignedOutContext
    <3>2. CASE g # h
      BY <1>5, <3>2 DEF AnsweredAlone
    <3>3. QED
      BY <3>1, <3>2
  <2>2. Absent(handler[g].token) /\ handler[g].token # NoToken
    BY <2>1 DEF FinalInv, SignedOutGone, SignOutsSound, AnsweredAlone
  <2>3. page'.token # handler[g].token
    BY <1>2, <1>3, <1>5, <2>2 DEF Absent
  <2>4. QED
    BY <1>4, <1>5, <2>2, <2>3 DEF Absent, NotShown, InFlight
<1>8. QED
  BY <1>6, <1>7 DEF FinalInv

LEMMA HandlerKeepsFinal ==
  ASSUME ConsoleInv, HandlersInv, FinalInv, NEW h \in Handlers, HandlerStep(h), faults = 0,
         faults' = 0
  PROVE  FinalInv'
<1>1. \A u : ContextRequest(u).token = u
  BY DEF ContextRequest, Idle
<1>2. \A u : LogoutRequest(u).token = u /\ LoginRequest(u).token = NoToken
  BY DEF LogoutRequest, LoginRequest, Idle
<1>3. \A u, v, o : SwitchRequest(u, v, o).token = u
  BY DEF SwitchRequest, Idle
<1>4. ASSUME NEW c \in Calls, Load(h, c), Begun(h, "bootstrap", "waiting", stored, c),
             Sent(c, ContextRequest(Or(stored, cookie)))
      PROVE  FinalInv'
  <2>1. AtHand(ContextRequest(Or(stored, cookie)).token) /\ "bootstrap" # "logout"
    BY <1>1 DEF AtHand, Or
  <2>2. page' \in {page, NoPage} /\ UNCHANGED <<stored, cookie>>
    BY <1>4 DEF Load
  <2>3. QED
    BY <1>4, <2>1, <2>2, BegunKeepsFinal
<1>5. ASSUME NEW c \in Calls, SignOut(h, c), Begun(h, "logout", "waiting", page.token, c),
             Sent(c, LogoutRequest(page.token))
      PROVE  FinalInv'
  BY <1>2, <1>5, BegunKeepsFinal DEF AtHand, SignOut, SignedIn, pageVars
<1>6. ASSUME NEW c \in Calls, NEW p \in Profiles, NEW pc,
             SignIn(h, c, p) \/ SignInAway(h, c, p),
             Begun(h, "login", pc, NoToken, c), Sent(c, LoginRequest(p))
      PROVE  FinalInv'
  <2>1. AtHand(LoginRequest(p).token) /\ "login" # "logout"
    BY <1>2 DEF AtHand
  <2>2. page' \in {page, NoPage} /\ UNCHANGED <<stored, cookie>>
    BY <1>6 DEF SignIn, SignInAway, pageVars
  <2>3. QED
    BY <1>6, <2>1, <2>2, BegunKeepsFinal
<1>7. ASSUME NEW c \in Calls, NEW o \in Orgs, SwitchTo(h, c, o),
             Begun(h, "switch", "waiting", page.token, c),
             Sent(c, SwitchRequest(page.token, page.user, o))
      PROVE  FinalInv'
  BY <1>3, <1>7, BegunKeepsFinal DEF AtHand, SwitchTo, SignedIn, pageVars
<1>8. ASSUME NEW c \in Calls, SignOutEnds(h, c), GoneOn(h, c), Sent(c, ContextRequest(NoToken))
      PROVE  FinalInv'
  <2>1. ~Fallback(h)
    BY <1>8, NoFallback DEF GoneOn, HandlersInv
  <2>2. /\ Awaits(h, "logout") /\ stored' = NoToken /\ cookie' = NoToken /\ UNCHANGED page
        /\ handler'[h].kind = "logout" /\ handler'[h].token = handler[h].token
    BY <1>8, <2>1 DEF SignOutEnds, Awaits, ConsoleInv, TypeOK
  <2>3. QED
    BY <1>8, <2>2, GoneOnKeepsFinal
<1>9. ASSUME NEW c \in Calls, ReturnWithToken(h, c), GoneOn(h, c),
             Sent(c, ContextRequest(call[handler[h].call].token))
      PROVE  FinalInv'
  <2>1. PICK d \in Calls : handler[h].call = d /\ call[d].pc = "answered"
    BY <1>9 DEF ReturnWithToken, Answered
  <2>2. call[d].token \in Tokens
    BY <1>9, <2>1 DEF ReturnWithToken, ConsoleInv, AwayIsLogin, Tokens
  <2>3. /\ UNCHANGED <<page, stored>> /\ cookie' = call[d].token
        /\ handler'[h].kind = "bootstrap"
    BY <1>9, <2>1 DEF ReturnWithToken, ConsoleInv, TypeOK
  <2>4. QED
    BY <1>9, <2>1, <2>2, <2>3, GoneOnKeepsFinal
<1>10. QED
  BY <1>4, <1>5, <1>6, <1>7, <1>8, <1>9, EndedKeepsFinal, BeginsOrGoesOn DEF HandlersInv

LEMMA FinalAlways == Spec => [](faults = 0 => FinalInv)
<1>1. Init => FinalInv
  BY DEF Init, FinalInv, SignOutsSound, SignedOutGone, AnsweredAlone
<1>2. ConsoleInv /\ QuietInv /\ (faults = 0 => FinalInv) /\ [Next]_vars =>
        (faults = 0 => FinalInv)'
  <2> SUFFICES ASSUME ConsoleInv, QuietInv, faults = 0 => FinalInv, [Next]_vars, faults' = 0
               PROVE  FinalInv'
    OBVIOUS
  <2>1. faults = 0 /\ HandlersInv /\ FinalInv
    BY FaultsStayZero DEF QuietInv
  <2>2. CASE UNCHANGED vars
    <3>1. UNCHANGED <<session, call, page, stored, cookie, handler, overlapped>>
      BY <2>2 DEF vars, serviceVars, rowVars, pageVars
    <3>2. QED
      BY <2>1, <3>1 DEF FinalInv, SignOutsSound, SignedOutGone, AnsweredAlone, Absent, NotShown,
         InFlight
  <2>3. QED
    BY <2>1, <2>2, StepKeepsFinal, HandlerKeepsFinal DEF Next
<1>3. QED
  BY <1>1, <1>2, QuietAlways, ConsoleCorrect, PTL DEF Spec

(* A sign-out that ran alone and without a fault is final: its session is   *)
(* never shown again, and neither stored nor in the cookie.                 *)
THEOREM SignOutsAreFinal == Spec => []SignOutIsFinal
<1>1. (faults = 0 => FinalInv) => SignOutIsFinal
  BY DEF FinalInv, SignedOutGone, AnsweredAlone, Absent, NotShown, SignOutIsFinal
<1>2. QED
  BY <1>1, FinalAlways, PTL

(* What the acceptance list asks of signing out holds as long as no         *)
(* handlers overlap and no call fails.                                      *)
THEOREM SignInIsBack ==
  Spec => [](faults = 0 /\ overlapped = {} => LogoutRestoresSignIn)
<1>1. SignOutIsFinal => (faults = 0 /\ overlapped = {} => LogoutRestoresSignIn)
  BY DEF SignOutIsFinal, LogoutRestoresSignIn, AtRest
<1>2. QED
  BY <1>1, SignOutsAreFinal, PTL
=============================================================================
