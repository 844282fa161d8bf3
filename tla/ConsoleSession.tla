---------------------------- MODULE ConsoleSession ----------------------------
(***************************************************************************)
(* A user's session as one page of the web console sees it: the handlers   *)
(* of App.tsx that sign in, sign out, switch the organisation and load the *)
(* page, the token kept in localStorage, the cookie of the API, and the    *)
(* answers of AuthService.                                                 *)
(*                                                                         *)
(* A handler runs until it awaits a call of api.ts; no button is disabled  *)
(* meanwhile, so any other handler may run before its answer arrives.  A   *)
(* step here is the part of a handler up to its next await.  When a call   *)
(* fails (a status of 500 or no answer) withDemoFallback answers it from   *)
(* demo-data.ts instead, so the handlers' catch clauses are not reached.   *)
(***************************************************************************)
EXTENDS AuthService

CONSTANTS
  Handlers,         (* runs of bootstrap, handleOAuthLogin,                *)
                    (* handleOrganizationSwitch and handleLogout, numbered *)
                    (* in the order they begin, as are the calls           *)
  NoCall, NoPage,
  MaxSignIns        (* bound: logins sent to the API                       *)

ASSUME ConsoleAssumption ==
  /\ Calls \subseteq Nat /\ Handlers \subseteq Nat
  /\ NoCall \notin Calls
  /\ NoPage \notin [token : Tokens \cup {NoToken, DemoToken}, user : People, org : Orgs \cup {NoOrg}]

VARIABLES
  page,         (* auth of App.tsx, NoPage while the page loads            *)
  stored,       (* localStorage: ankyra.sessionToken                       *)
  cookie,       (* the cookie ankyra_session                               *)
  handler,      (* handlers: kind, next step, token sent, call awaited     *)
  overlapped    (* history: handlers that ran while another one did        *)

pageVars == <<page, stored, cookie>>
vars == <<serviceVars, pageVars, handler, overlapped>>

Kinds == {"bootstrap", "login", "switch", "logout"}

TypeOK ==
  /\ ServiceTypeOK
  /\ page \in [token : Tokens \cup {NoToken, DemoToken}, user : People, org : Orgs \cup {NoOrg}]
              \cup {NoPage}
  /\ stored \in Tokens \cup {NoToken, DemoToken}
  /\ cookie \in Tokens \cup {NoToken}
  /\ handler \in [Handlers -> [kind : Kinds \cup {"none"},
                               pc : {"new", "waiting", "away", "context", "done", "gone"},
                               token : Tokens \cup {NoToken, DemoToken},
                               call : Calls \cup {NoCall}]]
  /\ overlapped \in SUBSET Handlers

Init ==
  /\ ServiceInit
  /\ page = NoPage
  /\ stored = NoToken
  /\ cookie = NoToken
  /\ handler = [h \in Handlers |->
                  [kind |-> "none", pc |-> "new", token |-> NoToken, call |-> NoCall]]
  /\ overlapped = {}

-----------------------------------------------------------------------------
(* The context demo-data.ts answers with.  Its organisations are its own.   *)
DemoContext == [token |-> DemoToken, user |-> SeededUser, org |-> NoOrg]

Context(c) == [token |-> call[c].token, user |-> call[c].user, org |-> call[c].org]

Or(t, fallback) == IF t = NoToken THEN fallback ELSE t

(* A handler in flight, and one whose call still runs though the page that  *)
(* made it is gone.                                                         *)
InFlight(h) == handler[h].pc \in {"waiting", "away", "context"}
CallRuns(h) == \E c \in Calls : handler[h].call = c /\ call[c].pc \in Running
Active == {h \in Handlers : InFlight(h) \/ CallRuns(h)}

NextHandler(h) ==
  handler[h].pc = "new" /\ \A g \in Handlers : g < h => handler[g].pc # "new"

Start(h, kind, t, c, others) ==
  /\ NextHandler(h)
  /\ handler' = [others EXCEPT ![h] =
                   [kind |-> kind, pc |-> "waiting", token |-> t, call |-> c]]
  /\ overlapped' = IF Active = {} THEN overlapped ELSE overlapped \cup Active \cup {h}

Send(c, request) ==
  /\ \A d \in Calls : d < c => call[d] # Idle
  /\ Arrive(c, request)
  /\ UNCHANGED <<rowVars, expired>>

(* Leaving a page ends its handlers. *)
HandlersLeft == [h \in Handlers |-> IF InFlight(h) THEN [handler[h] EXCEPT !.pc = "gone"]
                                    ELSE handler[h]]

-----------------------------------------------------------------------------
(* Handlers begin.  A call sends the token it is given, and the browser its *)
(* cookie, which the API uses when there is no token.                       *)

(* bootstrap, when the page is opened or reloaded. *)
Load(h, c) ==
  /\ page' = NoPage
  /\ Start(h, "bootstrap", stored, c, HandlersLeft)
  /\ Send(c, ContextRequest(Or(stored, cookie)))
  /\ UNCHANGED <<stored, cookie, faults>>

SignedIn == page # NoPage /\ page.token # NoToken

(* The logins so far, which MaxSignIns bounds. *)
SignInsMade == Cardinality({c \in Calls : call[c].subject # NoSubject})

(* handleOAuthLogin at a provider in demo mode: begin, then the callback.   *)
SignIn(h, c, p) ==
  /\ page # NoPage /\ ~SignedIn /\ SignInsMade < MaxSignIns
  /\ Start(h, "login", NoToken, c, handler)
  /\ Send(c, LoginRequest(p))
  /\ UNCHANGED <<pageVars, faults>>

(* begin is answered by demo-data.ts, whose state no callback accepts.      *)
SignInFallback(h) ==
  /\ page # NoPage /\ ~SignedIn
  /\ faults < MaxFaults
  /\ faults' = faults + 1
  /\ Start(h, "login", NoToken, NoCall, handler)
  /\ UNCHANGED <<rowVars, expired, call, historyVars, pageVars>>

(* At a provider of its own the page is left; the provider sends the        *)
(* browser to the callback of the API.                                      *)
SignInAway(h, c, p) ==
  /\ page # NoPage /\ ~SignedIn /\ SignInsMade < MaxSignIns
  /\ NextHandler(h)
  /\ page' = NoPage
  /\ handler' = [HandlersLeft EXCEPT ![h] =
                   [kind |-> "login", pc |-> "away", token |-> NoToken, call |-> c]]
  /\ overlapped' = IF Active = {} THEN overlapped ELSE overlapped \cup Active \cup {h}
  /\ Send(c, LoginRequest(p))
  /\ UNCHANGED <<stored, cookie, faults>>

(* auth.organizations, of which there must be two to choose from: a user    *)
(* created by a login is a member of none.                                  *)
OrgsOfferedToAll == Memberships
OrgsOffered == IF page.user = SeededUser THEN Memberships ELSE {}

SwitchTo(h, c, o) ==
  /\ SignedIn
  /\ o \in OrgsOffered /\ Cardinality(OrgsOffered) > 1 /\ o # page.org
  /\ Start(h, "switch", page.token, c, handler)
  /\ Send(c, SwitchRequest(page.token, page.user, o))
  /\ UNCHANGED <<pageVars, faults>>

SignOut(h, c) ==
  /\ SignedIn
  /\ Start(h, "logout", page.token, c, handler)
  /\ Send(c, LogoutRequest(page.token))
  /\ UNCHANGED <<pageVars, faults>>

-----------------------------------------------------------------------------
(* Answers arrive.  A call may also have no answer, whether the API made it *)
(* or not; then the demo data answer.                                       *)

Answered(h) == \E c \in Calls : handler[h].call = c /\ call[c].pc = "answered"
Failed(h) == \A c \in Calls : handler[h].call = c => call[c].pc = "failed"

Received(h) == Answered(h) /\ UNCHANGED faults
Fallback(h) ==
  \/ Failed(h) /\ UNCHANGED faults
  \/ ~Failed(h) /\ faults < MaxFaults /\ faults' = faults + 1

Awaits(h, kind) == handler[h].kind = kind /\ handler[h].pc = "waiting"
Finish(h) == handler' = [handler EXCEPT ![h].pc = "done"]

ServiceRests == UNCHANGED <<rowVars, expired, call, historyVars>>

(* persistSession ignores a missing token; a context without one clears the *)
(* token the page was loaded with.                                          *)
Persisted(context) == Or(context.token, stored)
PersistedUnlessLost(context, sent) ==
  IF context.token = NoToken /\ sent # NoToken THEN NoToken ELSE Persisted(context)

BootstrapEnds(h) ==
  /\ Awaits(h, "bootstrap")
  /\ \/ Received(h) /\ page' = Context(handler[h].call)
     \/ Fallback(h) /\ page' = DemoContext
  /\ stored' = PersistedUnlessLost(page', handler[h].token)
  /\ Finish(h)
  /\ ServiceRests /\ UNCHANGED <<cookie, overlapped>>

(* A context with a token comes with the cookie. *)
CookieKept(context) == cookie
CookieOf(context) == Or(context.token, cookie)

ContextEnds(h) ==
  /\ Awaits(h, "login") \/ Awaits(h, "switch")
  /\ \/ Received(h) /\ page' = Context(handler[h].call) /\ cookie' = CookieOf(page')
     \/ Fallback(h) /\ page' = DemoContext /\ UNCHANGED cookie
  /\ stored' = Persisted(page')
  /\ Finish(h)
  /\ ServiceRests /\ UNCHANGED overlapped

(* The provider is done and the API redirects to the page with the token in *)
(* its address, which bootstrap prefers to the one stored.                  *)
ReturnWithToken(h, c) ==
  LET t == call[handler[h].call].token
  IN  /\ handler[h].pc = "away" /\ Answered(h)
      /\ cookie' = t
      /\ handler' = [handler EXCEPT ![h] =
                       [kind |-> "bootstrap", pc |-> "waiting", token |-> t, call |-> c]]
      /\ Send(c, ContextRequest(t))
      /\ UNCHANGED <<page, stored, overlapped, faults>>

(* handleLogout clears what is stored whoever answered, and then asks for   *)
(* the context of nobody in particular; the API goes by the cookie.         *)
SignOutEnds(h, c) ==
  /\ Awaits(h, "logout")
  /\ \/ Received(h) /\ cookie' = NoToken
     \/ Fallback(h) /\ UNCHANGED cookie
  /\ stored' = NoToken
  /\ handler' = [handler EXCEPT ![h].pc = "context", ![h].call = c]
  /\ Send(c, ContextRequest(cookie'))
  /\ UNCHANGED <<page, overlapped>>

PageUnlessSignedOut(context) == IF context.token = NoToken THEN page ELSE context
PageAfterSignOut(context) == context

SignedOutContext(h) ==
  /\ handler[h].pc = "context"
  /\ \/ Received(h) /\ page' = PageAfterSignOut(Context(handler[h].call))
     \/ Fallback(h) /\ page' = DemoContext
  /\ Finish(h)
  /\ ServiceRests /\ UNCHANGED <<stored, cookie, overlapped>>

-----------------------------------------------------------------------------
HandlerStep(h) ==
  \/ SignInFallback(h)
  \/ \E c \in Calls :
       \/ Load(h, c) \/ SignOut(h, c) \/ SignOutEnds(h, c) \/ ReturnWithToken(h, c)
       \/ \E p \in Profiles : SignIn(h, c, p) \/ SignInAway(h, c, p)
       \/ \E o \in Orgs : SwitchTo(h, c, o)
  \/ BootstrapEnds(h) \/ ContextEnds(h) \/ SignedOutContext(h)

Next ==
  \/ ServiceStep /\ UNCHANGED <<pageVars, handler, overlapped>>
  \/ \E h \in Handlers : HandlerStep(h)

Spec == Init /\ [][Next]_vars

-----------------------------------------------------------------------------
(* Properties. *)

ShowsToken == page # NoPage /\ page.token \in Tokens
AtRest == page # NoPage /\ Active = {}

(* The page never shows one user with the token of another's session,       *)
(* whatever answers are late, lost or made up.                              *)
TokenIsOfUser == ShowsToken => session[page.token].user = page.user

(* switchOrganization does not ask who is a member of what; the console     *)
(* offers a session only organisations its user belongs to.                 *)
SessionOrgIsMember ==
  \A t \in Tokens : session[t].status # "none" =>
    session[t].org \in IF session[t].user = SeededUser THEN Memberships ELSE {HomeOrg}

(* Used one action at a time and without faults the page, the stored token, *)
(* the cookie and the session row agree, so that loading the page again     *)
(* shows the same: signed in they are all of one session, signed out none   *)
(* of them opens one.                                                       *)
PageAgrees ==
  AtRest /\ faults = 0 /\ overlapped = {} =>
    IF page.token = NoToken THEN ~IsValid(stored) /\ ~IsValid(cookie)
    ELSE /\ page.token \in Tokens /\ stored = page.token /\ cookie = page.token
         /\ session[page.token].status = "active"
         /\ page.org = ShownOrg(page.user, session[page.token].org)

(* Whatever else overlaps, a page at rest shows a revoked session only if   *)
(* the sign-out of that session ran beside another handler.                 *)
StaleExplained ==
  AtRest /\ faults = 0 /\ ShowsToken /\ session[page.token].status = "revoked" =>
    \E h \in overlapped : handler[h].kind = "logout" /\ handler[h].token = page.token

(* A sign-out that ran beside no other handler and met no fault is final:   *)
(* the page never shows that session again, whatever handlers overlap       *)
(* later, and neither the stored token nor the cookie can bring it back.    *)
SignOutIsFinal ==
  faults = 0 => \A h \in Handlers \ overlapped :
    handler[h].kind = "logout" /\ handler[h].pc = "done" =>
      /\ handler[h].token \notin {stored, cookie}
      /\ page # NoPage => page.token # handler[h].token

(* What the acceptance list asks: after signing out the button to sign in   *)
(* is back, the page does not show the session that was signed out.         *)
LogoutRestoresSignIn ==
  AtRest => \A h \in Handlers :
    handler[h].kind = "logout" /\ handler[h].pc = "done" => page.token # handler[h].token
=============================================================================
