----------------------------- MODULE LoginFlow ------------------------------
(***************************************************************************)
(* Calls of auth.Client.Login and auth.Client.Refresh that share a client, *)
(* against an OpenID Connect provider that keeps a session for each        *)
(* browser, which is to say: for each cookie jar.                          *)
(*                                                                         *)
(* A Login opens the login page, submits its form and redeems the code     *)
(* that the provider redirects to the application with.  Each of the three *)
(* is a call of http.Client.Do, which follows redirects as CheckRedirect   *)
(* allows.  What the provider answers is left open, in the limits of the   *)
(* protocol.                                                               *)
(***************************************************************************)
EXTENDS Naturals, FiniteSets

CONSTANTS
  Calls,           \* calls of Login and Refresh
  Users,           \* users of the provider
  UserOf,          \* whose credentials or refresh token each call has
  None,            \* nothing
  AppOnProvider,   \* RedirectURL has the origin of AuthorizationURL
  MaxRequests      \* requests of one Do before "too many redirects": 10

Provider == {"auth", "page", "action", "token"}
Place == Provider \union {"app", "elsewhere"}
Page == {"form", "foreign form", "notice"}
Ended == {"done", "failed"}
Code == [user : Users, for : Calls]
Request == [to : Place, post : BOOLEAN]
Reply == [kind : {"page", "redirect", "tokens", "error"}, what : Place \union Page \union {""},
          code : Code \union {None}, user : Users \union {None}]

ASSUME LoginAssumption ==
  /\ UserOf \in [Calls -> Users]
  /\ None \notin Calls \union Users \union Code \union Request \union Reply
  /\ AppOnProvider \in BOOLEAN /\ MaxRequests \in Nat \ {0}

VARIABLES
  at,          \* where each call is
  request,     \* its request that is under way
  requests,    \* the requests of the current Do so far
  code,        \* the authorization code it was given
  result,      \* the user whose tokens it returned
  reply,       \* the provider's answer that is under way
  loggedIn,    \* whom the provider knows behind each cookie jar
  pending,     \* the call that last opened the login page with each jar
  issued,      \* codes that were issued, and not redeemed
  judged       \* history: how often the credentials of a call were judged

clientVars == <<at, request, requests, code, result>>
providerVars == <<loggedIn, pending, issued, judged>>
vars == <<clientVars, reply, providerVars>>

Init ==
  /\ at = [c \in Calls |-> "idle"]
  /\ request = [c \in Calls |-> None]
  /\ requests = [c \in Calls |-> 0]
  /\ code = [c \in Calls |-> None]
  /\ result = [c \in Calls |-> None]
  /\ reply = [c \in Calls |-> None]
  /\ loggedIn = [c \in Calls |-> None]
  /\ pending = [c \in Calls |-> None]
  /\ issued = {}
  /\ judged = [c \in Calls |-> 0]

(* Mutation: all calls use the cookie jar of the shared client. *)
SharedJar(c) == CHOOSE d \in Calls : TRUE

(* newSession: a jar for each call. *)
Jar(c) == c

(***************************************************************************)
(* The client.                                                             *)
(***************************************************************************)

(* A new call of Do. *)
Do(c, place, to, post) ==
  /\ at' = [at EXCEPT ![c] = place]
  /\ request' = [request EXCEPT ![c] = [to |-> to, post |-> post]]
  /\ requests' = [requests EXCEPT ![c] = 1]

Finish(c, place) ==
  /\ at' = [at EXCEPT ![c] = place]
  /\ request' = [request EXCEPT ![c] = None]
  /\ requests' = [requests EXCEPT ![c] = 0]

Fail(c) == Finish(c, "failed") /\ UNCHANGED <<code, result>>

Login(c) ==
  /\ at[c] = "idle"
  /\ Do(c, "open", "auth", FALSE)
  /\ UNCHANGED <<code, result, reply, providerVars>>

Refresh(c) ==
  /\ at[c] = "idle"
  /\ Do(c, "redeem", "token", TRUE)
  /\ UNCHANGED <<code, result, reply, providerVars>>

Got(c, kind) == reply[c] # None /\ reply[c].kind = kind /\ at[c] \notin Ended

Taken(c) == reply' = [reply EXCEPT ![c] = None] /\ UNCHANGED providerVars

SameOrigin(to) == to \in Provider \/ (to = "app" /\ AppOnProvider)

(* Mutation: the counter of the requests is not moved on. *)
OneMoreStuck(n) == n

OneMore(n) == n + 1

WithinLimit(n) == n < MaxRequests

(* Mutation: the application is asked as well if it has the same origin. *)
FollowedFirst(to) == SameOrigin(to)

(* The redirect URL is recognised before the origin is looked at.          *)
Followed(to) == to # "app" /\ SameOrigin(to)

(* CheckRedirect follows, or refuses.  A 307 keeps method and form.        *)
Redirect(c) ==
  /\ Got(c, "redirect")
  /\ Followed(reply[c].what) \/ reply[c].what # "app" \/ ~WithinLimit(requests[c])
  /\ IF WithinLimit(requests[c]) /\ Followed(reply[c].what)
     THEN /\ request' = [request EXCEPT ![c] = [to |-> reply[c].what,
                                                post |-> request[c].post /\ reply[c].what = "action"]]
          /\ requests' = [requests EXCEPT ![c] = OneMore(@)]
          /\ UNCHANGED <<at, code, result>>
     ELSE Fail(c)
  /\ Taken(c)

(* The redirect to the application is the answer of Do, not followed.      *)
AtApp(c) ==
  /\ Got(c, "redirect")
  /\ reply[c].what = "app" /\ ~Followed("app")
  /\ WithinLimit(requests[c])

(* Login, the answer to the form: no error, our state, and a code.         *)
GotCode(c) ==
  /\ AtApp(c)
  /\ IF at[c] = "submit" /\ reply[c].code # None /\ reply[c].code.for = c
     THEN /\ code' = [code EXCEPT ![c] = reply[c].code]
          /\ Do(c, "redeem", "token", TRUE)
          /\ UNCHANGED result
     ELSE Fail(c)
  /\ Taken(c)

(* Mutation: a page in answer to the form is taken for another try. *)
GotPageAgain(c) ==
  /\ Got(c, "page")
  /\ IF at[c] \in {"open", "submit"} /\ reply[c].what = "form"
     THEN Do(c, "submit", "action", TRUE) /\ UNCHANGED <<code, result>>
     ELSE Fail(c)
  /\ Taken(c)

(* Status 200 is the login page when it was asked for, whose action must   *)
(* be on the provider; in answer to the form it is ErrAuthenticationFailed *)
(* and in answer to the code no token.                                     *)
GotPage(c) ==
  /\ Got(c, "page")
  /\ IF at[c] = "open" /\ reply[c].what = "form"
     THEN Do(c, "submit", "action", TRUE) /\ UNCHANGED <<code, result>>
     ELSE Fail(c)
  /\ Taken(c)

GotTokens(c) ==
  /\ Got(c, "tokens")
  /\ Finish(c, "done")
  /\ result' = [result EXCEPT ![c] = reply[c].user]
  /\ UNCHANGED code
  /\ Taken(c)

GotError(c) == Got(c, "error") /\ Fail(c) /\ Taken(c)

(* The client or its context gives up; the request may still be served.    *)
GiveUp(c) ==
  /\ at[c] \in {"open", "submit", "redeem"}
  /\ at' = [at EXCEPT ![c] = "failed"]
  /\ UNCHANGED <<request, requests, code, result, reply, providerVars>>

(***************************************************************************)
(* The provider.                                                           *)
(***************************************************************************)
Answer(c, kind, what) ==
  reply' = [reply EXCEPT ![c] = [kind |-> kind, what |-> what, code |-> None, user |-> None]]

(* The redirect to the application with a code for user u, with the state  *)
(* and the challenge of the call f.                                        *)
AnswerCode(c, u, f) ==
  /\ reply' = [reply EXCEPT ![c] = [kind |-> "redirect", what |-> "app",
                                    code |-> [user |-> u, for |-> f], user |-> None]]
  /\ issued' = issued \union {[user |-> u, for |-> f]}

Asked(c, to) == request[c] # None /\ request[c].to = to /\ reply[c] = None

Troubles(c) ==
  \/ Answer(c, "error", "")
  \/ \E to \in {"app", "elsewhere"} : Answer(c, "redirect", to)

(* Who is known already needs no form. *)
ServePage(c) ==
  /\ Asked(c, "auth") \/ Asked(c, "page")
  /\ LET jar == Jar(c)
         asker == IF Asked(c, "auth") THEN c ELSE pending[jar] IN
       /\ pending' = [pending EXCEPT ![jar] = asker]
       /\ \/ loggedIn[jar] # None /\ AnswerCode(c, loggedIn[jar], asker)
          \/ /\ \/ \E what \in Page : Answer(c, "page", what)
                \/ \E to \in {"page", "auth"} : Answer(c, "redirect", to)
                \/ Troubles(c)
             /\ UNCHANGED issued
  /\ UNCHANGED <<clientVars, loggedIn, judged>>

(* The form with its credentials.  A provider may go by the session in the *)
(* cookie rather than by the form, and it may want another page first.     *)
ServeForm(c) ==
  /\ Asked(c, "action")
  /\ LET jar == Jar(c) IN
       \/ /\ loggedIn[jar] # None
          /\ \E f \in {c, pending[jar]} : AnswerCode(c, loggedIn[jar], f)
          /\ UNCHANGED <<loggedIn, judged>>
       \/ /\ loggedIn[jar] = None
          /\ judged' = [judged EXCEPT ![c] = @ + 1]
          /\ \/ /\ loggedIn' = [loggedIn EXCEPT ![jar] = UserOf[c]]
                /\ \/ \E f \in {c, pending[jar]} : AnswerCode(c, UserOf[c], f)
                   \/ Answer(c, "redirect", "page") /\ UNCHANGED issued
             \/ Answer(c, "page", "form") /\ UNCHANGED <<loggedIn, issued>>
       \/ /\ Answer(c, "redirect", "action") \/ Troubles(c)
          /\ UNCHANGED <<loggedIn, issued, judged>>
  /\ UNCHANGED <<clientVars, pending>>

(* A code is redeemed once and only with the verifier of its challenge; a  *)
(* refresh token gives the tokens of its user.                             *)
ServeToken(c) ==
  /\ Asked(c, "token")
  /\ \/ /\ code[c] = None
        /\ reply' = [reply EXCEPT ![c] = [kind |-> "tokens", what |-> "", code |-> None, user |-> UserOf[c]]]
        /\ UNCHANGED issued
     \/ /\ code[c] \in issued /\ code[c].for = c
        /\ reply' = [reply EXCEPT ![c] = [kind |-> "tokens", what |-> "", code |-> None, user |-> code[c].user]]
        /\ issued' = issued \ {code[c]}
     \/ /\ Troubles(c) \/ Answer(c, "page", "notice") \/ Answer(c, "redirect", "page")
        /\ UNCHANGED issued
  /\ UNCHANGED <<clientVars, loggedIn, pending, judged>>

Handle(c) == Redirect(c) \/ GotCode(c) \/ GotPage(c) \/ GotTokens(c) \/ GotError(c)

Serve(c) == ServePage(c) \/ ServeForm(c) \/ ServeToken(c)

Next == \E c \in Calls : Login(c) \/ Refresh(c) \/ Handle(c) \/ Serve(c) \/ GiveUp(c)

Spec == Init /\ [][Next]_vars

(* The provider answers what it is asked, and the client goes on.          *)
FairSpec == Spec /\ \A c \in Calls : WF_vars(Handle(c)) /\ WF_vars(Serve(c))

(***************************************************************************)
(* Properties.                                                             *)
(***************************************************************************)
TypeOK ==
  /\ at \in [Calls -> {"idle", "open", "submit", "redeem"} \union Ended]
  /\ request \in [Calls -> Request \union {None}]
  /\ requests \in [Calls -> 0..MaxRequests]
  /\ code \in [Calls -> Code \union {None}]
  /\ result \in [Calls -> Users \union {None}]
  /\ reply \in [Calls -> Reply \union {None}]
  /\ loggedIn \in [Calls -> Users \union {None}]
  /\ pending \in [Calls -> Calls \union {None}]
  /\ issued \subseteq Code
  /\ judged \in [Calls -> Nat]

(* The tokens that a call returns are those of the user it was called for, *)
(* whichever other calls the client has under way (auth.go:154, 206, 274). *)
OwnTokens == \A c \in Calls : at[c] = "done" => result[c] = UserOf[c]

(* "Login and Refresh each perform exactly one authentication attempt"     *)
(* (auth.go:4): no call has its credentials judged twice.  Only the form   *)
(* carries credentials, so this is about Login; and a provider that has    *)
(* judged a form does not have the client send it again (307).             *)
OneAttempt == \A c \in Calls : judged[c] <= 1

(* Every request is for the provider: the code is not spent by asking the  *)
(* application for the page it is in, and the form goes nowhere else       *)
(* (auth.go:174, 282-293).  The provider's own forms are for the provider: *)
(* none has the application's address on the same origin as its action.    *)
KeepsToProvider == \A c \in Calls : request[c] # None => request[c].to \in Provider

(* Every call ends if the provider answers, wherever it redirects to       *)
(* (auth.go:283).                                                          *)
LoginEnds == \A c \in Calls : at[c] # "idle" ~> at[c] \in Ended
=============================================================================
