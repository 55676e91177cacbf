-------------------------- MODULE LoginFlowProofs ---------------------------
(***************************************************************************)
(* Calls that share a client do not get in each other's way, for any       *)
(* number of calls, users and redirects.                                   *)
(***************************************************************************)
EXTENDS LoginFlow, TLAPS

(* A jar belongs to one call, so its session knows that call's user only,  *)
(* and was opened for that call.                                           *)
OwnSession ==
  \A c \in Calls :
    /\ loggedIn[c] \in {None, UserOf[c]}
    /\ pending[c] \in {None, c}

(* Where a call is so far that it must have opened the login page.         *)
Opened ==
  \A c \in Calls :
    \/ pending[c] = c
    \/ /\ at[c] # "submit" /\ loggedIn[c] = None
       /\ request[c] # None => request[c].to # "action"
       /\ at[c] = "open" => request[c].to = "auth" /\ reply[c] = None
       /\ reply[c] # None => reply[c].what # "action"

(* Codes are for the user of the call whose challenge they are bound to.   *)
OwnCodes ==
  /\ \A k \in issued : k.user = UserOf[k.for]
  /\ \A c \in Calls :
       /\ code[c] # None => code[c].for = c /\ code[c].user = UserOf[c]
       /\ reply[c] # None =>
            /\ reply[c].code # None => reply[c].code.user = UserOf[reply[c].code.for]
            /\ reply[c].kind = "tokens" => reply[c].user = UserOf[c]

(* While a form may still be judged, or sent again, it has not been.       *)
FormUnjudged ==
  \A c \in Calls :
    /\ at[c] \in {"idle", "open"} => judged[c] = 0
    /\ at[c] = "idle" => request[c] = None /\ reply[c] = None
    /\ at[c] = "open" /\ request[c] # None => request[c].to # "action"
    /\ at[c] = "open" /\ reply[c] # None => reply[c].what # "action"
    /\ request[c] # None /\ request[c].to = "action" /\ reply[c] = None => judged[c] = 0
    /\ reply[c] # None /\ reply[c].kind = "redirect" /\ reply[c].what = "action" => judged[c] = 0

IInv ==
  /\ TypeOK /\ OwnSession /\ Opened /\ OwnCodes /\ FormUnjudged
  /\ OwnTokens /\ OneAttempt /\ KeepsToProvider

LEMMA Credentials ==
  UserOf \in [Calls -> Users] /\ None \notin Calls \union Users /\ MaxRequests \in Nat \ {0}
BY LoginAssumption

LEMMA InitIInv == Init => IInv
BY Credentials DEF Init, IInv, TypeOK, OwnSession, Opened, OwnCodes, FormUnjudged, OwnTokens,
   OneAttempt, KeepsToProvider, Ended

(***************************************************************************)
(* Steps of the client.                                                    *)
(***************************************************************************)
Places == {"idle", "open", "submit", "redeem"} \union Ended

DoTyped ==
  /\ at \in [Calls -> Places]
  /\ request \in [Calls -> Request \union {None}]
  /\ requests \in [Calls -> 0..MaxRequests]

RestTyped ==
  /\ code \in [Calls -> Code \union {None}]
  /\ result \in [Calls -> Users \union {None}]
  /\ reply \in [Calls -> Reply \union {None}]
  /\ loggedIn \in [Calls -> Users \union {None}]
  /\ pending \in [Calls -> Calls \union {None}]
  /\ issued \subseteq Code
  /\ judged \in [Calls -> Nat]

LEMMA Types == TypeOK <=> DoTyped /\ RestTyped
BY DEF TypeOK, DoTyped, RestTyped, Places

LEMMA TypesKept == TypeOK' <=> DoTyped' /\ RestTyped'
BY DEF TypeOK, DoTyped, RestTyped, Places

LEMMA DoKeepsTypes ==
  ASSUME DoTyped, NEW c \in Calls, NEW place \in Places, NEW to \in Provider, NEW post \in BOOLEAN,
         Do(c, place, to, post)
  PROVE  DoTyped'
<1> DEFINE r == [to |-> to, post |-> post]
<1>1. r \in Request /\ 1 \in 0..MaxRequests
  BY LoginAssumption DEF Request, Place
<1>2. /\ at' = [at EXCEPT ![c] = place] /\ request' = [request EXCEPT ![c] = r]
      /\ requests' = [requests EXCEPT ![c] = 1]
  BY DEF Do
<1> HIDE DEF r
<1> QED BY <1>1, <1>2 DEF DoTyped

LEMMA FinishKeepsTypes ==
  ASSUME DoTyped, NEW c \in Calls, NEW place \in Places, Finish(c, place)
  PROVE  DoTyped'
BY LoginAssumption DEF DoTyped, Finish

LEMMA FailKeepsTypes ==
  ASSUME DoTyped, NEW c \in Calls, Fail(c)
  PROVE  DoTyped'
BY FinishKeepsTypes DEF Fail, Places, Ended

LEMMA RedirectKeepsTypes ==
  ASSUME DoTyped, NEW c \in Calls, Redirect(c)
  PROVE  DoTyped'
<1>1. CASE WithinLimit(requests[c]) /\ Followed(reply[c].what)
  <2> DEFINE r == [to |-> reply[c].what, post |-> request[c].post /\ reply[c].what = "action"]
  <2>1. reply[c].what \in Provider
    BY <1>1 DEF Followed, SameOrigin
  <2>2. (request[c].post /\ reply[c].what = "action") \in BOOLEAN
    OBVIOUS
  <2>3. r \in Request
    BY <2>1, <2>2 DEF Request, Place
  <2>4. requests[c] + 1 \in 0..MaxRequests
    BY <1>1, LoginAssumption DEF WithinLimit, DoTyped
  <2>5. /\ at' = at /\ request' = [request EXCEPT ![c] = r]
        /\ requests' = [requests EXCEPT ![c] = requests[c] + 1]
    BY <1>1 DEF Redirect, OneMore, DoTyped
  <2> HIDE DEF r
  <2> QED BY <2>3, <2>4, <2>5 DEF DoTyped
<1>2. CASE ~(WithinLimit(requests[c]) /\ Followed(reply[c].what))
  BY <1>2, FailKeepsTypes DEF Redirect
<1> QED BY <1>1, <1>2

LEMMA StartKeeps == ASSUME IInv, NEW c \in Calls, Login(c) \/ Refresh(c) PROVE IInv'
<1> USE Credentials DEF Do, providerVars, Provider, Ended
<1>1. TypeOK'
  <2>1. DoTyped'
    <3>1. CASE Login(c)
      BY <3>1, Types, DoKeepsTypes DEF IInv, Login, Places
    <3>2. CASE Refresh(c)
      BY <3>2, Types, DoKeepsTypes DEF IInv, Refresh, Places
    <3> QED BY <3>1, <3>2
  <2>2. RestTyped'
    BY Types DEF IInv, RestTyped, Login, Refresh
  <2> QED BY <2>1, <2>2, TypesKept
<1>2. OwnSession' /\ Opened'
  BY DEF IInv, TypeOK, Login, Refresh, OwnSession, Opened, FormUnjudged
<1>3. OwnCodes' /\ FormUnjudged'
  BY DEF IInv, TypeOK, Login, Refresh, OwnCodes, FormUnjudged
<1>4. (OwnTokens /\ OneAttempt /\ KeepsToProvider)'
  BY DEF IInv, TypeOK, Login, Refresh, OwnTokens, OneAttempt, KeepsToProvider
<1> QED BY <1>1, <1>2, <1>3, <1>4 DEF IInv

LEMMA HandleKeeps == ASSUME IInv, NEW c \in Calls, Handle(c) PROVE IInv'
<1> USE Credentials
    DEF Got, Taken, Do, Finish, Fail, providerVars, Provider, Ended
<1>1. CASE Redirect(c)
  <2>1. TypeOK'
    <3>1. DoTyped'
      BY <1>1, Types, RedirectKeepsTypes DEF IInv
    <3>2. RestTyped'
      BY <1>1, Types DEF IInv, RestTyped, Redirect
    <3> QED BY <3>1, <3>2, TypesKept
  <2>2. OwnSession' /\ Opened'
    BY <1>1 DEF IInv, TypeOK, Redirect, OwnSession, Opened
  <2>3. OwnCodes' /\ FormUnjudged'
    BY <1>1 DEF IInv, TypeOK, Redirect, OwnCodes, FormUnjudged
  <2>4. (OwnTokens /\ OneAttempt /\ KeepsToProvider)'
    BY <1>1 DEF IInv, TypeOK, Redirect, Followed, SameOrigin, OwnTokens, OneAttempt, KeepsToProvider
  <2> QED BY <2>1, <2>2, <2>3, <2>4 DEF IInv
<1>2. CASE GotCode(c)
  <2>1. TypeOK'
    <3>1. DoTyped'
      BY <1>2, Types, DoKeepsTypes, FailKeepsTypes DEF IInv, GotCode, Places
    <3>2. reply[c] \in Reply => reply[c].code \in Code \union {None}
      BY DEF Reply
    <3>3. RestTyped'
      BY <1>2, <3>2, Types DEF IInv, RestTyped, GotCode, AtApp
    <3> QED BY <3>1, <3>3, TypesKept
  <2>2. OwnSession' /\ Opened'
    BY <1>2 DEF IInv, TypeOK, GotCode, AtApp, OwnSession, Opened
  <2>3. OwnCodes' /\ FormUnjudged'
    BY <1>2 DEF IInv, TypeOK, GotCode, AtApp, OwnCodes, FormUnjudged
  <2>4. (OwnTokens /\ OneAttempt /\ KeepsToProvider)'
    BY <1>2 DEF IInv, TypeOK, GotCode, AtApp, OwnTokens, OneAttempt, KeepsToProvider
  <2> QED BY <2>1, <2>2, <2>3, <2>4 DEF IInv
<1>3. CASE GotPage(c)
  <2>1. TypeOK'
    <3>1. DoTyped'
      BY <1>3, Types, DoKeepsTypes, FailKeepsTypes DEF IInv, GotPage, Places
    <3>2. RestTyped'
      BY <1>3, Types DEF IInv, RestTyped, GotPage
    <3> QED BY <3>1, <3>2, TypesKept
  <2>2. OwnSession' /\ Opened'
    BY <1>3 DEF IInv, TypeOK, GotPage, OwnSession, Opened
  <2>3. OwnCodes' /\ FormUnjudged'
    BY <1>3 DEF IInv, TypeOK, GotPage, OwnCodes, FormUnjudged
  <2>4. (OwnTokens /\ OneAttempt /\ KeepsToProvider)'
    BY <1>3 DEF IInv, TypeOK, GotPage, OwnTokens, OneAttempt, KeepsToProvider
  <2> QED BY <2>1, <2>2, <2>3, <2>4 DEF IInv
<1>4. CASE GotTokens(c) \/ GotError(c)
  <2>1. TypeOK'
    <3>1. DoTyped'
      BY <1>4, Types, FailKeepsTypes, FinishKeepsTypes DEF IInv, GotTokens, GotError, Places
    <3>2. reply[c] \in Reply => reply[c].user \in Users \union {None}
      BY DEF Reply
    <3>3. RestTyped'
      BY <1>4, <3>2, Types DEF IInv, RestTyped, GotTokens, GotError
    <3> QED BY <3>1, <3>3, TypesKept
  <2>2. OwnSession' /\ Opened'
    BY <1>4 DEF IInv, TypeOK, GotTokens, GotError, OwnSession, Opened
  <2>3. OwnCodes' /\ FormUnjudged'
    BY <1>4 DEF IInv, TypeOK, GotTokens, GotError, OwnCodes, FormUnjudged
  <2>4. (OwnTokens /\ OneAttempt /\ KeepsToProvider)'
    BY <1>4 DEF IInv, TypeOK, GotTokens, GotError, OwnCodes, OwnTokens, OneAttempt, KeepsToProvider
  <2> QED BY <2>1, <2>2, <2>3, <2>4 DEF IInv
<1> QED BY <1>1, <1>2, <1>3, <1>4 DEF Handle

LEMMA GiveUpKeeps == ASSUME IInv, NEW c \in Calls, GiveUp(c) PROVE IInv'
<1> USE Credentials DEF providerVars, Ended
<1>1. TypeOK'
  BY DEF IInv, TypeOK, GiveUp
<1>2. OwnSession' /\ Opened'
  BY DEF IInv, TypeOK, GiveUp, OwnSession, Opened
<1>3. OwnCodes' /\ FormUnjudged'
  BY DEF IInv, TypeOK, GiveUp, OwnCodes, FormUnjudged
<1>4. (OwnTokens /\ OneAttempt /\ KeepsToProvider)'
  BY DEF IInv, TypeOK, GiveUp, OwnTokens, OneAttempt, KeepsToProvider
<1> QED BY <1>1, <1>2, <1>3, <1>4 DEF IInv

(***************************************************************************)
(* Steps of the provider.                                                  *)
(***************************************************************************)
(* What is sent to a call: a reply that is right for it, and no code but   *)
(* for its own user.                                                       *)
Replies(c, r) ==
  /\ reply' = [reply EXCEPT ![c] = r]
  /\ r \in Reply
  /\ r.code # None => r.code.user = UserOf[r.code.for]
  /\ r.kind = "tokens" => r.user = UserOf[c]

IssuesOwn == issued' \subseteq Code /\ \A k \in issued' : k.user = UserOf[k.for]

Told == Place \union Page \union {""}

LEMMA AnswerReplies ==
  ASSUME NEW c \in Calls, NEW kind \in {"page", "redirect", "error"},
         NEW what \in Told,
         Answer(c, kind, what)
  PROVE  \E r : Replies(c, r) /\ r.kind = kind /\ r.what = what
<1> DEFINE r == [kind |-> kind, what |-> what, code |-> None, user |-> None]
<1>1. r \in Reply
  BY DEF Reply, Told
<1>2. Replies(c, r) /\ r.kind = kind /\ r.what = what
  BY <1>1 DEF Answer, Replies
<1> QED BY <1>2

LEMMA CodeReplies ==
  ASSUME IInv, NEW c \in Calls, UserOf[c] \in Users, AnswerCode(c, UserOf[c], c)
  PROVE  IssuesOwn /\ \E r : Replies(c, r) /\ r.kind = "redirect" /\ r.what = "app"
<1> DEFINE k == [user |-> UserOf[c], for |-> c]
           r == [kind |-> "redirect", what |-> "app", code |-> k, user |-> None]
<1>1. k \in Code /\ k.user = UserOf[k.for]
  BY DEF Code
<1>2. reply' = [reply EXCEPT ![c] = r] /\ issued' = issued \union {k}
  BY DEF AnswerCode
<1> HIDE DEF k
<1>3. r \in Reply
  BY <1>1 DEF Reply, Place
<1>4. Replies(c, r) /\ r.kind = "redirect" /\ r.what = "app"
  BY <1>1, <1>2, <1>3 DEF Replies
<1>5. IssuesOwn
  BY <1>1, <1>2 DEF IssuesOwn, IInv, TypeOK, OwnCodes
<1> QED BY <1>4, <1>5

LEMMA RepliesTyped ==
  ASSUME RestTyped, NEW c \in Calls, NEW r, Replies(c, r)
  PROVE  reply' \in [Calls -> Reply \union {None}]
BY DEF RestTyped, Replies

LEMMA RepliesOwn ==
  ASSUME IInv, NEW c \in Calls, NEW r, Replies(c, r), IssuesOwn, UNCHANGED code
  PROVE  OwnCodes'
<1>1. \A d \in Calls : reply'[d] = IF d = c THEN r ELSE reply[d]
  BY DEF IInv, TypeOK, Replies
<1> QED BY <1>1 DEF IInv, OwnCodes, Replies, IssuesOwn

LEMMA AnyAnswerReplies ==
  ASSUME NEW c \in Calls, NEW kind \in {"page", "redirect", "error"}, NEW W \in SUBSET (Told \ {"action"}),
         \E what \in W : Answer(c, kind, what)
  PROVE  \E r : Replies(c, r) /\ r.kind = kind /\ r.what # "action"
<1>1. PICK what \in W : Answer(c, kind, what)
  OBVIOUS
<1>2. what # "action" /\ what \in Told
  OBVIOUS
<1>3. \E r : Replies(c, r) /\ r.kind = kind /\ r.what = what
  BY <1>1, <1>2, AnswerReplies
<1> QED BY <1>2, <1>3

LEMMA Tellable ==
  /\ Page \in SUBSET (Told \ {"action"})
  /\ {"app", "elsewhere"} \in SUBSET (Told \ {"action"})
  /\ {"page", "auth"} \in SUBSET (Told \ {"action"})
  /\ {""} \in SUBSET (Told \ {"action"})
  /\ "" \in Told /\ "form" \in Told /\ "notice" \in Told /\ "page" \in Told /\ "action" \in Told
BY DEF Told, Place, Page, Provider

LEMMA TroublesReply ==
  ASSUME NEW c \in Calls, Troubles(c)
  PROVE  \E r : Replies(c, r) /\ r.kind # "page" /\ r.what # "action"
<1>1. CASE Answer(c, "error", "")
  <2>1. \E what \in {""} : Answer(c, "error", what)
    BY <1>1
  <2>2. \E r : Replies(c, r) /\ r.kind = "error" /\ r.what # "action"
    BY <2>1, Tellable, AnyAnswerReplies
  <2> QED BY <2>2
<1>2. CASE \E to \in {"app", "elsewhere"} : Answer(c, "redirect", to)
  <2>1. \E r : Replies(c, r) /\ r.kind = "redirect" /\ r.what # "action"
    BY <1>2, Tellable, AnyAnswerReplies
  <2> QED BY <2>1
<1> QED BY <1>1, <1>2 DEF Troubles

(* What is known behind a jar is known for its call.                       *)
LEMMA KnownIsOwn ==
  ASSUME IInv, NEW c \in Calls, loggedIn[c] # None
  PROVE  pending[c] = c /\ loggedIn[c] = UserOf[c] /\ UserOf[c] \in Users
BY LoginAssumption DEF IInv, OwnSession, Opened

LEMMA SameIssued == ASSUME IInv, issued' \subseteq issued PROVE IssuesOwn
BY DEF IInv, TypeOK, OwnCodes, IssuesOwn

LEMMA PageKeeps == ASSUME IInv, NEW c \in Calls, ServePage(c) PROVE IInv'
<1> DEFINE asker == IF Asked(c, "auth") THEN c ELSE pending[c]
<1>1. /\ Asked(c, "auth") \/ Asked(c, "page")
      /\ pending' = [pending EXCEPT ![c] = asker]
      /\ UNCHANGED <<clientVars, loggedIn, judged>>
  BY DEF ServePage, Jar
<1>2. asker \in {c, None} /\ asker \in Calls \union {None}
  BY DEF IInv, OwnSession
<1>3. PICK r : Replies(c, r) /\ r.what # "action"
  <2>1. CASE loggedIn[c] # None /\ AnswerCode(c, loggedIn[c], asker)
    BY <2>1, KnownIsOwn, CodeReplies
  <2>2. CASE \E what \in Page : Answer(c, "page", what)
    BY <2>2, Tellable, AnyAnswerReplies
  <2>3. CASE \E to \in {"page", "auth"} : Answer(c, "redirect", to)
    BY <2>3, Tellable, AnyAnswerReplies
  <2>4. CASE Troubles(c)
    BY <2>4, TroublesReply
  <2> QED BY <2>1, <2>2, <2>3, <2>4 DEF ServePage, Jar
<1>4. IssuesOwn
  BY KnownIsOwn, CodeReplies, SameIssued DEF ServePage, Jar
<1> HIDE DEF asker
<1>5. TypeOK'
  <2>1. DoTyped'
    BY <1>1, Types DEF IInv, DoTyped, clientVars
  <2>2. reply' \in [Calls -> Reply \union {None}] /\ pending' \in [Calls -> Calls \union {None}]
    BY <1>1, <1>2, <1>3, RepliesTyped, Types DEF IInv, RestTyped
  <2>3. RestTyped'
    BY <1>1, <1>4, <2>2, Types DEF IInv, RestTyped, IssuesOwn, clientVars
  <2> QED BY <2>1, <2>3, TypesKept
<1>6. OwnSession'
  BY <1>1, <1>2 DEF IInv, TypeOK, OwnSession
<1>7. \A d \in Calls : reply'[d] = IF d = c THEN r ELSE reply[d]
  BY <1>3 DEF IInv, TypeOK, Replies
<1>8. Opened'
  <2>1. \A d \in Calls : pending'[d] = IF d = c THEN asker ELSE pending[d]
    BY <1>1 DEF IInv, TypeOK
  <2>2. Asked(c, "auth") => asker = c
    BY DEF asker
  <2>3. ~Asked(c, "auth") => asker = pending[c]
    BY DEF asker
  <2> QED BY <1>1, <1>3, <1>7, <2>1, <2>2, <2>3 DEF IInv, Opened, Asked, clientVars
<1>9. OwnCodes'
  BY <1>1, <1>3, <1>4, RepliesOwn DEF clientVars
<1>10. FormUnjudged'
  BY <1>1, <1>3, <1>7 DEF IInv, FormUnjudged, Asked, clientVars
<1>11. (OwnTokens /\ OneAttempt /\ KeepsToProvider)'
  BY <1>1 DEF IInv, OwnTokens, OneAttempt, KeepsToProvider, clientVars
<1> QED BY <1>5, <1>6, <1>8, <1>9, <1>10, <1>11 DEF IInv

LEMMA FormKeeps == ASSUME IInv, NEW c \in Calls, ServeForm(c) PROVE IInv'
<1>1. Asked(c, "action") /\ UNCHANGED <<clientVars, pending>>
  BY DEF ServeForm
<1>2. pending[c] = c /\ judged[c] = 0 /\ at[c] # "open" /\ at[c] # "idle" /\ UserOf[c] \in Users
  BY <1>1, LoginAssumption DEF IInv, Opened, FormUnjudged, Asked
<1>3. PICK r : Replies(c, r) /\ (r.kind = "redirect" /\ r.what = "action" => judged' = judged)
  <2>1. CASE AnswerCode(c, UserOf[c], c)
    BY <1>2, <2>1, CodeReplies
  <2>2. CASE Answer(c, "page", "form")
    BY <2>2, Tellable, AnswerReplies
  <2>3. CASE Answer(c, "redirect", "page")
    BY <2>3, Tellable, AnswerReplies
  <2>4. CASE Answer(c, "redirect", "action") /\ judged' = judged
    BY <2>4, Tellable, AnswerReplies
  <2>5. CASE Troubles(c)
    BY <2>5, TroublesReply
  <2> QED BY <1>2, <2>1, <2>2, <2>3, <2>4, <2>5, KnownIsOwn DEF ServeForm, Jar
<1>4. IssuesOwn
  BY <1>2, KnownIsOwn, CodeReplies, SameIssued DEF ServeForm, Jar
<1>5. \A d \in Calls : /\ judged'[d] = judged[d] \/ (d = c /\ judged'[d] = judged[d] + 1)
                       /\ loggedIn'[d] = loggedIn[d] \/ (d = c /\ loggedIn'[d] = UserOf[c])
  BY DEF ServeForm, Jar, IInv, TypeOK
<1>6. TypeOK'
  <2>1. DoTyped'
    BY <1>1, Types DEF IInv, DoTyped, clientVars
  <2>2. reply' \in [Calls -> Reply \union {None}]
    BY <1>3, RepliesTyped, Types DEF IInv
  <2>3. judged' \in [Calls -> Nat] /\ loggedIn' \in [Calls -> Users \union {None}]
    BY <1>2 DEF ServeForm, Jar, IInv, TypeOK
  <2>4. RestTyped'
    BY <1>1, <1>4, <2>2, <2>3, Types DEF IInv, RestTyped, IssuesOwn, clientVars
  <2> QED BY <2>1, <2>4, TypesKept
<1>7. \A d \in Calls : reply'[d] = IF d = c THEN r ELSE reply[d]
  BY <1>3 DEF IInv, TypeOK, Replies
<1>8. OwnSession' /\ Opened'
  BY <1>1, <1>2, <1>5, <1>7 DEF IInv, OwnSession, Opened, clientVars
<1>9. OwnCodes'
  BY <1>1, <1>3, <1>4, RepliesOwn DEF clientVars
<1>10. FormUnjudged'
  <2>1. \A d \in Calls : d # c => judged'[d] = judged[d] /\ reply'[d] = reply[d]
    BY <1>5, <1>7
  <2>2. reply'[c] = r /\ r # None
    BY <1>3, <1>7, LoginAssumption DEF Replies
  <2> QED BY <1>1, <1>2, <1>3, <2>1, <2>2 DEF IInv, FormUnjudged, clientVars
<1>11. (OwnTokens /\ OneAttempt /\ KeepsToProvider)'
  BY <1>1, <1>2, <1>5 DEF IInv, OwnTokens, OneAttempt, KeepsToProvider, clientVars
<1> QED BY <1>6, <1>8, <1>9, <1>10, <1>11 DEF IInv

LEMMA TokenKeeps == ASSUME IInv, NEW c \in Calls, ServeToken(c) PROVE IInv'
<1>1. Asked(c, "token") /\ UNCHANGED <<clientVars, loggedIn, pending, judged>> /\ issued' \subseteq issued
  BY DEF ServeToken
<1>2. PICK r : Replies(c, r) /\ r.what # "action"
  <2> DEFINE t == [kind |-> "tokens", what |-> "", code |-> None, user |-> UserOf[c]]
  <2>1. CASE reply' = [reply EXCEPT ![c] = t]
    <3>1. t \in Reply
      BY Credentials DEF Reply
    <3>2. Replies(c, t) /\ t.what # "action"
      BY <2>1, <3>1 DEF Replies
    <3> QED BY <3>2
  <2>2. CASE Troubles(c)
    BY <2>2, TroublesReply
  <2>3. CASE Answer(c, "page", "notice")
    <3>1. \E what \in Page : Answer(c, "page", what)
      BY <2>3 DEF Page
    <3> QED BY <3>1, Tellable, AnyAnswerReplies
  <2>4. CASE Answer(c, "redirect", "page")
    <3>1. \E what \in {"page", "auth"} : Answer(c, "redirect", what)
      BY <2>4
    <3> QED BY <3>1, Tellable, AnyAnswerReplies
  <2> QED BY <2>1, <2>2, <2>3, <2>4 DEF ServeToken, IInv, OwnCodes
<1>3. TypeOK'
  <2>1. DoTyped'
    BY <1>1, Types DEF IInv, DoTyped, clientVars
  <2>2. reply' \in [Calls -> Reply \union {None}]
    BY <1>2, RepliesTyped, Types DEF IInv
  <2>3. RestTyped'
    BY <1>1, <2>2, Types DEF IInv, RestTyped, clientVars
  <2> QED BY <2>1, <2>3, TypesKept
<1>4. \A d \in Calls : reply'[d] = IF d = c THEN r ELSE reply[d]
  BY <1>2 DEF IInv, TypeOK, Replies
<1>5. OwnSession'
  BY <1>1 DEF IInv, OwnSession
<1>6. Opened'
  BY <1>1, <1>2, <1>4 DEF IInv, Opened, Asked, clientVars
<1>7. OwnCodes'
  BY <1>1, <1>2, RepliesOwn, SameIssued DEF clientVars
<1>8. FormUnjudged'
  BY <1>1, <1>2, <1>4 DEF IInv, FormUnjudged, Asked, clientVars
<1>9. (OwnTokens /\ OneAttempt /\ KeepsToProvider)'
  BY <1>1 DEF IInv, OwnTokens, OneAttempt, KeepsToProvider, clientVars
<1> QED BY <1>3, <1>5, <1>6, <1>7, <1>8, <1>9 DEF IInv

(***************************************************************************)
(* The theorems.                                                           *)
(***************************************************************************)
LEMMA StepIInv == IInv /\ [Next]_vars => IInv'
<1> SUFFICES ASSUME IInv, [Next]_vars PROVE IInv'
  OBVIOUS
<1>1. CASE UNCHANGED vars
  BY <1>1 DEF IInv, TypeOK, OwnSession, Opened, OwnCodes, FormUnjudged, OwnTokens, OneAttempt,
     KeepsToProvider, vars, clientVars, providerVars
<1>2. CASE Next
  <2>1. PICK c \in Calls : Login(c) \/ Refresh(c) \/ Handle(c) \/ Serve(c) \/ GiveUp(c)
    BY <1>2 DEF Next
  <2> QED BY <2>1, StartKeeps, HandleKeeps, GiveUpKeeps, PageKeeps, FormKeeps, TokenKeeps DEF Serve
<1> QED BY <1>1, <1>2

LEMMA Invariant == Spec => []IInv
BY InitIInv, StepIInv, PTL DEF Spec

(* Every variable of the login keeps its type, and no Do sends more than   *)
(* MaxRequests requests (auth.go:283).                                     *)
THEOREM LoginTypes == Spec => []TypeOK
BY Invariant, PTL DEF IInv

(* A call returns the tokens of its own user, however many calls share the *)
(* client (auth.go:274).                                                   *)
THEOREM TokensAreOwn == Spec => []OwnTokens
BY Invariant, PTL DEF IInv

(* No call has its credentials judged twice, whatever the provider         *)
(* redirects to (auth.go:4, 188).                                          *)
THEOREM AttemptedOnce == Spec => []OneAttempt
BY Invariant, PTL DEF IInv

(* No request leaves the origin of the provider (auth.go:282-293).         *)
THEOREM NoRequestElsewhere == Spec => []KeepsToProvider
BY Invariant, PTL DEF IInv
=============================================================================
