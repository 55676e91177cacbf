---------------------------- MODULE WebcalProofs ----------------------------
(***************************************************************************)
(* Proofs about Webcal, for any number of requests, edits and new versions *)
(* of the upstream application.                                            *)
(***************************************************************************)
EXTENDS Webcal, TLAPS

(***************************************************************************)
(* The inductive invariant.                                                *)
(***************************************************************************)
StatusTyped == status \in [Requests -> {0, 200, 304, 502, 503}]

(* A page that has been read named a version.                              *)
PageNamed == \A r \in Requests : at[r] = "bundle" => named[r] # 0

(* What is about to be rendered is what the calendar was after the request *)
(* came.                                                                   *)
ListsLive == \A r \in Requests : at[r] = "render" => seen[r] >= asked[r]

WebcalInv == TypeOK /\ StatusTyped /\ DiscoveredOnce /\ PageNamed /\ ListsLive /\ LiveAnswer

USE DEF requestVars, clientVars, upstream, process, shared, vars

LEMMA InitHolds == Init => WebcalInv
<1> SUFFICES ASSUME Init PROVE WebcalInv
  OBVIOUS
<1>1. edits = 0 /\ deployed = 1 /\ version \in 0..deployed /\ deployed \in 1..MaxDeploys + 1 /\ 0 \in 0..MaxEdits
  BY WebcalAssumption DEF Init
<1>2. TypeOK /\ StatusTyped
  <2>1. /\ at \in [Requests -> {"new"}] /\ status \in [Requests -> {0}] /\ copy \in [Requests -> {NoCopy}]
        /\ asked \in [Requests -> {0}] /\ seen \in [Requests -> {0}] /\ named \in [Requests -> {0}]
    BY DEF Init
  <2>2. asked \in [Requests -> 0..edits] /\ seen \in [Requests -> 0..edits] /\ named \in [Requests -> 0..deployed]
    BY <1>1, <2>1
  <2>3. holder = NoOne /\ server = "running" /\ graceOver \in BOOLEAN
    BY DEF Init
  <2>4. edits \in 0..MaxEdits
    BY <1>1
  <2> QED BY <1>1, <2>1, <2>2, <2>3, <2>4 DEF TypeOK, StatusTyped
<1>3. DiscoveredOnce /\ PageNamed /\ ListsLive /\ LiveAnswer
  BY DEF Init, DiscoveredOnce, Discovering, PageNamed, ListsLive, LiveAnswer
<1> QED BY <1>2, <1>3 DEF WebcalInv

LEMMA ContentIsBinary == ASSUME NEW n \in Nat PROVE Content(n) \in {0, 1}
BY DEF Content

LEMMA TypesKept == ASSUME TypeOK, StatusTyped, [Next]_vars PROVE TypeOK' /\ StatusTyped'
<1> USE WebcalAssumption DEF TypeOK, StatusTyped, Goes, Answers, Alive
<1>1. ASSUME NEW r \in Requests, Arrive(r) PROVE TypeOK' /\ StatusTyped'
  <2>1. copy' \in [Requests -> {0, 1, NoCopy}]
    BY <1>1, ContentIsBinary DEF Arrive
  <2> QED BY <1>1, <2>1 DEF Arrive
<1>2. ASSUME NEW r \in Requests, TokenMissing(r) PROVE TypeOK' /\ StatusTyped'
  BY <1>2 DEF TokenMissing
<1>3. ASSUME NEW r \in Requests, OpenSession(r) PROVE TypeOK' /\ StatusTyped'
  BY <1>3 DEF OpenSession
<1>4. ASSUME NEW r \in Requests, VersionCached(r) PROVE TypeOK' /\ StatusTyped'
  BY <1>4 DEF VersionCached
<1>5. ASSUME NEW r \in Requests, Discover(r) PROVE TypeOK' /\ StatusTyped'
  BY <1>5 DEF Discover
<1>6. ASSUME NEW r \in Requests, FetchWebApp(r) PROVE TypeOK' /\ StatusTyped'
  BY <1>6 DEF FetchWebApp
<1>7. ASSUME NEW r \in Requests, FetchBundle(r) PROVE TypeOK' /\ StatusTyped'
  BY <1>7 DEF FetchBundle
<1>8. ASSUME NEW r \in Requests, FetchEvents(r) PROVE TypeOK' /\ StatusTyped'
  BY <1>8 DEF FetchEvents
<1>9. ASSUME NEW r \in Requests, Answer(r) PROVE TypeOK' /\ StatusTyped'
  BY <1>9 DEF Answer
<1>10. ASSUME NEW r \in Requests, Fails(r) PROVE TypeOK' /\ StatusTyped'
  BY <1>10 DEF Fails
<1>11. CASE Shutdown \/ GraceEnds
  <2>1. UNCHANGED <<requestVars, clientVars, upstream>> /\ server' \in {"running", "draining", "exited"}
        /\ graceOver' \in BOOLEAN
    BY <1>11 DEF Shutdown, GraceEnds
  <2> QED BY <2>1
<1>12. CASE Exit
  BY <1>12 DEF Exit
<1>13. CASE Edit
  BY <1>13 DEF Edit
<1>14. CASE Deploy
  BY <1>14 DEF Deploy
<1>15. CASE UNCHANGED vars
  BY <1>15
<1> QED
  BY <1>1, <1>2, <1>3, <1>4, <1>5, <1>6, <1>7, <1>8, <1>9, <1>10, <1>11, <1>12, <1>13, <1>14, <1>15
  DEF Next, RequestStep

(* The mutex keeps the discoveries apart.                                  *)
LEMMA DiscoveryKept ==
  ASSUME TypeOK, DiscoveredOnce, PageNamed, [Next]_vars
  PROVE  DiscoveredOnce' /\ PageNamed'
<1> USE WebcalAssumption DEF TypeOK, DiscoveredOnce, Discovering, PageNamed, Goes, Answers, Alive
<1>1. ASSUME NEW r \in Requests, Arrive(r) \/ TokenMissing(r) \/ OpenSession(r) \/ FetchEvents(r) \/ Answer(r)
      PROVE  DiscoveredOnce' /\ PageNamed'
  BY <1>1 DEF Arrive, TokenMissing, OpenSession, FetchEvents, Answer
<1>2. ASSUME NEW r \in Requests, VersionCached(r) PROVE DiscoveredOnce' /\ PageNamed'
  BY <1>2 DEF VersionCached
<1>3. ASSUME NEW r \in Requests, Discover(r) PROVE DiscoveredOnce' /\ PageNamed'
  BY <1>3 DEF Discover
<1>4. ASSUME NEW r \in Requests, FetchWebApp(r) PROVE DiscoveredOnce' /\ PageNamed'
  BY <1>4 DEF FetchWebApp
<1>5. ASSUME NEW r \in Requests, FetchBundle(r) PROVE DiscoveredOnce' /\ PageNamed'
  BY <1>5 DEF FetchBundle
<1>6. ASSUME NEW r \in Requests, Fails(r) PROVE DiscoveredOnce' /\ PageNamed'
  BY <1>6 DEF Fails
<1>7. CASE Exit
  BY <1>7 DEF Exit
<1>8. CASE Shutdown \/ GraceEnds \/ Edit \/ Deploy \/ UNCHANGED vars
  BY <1>8 DEF Shutdown, GraceEnds, Edit, Deploy
<1> QED
  BY <1>1, <1>2, <1>3, <1>4, <1>5, <1>6, <1>7, <1>8 DEF Next, RequestStep

(* A list that is fetched is as new as the request, and stays with it.     *)
LEMMA ListsKept ==
  ASSUME TypeOK, StatusTyped, TypeOK', ListsLive, LiveAnswer, [Next]_vars
  PROVE  ListsLive' /\ LiveAnswer'
<1> USE DEF TypeOK, StatusTyped, ListsLive, LiveAnswer, Goes, Answers, Alive
<1>1. ASSUME NEW r \in Requests, Arrive(r) PROVE ListsLive' /\ LiveAnswer'
  BY <1>1 DEF Arrive
<1>2. ASSUME NEW r \in Requests, TokenMissing(r) \/ Fails(r) PROVE ListsLive' /\ LiveAnswer'
  BY <1>2 DEF TokenMissing, Fails
<1>3. ASSUME NEW r \in Requests, OpenSession(r) \/ VersionCached(r) \/ Discover(r) \/ FetchWebApp(r) \/ FetchBundle(r)
      PROVE  ListsLive' /\ LiveAnswer'
  BY <1>3 DEF OpenSession, VersionCached, Discover, FetchWebApp, FetchBundle
<1>4. ASSUME NEW r \in Requests, FetchEvents(r) PROVE ListsLive' /\ LiveAnswer'
  BY <1>4 DEF FetchEvents
<1>5. ASSUME NEW r \in Requests, Answer(r) PROVE ListsLive' /\ LiveAnswer'
  BY <1>5 DEF Answer
<1>6. CASE Exit
  BY <1>6 DEF Exit
<1>7. CASE Shutdown \/ GraceEnds \/ Edit \/ Deploy \/ UNCHANGED vars
  BY <1>7 DEF Shutdown, GraceEnds, Edit, Deploy
<1> QED
  BY <1>1, <1>2, <1>3, <1>4, <1>5, <1>6, <1>7 DEF Next, RequestStep

LEMMA WebcalInvariant == Spec => []WebcalInv
<1>1. WebcalInv /\ [Next]_vars => WebcalInv'
  <2> SUFFICES ASSUME WebcalInv, [Next]_vars PROVE WebcalInv'
    OBVIOUS
  <2>1. TypeOK' /\ StatusTyped'
    BY TypesKept DEF WebcalInv
  <2>2. DiscoveredOnce' /\ PageNamed'
    BY DiscoveryKept DEF WebcalInv
  <2>3. ListsLive' /\ LiveAnswer'
    BY <2>1, ListsKept DEF WebcalInv
  <2> QED BY <2>1, <2>2, <2>3 DEF WebcalInv
<1> QED BY InitHolds, <1>1, PTL DEF Spec

(***************************************************************************)
(* The theorems.                                                           *)
(***************************************************************************)

(* Each request is answered at most once, with a status of its own, and    *)
(* no request sees what the calendar is not yet (handler.go:76-108).      *)
THEOREM WebcalTypes == Spec => []TypeOK
BY WebcalInvariant, PTL DEF WebcalInv

(* No two requests look for the version, none does so once it is known,    *)
(* and none goes on without it (client.go:300-359).                        *)
THEOREM DiscoversOnce == Spec => []DiscoveredOnce
BY WebcalInvariant, PTL DEF WebcalInv

(* What a client ends up with, by an answer or by its copy, is what the    *)
(* calendar was after the request came (handler.go:90-107).                *)
THEOREM AnswersAreLive == Spec => []LiveAnswer
BY WebcalInvariant, PTL DEF WebcalInv
=============================================================================
