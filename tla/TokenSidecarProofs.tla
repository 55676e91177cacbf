------------------------- MODULE TokenSidecarProofs -------------------------
(***************************************************************************)
(* Proofs about TokenSidecar: whatever the lifetimes, the bounds and the   *)
(* timing of the answers.                                                  *)
(***************************************************************************)
EXTENDS TokenSidecar, TLAPS

(***************************************************************************)
(* The inductive invariant: an answer on its way, the tokens in memory and *)
(* the file agree with the server, each as far as the process has come.    *)
(***************************************************************************)
Calling == proc \in {"login", "refresh"}

(* Only a call has an answer, and it is the newest token. *)
AnswerInv ==
  answer # NoAnswer => Calling /\ answer.token = issued /\ issued \in own

(* What the process has is its own and the newest, unless a call goes on. *)
NewestInv ==
  /\ proc = "write" => held = issued /\ held \in own
  /\ proc = "wait" \/ (proc = "refresh" /\ answer = NoAnswer) => file = issued

(* The refresh token that the process has, or is about to have, is taken. *)
RefreshInv ==
  /\ proc \in {"write", "wait"} => refresh = accepted
  /\ proc = "refresh" =>
       (IF answer = NoAnswer \/ answer.refresh = 0 THEN refresh ELSE answer.refresh) = accepted
  /\ proc = "login" /\ answer.refresh # 0 => answer.refresh = accepted

(* A token has lost no more of its validity than the steps since took. *)
ClockInv ==
  /\ Calling => clock <= CallTimeout
  /\ answer # NoAnswer => validity[answer.token] >= answer.life - (CallTimeout - clock)
  /\ proc = "write" => validity[held] >= life - CallTimeout
  /\ proc = "wait" /\ life > RefreshBefore => validity[file] >= RefreshBefore - CallTimeout + clock
  /\ proc = "refresh" /\ life > RefreshBefore =>
       validity[file] >= RefreshBefore - CallTimeout - (CallTimeout - clock)

SidecarInv == TypeOK /\ AnswerInv /\ NewestInv /\ NoInheritedToken /\ RefreshInv /\ ClockInv

USE DEF Token, NoAnswer, Calling, memory, server, vars

LEMMA WaitIsNatural ==
  ASSUME NEW CONSTANT l \in Nat, NEW CONSTANT r \in Nat
  PROVE  (IF l > r THEN l - r ELSE l \div 2) \in Nat
  OBVIOUS

LEMMA InitHolds == Init => SidecarInv
  BY SidecarAssumption
  DEF Init, SidecarInv, TypeOK, AnswerInv, NewestInv, NoInheritedToken, RefreshInv, ClockInv

(* The number of a new token. *)
LEMMA Successor ==
  ASSUME NEW m \in Nat, NEW n \in 0..m, n < m
  PROVE  n + 1 \in 0..m /\ 0 \in 0..m /\ n # n + 1 /\ n + 1 # 0
  OBVIOUS

LEMMA NewToken ==
  ASSUME TypeOK, issued < MaxTokens
  PROVE  issued + 1 \in Token /\ 0 \in Token /\ issued # issued + 1 /\ issued + 1 # 0
<1>1. MaxTokens \in Nat BY Zenon, SidecarAssumption
<1>2. issued \in 0..MaxTokens BY Zenon DEF TypeOK
<1> QED BY <1>1, <1>2, Successor, Zenon

(* The types of what the server changes when it issues a token. *)
LEMMA IssueTypes ==
  ASSUME TypeOK, NEW left \in Lives, NEW rotates \in BOOLEAN, Issue(issued + 1, left),
         answer' = [token |-> issued + 1, refresh |-> IF rotates THEN issued + 1 ELSE 0, life |-> left]
  PROVE  /\ issued' = issued + 1 /\ issued + 1 \in Token
         /\ answer' \in [token : Token, refresh : Token, life : Lives \union {0}]
         /\ validity' \in [Token -> {-1} \union Nat]
         /\ own' \subseteq Token
<1> USE SidecarAssumption DEF TypeOK, Issue
<1>1. issued + 1 \in Token /\ 0 \in Token BY NewToken
<1>2. (IF rotates THEN issued + 1 ELSE 0) \in Token BY <1>1
<1>3. answer' \in [token : Token, refresh : Token, life : Lives \union {0}] BY <1>1, <1>2
<1>4. left \in Nat OBVIOUS
<1>5. validity' \in [Token -> {-1} \union Nat] BY <1>1, <1>4
<1> QED BY <1>1, <1>3, <1>5

LEMMA Elapsed ==
  ASSUME NEW v \in {-1} \union Nat
  PROVE  (IF v < 0 THEN v ELSE v - 1) \in {-1} \union Nat
<1>1. CASE v = -1 BY <1>1
<1>2. CASE v \in Nat /\ v > 0
  <2>1. v - 1 \in Nat BY <1>2
  <2> QED BY <1>2, <2>1
<1>3. CASE v = 0 BY <1>3
<1> QED BY <1>1, <1>2, <1>3

LEMMA TypesKept == ASSUME TypeOK, [Next]_vars PROVE TypeOK'
<1> USE SidecarAssumption DEF TypeOK
<1>1. CASE Start BY <1>1 DEF Start
<1>2. CASE LoginWithoutRefresh BY <1>2 DEF LoginWithoutRefresh
<1>3. CASE LoggedIn BY <1>3 DEF LoggedIn
<1>4. CASE WriteFile
  <2>1. life \in Nat OBVIOUS
  <2>2. Wait \in Nat BY <2>1, WaitIsNatural DEF Wait
  <2> QED BY <1>4, <2>2 DEF WriteFile
<1>5. CASE TimerFires BY <1>5 DEF TimerFires
<1>6. CASE Refreshed BY <1>6 DEF Refreshed
<1>7. CASE CallFails BY <1>7 DEF CallFails
<1>8. CASE Clear BY <1>8 DEF Clear
<1>9. CASE Terminate BY <1>9 DEF Terminate
<1>10. CASE StartFails BY <1>10 DEF StartFails, Fault
<1>11. CASE WriteFails BY <1>11 DEF WriteFails, Fault
<1>12. CASE ClearFails BY <1>12 DEF ClearFails, Fault
<1>13. CASE Kill BY <1>13 DEF Kill, Fault
<1>14. ASSUME NEW left \in Lives, NEW rotates \in BOOLEAN, GrantLogin(left, rotates) PROVE TypeOK'
  BY <1>14, IssueTypes DEF GrantLogin
<1>15. ASSUME NEW left \in Lives, NEW rotates \in BOOLEAN, GrantRefresh(left, rotates) PROVE TypeOK'
  BY <1>15, IssueTypes DEF GrantRefresh
<1>16. CASE Tick
  <2>1. ASSUME NEW t \in Token
        PROVE  (IF validity[t] < 0 THEN validity[t] ELSE validity[t] - 1) \in {-1} \union Nat
    <3>1. validity[t] \in {-1} \union Nat OBVIOUS
    <3> QED BY <3>1, Elapsed, Zenon
  <2>3. validity' \in [Token -> {-1} \union Nat] BY <1>16, <2>1 DEF Tick
  <2>2. clock' \in Nat BY <1>16 DEF Tick
  <2> QED BY <1>16, <2>2, <2>3 DEF Tick
<1>17. CASE UNCHANGED vars BY <1>17
<1> QED
  BY <1>1, <1>2, <1>3, <1>4, <1>5, <1>6, <1>7, <1>8, <1>9, <1>10, <1>11, <1>12, <1>13, <1>14, <1>15, <1>16, <1>17
  DEF Next, ServeStep, Grant
(***************************************************************************)
(* The tokens in the file, in memory and on the way.                       *)
(***************************************************************************)
TokensInv == AnswerInv /\ NewestInv /\ NoInheritedToken /\ RefreshInv

LEMMA TokensKept ==
  ASSUME TypeOK, TypeOK', TokensInv, [Next]_vars PROVE TokensInv'
<1> USE SidecarAssumption DEF TokensInv, AnswerInv, NewestInv, NoInheritedToken, RefreshInv
<1>1. CASE Start BY <1>1 DEF Start, TypeOK
<1>2. CASE LoginWithoutRefresh BY <1>2 DEF LoginWithoutRefresh
<1>3. CASE LoggedIn BY <1>3 DEF LoggedIn
<1>4. CASE WriteFile BY <1>4 DEF WriteFile
<1>5. CASE TimerFires BY <1>5 DEF TimerFires
<1>6. CASE Refreshed BY <1>6 DEF Refreshed
<1>7. CASE CallFails BY <1>7 DEF CallFails
<1>8. CASE Clear BY <1>8 DEF Clear
<1>9. CASE Terminate BY <1>9 DEF Terminate
<1>10. CASE StartFails BY <1>10 DEF StartFails, Fault
<1>11. CASE WriteFails BY <1>11 DEF WriteFails, Fault
<1>12. CASE ClearFails BY <1>12 DEF ClearFails, Fault
<1>13. CASE Kill BY <1>13 DEF Kill, Fault
<1>14. ASSUME NEW left \in Lives, NEW rotates \in BOOLEAN, GrantLogin(left, rotates) PROVE TokensInv'
  BY <1>14 DEF GrantLogin, Issue, TypeOK
<1>15. ASSUME NEW left \in Lives, NEW rotates \in BOOLEAN, GrantRefresh(left, rotates) PROVE TokensInv'
  BY <1>15 DEF GrantRefresh, Issue, TypeOK
<1>16. CASE Tick BY <1>16 DEF Tick
<1>17. CASE UNCHANGED vars BY <1>17
<1> QED
  BY <1>1, <1>2, <1>3, <1>4, <1>5, <1>6, <1>7, <1>8, <1>9, <1>10, <1>11, <1>12, <1>13, <1>14, <1>15, <1>16, <1>17
  DEF Next, ServeStep, Grant

(***************************************************************************)
(* The validity of the tokens.                                             *)
(***************************************************************************)
LEMMA LifeIsNatural ==
  ASSUME NEW S, S \subseteq Nat, NEW x, x \in S \union {0} PROVE x \in Nat
<1>1. CASE x = 0 BY <1>1
<1>2. CASE x \in S BY <1>2
<1> QED BY <1>1, <1>2

LEMMA Numbers ==
  ASSUME TypeOK
  PROVE  /\ {RefreshBefore, CallTimeout, clock, life, answer.life} \subseteq Nat
         /\ {held, file, answer.token, answer.refresh, issued} \subseteq Token
         /\ \A t \in Token : validity[t] \in Int
<1>1. \A t \in Token : validity[t] \in {-1} \union Nat BY DEF TypeOK
<1>2. \A t \in Token : validity[t] \in Int
  <2> SUFFICES ASSUME NEW t \in Token PROVE validity[t] \in Int OBVIOUS
  <2>1. validity[t] = -1 \/ validity[t] \in Nat BY <1>1
  <2> QED BY <2>1
<1>3. answer.life \in Lives \union {0} /\ answer.token \in Token /\ answer.refresh \in Token BY DEF TypeOK
<1>4. {RefreshBefore, CallTimeout, clock, life, answer.life} \subseteq Nat
  <2>1. Lives \subseteq Nat /\ RefreshBefore \in Nat /\ CallTimeout \in Nat BY SidecarAssumption
  <2>2. life \in Lives \union {0} /\ clock \in Nat BY DEF TypeOK
  <2>3. life \in Nat /\ answer.life \in Nat BY <1>3, <2>1, <2>2, LifeIsNatural
  <2> QED BY <2>1, <2>2, <2>3
<1>5. {held, file, answer.token, answer.refresh, issued} \subseteq Token
  <2>1. {held, file, issued} \subseteq Token BY DEF TypeOK
  <2> QED BY <1>3, <2>1
<1> QED BY <1>2, <1>4, <1>5

(* A token that is issued has its whole validity, and no other loses any.  *)
LEMMA IssuedClock ==
  ASSUME TypeOK, ClockInv, NEW left \in Lives, NEW rotates \in BOOLEAN, Calling, answer = NoAnswer,
         Issue(issued + 1, left),
         answer' = [token |-> issued + 1, refresh |-> IF rotates THEN issued + 1 ELSE 0, life |-> left],
         proc = "refresh" => file = issued,
         UNCHANGED <<proc, memory, clock, file>>
  PROVE  ClockInv'
<1>1. issued + 1 \in Token /\ issued # issued + 1 BY NewToken, Zenon DEF Issue
<1>2. validity'[issued + 1] = left BY <1>1 DEF Issue, TypeOK
<1>3. proc = "refresh" => validity'[file] = validity[file] BY <1>1 DEF Issue, TypeOK
<1>4. left \in Nat BY SidecarAssumption
<1>5. answer'.token = issued + 1 /\ answer'.life = left OBVIOUS
<1>6. validity'[answer'.token] >= answer'.life - (CallTimeout - clock')
  BY <1>2, <1>4, <1>5, Numbers DEF ClockInv
<1> QED BY <1>3, <1>6 DEF ClockInv

LEMMA ClockKept ==
  ASSUME TypeOK, TypeOK', TokensInv, ClockInv, [Next]_vars PROVE ClockInv'
<1> USE DEF ClockInv
<1>1. CASE Start BY <1>1, Numbers DEF Start, TokensInv, AnswerInv
<1>2. CASE LoginWithoutRefresh BY <1>2 DEF LoginWithoutRefresh
<1>3. CASE LoggedIn
  <2>1. answer # NoAnswer BY <1>3 DEF LoggedIn
  <2>2. validity[held'] >= life' - (CallTimeout - clock) BY <1>3, <2>1 DEF LoggedIn
  <2>3. held' \in Token /\ life' \in Nat BY <1>3, Numbers DEF LoggedIn
  <2>4. validity[held'] >= life' - CallTimeout BY <2>2, <2>3, Numbers
  <2> QED BY <1>3, <2>4 DEF LoggedIn
<1>4. CASE WriteFile BY <1>4, Numbers DEF WriteFile, Wait, TokensInv, AnswerInv
<1>5. CASE TimerFires
  <2>1. answer = NoAnswer BY <1>5 DEF TimerFires, TokensInv, AnswerInv
  <2>2. clock' <= CallTimeout BY <1>5, Numbers DEF TimerFires
  <2>3. life > RefreshBefore => validity[file] >= RefreshBefore - CallTimeout - (CallTimeout - clock')
    BY <1>5, Numbers DEF TimerFires
  <2> QED BY <1>5, <2>1, <2>2, <2>3 DEF TimerFires
<1>6. CASE Refreshed
  <2>1. validity[held'] >= life' - (CallTimeout - clock) BY <1>6 DEF Refreshed
  <2>2. held' \in Token /\ life' \in Nat BY <1>6, Numbers DEF Refreshed
  <2>3. validity[held'] >= life' - CallTimeout BY <2>1, <2>2, Numbers
  <2> QED BY <1>6, <2>3 DEF Refreshed
<1>7. CASE CallFails BY <1>7 DEF CallFails
<1>8. CASE Clear BY <1>8 DEF Clear, TokensInv, AnswerInv
<1>9. CASE Terminate BY <1>9 DEF Terminate, TokensInv, AnswerInv
<1>10. CASE StartFails BY <1>10 DEF StartFails, Fault, TokensInv, AnswerInv
<1>11. CASE WriteFails BY <1>11 DEF WriteFails, Fault, TokensInv, AnswerInv
<1>12. CASE ClearFails BY <1>12 DEF ClearFails, Fault, TokensInv, AnswerInv
<1>13. CASE Kill BY <1>13 DEF Kill, Fault
<1>14. ASSUME NEW left \in Lives, NEW rotates \in BOOLEAN, GrantLogin(left, rotates) PROVE ClockInv'
  BY <1>14, IssuedClock DEF GrantLogin
<1>15. ASSUME NEW left \in Lives, NEW rotates \in BOOLEAN, GrantRefresh(left, rotates) PROVE ClockInv'
  BY <1>15, IssuedClock DEF GrantRefresh, TokensInv, NewestInv
<1>16. CASE Tick
  <2>1. ASSUME NEW t \in Token PROVE validity'[t] >= validity[t] - 1 /\ validity'[t] \in Int
    <3>1. validity'[t] = IF validity[t] < 0 THEN validity[t] ELSE validity[t] - 1 BY <1>16 DEF Tick
    <3>2. validity[t] \in Int BY Numbers
    <3> QED BY <3>1, <3>2
  <2>2. proc \in {"login", "wait", "refresh"} => clock' = clock - 1 BY <1>16 DEF Tick, Timed
  <2>3. UNCHANGED <<proc, memory, answer, file>> /\ proc # "write" BY <1>16 DEF Tick
  <2>4. validity'[file] >= validity[file] - 1 /\ validity'[file] \in Int
        /\ validity'[answer.token] >= validity[answer.token] - 1 /\ validity'[answer.token] \in Int
    BY <2>1, Numbers
  <2>5. Calling => clock' <= CallTimeout BY <2>2, Numbers
  <2>6. answer # NoAnswer => validity'[answer.token] >= answer.life - (CallTimeout - clock')
    BY <2>2, <2>4, Numbers DEF TokensInv, AnswerInv
  <2>7. proc = "wait" /\ life > RefreshBefore => validity'[file] >= RefreshBefore - CallTimeout + clock'
    BY <2>2, <2>4, Numbers
  <2>8. proc = "refresh" /\ life > RefreshBefore =>
          validity'[file] >= RefreshBefore - CallTimeout - (CallTimeout - clock')
    BY <2>2, <2>4, Numbers
  <2> QED BY <2>3, <2>5, <2>6, <2>7, <2>8
<1>17. CASE UNCHANGED vars BY <1>17
<1> QED
  BY <1>1, <1>2, <1>3, <1>4, <1>5, <1>6, <1>7, <1>8, <1>9, <1>10, <1>11, <1>12, <1>13, <1>14, <1>15, <1>16, <1>17
  DEF Next, ServeStep, Grant

(***************************************************************************)
(* The pace of the refreshes.                                              *)
(***************************************************************************)
PaceInv ==
  /\ answer # NoAnswer => validity[answer.token] <= answer.life
  /\ proc = "write" => validity[held] <= life
  /\ proc = "wait" => life > 0 /\ Paced(validity[file] - clock)
  /\ RefreshesPaced

(* A token that is issued has no more than its validity.                   *)
LEMMA IssuedPace ==
  ASSUME TypeOK, PaceInv, NEW left \in Lives, NEW rotates \in BOOLEAN, Calling,
         Issue(issued + 1, left),
         answer' = [token |-> issued + 1, refresh |-> IF rotates THEN issued + 1 ELSE 0, life |-> left],
         UNCHANGED proc
  PROVE  PaceInv'
<1>1. issued + 1 \in Token /\ issued + 1 # 0 BY NewToken, Zenon DEF Issue
<1>2. validity'[issued + 1] = left BY <1>1 DEF Issue, TypeOK
<1>3. left \in Nat BY SidecarAssumption
<1>4. answer'.token = issued + 1 /\ answer'.life = left OBVIOUS
<1>5. validity'[answer'.token] <= answer'.life BY <1>2, <1>3, <1>4
<1>6. answer' # NoAnswer BY <1>1, <1>4
<1> QED BY <1>5, <1>6 DEF PaceInv, RefreshesPaced

LEMMA PaceKept ==
  ASSUME TypeOK, TypeOK', TokensInv, PaceInv, [Next]_vars PROVE PaceInv'
<1> USE DEF PaceInv, RefreshesPaced
<1>1. CASE Start BY <1>1 DEF Start, TokensInv, AnswerInv
<1>2. CASE LoginWithoutRefresh BY <1>2 DEF LoginWithoutRefresh
<1>3. CASE LoggedIn BY <1>3 DEF LoggedIn
<1>4. CASE WriteFile
  <2>1. CASE Wait > 0
    <3>1. file' = held /\ clock' = Wait /\ proc' = "wait" /\ UNCHANGED <<memory, answer, validity>>
      BY <1>4, <2>1 DEF WriteFile
    <3>2. life \in Nat /\ RefreshBefore \in Nat /\ validity[held] \in Int /\ validity[held] <= life
      BY <1>4, Numbers DEF WriteFile
    <3>3. life % 2 = 0
      <4>1. CASE life = 0 BY <4>1
      <4>2. CASE life \in Lives BY <4>2, SidecarAssumption
      <4> QED BY <4>1, <4>2 DEF TypeOK
    <3>4. life > 0 /\ Paced(validity[held] - Wait) BY <2>1, <3>2, <3>3 DEF Wait, Paced
    <3>5. (life > 0 /\ Paced(validity[file] - clock))' BY <3>1, <3>4 DEF Paced
    <3> QED BY <1>4, <3>1, <3>5 DEF WriteFile, TokensInv, AnswerInv
  <2>2. CASE ~(Wait > 0) BY <1>4, <2>2 DEF WriteFile, TokensInv, AnswerInv
  <2> QED BY <2>1, <2>2
<1>5. CASE TimerFires
  <2>1. clock = 0 /\ proc = "wait" /\ UNCHANGED <<file, life, validity, answer>> /\ proc' = "refresh"
    BY <1>5 DEF TimerFires
  <2>2. validity[file] - clock = validity[file] BY <2>1, Numbers
  <2>3. life > 0 /\ Paced(validity[file]) BY <2>1, <2>2
  <2> QED BY <2>1, <2>3 DEF Paced
<1>6. CASE Refreshed BY <1>6 DEF Refreshed
<1>7. CASE CallFails BY <1>7 DEF CallFails
<1>8. CASE Clear BY <1>8 DEF Clear
<1>9. CASE Terminate BY <1>9 DEF Terminate
<1>10. CASE StartFails BY <1>10 DEF StartFails, Fault, Paced
<1>11. CASE WriteFails BY <1>11 DEF WriteFails, Fault
<1>12. CASE ClearFails BY <1>12 DEF ClearFails, Fault
<1>13. CASE Kill BY <1>13 DEF Kill, Fault
<1>14. ASSUME NEW left \in Lives, NEW rotates \in BOOLEAN, GrantLogin(left, rotates) PROVE PaceInv'
  BY <1>14, IssuedPace DEF GrantLogin
<1>15. ASSUME NEW left \in Lives, NEW rotates \in BOOLEAN, GrantRefresh(left, rotates) PROVE PaceInv'
  BY <1>15, IssuedPace DEF GrantRefresh
<1>16. CASE Tick
  <2>1. ASSUME NEW t \in Token
        PROVE  /\ validity'[t] \in Int /\ validity'[t] <= validity[t]
               /\ validity'[t] = validity[t] - 1 \/ validity'[t] < 0
    <3>1. validity'[t] = IF validity[t] < 0 THEN validity[t] ELSE validity[t] - 1 BY <1>16 DEF Tick
    <3>2. validity[t] \in Int BY Numbers
    <3> QED BY <3>1, <3>2
  <2>2. Timed => clock' = clock - 1 /\ clock' \in Nat BY <1>16 DEF Tick, TypeOK
  <2>3. UNCHANGED <<proc, memory, answer, file>> /\ proc # "write" BY <1>16 DEF Tick
  <2>4. answer # NoAnswer => validity'[answer.token] <= answer.life BY <2>1, Numbers
  <2>5. proc = "wait" => (life > 0 /\ Paced(validity[file] - clock))'
    <3> SUFFICES ASSUME proc = "wait" PROVE (life > 0 /\ Paced(validity[file] - clock))'
      OBVIOUS
    <3>1. clock' = clock - 1 /\ clock' \in Nat BY <2>2 DEF Timed
    <3>2. /\ validity[file] \in Int /\ validity'[file] \in Int /\ clock \in Nat
          /\ life \in Nat /\ RefreshBefore \in Nat
      BY <2>1, Numbers
    <3>3. validity'[file] = validity[file] - 1 \/ validity'[file] < 0 BY <2>1, Numbers
    <3> QED BY <2>3, <3>1, <3>2, <3>3 DEF Paced
  <2>6. RefreshesPaced'
    <3> SUFFICES ASSUME proc = "refresh", answer = NoAnswer PROVE (life > 0 /\ Paced(validity[file]))'
      BY <2>3
    <3>1. /\ validity[file] \in Int /\ validity'[file] \in Int /\ validity'[file] <= validity[file]
          /\ life \in Nat /\ RefreshBefore \in Nat
      BY <2>1, Numbers
    <3> QED BY <2>3, <3>1 DEF Paced
  <2> QED BY <2>3, <2>4, <2>5, <2>6
<1>17. CASE UNCHANGED vars BY <1>17 DEF Paced
<1> QED
  BY <1>1, <1>2, <1>3, <1>4, <1>5, <1>6, <1>7, <1>8, <1>9, <1>10, <1>11, <1>12, <1>13, <1>14, <1>15, <1>16, <1>17
  DEF Next, ServeStep, Grant

LEMMA SidecarInvariant == Spec => []SidecarInv
<1>1. SidecarInv /\ [Next]_vars => SidecarInv'
  <2> SUFFICES ASSUME SidecarInv, [Next]_vars PROVE SidecarInv' OBVIOUS
  <2>1. TypeOK' BY TypesKept DEF SidecarInv
  <2>2. TokensInv' BY <2>1, TokensKept DEF SidecarInv, TokensInv
  <2>3. ClockInv' BY <2>1, ClockKept DEF SidecarInv, TokensInv
  <2> QED BY <2>1, <2>2, <2>3 DEF SidecarInv, TokensInv
<1> QED BY InitHolds, <1>1, PTL DEF Spec

(***************************************************************************)
(* The theorems.                                                           *)
(***************************************************************************)

(* serve and the provider keep their types: in particular no wait is       *)
(* negative, however short the validity the server tells (main.go:151).    *)
THEOREM SidecarTypes == Spec => []TypeOK
  BY SidecarInvariant, PTL DEF SidecarInv

(* While the process waits, the file holds the newest token, whatever was  *)
(* lost or refused before (main.go:165-175).                               *)
THEOREM ServesNewest == Spec => []NewestServed
<1>1. SidecarInv => NewestServed BY DEF SidecarInv, NewestInv, NewestServed
<1> QED BY <1>1, SidecarInvariant, PTL

(* No process serves the token of another one (main.go:134-137).           *)
THEOREM NothingInherited == Spec => []NoInheritedToken
  BY SidecarInvariant, PTL DEF SidecarInv

(* serve presents the refresh token that the server takes                  *)
(* (main.go:165-175).                                                      *)
THEOREM RefreshIsTaken == Spec => []RefreshTaken
<1>1. SidecarInv => RefreshTaken BY DEF SidecarInv, RefreshInv, RefreshTaken
<1> QED BY <1>1, SidecarInvariant, PTL

(* A served token is valid for refreshBefore less two answers that take    *)
(* as long as they may (main.go:151-165).                                  *)
THEOREM ServesValid == Spec => []ValidWhileServed
<1>1. SidecarInv => ValidWhileServed
  <2> SUFFICES ASSUME SidecarInv, proc \in {"wait", "refresh"}, life > RefreshBefore
      PROVE validity[file] >= RefreshBefore - 2 * CallTimeout
    BY DEF ValidWhileServed, Margin
  <2>1. {RefreshBefore, CallTimeout, clock} \subseteq Nat /\ validity[file] \in Int
    BY Numbers DEF SidecarInv
  <2> QED BY <2>1 DEF SidecarInv, ClockInv
<1> QED BY <1>1, SidecarInvariant, PTL

(* serve never asks for the next token before half of the validity of the  *)
(* last one, or all but refreshBefore, is over: no server makes it go      *)
(* round without a wait (main.go:151-157).                                 *)
THEOREM PacesRefreshes == Spec => []RefreshesPaced
<1>1. Init => PaceInv
  BY DEF Init, PaceInv, RefreshesPaced
<1>2. SidecarInv /\ SidecarInv' /\ PaceInv /\ [Next]_vars => PaceInv'
  BY PaceKept DEF SidecarInv, TokensInv
<1>3. PaceInv => RefreshesPaced BY DEF PaceInv
<1> QED BY <1>1, <1>2, <1>3, SidecarInvariant, PTL DEF Spec
=============================================================================
