---------------------------- MODULE TokenSidecar ----------------------------
(***************************************************************************)
(* stayinformed-token serve: the process that logs in, keeps the access    *)
(* token in a file for webcal and message2mail, and exchanges it before it *)
(* expires.  It gives up at the first error and whoever runs it starts it  *)
(* again; the file survives it when it is killed.                          *)
(*                                                                         *)
(* A token is its number, in the order of issue; a refresh token has the   *)
(* number of the access token it came with.  Steps of the process take no  *)
(* time, but its calls and its waits do.  writeTokenFile is one step here: *)
(* it replaces the file as Save does in StateFile.                         *)
(***************************************************************************)
EXTENDS Integers

CONSTANTS
  Lives,           \* values of expires_in
  RefreshBefore,   \* -refresh-before
  CallTimeout,     \* the HTTP client's time for one request
  MaxTokens,       \* bound on the tokens that the server issues
  MaxFaults        \* bound on kills and on failures of the file system

ASSUME SidecarAssumption ==
  /\ Lives \subseteq Nat /\ \A life \in Lives : life % 2 = 0
  /\ {RefreshBefore, CallTimeout, MaxTokens, MaxFaults} \subseteq Nat

VARIABLES
  proc,      \* where serve is
  held,      \* tokens: number of the access token
  refresh,   \* tokens: number of the refresh token
  life,      \* tokens: the validity the server told
  clock,     \* time left to the timer, or to the timeout of the call
  answer,    \* the server's answer on its way to the process
  file,      \* the token in the output file, 0 when there is none
  issued,    \* number of tokens the server has issued
  validity,  \* how long the server will take each token; -1 when it is over
  accepted,  \* the refresh token that the server takes
  own,       \* history: tokens issued to the process that runs now
  faults

memory == <<held, refresh, life>>
server == <<issued, validity, accepted, own>>
vars == <<proc, memory, clock, answer, file, server, faults>>

Token == 0..MaxTokens
NoAnswer == [token |-> 0, refresh |-> 0, life |-> 0]

Init ==
  /\ proc = "down"
  /\ held = 0 /\ refresh = 0 /\ life = 0
  /\ clock = 0
  /\ answer = NoAnswer
  /\ file = 0
  /\ issued = 0
  /\ validity = [t \in Token |-> -1]
  /\ accepted = 0
  /\ own = {}
  /\ faults = 0

(***************************************************************************)
(* serve.                                                                  *)
(***************************************************************************)

(* Mutation: the file of an earlier process is left for the time being. *)
StartKeeping ==
  /\ proc = "down"
  /\ own' = {}
  /\ proc' = "login"
  /\ clock' = CallTimeout
  /\ held' = 0 /\ refresh' = 0 /\ life' = 0
  /\ UNCHANGED <<answer, file, issued, validity, accepted, faults>>

(* A new process has nothing of the one before it but the file.            *)
Start ==
  /\ proc = "down"
  /\ own' = {}
  /\ file' = 0
  /\ proc' = "login"
  /\ clock' = CallTimeout
  /\ held' = 0 /\ refresh' = 0 /\ life' = 0
  /\ UNCHANGED <<answer, issued, validity, accepted, faults>>

LoginWithoutRefresh ==
  /\ proc = "login"
  /\ answer # NoAnswer
  /\ answer.refresh = 0
  /\ answer' = NoAnswer
  /\ proc' = "stopping"
  /\ UNCHANGED <<memory, clock, file, server, faults>>

LoggedIn ==
  /\ proc = "login"
  /\ answer.refresh # 0
  /\ held' = answer.token /\ refresh' = answer.refresh /\ life' = answer.life
  /\ answer' = NoAnswer
  /\ proc' = "write"
  /\ UNCHANGED <<clock, file, server, faults>>

(* Mutation: the token is used up to its end. *)
WaitLong == life

(* Half of the validity when refreshBefore is too long for it.             *)
Wait == IF life > RefreshBefore THEN life - RefreshBefore ELSE life \div 2

(* Mutation: a token without validity is not refused. *)
WriteUnchecked ==
  /\ proc = "write"
  /\ file' = held
  /\ proc' = "wait"
  /\ clock' = Wait
  /\ UNCHANGED <<memory, answer, server, faults>>

(* A token without validity has been written by the time it is refused.    *)
WriteFile ==
  /\ proc = "write"
  /\ file' = held
  /\ proc' = IF Wait > 0 THEN "wait" ELSE "stopping"
  /\ clock' = Wait
  /\ UNCHANGED <<memory, answer, server, faults>>

TimerFires ==
  /\ proc = "wait"
  /\ clock = 0
  /\ proc' = "refresh"
  /\ clock' = CallTimeout
  /\ UNCHANGED <<memory, answer, file, server, faults>>

(* Mutation: the first refresh token is presented again and again. *)
RefreshedOnce ==
  /\ proc = "refresh"
  /\ answer # NoAnswer
  /\ held' = answer.token /\ life' = answer.life
  /\ answer' = NoAnswer
  /\ proc' = "write"
  /\ UNCHANGED <<refresh, clock, file, server, faults>>

Refreshed ==
  /\ proc = "refresh"
  /\ answer # NoAnswer
  /\ held' = answer.token /\ life' = answer.life
  /\ refresh' = IF answer.refresh = 0 THEN refresh ELSE answer.refresh
  /\ answer' = NoAnswer
  /\ proc' = "write"
  /\ UNCHANGED <<clock, file, server, faults>>

(* Mutation: a failed refresh is tried again. *)
CallRetried ==
  /\ proc \in {"login", "refresh"}
  /\ answer' = NoAnswer
  /\ proc' = IF proc = "login" THEN "stopping" ELSE "wait"
  /\ clock' = IF proc = "login" THEN clock ELSE 0
  /\ UNCHANGED <<memory, file, server, faults>>

(* The server refuses, the answer is lost or bad, the time is over, or a   *)
(* signal cancels the call.                                                *)
CallFails ==
  /\ proc \in {"login", "refresh"}
  /\ answer' = NoAnswer
  /\ proc' = "stopping"
  /\ UNCHANGED <<memory, clock, file, server, faults>>

Terminate ==
  /\ proc = "wait"
  /\ proc' = "stopping"
  /\ UNCHANGED <<memory, clock, answer, file, server, faults>>

(* The deferred removal of the file.                                       *)
Clear ==
  /\ proc = "stopping"
  /\ file' = 0
  /\ proc' = "down"
  /\ UNCHANGED <<memory, clock, answer, server, faults>>

(***************************************************************************)
(* Failures: the file system refuses, the process is killed.               *)
(***************************************************************************)
Fault == faults < MaxFaults /\ faults' = faults + 1

StartFails ==
  /\ Fault
  /\ proc = "down"
  /\ own' = {}
  /\ UNCHANGED <<proc, memory, clock, answer, file, issued, validity, accepted>>

WriteFails ==
  /\ Fault
  /\ proc = "write"
  /\ proc' = "stopping"
  /\ UNCHANGED <<memory, clock, answer, file, server>>

ClearFails ==
  /\ Fault
  /\ proc = "stopping"
  /\ proc' = "down"
  /\ UNCHANGED <<memory, clock, answer, file, server>>

Kill ==
  /\ Fault
  /\ proc # "down"
  /\ proc' = "down"
  /\ answer' = NoAnswer
  /\ UNCHANGED <<memory, clock, file, server>>

(***************************************************************************)
(* The identity provider and time.                                         *)
(***************************************************************************)
Issue(token, left) ==
  /\ issued < MaxTokens
  /\ token = issued + 1
  /\ issued' = token
  /\ validity' = [validity EXCEPT ![token] = left]
  /\ own' = own \union {token}

(* A login starts a session, with or without a refresh token.              *)
GrantLogin(left, rotates) ==
  /\ proc = "login" /\ answer = NoAnswer
  /\ Issue(issued + 1, left)
  /\ accepted' = issued + 1
  /\ answer' = [token |-> issued + 1, refresh |-> IF rotates THEN issued + 1 ELSE 0, life |-> left]
  /\ UNCHANGED <<proc, memory, clock, file, faults>>

(* A refresh token may be replaced by a new one, which alone is taken then. *)
GrantRefresh(left, rotates) ==
  /\ proc = "refresh" /\ answer = NoAnswer
  /\ refresh = accepted
  /\ Issue(issued + 1, left)
  /\ accepted' = IF rotates THEN issued + 1 ELSE accepted
  /\ answer' = [token |-> issued + 1, refresh |-> IF rotates THEN issued + 1 ELSE 0, life |-> left]
  /\ UNCHANGED <<proc, memory, clock, file, faults>>

Grant == \E left \in Lives, rotates \in BOOLEAN : GrantLogin(left, rotates) \/ GrantRefresh(left, rotates)

Timed == proc \in {"login", "wait", "refresh"}

(* Timers fire, and calls time out, when they are due.                     *)
Tick ==
  /\ Timed => clock > 0
  /\ proc \notin {"write", "stopping"}
  /\ clock' = IF Timed THEN clock - 1 ELSE clock
  /\ validity' = [t \in Token |-> IF validity[t] < 0 THEN validity[t] ELSE validity[t] - 1]
  /\ UNCHANGED <<proc, memory, answer, file, issued, accepted, own, faults>>

ServeStep ==
  \/ Start \/ LoginWithoutRefresh \/ LoggedIn \/ WriteFile \/ TimerFires \/ Refreshed \/ CallFails \/ Clear

Next ==
  \/ ServeStep \/ Terminate \/ StartFails \/ WriteFails \/ ClearFails \/ Kill
  \/ Grant \/ Tick

Spec == Init /\ [][Next]_vars

(* The process runs, time passes, and whoever runs it starts it again.     *)
FairSpec == Spec /\ WF_vars(ServeStep) /\ WF_vars(Tick)

(***************************************************************************)
(* Properties.                                                             *)
(***************************************************************************)
MaxLife == CHOOSE m \in Lives : \A l \in Lives : l <= m

TypeOK ==
  /\ proc \in {"down", "login", "write", "wait", "refresh", "stopping"}
  /\ {held, refresh, file, issued, accepted} \subseteq Token
  /\ life \in Lives \union {0}
  /\ clock \in Nat
  /\ answer \in [token : Token, refresh : Token, life : Lives \union {0}]
  /\ validity \in [Token -> {-1} \union Nat]
  /\ own \subseteq Token
  /\ faults \in 0..MaxFaults

(* While the process waits, the file holds the newest token there is.      *)
NewestServed == proc = "wait" => file = issued

(* A token that an earlier process left behind is gone before the first    *)
(* request of the next one (main.go:134-137).                              *)
NoInheritedToken == proc \in {"login", "write", "wait", "refresh"} /\ file # 0 => file \in own

(* The refresh token presented is the one that the server takes, although  *)
(* answers are lost and refresh tokens are replaced (main.go:165-175).     *)
RefreshTaken == proc = "refresh" /\ answer = NoAnswer => refresh = accepted

(* "refreshes explicitly before expiry" (README.md:41): what a reader      *)
(* finds is valid for the time that refreshBefore leaves after a slow      *)
(* answer to this request and to the next one, when the validity exceeds   *)
(* refreshBefore.  With the defaults, a minute and 30 seconds for a        *)
(* request, nothing is left of it.                                         *)
Margin == RefreshBefore - 2 * CallTimeout

ValidWhileServed ==
  proc \in {"wait", "refresh"} /\ life > RefreshBefore => validity[file] >= Margin

(* However short the validity that the server tells, serve asks for the    *)
(* next token only when half of it or all but refreshBefore is over, and   *)
(* never goes round without a wait (main.go:151-157).                      *)
Paced(left) == 2 * left <= life \/ (life > RefreshBefore /\ left <= RefreshBefore)

RefreshesPaced == proc = "refresh" /\ answer = NoAnswer => life > 0 /\ Paced(validity[file])

(* An expired token does not stay in the file, whatever happened to the    *)
(* process that wrote it.                                                  *)
Expired == file # 0 /\ validity[file] < 0
ExpiredTokenGoes == Expired ~> ~Expired
=============================================================================
