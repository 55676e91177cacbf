------------------------------- MODULE Webcal -------------------------------
(***************************************************************************)
(* The webcal service: requests for the calendar that run side by side,    *)
(* share one API client, and find out the version of the upstream          *)
(* application under its mutex; the end of the service while they run.     *)
(*                                                                         *)
(* The calendar is known by the number of its edits.  It has one of two    *)
(* contents, so that an edit can bring an earlier one back, and an ETag is *)
(* the content it is the digest of.                                        *)
(***************************************************************************)
EXTENDS Naturals

CONSTANTS
  Requests,     \* requests for /calendar.ics
  NoOne,        \* holder of a free mutex
  MaxEdits,     \* bound on the edits of the calendar
  MaxDeploys    \* bound on the new versions of the upstream application

ASSUME WebcalAssumption == NoOne \notin Requests /\ MaxEdits \in Nat /\ MaxDeploys \in Nat

VARIABLES
  at,         \* where each request is
  status,     \* the HTTP status of its answer, 0 before there is one
  asked,      \* history: the edits there had been when it came
  seen,       \* the edits behind the event list it was given
  copy,       \* the content whose ETag the client sent, NoCopy without one
  named,      \* the application version of the page it has read
  holder,     \* holder of versionMu
  version,    \* version, 0 when it is not known yet
  deployed,   \* the version upstream
  edits,      \* edits of the calendar upstream
  server,     \* the process: "running", "draining" or "exited"
  graceOver   \* the ten seconds that Shutdown is given are over

requestVars == <<at, status, asked, seen, copy, named>>
clientVars == <<holder, version>>
upstream == <<deployed, edits>>
process == <<server, graceOver>>
shared == <<clientVars, upstream, process>>
vars == <<requestVars, shared>>

NoCopy == 2
Content(n) == n % 2

(* The version may be given on the command line.                           *)
Init ==
  /\ at = [r \in Requests |-> "new"]
  /\ status = [r \in Requests |-> 0]
  /\ asked = [r \in Requests |-> 0]
  /\ seen = [r \in Requests |-> 0]
  /\ copy = [r \in Requests |-> NoCopy]
  /\ named = [r \in Requests |-> 0]
  /\ holder = NoOne
  /\ version \in {0, 1}
  /\ deployed = 1
  /\ edits = 0
  /\ server = "running"
  /\ graceOver = FALSE

Alive == server # "exited"

Goes(r, from, to) == Alive /\ at[r] = from /\ at' = [at EXCEPT ![r] = to]

Answers(r, code) == at' = [at EXCEPT ![r] = "done"] /\ status' = [status EXCEPT ![r] = code]

(***************************************************************************)
(* Handler.calendar and the calls of the API client that it makes.         *)
(***************************************************************************)
Arrive(r) ==
  /\ server = "running"
  /\ Goes(r, "new", "profile")
  /\ asked' = [asked EXCEPT ![r] = edits]
  /\ \E c \in {NoCopy} \union {Content(n) : n \in 0..edits} : copy' = [copy EXCEPT ![r] = c]
  /\ UNCHANGED <<status, seen, named, shared>>

(* The token file is missing or empty.                                     *)
TokenMissing(r) ==
  /\ server = "running"
  /\ at[r] = "new"
  /\ Answers(r, 503)
  /\ UNCHANGED <<asked, seen, copy, named, shared>>

OpenSession(r) ==
  /\ Goes(r, "profile", "lock")
  /\ UNCHANGED <<status, asked, seen, copy, named, shared>>

VersionCached(r) ==
  /\ holder = NoOne
  /\ version # 0
  /\ Goes(r, "lock", "events")
  /\ UNCHANGED <<status, asked, seen, copy, named, shared>>

(* Mutation: the mutex guards the field only, not the discovery. *)
DiscoverUnlocked(r) ==
  /\ version = 0
  /\ Goes(r, "lock", "page")
  /\ UNCHANGED <<status, asked, seen, copy, named, shared>>

Discover(r) ==
  /\ holder = NoOne
  /\ version = 0
  /\ holder' = r
  /\ Goes(r, "lock", "page")
  /\ UNCHANGED <<status, asked, seen, copy, named, version, upstream, process>>

FetchWebApp(r) ==
  /\ Goes(r, "page", "bundle")
  /\ named' = [named EXCEPT ![r] = deployed]
  /\ UNCHANGED <<status, asked, seen, copy, shared>>

FetchBundle(r) ==
  /\ Goes(r, "bundle", "events")
  /\ version' = named[r]
  /\ holder' = NoOne
  /\ UNCHANGED <<status, asked, seen, copy, named, upstream, process>>

(* Mutation: a list fetched for another request is good enough. *)
FetchEventsCached(r) ==
  /\ Goes(r, "events", "render")
  /\ \E s \in {edits} \union {seen[q] : q \in {o \in Requests : status[o] = 200}} :
        seen' = [seen EXCEPT ![r] = s]
  /\ UNCHANGED <<status, asked, copy, named, shared>>

FetchEvents(r) ==
  /\ Goes(r, "events", "render")
  /\ seen' = [seen EXCEPT ![r] = edits]
  /\ UNCHANGED <<status, asked, copy, named, shared>>

(* Render is a function of the event list, and so is the ETag.             *)
Answer(r) ==
  /\ Alive
  /\ at[r] = "render"
  /\ Answers(r, IF copy[r] = Content(seen[r]) THEN 304 ELSE 200)
  /\ UNCHANGED <<asked, seen, copy, named, shared>>

(* Mutation: a failed discovery keeps the mutex. *)
FailsLocked(r) ==
  /\ Alive
  /\ at[r] \in {"profile", "page", "bundle", "events", "render"}
  /\ Answers(r, 502)
  /\ UNCHANGED <<asked, seen, copy, named, shared>>

(* Upstream refuses, times out or answers nonsense, or the client is gone, *)
(* or an event cannot be rendered.  Nothing ends the wait for the mutex.   *)
Fails(r) ==
  /\ Alive
  /\ at[r] \in {"profile", "page", "bundle", "events", "render"}
  /\ Answers(r, 502)
  /\ holder' = IF holder = r THEN NoOne ELSE holder
  /\ UNCHANGED <<asked, seen, copy, named, version, upstream, process>>

RequestStep(r) ==
  \/ OpenSession(r) \/ VersionCached(r) \/ Discover(r) \/ FetchWebApp(r) \/ FetchBundle(r)
  \/ FetchEvents(r) \/ Answer(r) \/ Fails(r)

(***************************************************************************)
(* The end of the service.  Shutdown closes the listener, with which       *)
(* ListenAndServe returns, run returns and the process exits; the requests *)
(* that Shutdown waits for, in its own goroutine, are cut off.             *)
(***************************************************************************)
Shutdown ==
  /\ server = "running"
  /\ server' = "draining"
  /\ UNCHANGED <<requestVars, clientVars, upstream, graceOver>>

GraceEnds ==
  /\ server = "draining"
  /\ ~graceOver
  /\ graceOver' = TRUE
  /\ UNCHANGED <<requestVars, clientVars, upstream, server>>

Exit ==
  /\ server = "draining"
  /\ server' = "exited"
  /\ at' = [r \in Requests |-> IF at[r] \in {"new", "done"} THEN at[r] ELSE "cut"]
  /\ UNCHANGED <<status, asked, seen, copy, named, clientVars, upstream, graceOver>>

(***************************************************************************)
(* Upstream.                                                               *)
(***************************************************************************)
Edit ==
  /\ edits < MaxEdits
  /\ edits' = edits + 1
  /\ UNCHANGED <<requestVars, clientVars, deployed, process>>

Deploy ==
  /\ deployed <= MaxDeploys
  /\ deployed' = deployed + 1
  /\ UNCHANGED <<requestVars, clientVars, edits, process>>

Next ==
  \/ \E r \in Requests : Arrive(r) \/ TokenMissing(r) \/ RequestStep(r)
  \/ Shutdown \/ GraceEnds \/ Exit \/ Edit \/ Deploy

Spec == Init /\ [][Next]_vars

(* Every upstream call ends within the client's timeout, and a Go mutex    *)
(* does not pass over a goroutine forever.                                 *)
FairSpec ==
  /\ Spec
  /\ \A r \in Requests :
       WF_vars(RequestStep(r)) /\ SF_vars(VersionCached(r) \/ Discover(r))

(***************************************************************************)
(* Properties.                                                             *)
(***************************************************************************)
TypeOK ==
  /\ at \in [Requests -> {"new", "profile", "lock", "page", "bundle", "events", "render", "done", "cut"}]
  /\ \A r \in Requests : status[r] \in IF at[r] = "done" THEN {200, 304, 502, 503} ELSE {0}
  /\ asked \in [Requests -> 0..edits] /\ seen \in [Requests -> 0..edits]
  /\ copy \in [Requests -> {0, 1, NoCopy}]
  /\ named \in [Requests -> 0..deployed]
  /\ holder \in Requests \union {NoOne}
  /\ version \in 0..deployed
  /\ deployed \in 1..MaxDeploys + 1 /\ edits \in 0..MaxEdits
  /\ server \in {"running", "draining", "exited"} /\ graceOver \in BOOLEAN

(* The version is looked for by one request at a time, and by none once it *)
(* is known (client.go:300-305); nothing is asked upstream without it.     *)
Discovering(r) == at[r] \in {"page", "bundle"}

DiscoveredOnce ==
  \A r \in Requests :
    /\ Discovering(r) => holder = r /\ version = 0
    /\ at[r] \in {"events", "render"} => version # 0

(* "webcal has no calendar cache and fetches the current event list for    *)
(* every request" (README.md:25): the client ends up with a content the    *)
(* calendar had after the request came, also when the answer is 304.       *)
LiveAnswer ==
  \A r \in Requests :
    /\ status[r] \in {200, 304} => seen[r] >= asked[r]
    /\ status[r] = 304 => copy[r] = Content(seen[r])

(* Every request is answered, also when a discovery fails while others     *)
(* wait for it, unless the service ends.                                   *)
EveryRequestEnds ==
  \A r \in Requests : at[r] = "profile" ~> at[r] \in {"done", "cut"}

(* "context.WithTimeout(context.Background(), 10*time.Second)" for         *)
(* server.Shutdown (cmd/webcal/main.go:72-74): a request that is running   *)
(* when the service is told to end has ten seconds left.                   *)
RequestsDrained == (\E r \in Requests : at[r] = "cut") => graceOver
=============================================================================
