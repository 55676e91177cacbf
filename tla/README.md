# Verification of stayinformed-go

TLA+ models of stayinformed-go, the TLC runs that check them on small instances,
and theorems about them that the TLA+ proof system (TLAPS) has checked for every
value of the constants. Paths and line numbers are relative to `src/`.

## 1. The system

stayinformed-go consists of three programs around one API client.

* `message2mail` forwards the news of the upstream application "Stay Informed" to a
  mailbox: a service that synchronizes, a ledger of deliveries in a file, an SMTP
  client, an IMAP client that looks messages up, and a main loop that decides when
  to synchronize.
* `webcal` serves the upstream calendar as an iCalendar file over HTTP.
* `stayinformed-token` logs in, keeps an access token in a file that the other two
  read, and refreshes it.

### Components, their state, their operations, how they meet

| component | state | operations | meets |
|---|---|---|---|
| message2mail service (`internal/message2mail/service.go`) | none between runs; in a run the listing and the loaded ledger | `Sync`: `listAll`, seed, `reconcilePending`, `deliver` | API client, state store, mailer, mailbox index, each by a call that may fail |
| delivery state store (`state.go`) | the ledger file | `Load`, `Save` (temporary file, encode, sync, close, rename, directory sync) | processes that share the path; the lock of the command line |
| message rendering and identity (`message.go`) | none | `BuildMessage`, `ListFingerprint`, `Revision` | the ledger's key is a digest of the *listed* item, the mail's mark a digest of its *detail* |
| SMTP mailer (`mail_transport.go`) | none | `Send` | may report an error after the server has accepted the mail |
| IMAP mailbox index (`mail_transport.go`) | none | `Contains`: SELECT, SEARCH, then the newest headers | mail shows late, arrives while it looks, and is known to SEARCH later still; somebody may remove it |
| main loop and IMAP watcher (`cmd/message2mail/main.go`, `mail_transport.go`) | two goroutines, two channels of one value, a ticker, a context | `run`, `watchWithReconnect`, `Watch` | trigger channel from the watcher to the main goroutine |
| message2mail command line (`cmd/message2mail/main.go`) | `<state path>.lock` | flags, `acquireLock`, `releaseLock` | other processes |
| API client (`stayinformed/`) | the discovered application version, under a mutex | `OpenSession`, `Calendar`, `NewsPage`, `NewsItem`, `Attachment`, `apiVersion` | shared by all requests of webcal |
| login client (`auth/`) | in a call its own cookies, redirect, code; none between calls | `Login`, `Refresh`, each up to three times `Do` with its redirects | the identity provider, which knows a browser by its cookies |
| stayinformed-token (`cmd/stayinformed-token`) | the tokens it holds, its timer, the token file | `serve`; one-shot login and refresh | webcal and message2mail read the file |
| iCalendar rendering (`ical/`) | none | `Render`, `deduplicate`, `escapeText`, `writeLine` | webcal's ETag is a digest of its result |
| webcal handler (`internal/webcal`) | none | `/calendar.ics`, `/healthz`, `/readyz` | client, token file, renderer |
| webcal command (`cmd/webcal`) | the HTTP server | start, `Shutdown` | running requests |
| Helm chart, image, CI | | | deployment |

### What is hard here

* **No transaction spans SMTP, the mailbox and the ledger.** A run may stop between
  any two calls; a mail may be accepted without an answer, arrive late, or never.
* **Two digests identify a message.** The ledger is keyed by what the listing says,
  the mailbox is searched for what the detail says, and upstream may change an item
  between the two.
* **Listing by offset.** Items are published, edited and deleted while it is read.
* **Channels that drop values.** Both sends of a wakeup drop when the channel is
  full, and the main loop empties its channel.
* **A file that must survive** kills, power losses and a second process.
* **A token that must be neither stale nor expired** when others read it, with
  answers that are slow or lost and refresh tokens that are replaced.
* **A mutex held across two upstream requests**, with other requests behind it.
* **A map in the middle of a function** whose result is hashed for an ETag, and lists in
  no fixed order in a digest that must be the same the next time.
* **A login shared by callers**: cookies, redirects and codes of one must not become those
  of another, and credentials may be tried once only, as an account locks after a few.

Each place is listed with its line and the properties that watch it under
`hazards` in `PROJECT.json`.

### What makes each component correct

* service: no message is lost without an entry, nothing is sent more often than the
  limits say, nothing delivered is sent again, an item overtakes an older one only while
  that one waits for its retry, the archive is not forwarded, every item is settled in the end;
* state store: a reader finds a whole version, no update is lost between processes,
  a version survives once the directory is synced;
* mail transport: a look at the mailbox is right about it whatever arrives meanwhile;
  every copy after the first, and every try beyond the limit, has a loss to explain it;
* message identity: a mail is found again for exactly the items that say what it says;
* login: the tokens are the caller's own, credentials are judged once, nothing but the
  provider is asked, and every call ends;
* main loop: no wakeup is lost, every change is followed by a run, a signal ends it;
* token sidecar: the file holds the newest token, never one of an earlier process,
  with time left on it; the refresh token presented is the one the server takes;
* webcal: one discovery at a time, every answer live, every request answered, and
  the requests that run when it is told to end are given their ten seconds;
* rendering: one list of events, one calendar; no line longer than 75 octets; a reader
  gets back the text that went in.

## 2. Modules

| module | models | relation to the others |
|---|---|---|
| `Message2Mail` | `Service.Sync` and what surrounds it | implements `DeliveryLedger` |
| `DeliveryLedger` | what the ledger promises, without the steps | abstract specification |
| `DurableLedger` | the same promise under power losses | extends `DeliveryLedger`, abstract specification |
| `StateFile` | `Load`, `Save`, the lock, kills, power losses | implements `StateStore` |
| `StateStore` | the store as the service sees it | abstract specification |
| `MailTransport` | `SMTPMailer.Send` and `IMAPMailbox.Contains`, step by step, and the mail system | |
| `DurableDelivery` | the delivery of one item by several processes | composes `StateFile` and `MailTransport`, implements `StateFile` and `DurableLedger` |
| `SyncLoop` | the main goroutine and the watcher goroutine | `BeginSync`..`EndSync` is one run of `Message2Mail` |
| `TokenSidecar` | `serve`, its file, the identity provider, time | its call of the provider is one call of `LoginFlow` |
| `LoginFlow` | `Login` and `Refresh`, their requests and redirects, the provider | |
| `Webcal` | requests, the shared client, the end of the service | |
| `ICalendar` | `Render`: which events, in which order | the function that `Webcal!Answer` applies |
| `LineFolding` | `writeLine` | |
| `CalendarText` | `escapeText`, `escapeTextList`, and a reader | extends `LineFolding` |
| `CalendarFile` | the file: its events and a text in it | composes `ICalendar` and `CalendarText` |
| `MessageIdentity` | `groupNames`, `Revision`: what a mail is found again by | the `rev` of `Message2Mail` |
| `Rendering` | the pure functions, for one run of TLC | composes `CalendarFile` and `MessageIdentity` |
| `...Proofs` | theorems about the module before `Proofs` | `DurableDeliveryProofs` uses `StateFileProofs` |
| `MC...` | what TLC needs for small instances | extend the module after `MC` |

### Message2Mail

State. `disk` is the state file, `ledger` the state that the run has loaded, `pc`
where `Sync` is. `items` is the listing (a fingerprint with its page, so that an item
listed twice is there twice), `left` what the delivery loop has not come to, `todo`
what `reconcilePending` has not come to, `cur` and `rev` the item being delivered.
`stage` and `item` are upstream, `transit` and `inbox` the mail system, `age` the
clock as seen from `LastAttempt`. A mail on its way knows the entry it was sent for (`Mail`), as an
item edited between listing and detail has one revision under two entries. The others are history:
`waiting` has the entries that the run has found, or put, in their wait; `copies` counts
what SMTP has accepted for an entry and a revision, and begins anew (`Recount`) when
a copy is late, lost or removed or an attempt for the entry went unrecorded: these are the reasons the code has for
another copy.

Actions. One per call to the outside and per decision of the loop: `StartSync`,
`ListPage`, `Seed`/`LoadState`, `Reconcile`, `SkipItem`, `GiveUp`, `FetchItem`,
`CheckMailbox`, `TooLarge`, `Submit`, `RecordError`/`RecordSent`, `ConfirmSent`,
`FinishSync`. An action that saves does it in the same step, as `Save` either replaces the file
or fails (that is `StateFile`; `DurableDelivery` takes both apart); a failed save is `Interrupt`, which stands for every
call that fails and for a crash, at any point. Between the steps upstream may
`Publish`, `Edit` and `Delete`, the mail system may `ArriveMail` and `LoseMail`, somebody may
remove a mail (`RemoveMail`), and time passes (`Tick`).

Data. A version of an item is three fields: what both digests read (`core`), what
only `ListFingerprint` reads (`flag`, for `HasAttachments`), and what only `Revision`
reads (`detail`). Items are numbered by date and identifier, and an edit does not
change the date. `Paging` is how upstream lets the client see that there is a next
page (`HasMore`: a count, a flag, or a full page).

### StateFile

A version of the ledger is a number. `file` is what a reader finds, `onDisk` what may be
found after a power loss: the rename is seen at once but is on the disk for certain
only after the directory is synced, which `SyncDirectory` may fail to do without a word, and a file renamed
without `fsync` may be found torn. `acked` is the last version whose `Save` returned nil, `synced` the last one that is
on the disk for certain. `Save` writes the successor of the version the process holds, so an update that
is lost between two processes shows as a number written twice.

### MailTransport and DurableDelivery

`Message2Mail` has several items, whose listing changes, and takes a saved version and a
look at the mailbox for single steps. `DurableDelivery` is the complement: one
item that does not change, and everything else step by step. Several processes are
started on one state path and killed, `Save` is the steps of `StateFile`, `Send` and
`Contains` are those of `MailTransport`, and the machine loses power.

`call` is where a process is in its call, `count` the number of messages that SELECT told
it, `spool` the accepted copies under way, `mailbox` the messages in their order, each
somebody else's ("other"), ours ("marked"), or ours and known to SEARCH ("indexed").
Of a look that finds nothing, `due` remembers what SELECT could have shown: nothing of
ours ("absent"), ours too far down and not indexed ("buried"), or ours ("due").

`contents` is the entry in each version of the file, `recent` the versions whose last
attempt is younger than the grace, `entry` what a process has loaded, `draft` what
it is saving and `after` where it goes on then. `lost`, `slow` and `overlooked` count the
three reasons the code has for sending again.

### SyncLoop

`main` and `watcher` are the program counters of the two goroutines, `triggers` and
`updates` the two channels of capacity one, `ticked` the channel of the ticker.
`unsynced` remembers that the mailbox has changed since the last run began, `missed`
that the watcher could not know. A run is two steps, so that changes fall into it.

### TokenSidecar

A token is the number of its issue. `clock` counts down to the timer or to the
timeout of a call; steps of the process take no time. The provider issues a token
when it `Grant`s and the answer is in flight (`answer`) until the process takes it,
time passes, or the call fails. `validity` is counted from the grant, `life` is what
the process was told, and the difference is the time the answer took. The provider
takes one refresh token, `accepted`: a replaced one is worth nothing.

### LoginFlow

`at` is which of the three calls of `Do` a `Login` is in, `request` its request under
way, `reply` the answer to it. The provider keeps a session for each cookie jar
(`loggedIn`, `pending`): `newSession` makes a jar for each call, and `Jar` says so.
What the provider answers is open within the protocol: the form again, a page of its own,
redirects to itself, to the application, with a code or without, or to elsewhere.
Checks in a row (status, origin of the form's action, state) are one action with the
call they follow. `GiveUp` is the timeout, the context, or a transport error.

### Webcal

Requests run side by side; `at` is where each is. `holder` and `version` are the
mutex and the field it guards. A calendar is the number of its edits, with one of two
contents, so that it can change and change back; an ETag is the content.
`Exit` is always possible once `ListenAndServe` has returned.

### ICalendar, LineFolding, CalendarText, MessageIdentity

`Iterate` takes any key of the map next, as Go does. `StableSort` is
`sort.SliceStable` by its definition. `sound` says that `writeEvent` succeeds. In
`LineFolding` a character has a number of octets, `Octets`.

`CalendarText` escapes and folds sequences of characters, of which only those
that the code treats apart are told apart; the way back, `ReadBack`, is that of a reader
by RFC 5545. In `MessageIdentity` a digest is the sequence of what goes into it,
upstream lists the same groups and attachments in any order (`Relist`) or edits them,
and `Revisions` is a set because `sort.Slice` is not stable. `Rank` is the order of strings
on identifiers, and `At` keeps what a loop of `groupNames` appends.

## 3. Runs

| run | instance | shows |
|---|---|---|
| `delivery` | two items, one published later, an edit or a deletion, two attempts, one fault: a run interrupted or a mail lost or removed; one item per page | `TypeOK`, `AttemptsBounded`, `DeliveredWasSeen`, `OldestFirst`, `AtMostOnce`, `GraceKept`, `DeliveredNeverResent`, `ArchiveNotForwarded`; `LedgerSpec`: the service implements the ledger |
| `settles` | two items, an edit that may make one of them too large, deletions, two attempts; runs go on | `EventuallySettled` |
| `durable` | two processes, four versions of the file, two messages in the mailbox of which one is scanned, two attempts, three calls of `Send`; any number of kills, power losses and directories that are not synced | `AlwaysDecodes`, `HeldIsCurrent`, `StoreSpec` of the file; `LookIsRight` of `Contains`; `CopiesAccounted`, `TriesBounded`, `DeliveredInMailbox`, `GivenUpAfterLook` of the delivery; `DurableLedgerSpec`: the service over its file implements the ledger with power losses |
| `loop` | three changes, two lost connections, a signal | `WakeupKept`, `ChangeIsSynced`, `EveryChangeSynced`, `ShutsDown` |
| `login` | two calls for two users on one client, three requests in a `Do`, the application on the provider's origin | `OwnTokens`, `OneAttempt`, `KeepsToProvider`, `LoginEnds` |
| `token` | four tokens of validity 0, 2 or 6, timeout 2, refresh 4 before the end, one kill or failure | `NewestServed`, `NoInheritedToken`, `RefreshTaken`, `ValidWhileServed`, `RefreshesPaced`, `ExpiredTokenGoes` |
| `webcal` | two requests, two edits, one deployment | `DiscoveredOnce`, `LiveAnswer`, `EveryRequestEnds` |
| `rendering` | every list of up to three events over three identifiers (one of them empty), two times of modification, two starts, sound or not; every text of up to five characters of one to four octets, or four with all that is escaped, and lists of two texts; an item with up to three groups of five names and two attachments, edited and listed anew | `RenderedOnce`, `FitsLimit`, `TextSurvives`, `FoundAgain` |
| `attempts_per_revision` | one item, an edit | finding: `AttemptsPerRevision` is violated |
| `dir_sync` | two processes, two versions of the file | finding: `SavedIsDurable` is violated |
| `loop_startup` | one change | finding: `FallbackSync` is violated |
| `webcal_drain` | two requests | finding: `RequestsDrained` is violated |

The type invariants of `StateFile`, `SyncLoop`, `LoginFlow`, `TokenSidecar` and `Webcal` are
not in the runs because they are proved (section 5).

`durable` takes the two processes as alike (`SYMMETRY Alike`): no property of it names one.

Deadlock is checked in the runs of `Message2Mail` and `TokenSidecar`, which never stop, and
in `durable`, where a process can always be killed or started. `SyncLoop` stops when the program has ended (or, in the finding,
hangs), `Webcal` when the process has exited, `LoginFlow` when every call has ended,
the pure functions when they return.

### Bounds and why they are enough

* *Items.* Order, overtaking and a shift of the listing need two.
* *Versions.* Two values of a field are enough to tell two digests apart. `delivery` and
  `attempts_per_revision` vary what both see, so that an edit between listing and detail puts one
  revision under two fingerprints; `settles` varies what only the revision sees (one fingerprint, two revisions).
* *Attempts and grace.* Two attempts have a retry between them, and the second is the last.
  A grace of one tick is over or not.
* *Pages.* `delivery` has one item per page and a full page announces another, so a
  publication while the listing is read moves an item to a page that is still to come. Three pages are the
  limit and are met when both items are there. `settles` has all items on one page.
* *Edits and interruptions* (`MaxEdits`, `MaxFaults`) are counted over the behaviour, not per run of
  the service; two runs in a row with an edit in one and a kill in the other are there.
* *Durable delivery.* Two processes are the least that can lose an update; a third would only wait
  for the lock as well. Kills and power losses are not bounded. A scan of one message in
  a mailbox of two has a message below it. Three tries exceed the two attempts.
  Four versions are the initialization and three more, so that a try, its confirmation and
  another try are there; what needs more of everything is left to the theorems.
* *Loop.* A third change finds both channels full. The debounce is on; without it the
  main goroutine goes from the trigger to the draining with one step less, and the
  theorem `WakeupIsKept` covers both.
* *Login.* Two calls are the least that can be mistaken for each other; the limit of
  three requests ends a circle after one round and lets each legal flow through.
* *Token.* A validity of 0 is refused, one of 2 is below `-refresh-before` and is halved,
  one of 6 is above. Four tokens allow three refreshes or a restart after two.
* *Webcal.* One request that discovers and one that waits.
* *Text.* Limit 6 folds a line of five characters of up to four octets, or of four that
  all double, up to four times, at each offset and between the two halves of an escape; `LinesFit` is for every limit from 5,
  `TextIsRead` for every list of texts.
* *Identity.* The names have a blank one, one with and without spaces around it, and two
  that differ in case; two attachments can share an identifier.

### Fairness

* `Message2Mail!FairSpec` has weak fairness of `SyncStep` and of `Tick`: the ticker
  starts runs again and again (`SyncLoop`), the calls of a run have timeouts
  (`syncOnce` gives it two minutes), time passes. Nothing is assumed of the mail system
  or of upstream. Which outcome a call of SMTP has is left open in each attempt.
* `SyncLoop!WakeSpec`: the goroutines run, and `select`, which picks at random among
  ready cases, does not neglect the trigger or the end of the context for ever
  (strong fairness of `TakeTrigger` and `Stop`). Disconnections, ticks, changes and
  signals are not fair. `ChangeIsSynced` is about the watcher alone; in
  `EveryChangeSynced` the fairness of the ticker (`TickerRuns`: its interval is finite,
  and `select` does not neglect it) is a hypothesis of the formula.
* `TokenSidecar!FairSpec`: the process runs and time passes, and `Start` belongs to the
  process because the chart's pod restarts its containers. Answers are not fair.
* `LoginFlow!FairSpec`: the provider answers each request in the end, and the client takes
  the answer. That a call is made at all is not fair.
* `Webcal!FairSpec`: each upstream call ends within the HTTP client's timeout, and a
  request that is behind the mutex gets it when it is free again and again: Go's
  mutex hands itself over to a waiter that has starved.

## 4. Findings

1. `loop_startup` (`cmd/message2mail/main.go:144`): the first trigger is sent with a
   blocking send after the watcher has started. If a mailbox change is notified
   before, the channel is full, nobody receives, and the program neither runs nor
   ends on a signal.
2. `webcal_drain` (`cmd/webcal/main.go:77`): `run` returns when `ListenAndServe` does,
   which is at the beginning of `Shutdown` and not at its end: the ten seconds given
   to running requests are not waited for.
3. `attempts_per_revision` (`internal/message2mail/service.go:206`): the limit and the
   wait that the flags document per revision are kept per fingerprint of the listing.
   An item edited between listing and detail is submitted under two fingerprints, more
   often than `-max-attempts`, and for the same reason without `-retry-grace` between.
4. `dir_sync` (`internal/message2mail/state.go:109`): `Save` drops the errors of the directory's
   sync and returns nil, and a power loss then takes back what the service took for recorded.
   What does hold is that nothing is taken back once a `Save` has synced the directory
   (`SyncedSavesAreKept`, `StoreSpec`, `DurableLedgerSpec`), and that a record lost this
   way is accounted for like one lost in a crash (`CopiesAccounted`, `TriesBounded`).

Some limits of the code are outside the runs' instances, and the properties concerned are stated
under the condition:

* *An item deleted upstream while the first run lists* makes the ones behind it move
  up by one place. One may move to a page that has been read, is not seeded and is
  forwarded by the next run. `delivery` therefore lets only the oldest item be
  deleted, behind which there is none, and the theorem `ArchiveIsKept` assumes the same.
* *A mail that shows after the run has looked for it.* `reconcilePending` looks once, early in
  the run, and an entry that has its last attempt is then given up without another look
  (`service.go:107`). `GivenUpAfterLook` is therefore about mail that had arrived when the
  run began; later mail may be recorded as failed although it is there.
* *Groups whose names differ in case only, attachments that share an identifier.* `groupNames`
  keeps the spelling that is listed first, and `sort.Slice` leaves equal identifiers in any
  order, so the revision of such an item depends on the order in which upstream lists them
  (`stayinformed/models.go:150` calls the labels deterministic). The mail is not
  found again then, and sent again. `FoundAgain` is stated for the other items.
* *An item that is too large* (`Oversized`) fails every run before it counts an attempt, and
  everything newer waits behind it. `EventuallySettled` excepts it and the newer items.
* *One revision under two fingerprints.* `AtMostOnce` is for each fingerprint of the listing: an item edited between
  listing and detail is sent under the old fingerprint, and by the next run under
  the new one at once, while the first copy is still on its way. Once the first is in the
  mailbox, it is not sent again (`DeliveredNeverResent`).
* *An older item that waits for its retry* is skipped, and newer ones are delivered before it
  (`service.go:103-106`). `OldestFirst` says that nothing else is overtaken.
* *A short validity.* `ValidWhileServed` is for tokens that are valid for longer than `-refresh-before`, and with
  the defaults its margin is zero. `RefreshesPaced` is for all of them.
* *The provider's forms.* It is assumed that a provider that has judged a form does not answer with a 307 back
  to its action, and that no form of its own has the application's address as its action.
  `OneAttempt` counts credentials of a form and so says nothing of `Refresh`.

## 5. Theorems

All theorems hold for every set of items, versions, processes and characters and for
every bound, under the named assumptions on the constants of each module.

**`Message2MailProofs`**, the ledger: `TypeCorrect`, `AttemptsAreBounded`, `DeliveredIsSeen`,
`OldestIsFirst`. None of the last three is inductive alone. The strengthening `IInv` says of the
entries that there are none before the first run is over, that an absent one has
counted nothing, that none has counted more than `MaxAttempts`, and that a delivered
one has a revision that arrived (`EntriesSound`); of a run,
what it knows at each place of `pc` about the entry it is delivering, whose attempts
are below the limit, and that what it still has to reconcile is unconfirmed
(`RunSound`); of the history, that the attempts made are those counted, plus those
unrecorded, plus the one whose outcome is about to be saved (`AttemptsAccounted`); and
that an item of the listing that the loop has left behind is settled or in its wait
(`OrderSound`). Each action is a step of the proof, and each of the four parts a step under it.

The refinement: `ImplementsLedger`, from the same invariant. An action that saves is
`Initialize`, `Attempt`, `Confirm` or `GiveUp` of the abstract ledger, the arrival of
a mail is `Arrive`, the others stutter. `NeverResent`: every revision that arrived is still in the
mailbox unless somebody removed it, so `CheckMailbox` finds it, and a revision recorded as delivered
has arrived.

Time: `GraceIsKept` and `SentAtMostOnce`, both for each fingerprint of the listing and under no
assumption: edits, lost, late and removed mail are all there. The actions are first
put into eight kinds, of which each does one thing to times, copies and entries
(`Quiet`, `Fetched`, `Checked`, `Submit`, `Recorded`, `Cut`, `Moved`, `Ticked`). `TimeInv`: the entry
of an item is at least as recent as each attempt made for it that is not lost or just going on,
so the wait that the entry imposes is a wait for each of them. `OnceInv`: while the
count of the copies is not begun anew, the one copy is in the mailbox, or on its way with an entry as recent as
itself; when the wait is over nothing is on its way, so that the look finds it.

The archive: `ArchiveIsKept`, for a first run that seeds (`~ForwardExisting`) and a listing that
only grows, or loses its oldest item, while it is read (`OnlyOldestDeletable`): a deletion then changes no
other rank. The ranks of the published items have no gaps, so a page that is not the
last is full and its items are `PageSize` ranks; an item of the archive that is not yet listed
therefore has a rank that the offset has not passed, a new item only moves it further on, and when the
listing ends, by a page that is not full or a limit that was announced, there is none such.

**`SyncLoopProofs`**: `LoopTypes`, `WakeupIsKept`. The strengthening adds that a value in the
updates channel belongs to a live connection.

**`StateFileProofs`**: `FileTypes`, `FileAlwaysDecodes`, `HeldStaysCurrent`, `SyncedSavesAreKept`,
`ImplementsStore`. The strengthening says that a process that runs holds the lock, what
its temporary file holds at each step of `Save` and that it has been synced before it
is renamed; and for the last two (`SyncedIsKept`) that nothing on the disk is newer than the file, or
older than what a `Save` has synced. What a `Save` has returned without that may be taken back (finding 4).

**`DurableDeliveryProofs`**: `ImplementsFile`: each step of the delivery is a step of `StateFile` or
leaves the file alone, so that the theorems about the file hold under the service
(`LedgerDecodes`, `RunsOnCurrentLedger`; with `ImplementsStore` it is a state store too).
`LooksAreRight`, from `LookSound`: a look that should find the message still has, at SEARCH, an indexed
copy or one among the newest headers before it, whatever arrives behind. `SendsAreBounded`: the tries are at most
those that some version of the ledger counts and the lost ones. `DeliveredIsInMailbox`: every
version of the ledger, also those a power loss may bring back, is true of the mailbox (`IsTrue`).
`GivesUpAfterLook`, from `ShownInv`: what was shown when the run began is in the mailbox at each of its
steps, and a look that did not find it has counted more mail above it than it scans.
`CopiesAreAccounted`, from `CopiesInv`: all copies but the excused ones are one, and that one is in the
mailbox, or on its way while its attempt is going on or the file's entry is recent (`CopyPlace`). A version that a
power loss brings back counts fewer attempts, which are lost then, or is as recent as the last
(`VersionsSound`), and a look that shows nothing when nothing is recent proves that nothing is left to
excuse (`BeforeSendSound`).

The refinement: `ImplementsDurableLedger`, whether or not the directory can be synced. A rename is one `Change` of
the abstract ledger and the directory's sync, when it succeeds, is `SaveSynced`; mail that arrives is a `Change` too,
the other steps stutter, a failed sync of the directory among them. That a rename changes the ledger as it may is a claim about two entries, the one in the file and
the one the run has composed since it loaded the file. `RecordInv` says that at each step of `Save` the second follows the first by one
`Initialize`, `Attempt`, `Confirm` or `GiveUp`; as the lock keeps the file from
changing in between (`HeldIsCurrent`), it still does at the rename. A power loss then goes back to a version in `onDisk`,
of which `SyncedIsKept` says that it is not older than the last that was synced.

**`LoginFlowProofs`**: `LoginTypes`, `TokensAreOwn`, `AttemptedOnce`, `NoRequestElsewhere`. The strengthening
says that a session is of the call that has its cookies (`OwnSession`), that no form is
answered before its page was opened (`Opened`), that codes are for the user whose challenge they are bound
to (`OwnCodes`), and that a form which may still be judged has not been (`FormUnjudged`). For any number
of calls and users.

**`TokenSidecarProofs`**: `SidecarTypes`, `ServesNewest`, `NothingInherited`, `RefreshIsTaken`, `ServesValid`,
`PacesRefreshes`. The arguments are that an answer is always the newest token (`AnswerInv`, `NewestInv`), that of a replaced refresh token
the process has, or is just being told, the replacement (`RefreshInv`), that a token has lost
no more of its validity than the steps since its grant took (`ClockInv`), and that a wait, once it is over,
leaves the token with no more validity than a refresh may find (`PaceInv`).

**`WebcalProofs`**: `WebcalTypes`, `DiscoversOnce`, `AnswersAreLive`. The strengthening says that a page
read under the mutex named a version, and that a list of events about to be rendered is not
older than the request.

**`RenderingProofs`**: `RenderedAlike`, `LinesFit`, `TextIsRead`, `MailIsFound`, for lists and texts
of any length. The three parts have an invariant each, and `RenderingInv` is all of them.

* `RenderedAlike`, from `CalendarInv`: at each step of `deduplicate` the map and the result together have exactly the
  first of the latest versions read so far (`MapSound`), and the list of events without an identifier has
  them in their order (`Lists`). After the iteration each place of the result stands for one kept
  event, and those without an identifier for places that rise (`Arranges`); so a place that the stable
  sort gives to an event is the number of kept events before it in the order of `IsRendering`, and nothing of the
  order of the map is left.
* `LinesFit`, from `IInv`: the counter of the code is the number of octets in the last line, the space of a
  continued line included.
* `TextIsRead`, from `TextInv`: what has been written, without the folding, and what is left of the line make the
  line of `escapeTextList`, which has no line end in it. That reading this line gives the texts (`ReadList`) has two
  parts. The six replacements of `escapeText`, one after the other, are one replacement of each
  character of the text with newlines (`EscapeTextIs`): each leaves alone what the earlier ones put in, and
  doubling backslashes neither makes nor parts a CR LF (`JoinDoubled`). And of this one the reader undoes
  character by character what was done (`ReadEscaped`), and takes a comma that is not escaped for the next text.
* `MailIsFound`, from `IdentityInv`: a mail has a revision of what it says. The names of a revision are those of
  the item in one order (`NamesAlike`), and the files of a plain item in the order of their
  identifiers are one sequence (`AscendingOnce`); so plain items that say the same have one revision. The other way, the
  first identifier of a file ends the names (`FirstPair`, as no name is an identifier), and the parts can be
  read back from it (`DigestTells`).

These definitions go through sequences, with `FlattenSeq` and `FoldLeft`. A proof goes through
the natural numbers instead: the set of those for which the claim holds contains 0 and, with each, the
next, so it is `Nat` (`Induction`, from which `RightInduction` and `LeftInduction` on
sequences follow). What `FlattenSeq` and `FoldLeft` return for every sequence comes from this: there is a
function that satisfies their equation for each length (`JoinsExist`, `FoldExists`), and two that do agree.

Only model-checked: liveness (`EventuallySettled`, `ChangeIsSynced`, `EveryChangeSynced`,
`ShutsDown`, `LoginEnds`, `ExpiredTokenGoes`, `EveryRequestEnds`), which the
prover cannot establish under fairness. Every invariant and every other action property of a passing run is the
statement of a theorem, some under assumptions that are named with them above.

## 6. What is not modelled

* The text of mails (MIME, headers, quoting), the conversion of HTML to text, the parsing of event times
  and their time zones, and the payloads and headers of the API: conversions without state, of which
  no property here depends on more than that equal input gives equal output.
* TLS, authentication and the libraries for SMTP and IMAP: a connection is made or not. A mailbox call is
  assumed to end, as `Contains` looks at its context only after it is connected.
* In `MailTransport` nobody removes mail; in `Message2Mail` somebody may (`RemoveMail`).
* `DurableDelivery` has one item and `Message2Mail` a ledger that a power loss does not take back:
  several items over such a ledger are in neither.
* `writeTokenFile` is one step: it replaces the file as `Save` does. It does not sync the
  directory; the chart puts the file on a memory-backed volume that a power loss empties.
* How long anything takes, but for the grace, the validity of tokens and one timeout per call. The
  delays of `watchWithReconnect` are finite and otherwise left out.
* Strings are valid UTF-8, as the JSON decoder makes them; `writeLine` counts one octet for
  an invalid byte and writes three.
* Flags, environment, commands for secrets, `healthz`, `readyz`, and the one-shot modes of
  `stayinformed-token`, which keep no state; Helm chart, image and CI, whose
  restarts and single replica are assumed where said above.

## 7. Plan

The order of the work, the most important behaviour first; all of it is done:

1. `DeliveryLedger`, `Message2Mail` with its runs, its invariants and the refinement.
2. `SyncLoop` and `StateFile` over `StateStore`, with proofs.
3. `TokenSidecar`, `Webcal`, `ICalendar`, `LineFolding`.
4. `MailTransport` and `LoginFlow`: SMTP, IMAP and the login step by step.
5. `DurableDelivery`: the delivery over a state file that power losses take back, a lock that
   processes wait for and a mailbox that lags.
6. `CalendarText`, `CalendarFile`, `MessageIdentity`: the conversions that properties depend on.
7. Proofs for `TokenSidecar`, `Webcal`, `LoginFlow`, `DurableDelivery`, and of `GraceKept`, `AtMostOnce` and
   `ArchiveNotForwarded` for `Message2Mail`.
8. Proofs for `Rendering`: `RenderedOnce`, `TextSurvives`, `FoundAgain`.

9. The ledger under power losses: `DurableLedger`, and that `DurableDelivery` implements it.

What could follow: several items over a ledger that a power loss takes back.
