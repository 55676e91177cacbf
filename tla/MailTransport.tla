---------------------------- MODULE MailTransport ---------------------------
(***************************************************************************)
(* The two calls the service makes to the mail system about one message,   *)
(* step by step: SMTPMailer.Send, and IMAPMailbox.Contains, which asks the *)
(* server's index of headers and then reads the newest headers itself.     *)
(* The mail system is what both of them see of it.  Nobody removes mail    *)
(* here.                                                                   *)
(***************************************************************************)
EXTENDS Naturals, Sequences

CONSTANTS
  Clients,     \* processes that may make a call, one at a time each
  ScanLimit,   \* recentHeaderScanLimit: 500
  MaxMails     \* bound on the messages in the mailbox

ASSUME TransportAssumption == ScanLimit \in Nat \ {0} /\ MaxMails \in Nat

VARIABLES
  call,        \* where each client is in its call, or what the call returned
  count,       \* the number of messages that SELECT told it
  spool,       \* copies the SMTP server has accepted and not yet delivered
  mailbox,     \* "other", "marked" (ours), or "indexed": ours, and SEARCH knows
  copies,      \* history: copies that the SMTP server has accepted
  due          \* history: could the message be found when SELECT answered?

mailServer == <<spool, mailbox, copies>>
transport == <<call, count, mailServer, due>>

MailInit ==
  /\ call = [c \in Clients |-> "none"]
  /\ count = [c \in Clients |-> 0]
  /\ spool = 0
  /\ mailbox = <<>>
  /\ copies = 0
  /\ due = [c \in Clients |-> "absent"]

(* A call of c is at one of these places and goes on to another.           *)
Move(c, from, to) == call[c] = from /\ call' = [call EXCEPT ![c] = to]

(***************************************************************************)
(* SMTPMailer.Send.  Only its first step looks at the context; from then   *)
(* on each step has a timeout.                                             *)
(***************************************************************************)
StartSend(c) == Move(c, "none", "connect") /\ UNCHANGED <<count, mailServer, due>>

Connect(c) ==
  /\ \E next \in {"submit", "unsent"} : Move(c, "connect", next)
  /\ UNCHANGED <<count, mailServer, due>>

(* The message is accepted, accepted without an answer in time, or not.    *)
SendMail(c) ==
  \/ /\ \E next \in {"quit", "unsent"} : Move(c, "submit", next)
     /\ spool' = spool + 1 /\ copies' = copies + 1
     /\ UNCHANGED <<count, mailbox, due>>
  \/ Move(c, "submit", "unsent") /\ UNCHANGED <<count, mailServer, due>>

Quit(c) ==
  /\ \E next \in {"sent", "unsent"} : Move(c, "quit", next)
  /\ UNCHANGED <<count, mailServer, due>>

(***************************************************************************)
(* IMAPMailbox.Contains.                                                   *)
(***************************************************************************)
Ours(i) == mailbox[i] # "other"

(* Mutation: the oldest headers are read. *)
ScannedOldest(n) == 1..(IF n > ScanLimit THEN ScanLimit ELSE n)

(* scanRecentHeaders reads the newest of n messages. *)
Scanned(n) == (IF n > ScanLimit THEN n - ScanLimit + 1 ELSE 1)..n

StartLook(c) == Move(c, "none", "open") /\ UNCHANGED <<count, mailServer, due>>

(* Which of our copies SEARCH or the newest ScanLimit messages would show. *)
Findable(i) == mailbox[i] = "indexed" \/ (Ours(i) /\ i + ScanLimit > Len(mailbox))

Outlook ==
  CASE \E i \in DOMAIN mailbox : Findable(i) -> "due"
    [] \A i \in DOMAIN mailbox : ~Ours(i) -> "absent"
    [] OTHER -> "buried"

(* Dial, login, SELECT and the check of the context. *)
OpenMailbox(c) ==
  \/ /\ Move(c, "open", "search")
     /\ count' = [count EXCEPT ![c] = Len(mailbox)]
     /\ due' = [due EXCEPT ![c] = Outlook]
     /\ UNCHANGED mailServer
  \/ Move(c, "open", "blind") /\ UNCHANGED <<count, mailServer, due>>

(* The server may search what has arrived since SELECT, or not yet. *)
Search(c) ==
  /\ \E last \in count[c]..Len(mailbox) :
       IF \E i \in 1..last : mailbox[i] = "indexed"
       THEN Move(c, "search", "seen")
       ELSE Move(c, "search", IF count[c] = 0 THEN "unseen" ELSE "fetch")
  /\ UNCHANGED <<count, mailServer, due>>

FetchHeaders(c) ==
  /\ Move(c, "fetch", IF \E i \in Scanned(count[c]) : Ours(i) THEN "seen" ELSE "unseen")
  /\ UNCHANGED <<count, mailServer, due>>

LookFails(c) ==
  /\ \E from \in {"search", "fetch"} : Move(c, from, "blind")
  /\ UNCHANGED <<count, mailServer, due>>

TransportStep(c) ==
  \/ Connect(c) \/ SendMail(c) \/ Quit(c)
  \/ OpenMailbox(c) \/ Search(c) \/ FetchHeaders(c) \/ LookFails(c)

(* The caller takes the result, or dies: the connections are closed.       *)
Hangup(clients) ==
  /\ call' = [c \in Clients |-> IF c \in clients THEN "none" ELSE call[c]]
  /\ count' = [c \in Clients |-> IF c \in clients THEN 0 ELSE count[c]]
  /\ due' = [c \in Clients |-> IF c \in clients THEN "absent" ELSE due[c]]
  /\ UNCHANGED mailServer

(* The same, and what the look could have found is remembered.             *)
HangupKnowing(c) ==
  /\ call' = [call EXCEPT ![c] = "none"]
  /\ count' = [count EXCEPT ![c] = 0]
  /\ UNCHANGED <<mailServer, due>>

(***************************************************************************)
(* The mail system.                                                        *)
(***************************************************************************)
Receive(kind) == Len(mailbox) < MaxMails /\ mailbox' = Append(mailbox, kind)

Arrive ==
  /\ spool > 0
  /\ spool' = spool - 1
  /\ Receive("marked")
  /\ UNCHANGED <<call, count, copies, due>>

OtherMail == Receive("other") /\ UNCHANGED <<call, count, spool, copies, due>>

Index ==
  /\ \E i \in DOMAIN mailbox : mailbox[i] = "marked" /\ mailbox' = [mailbox EXCEPT ![i] = "indexed"]
  /\ UNCHANGED <<call, count, spool, copies, due>>

MailSystem == Arrive \/ OtherMail \/ Index

(***************************************************************************)
(* Properties.                                                             *)
(***************************************************************************)

(* A look says yes only if the message is in the mailbox, and no only if,  *)
(* when SELECT answered, it was not there, or neither indexed nor among    *)
(* the newest ScanLimit, whatever arrives or is indexed in the meantime    *)
(* (mail_transport.go:139-188).                                            *)
LookIsRight ==
  \A c \in Clients :
    /\ call[c] = "seen" => \E i \in DOMAIN mailbox : Ours(i)
    /\ call[c] = "unseen" => due[c] # "due"
=============================================================================
