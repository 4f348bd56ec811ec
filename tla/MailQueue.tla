----------------------------- MODULE MailQueue ------------------------------
(***************************************************************************)
(* Mail.  A client owns a channel of messages and a goroutine that sends   *)
(* them; email.Init replaces the client when the settings change.  Send    *)
(* holds the read lock while it waits for room in the channel; Init holds  *)
(* the write lock while it closes the channel.  A failing connection is a  *)
(* panic of the goroutine, which starts another ten seconds later.         *)
(***************************************************************************)
EXTENDS Naturals, Sequences

CONSTANTS
    Mails,      \* calls of email.Send
    MailCap,    \* the capacity of a channel
    MaxClients  \* bound on the clients that Init makes

ASSUME MailAssumption == MailCap \in Nat \ {0} /\ MaxClients \in Nat \ {0}

VARIABLES
    mailer,     \* the clients: the last one is email.Client
    sender,     \* what each call of Send does, and the client it calls
    reloading,  \* what email.Init does
    sent        \* messages that the goroutine has done with

mailVars == <<mailer, sender, reloading, sent>>

Sending == {m \in Mails : sender[m].at = "sending"}   \* they hold the read lock
Client == Len(mailer)

MailInit ==
    /\ mailer = <<>> /\ sent = {}
    /\ sender = [m \in Mails |-> [at |-> "idle", client |-> 0]]
    /\ reloading = "no"

-----------------------------------------------------------------------------
(* Send.                                                                   *)

(* A reader waits for a writer that waits.                                 *)
MailSend(m) ==
    /\ sender[m].at = "idle" /\ sender' = [sender EXCEPT ![m].at = "locking"]
    /\ UNCHANGED <<mailer, reloading, sent>>

(* chOpen is read without a lock of its own.                               *)
CheckOpen(m) ==
    /\ sender[m].at = "locking" /\ reloading # "waiting"
    /\ sender' = [sender EXCEPT ![m] = [client |-> Client,
            at |-> IF Client > 0 /\ mailer[Client].chOpen THEN "sending" ELSE "refused"]]
    /\ UNCHANGED <<mailer, reloading, sent>>

(* The send waits for room in the channel; into a closed one it panics.    *)
SendMessage(m) ==
    LET c == sender[m].client IN
    /\ sender[m].at = "sending"
    /\ mailer[c].closed \/ Len(mailer[c].ch) < MailCap
    /\ mailer' = IF mailer[c].closed THEN mailer ELSE [mailer EXCEPT ![c].ch = Append(@, m)]
    /\ sender' = [sender EXCEPT ![m].at = IF mailer[c].closed THEN "panicked" ELSE "accepted"]
    /\ UNCHANGED <<reloading, sent>>

-----------------------------------------------------------------------------
(* Init of the package, by a start or an administrator.                    *)

MailReload ==
    /\ reloading = "no" /\ Client < MaxClients /\ reloading' = "waiting"
    /\ UNCHANGED <<mailer, sender, sent>>

WriteLockAtOnce == TRUE
WriteLock == Sending = {}

NewSMTPClient == [ch |-> <<>>, closed |-> FALSE, chOpen |-> FALSE, at |-> "start", open |-> FALSE, holds |-> {}]
Close(cs) == [c \in DOMAIN cs |-> IF c = Len(cs) THEN [cs[c] EXCEPT !.closed = TRUE] ELSE cs[c]]

ReplaceClient ==
    /\ reloading = "waiting" /\ WriteLock
    /\ mailer' = Append(Close(mailer), NewSMTPClient)
    /\ reloading' = "no"
    /\ UNCHANGED <<sender, sent>>

-----------------------------------------------------------------------------
(* The goroutine of client c, SMTP.Init.                                   *)

Worker(c, at) == c \in DOMAIN mailer /\ mailer[c].at = at
Becomes(c, q) == mailer' = [mailer EXCEPT ![c] = q] /\ UNCHANGED <<sender, reloading>>

MailerStarts(c) ==
    /\ Worker(c, "start") /\ Becomes(c, [mailer[c] EXCEPT !.at = "select", !.chOpen = TRUE, !.open = FALSE])
    /\ UNCHANGED sent

(* A closed channel still gives what it holds.                             *)
TakeMessage(c) ==
    /\ Worker(c, "select") /\ mailer[c].ch # <<>>
    /\ Becomes(c, [mailer[c] EXCEPT !.ch = Tail(@), !.holds = {Head(mailer[c].ch)},
                                    !.at = IF mailer[c].open THEN "deliver" ELSE "dial"])
    /\ UNCHANGED sent

QueueEnded(c) == mailer[c].closed /\ mailer[c].ch = <<>>

MailerEnds(c) ==
    /\ Worker(c, "select") /\ QueueEnded(c)
    /\ Becomes(c, [mailer[c] EXCEPT !.at = "ended", !.chOpen = FALSE])
    /\ UNCHANGED sent

Dial(c) ==
    /\ Worker(c, "dial") /\ Becomes(c, [mailer[c] EXCEPT !.at = "deliver", !.open = TRUE])
    /\ UNCHANGED sent

(* The panic is recovered; the message at hand is gone.                    *)
DialFails(c) ==
    /\ Worker(c, "dial") /\ Becomes(c, [mailer[c] EXCEPT !.at = "sleep", !.chOpen = FALSE, !.holds = {}])
    /\ sent' = sent \cup mailer[c].holds

AfterSleep == "start"

MailerRestarts(c) ==
    /\ Worker(c, "sleep") /\ Becomes(c, [mailer[c] EXCEPT !.at = AfterSleep])
    /\ UNCHANGED sent

(* A failure to send is logged.                                            *)
Deliver(c) ==
    /\ Worker(c, "deliver") /\ Becomes(c, [mailer[c] EXCEPT !.at = "select", !.holds = {}])
    /\ sent' = sent \cup mailer[c].holds

(* No message for long: the connection is closed.                          *)
KeepaliveEnds(c) ==
    /\ Worker(c, "select") /\ mailer[c].open /\ Becomes(c, [mailer[c] EXCEPT !.open = FALSE])
    /\ UNCHANGED sent

-----------------------------------------------------------------------------
MailerStep(c) ==
    MailerStarts(c) \/ TakeMessage(c) \/ MailerEnds(c) \/ Dial(c) \/ DialFails(c) \/ MailerRestarts(c) \/ Deliver(c)

SenderStep(m) == CheckOpen(m) \/ SendMessage(m)

MailNext ==
    \/ \E m \in Mails : MailSend(m) \/ SenderStep(m)
    \/ \E c \in 1 .. MaxClients : MailerStep(c) \/ KeepaliveEnds(c)
    \/ MailReload \/ ReplaceClient

(* While a goroutine can run, one runs; the calls and what they give the   *)
(* goroutines to do are finite.                                            *)
MailStep == (\E m \in Mails : SenderStep(m)) \/ (\E c \in 1 .. MaxClients : MailerStep(c)) \/ ReplaceClient
MailFairness == WF_mailVars(MailStep)

MailSpec == MailInit /\ [][MailNext]_mailVars /\ MailFairness

-----------------------------------------------------------------------------
(* Again and again there is a moment when every call of Send that was made *)
(* has ended, refused or with its mail handled, and no reload waits: though *)
(* the channel is full, the mail server cannot be reached, each waits for  *)
(* the other's lock, and the client is replaced while messages wait in its *)
(* channel.  No call has ended with a panic, by a send into a channel that *)
(* Init has closed (email.Send, email.Init, SMTP.Init, SMTP.Close).        *)
MailsHandled ==
    []<>(/\ reloading = "no"
         /\ \A m \in Mails : sender[m].at \in {"idle", "refused"} \/ m \in sent)
=============================================================================
