------------------------------- MODULE Notify -------------------------------
(***************************************************************************)
(* Notification channels (web/backend/routers/notifications.py) and one    *)
(* event pushed to them (web/backend/notify.py), as time goes by: a socket *)
(* waits for the next piece of an answer no longer than its limit, but an  *)
(* answer may come in pieces; a send looks at its own deadline and the     *)
(* fan-out at its budget, each only at certain places.  The unit of time   *)
(* is that of the constants.                                               *)
(***************************************************************************)
EXTENDS Integers, Sequences, SequencesExt

CONSTANTS
    Channels,       \* channel ids, numbers in the order in which channels are created
    Tests,          \* bound: those that may be tested
    Kinds,          \* a subset of telegram, bark, serverchan, webhook, smtp
    MaxSends,       \* _MAX_SENDS_PER_EVENT
    Budget,         \* _SEND_BUDGET_SEC
    ConnectWait, WriteWait, ReadWait,  \* _HTTP_TIMEOUT
    TotalDeadline,  \* _TOTAL_DEADLINE_SEC
    SmtpWait, SmtpDeadline, QuitWait,  \* _SMTP_TIMEOUT, _SMTP_TOTAL_DEADLINE_SEC
    Longest,        \* what one send may take with these limits, if no answer comes in pieces
    MaxEdits,       \* bound: changes made to channels
    MaxDrips        \* bound: pieces, in one send, after which the rest is still to come

NotifyAssumption ==
    /\ Channels \subseteq Nat /\ Tests \subseteq Channels
    /\ Kinds \subseteq {"telegram", "bark", "serverchan", "webhook", "smtp"}
    /\ \A n \in {MaxSends, Budget, ConnectWait, WriteWait, ReadWait, TotalDeadline,
                 SmtpWait, SmtpDeadline, QuitWait, Longest, MaxEdits, MaxDrips} : n \in Nat
    /\ {ConnectWait, WriteWait, ReadWait, QuitWait} \subseteq 0..SmtpWait

VARIABLES
    rows,       \* notification_channels: [kind, enabled, events, readable, secure]
    edits,
    now,
    at,         \* where the one that sends is; "idle" when nobody does
    why,        \* "event" or "test"
    queue,      \* the channels that are left
    snap, cur,  \* what the query read, and the channel being sent to
    waits, limit,      \* answers left to wait for in this step, and the limit of a wait
    drips,      \* pieces in this send after which the rest was still to come
    began, deadline,    \* when the fan-out began, and until when a send may take
    posts, tls,
    verdicts,   \* history: what the other side said in this send
    results,    \* what the fan-out returned: [channel, ok, said]
    tested      \* what the last test of a channel said: "ok" without a note, or not

send == <<cur, waits, limit, drips, deadline, posts, tls, verdicts>>
vars == <<rows, edits, now, at, why, queue, snap, began, send, results, tested>>

Row == [kind: Kinds, enabled: BOOLEAN, events: {"null", "none", "capacity"},
        readable: BOOLEAN, secure: BOOLEAN]
Absent == [kind |-> "absent"]
Fresh == {r \in Row : r.readable /\ (r.kind # "smtp" => r.secure)}
Verdict == {"ok", "refused", "limited", "parse", "code", "page"}
Phases == {"idle", "next", "connect", "write", "head", "body", "replied",
           "dial", "tls", "login", "mail", "quit", "sent", "failed"}

TypeOK ==
    /\ rows \in [Channels -> Row \cup {Absent}] /\ edits \in 0..MaxEdits /\ now \in Nat
    /\ at \in Phases /\ why \in {"event", "test"} /\ queue \in Seq(Channels)
    /\ cur \in Channels \cup {0} /\ snap \in [Channels -> Row \cup {Absent}]
    /\ waits \in 0..4 /\ limit \in Nat /\ drips \in 0..MaxDrips /\ began \in Nat /\ deadline \in Nat
    /\ posts \in 0..2 /\ tls \in BOOLEAN /\ verdicts \subseteq Verdict
    /\ results \in Seq([channel: Channels, ok: BOOLEAN, said: SUBSET Verdict])
    /\ tested \in [Channels -> BOOLEAN]

\* Channels from before the events column have no events recorded.
Init ==
    /\ rows \in [Channels -> {Absent} \cup {r \in Fresh : r.events = "null" /\ r.enabled}]
    /\ edits = 0 /\ now = 0 /\ at = "idle" /\ why = "event" /\ queue = <<>>
    /\ cur = 0 /\ snap = rows /\ waits = 0 /\ limit = 0 /\ drips = 0
    /\ began = 0 /\ deadline = 0 /\ posts = 0 /\ tls = FALSE /\ verdicts = {}
    /\ results = <<>> /\ tested = [c \in Channels |-> FALSE]

Present == {c \in Channels : rows[c] # Absent}
(***************************************************************************)
(* The settings page.                                                      *)
(***************************************************************************)
Sending == <<now, at, why, queue, snap, began, send, results>>
Edit(c, r) ==
    /\ edits < MaxEdits /\ edits' = edits + 1
    /\ rows' = [rows EXCEPT ![c] = r] /\ tested' = [tested EXCEPT ![c] = FALSE]
    /\ UNCHANGED Sending

\* create_channel: validate_channel_config, _clean_events
Create(c, r) ==
    /\ \A d \in Channels : d >= c => rows[d] = Absent
    /\ r \in Fresh /\ r.events # "null" /\ Edit(c, r)

\* update_channel: the fields that are given; the kind stays.
Update(c, r) ==
    /\ rows[c] # Absent /\ r.kind = rows[c].kind
    /\ r.events \in {rows[c].events, "none", "capacity"}
    /\ r.readable = rows[c].readable /\ r.secure = rows[c].secure
    /\ Edit(c, r)

Delete(c) == rows[c] # Absent /\ Edit(c, Absent)

\* The key of the process is not the one that the configuration was encrypted with.
LosesKey(c) == rows[c] # Absent /\ rows[c].readable /\ Edit(c, [rows[c] EXCEPT !.readable = FALSE])

\* _out: what the page shows as subscribed.
Shown(r) == r.events # "none"
(***************************************************************************)
(* One fan-out, or one test.                                               *)
(***************************************************************************)
Targets == {c \in Present : rows[c].enabled /\ rows[c].events \in {"null", "capacity"}}

\* The order of the query: by time of creation.
InOrder(S) == SetToSortSeq(S, <)

Asks(reason, channels) ==
    /\ at = "idle" /\ channels # <<>>
    /\ at' = "next" /\ why' = reason /\ queue' = channels /\ snap' = rows
    /\ began' = 0 /\ now' = 0 /\ results' = <<>>
    /\ UNCHANGED <<rows, edits, send, tested>>

\* notify_user: the rows are read once.
Event == Asks("event", InOrder(Targets))

\* test_channel
Test(c) == c \in Tests \cap Present /\ Asks("test", <<c>>)

\* Over the number of sends or over the budget the rest is not tried.
Enough == Len(results) >= MaxSends \/ now - began > Budget

Stops ==
    /\ at = "next" /\ (queue = <<>> \/ Enough) /\ at' = "idle"
    /\ UNCHANGED <<rows, edits, now, why, queue, snap, began, send, results, tested>>

Config == snap[cur]
Wait(n, w) == waits' = n /\ limit' = w

\* send_to_channel; what cannot be decrypted fails at once.
Begin ==
    LET c == Head(queue) IN
    /\ at = "next" /\ queue # <<>> /\ ~Enough
    /\ cur' = c /\ queue' = Tail(queue) /\ verdicts' = {} /\ drips' = 0
    /\ \/ /\ ~snap[c].readable /\ at' = "failed" /\ Wait(0, 0) /\ posts' = 0 /\ deadline' = now
          /\ tls' = FALSE
       \/ /\ snap[c].readable /\ snap[c].kind # "smtp" /\ at' = "connect"
          /\ Wait(1, ConnectWait) /\ posts' = 1 /\ deadline' = now + TotalDeadline /\ tls' = TRUE
       \/ /\ snap[c].readable /\ snap[c].kind = "smtp"
          /\ at' = "dial" /\ posts' = 0 /\ deadline' = now + SmtpDeadline
          /\ \/ tls' = TRUE /\ Wait(3, SmtpWait)    \* SMTP_SSL: connect, handshake, greeting
             \/ tls' = FALSE /\ Wait(2, SmtpWait)
    /\ UNCHANGED <<rows, edits, why, snap, began, now, results, tested>>

Still == <<rows, edits, why, queue, snap, began, results, tested, cur, verdicts>>

\* A socket gets its answer, or none within its limit.
Answer(d) ==
    /\ waits > 0 /\ d <= limit /\ now' = now + d /\ waits' = waits - 1
    /\ UNCHANGED <<at, limit, drips, deadline, posts, tls, Still>>
TimesOut ==
    /\ waits > 0 /\ now' = now + limit /\ waits' = 0
    /\ at' = IF Config.kind = "smtp" THEN "quit" ELSE "failed"
    /\ UNCHANGED <<limit, drips, deadline, posts, tls, Still>>

\* It gets a piece of it, a line or a header that is not the last, and waits anew.
Drip(d) ==
    /\ drips < MaxDrips /\ drips' = drips + 1 /\ now' = now + d
    /\ \/ waits > 0 /\ d <= limit
       \/ at = "quit" /\ d <= QuitWait
    /\ UNCHANGED <<at, waits, limit, deadline, posts, tls, Still>>

Step(from, to, n, w) ==
    /\ at = from /\ waits = 0 /\ at' = to /\ Wait(n, w)

\* _post: the request, the head of the response, and chunks of its body until it ends
\* or the deadline is over, which nothing looks at before.
Post ==
    /\ \/ Step("connect", "write", 1, WriteWait)
       \/ Step("write", "head", 1, ReadWait)
       \/ Step("head", "body", 1, ReadWait)
       \/ now < deadline /\ Step("body", "body", 1, ReadWait)
       \/ Step("body", "replied", 0, 0)
    /\ UNCHANGED <<now, drips, deadline, posts, tls, Still>>

\* What the other side may say: 200 with its own "no" in the body, or with a page that
\* says nothing; 429; 400 for text that it cannot parse.
Says(kind) ==
    CASE kind = "telegram" -> {"ok", "refused", "limited", "parse", "page"}
      [] kind = "serverchan" -> {"ok", "refused", "limited", "code", "page"}
      [] OTHER -> {"ok", "refused", "limited"}

CountsByStatus(kind, v) == v \in {"ok", "code", "page"} \* mutant: HTTP 200
\* _send_telegram, _send_bark, _send_serverchan, _send_webhook: what counts as sent.
CountsAsSent(kind, v) == v = "ok" \/ (kind = "serverchan" /\ v = "page")

\* _telegram_parse_error: only text that was not parsed is worth a plain second try.
WorthAgain(v) == Config.kind = "telegram" /\ v = "parse" /\ posts = 1

Reply(v) ==
    /\ at = "replied" /\ v \in Says(Config.kind) /\ verdicts' = verdicts \cup {v}
    /\ \/ CountsAsSent(Config.kind, v) /\ at' = "sent" /\ UNCHANGED <<waits, limit, deadline, posts>>
       \/ /\ ~CountsAsSent(Config.kind, v) /\ WorthAgain(v)
          /\ at' = "write" /\ Wait(1, WriteWait) /\ posts' = 2 /\ deadline' = now + TotalDeadline
       \/ /\ ~CountsAsSent(Config.kind, v) /\ ~WorthAgain(v) /\ at' = "failed"
          /\ UNCHANGED <<waits, limit, deadline, posts>>
    /\ UNCHANGED <<rows, edits, now, why, queue, snap, began, results, tested, cur, drips, tls>>

\* _smtp_step: past the deadline the session is given up, else the socket may wait as
\* long as is left, anew for every piece of an answer.
SmtpStep(from, to, n) ==
    \/ now < deadline /\ Step(from, to, n, IF deadline - now < SmtpWait THEN deadline - now ELSE SmtpWait)
    \/ now >= deadline /\ Step(from, "quit", 0, 0)

\* _send_smtp: EHLO, STARTTLS and the handshake; AUTH; MAIL, RCPT, DATA and its end; QUIT.
Session ==
    /\ \/ ~tls /\ SmtpStep("dial", "tls", 3)
       \/ tls /\ SmtpStep("dial", "login", 2)
       \/ tls /\ SmtpStep("tls", "login", 2)
       \/ SmtpStep("login", "mail", 4)
    /\ UNCHANGED <<now, drips, deadline, posts, tls, Still>>

\* A server without STARTTLS: the session ends, unless the channel says otherwise.
NoTls ==
    /\ at = "tls" /\ waits = 0 /\ ~tls
    /\ \/ Config.secure /\ Step("tls", "quit", 0, 0)
       \/ ~Config.secure /\ SmtpStep("tls", "login", 2)
    /\ UNCHANGED <<now, drips, deadline, posts, tls, Still>>

Handshake ==
    /\ at = "tls" /\ waits = 0 /\ ~tls /\ tls' = TRUE
    /\ UNCHANGED <<now, at, waits, limit, drips, deadline, posts, Still>>

\* The mail is taken, or a reply is an error.
Mailed ==
    /\ at = "mail" /\ waits = 0 /\ at' = "quit" /\ verdicts' = {"ok"} /\ Wait(0, 0)
    /\ UNCHANGED <<rows, edits, now, why, queue, snap, began, results, tested, cur,
                   drips, deadline, posts, tls>>
Refused ==
    /\ at \in {"dial", "tls", "login", "mail"} /\ waits = 0
    /\ at' = "quit" /\ verdicts' = {"refused"} /\ Wait(0, 0)
    /\ UNCHANGED <<rows, edits, now, why, queue, snap, began, results, tested, cur,
                   drips, deadline, posts, tls>>

Quits(d) ==
    /\ at = "quit" /\ d <= QuitWait /\ now' = now + d /\ Wait(0, 0)
    /\ at' = IF verdicts = {"ok"} THEN "sent" ELSE "failed"
    /\ UNCHANGED <<drips, deadline, posts, tls, Still>>

\* The note of a test: what was sent now would not be sent for an event.
Noted(r) == ~r.enabled \/ r.events = "none"

Result ==
    /\ at \in {"sent", "failed"}
    /\ at' = IF why = "event" THEN "next" ELSE "idle"
    /\ results' = Append(results, [channel |-> cur, ok |-> at = "sent", said |-> verdicts])
    /\ tested' = IF why = "test" /\ Config = rows[cur]
                 THEN [tested EXCEPT ![cur] = at = "sent" /\ ~Noted(Config)] ELSE tested
    /\ deadline' = 0 /\ tls' = FALSE /\ posts' = 0 /\ Wait(0, 0)
    /\ UNCHANGED <<rows, edits, now, why, queue, snap, began, cur, drips, verdicts>>

Edits ==
    \/ \E c \in Channels, r \in Row : Create(c, r) \/ Update(c, r)
    \/ \E c \in Channels : Delete(c) \/ LosesKey(c)
Sends ==
    \/ Event \/ Stops \/ Begin \/ TimesOut \/ Post \/ Session \/ NoTls \/ Handshake \/ Mailed
    \/ Refused \/ Result \/ \E c \in Channels : Test(c)
    \/ \E v \in Verdict : Reply(v)
    \/ \E d \in 0..SmtpWait : Answer(d) \/ Drip(d) \/ Quits(d)

Next == Edits \/ Sends
Spec == Init /\ [][Next]_vars
(***************************************************************************)
(* Properties.                                                             *)
(***************************************************************************)
\* A message that is reported as sent was taken by the other side, or, at ServerChan
\* only, answered with a page that nobody can read.
SentIsTaken ==
    \A i \in 1..Len(results) :
        results[i].ok => \/ "ok" \in results[i].said
                         \/ "page" \in results[i].said /\ snap[results[i].channel].kind = "serverchan"

\* Nothing is posted again to a side that asked to wait, or for another reason than text
\* that it could not parse (_send_telegram).
NotAgain ==
    (posts = 2 /\ at \in {"write", "head", "body", "replied"}) => verdicts = {"parse"}

\* The password of a mailbox goes only over an encrypted connection, unless the channel
\* allows otherwise (require_tls).
NoPasswordInClear == at \in {"login", "mail"} => tls \/ ~Config.secure

\* A fan-out overruns its budget by one send, however many channels there are: by what the
\* limits allow it, and by a wait more for every piece that the other side of this send (of
\* no earlier one) lets its answers come in.
FanOutBounded == at # "idle" => now - began <= Budget + Longest + drips * SmtpWait

\* How long a fan-out keeps the worker from its other jobs has a bound that does not depend
\* on the other side ("Bound the fan-out").
\* TLC refutes it: a timeout of a socket bounds the wait for one piece.
FanOutInTime == at # "idle" => now - began <= Budget + Longest

\* What is not tried for lack of time or number was created after everything that was.
LastDropped ==
    \A i \in 1..Len(results), j \in 1..Len(queue) :
        why = "event" => results[i].channel < queue[j]

\* A channel whose test succeeded without a note is one that events go to, and so is
\* one that the page shows as subscribed and enabled.
TestTellsTruth ==
    /\ \A c \in Channels : tested[c] => c \in Targets
    /\ \A c \in Present : rows[c].enabled => (Shown(rows[c]) <=> c \in Targets)

\* One request and its response take no longer than _TOTAL_DEADLINE_SEC.
\* TLC refutes it: the deadline is looked at between chunks of the body only.
PostInTime == at \in {"connect", "write", "head", "body"} => now <= deadline

\* All steps of a session together take no longer than _SMTP_TOTAL_DEADLINE_SEC.
\* TLC refutes it: the limit is set once per step, and a step waits for several replies.
SessionInTime == at \in {"dial", "tls", "login", "mail"} => now <= deadline
=============================================================================
