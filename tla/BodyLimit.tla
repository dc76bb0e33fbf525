----------------------------- MODULE BodyLimit ------------------------------
(***************************************************************************)
(* The ceiling on the body of a request (web/backend/body_limit.py): it    *)
(* stands between the server and the application, counts the bytes it      *)
(* hands on, and answers 413 itself.  The application may read on after    *)
(* the exception (a parser that turns it into an answer of 400), may have  *)
(* begun its answer before, and may let the exception through.             *)
(***************************************************************************)
EXTENDS Integers, Sequences

CONSTANTS
    MaxBytes,   \* the ceiling
    Chunk,      \* bytes that one message of the client may have
    MaxBody     \* bound: bytes the client sends

BodyLimitAssumption == MaxBytes \in Nat /\ MaxBody \in Nat /\ Chunk \subseteq Nat

VARIABLES
    declared,  \* the Content-Length, or -1: none (chunked), or no number
    left,      \* bytes the client has still to send
    received, started, tooLarge, replaced,
    app,       \* the application: where the application is
    early,     \* history: the answer had begun when the ceiling was passed
    handed,    \* history: bytes the application was given
    sent       \* what went to the client: "start", "body", "413", "body413"

vars == <<declared, left, received, started, tooLarge, replaced, app, early, handed, sent>>

TypeOK ==
    /\ declared \in -1..MaxBody /\ left \in 0..MaxBody
    /\ received \in 0..MaxBody /\ handed \in 0..MaxBytes
    /\ started \in BOOLEAN /\ tooLarge \in BOOLEAN /\ replaced \in BOOLEAN
    /\ early \in BOOLEAN
    /\ app \in {"new", "runs", "raised", "answers", "raising", "done", "gone"}
    /\ \A i \in DOMAIN sent : sent[i] \in {"start", "body", "413", "body413"}

\* A client that declares a length sends no more than that.
Init ==
    /\ left \in 0..MaxBody /\ declared \in {-1, left}
    /\ received = 0 /\ started = FALSE /\ tooLarge = FALSE /\ replaced = FALSE
    /\ app = "new" /\ early = FALSE /\ handed = 0 /\ sent = <<>>

Refuse == sent' = sent \o <<"413", "body413">>
Counters == UNCHANGED <<received, tooLarge, early, handed, left>>

\* __call__: an honest length over the ceiling is refused before anything is read.
Enter ==
    /\ app = "new"
    /\ IF declared > MaxBytes THEN Refuse /\ app' = "done" ELSE app' = "runs" /\ UNCHANGED sent
    /\ UNCHANGED <<declared, started, replaced>> /\ Counters

\* limited_receive
Receive ==
    /\ app \in {"runs", "raised", "answers"} /\ left > 0
    /\ \E n \in Chunk : n <= left /\
         LET total == received + n IN
         /\ left' = left - n /\ received' = total
         /\ IF total > MaxBytes
            THEN tooLarge' = TRUE /\ UNCHANGED handed
                 /\ early' = (IF tooLarge THEN early ELSE started)
                 /\ app' = IF app = "answers" THEN "raising" ELSE "raised"
            ELSE UNCHANGED <<tooLarge, early>> /\ handed' = total /\ UNCHANGED app
    /\ UNCHANGED <<declared, started, replaced, sent>>

\* Mutant: what the application answers is not looked at.
StartUnchecked ==
    /\ app \in {"runs", "raised"} /\ app' = "answers"
    /\ started' = TRUE /\ sent' = Append(sent, "start")
    /\ UNCHANGED <<declared, replaced>> /\ Counters

\* tracking_send of http.response.start
Start ==
    /\ app \in {"runs", "raised"} /\ app' = "answers"
    /\ IF tooLarge THEN replaced' = TRUE /\ Refuse /\ UNCHANGED started
       ELSE started' = TRUE /\ sent' = Append(sent, "start") /\ UNCHANGED replaced
    /\ UNCHANGED declared /\ Counters

\* tracking_send of http.response.body
Body ==
    /\ app = "answers" /\ Len(sent) < 4
    /\ sent' = IF replaced THEN sent ELSE Append(sent, "body")
    /\ UNCHANGED <<declared, started, replaced, app>> /\ Counters
Done ==
    /\ app = "answers" /\ app' = "done"
    /\ UNCHANGED <<declared, started, replaced, sent>> /\ Counters

\* The exception comes out of the application, before its answer or in the middle of it.
Escape ==
    /\ app \in {"raised", "raising"} /\ app' = "gone"
    /\ IF ~started /\ ~replaced THEN Refuse ELSE UNCHANGED sent
    /\ UNCHANGED <<declared, started, replaced>> /\ Counters
\* A streaming answer whose reading has failed may also go on.
Swallow ==
    /\ app = "raising" /\ app' = "answers"
    /\ UNCHANGED <<declared, started, replaced, sent>> /\ Counters

Next == Enter \/ Receive \/ Start \/ Body \/ Done \/ Escape \/ Swallow

\* The client has sent all of the body, or is not asked for more of it.  One that stops in
\* the middle may hold receive() for ever: nothing here or in the server times it out.
Unstalled == left = 0 \/ tooLarge
Spec == Init /\ [][Next]_vars /\ WF_vars(Enter \/ (Unstalled /\ Start) \/ Done \/ Escape)

-----------------------------------------------------------------------------

\* One answer begins, and it comes first: the 413 and the answer of the application
\* are never mixed.
Starts == {i \in DOMAIN sent : sent[i] \in {"start", "413"}}
OneAnswer ==
    /\ Starts \subseteq {1}
    /\ \A i \in DOMAIN sent :
         /\ sent[i] = "body" => sent[1] = "start"
         /\ sent[i] = "body413" => sent[1] = "413"

\* A body over the ceiling is not answered as if it had been read: no answer of the
\* application begins after the ceiling was passed, whoever has swallowed the exception.
OverIsRefused == tooLarge /\ ~early => \A i \in DOMAIN sent : sent[i] # "start"

\* A request is answered whose body has all been sent, or is said to be or is over the ceiling.
Asked == Unstalled \/ declared > MaxBytes
Answered == Asked ~> Starts # {}
==============================================================================
