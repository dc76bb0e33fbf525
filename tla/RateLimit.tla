----------------------------- MODULE RateLimit ------------------------------
(***************************************************************************)
(* The sliding windows that slow down guessing (web/backend/rate_limit.py) *)
(* and their use by a login, which is counted for its address and for its  *)
(* address and name.  Every API process has its own.                       *)
(***************************************************************************)
EXTENDS Integers, Sequences, SequencesExt

CONSTANTS
    Ip, User,
    AnyUser,     \* the bucket of an address is <<ip, AnyUser>>
    MaxHits,     \* of each bucket: login_ip_limiter and login_user_limiter
    Window,      \* window_sec of both
    Large,       \* the size at which old buckets are dropped (1024)
    Horizon      \* bound: time

Bucket == Ip \X (User \cup {AnyUser})

RateLimitAssumption ==
    /\ MaxHits \in [Bucket -> Nat \ {0}]
    /\ AnyUser \notin User /\ Window \in Nat \ {0} /\ Large \in Nat /\ Horizon \in Nat \ {0}

VARIABLES
    now,
    hits,     \* _hits: the times a bucket remembers, oldest first; none is an absent key
    allowed,  \* history: all the times a bucket has let something through
    told      \* history: the time a bucket told somebody to come back at, or 0

vars == <<now, hits, allowed, told>>

TypeOK ==
    /\ now \in 1..Horizon
    /\ hits \in [Bucket -> Seq(Nat)] /\ allowed \in [Bucket -> Seq(Nat)] /\ told \in [Bucket -> Nat]
    /\ \A b \in Bucket : Len(hits[b]) <= MaxHits[b]

Init ==
    /\ now = 1
    /\ hits = [b \in Bucket |-> <<>>] /\ allowed = hits
    /\ told = [b \in Bucket |-> 0]

Cutoff == now - Window
\* How many hits are popped from the left: those before the first that counts
Popped(q) == CHOOSE n \in 0..Len(q) : /\ \A i \in 1..n : q[i] < Cutoff
                                      /\ n < Len(q) => q[n + 1] >= Cutoff
Recent(q) == SubSeq(q, Popped(q) + 1, Len(q))
Lets(b) == Len(Recent(hits[b])) < MaxHits[b]

\* Mutant: a bucket counts as old when its first hit does.
AgedByFirst(h, b) == h[b] = <<>> \/ Head(h[b]) < Cutoff

Aged(h, b) == h[b] = <<>> \/ Last(h[b]) < Cutoff
Kept(h) == IF Cardinality({b \in Bucket : h[b] # <<>>}) < Large THEN h
           ELSE [b \in Bucket |-> IF Aged(h, b) THEN <<>> ELSE h[b]]

\* check, of all the buckets bs: a bucket that refuses does not count the hit, one that
\* lets it through counts it even if another refuses.
Hit(bs) ==
    LET h == [b \in Bucket |->
                IF b \notin bs THEN hits[b]
                ELSE IF Lets(b) THEN Append(Recent(hits[b]), now) ELSE Recent(hits[b])]
    IN hits' = IF \E b \in bs : Lets(b) THEN Kept(h) ELSE h

RetryAfter(b) == Head(Recent(hits[b])) + Window + 1 \* int(retry) + 1 seconds from now

\* login asks both of its limiters.
Attempt(ip, user) ==
    LET bs == {<<ip, AnyUser>>, <<ip, user>>} IN
    /\ Hit(bs)
    /\ allowed' = [b \in Bucket |-> IF b \in bs /\ Lets(b) THEN Append(allowed[b], now) ELSE allowed[b]]
    /\ told' = [b \in Bucket |-> IF b \notin bs THEN told[b]
                                 ELSE IF Lets(b) THEN 0 ELSE RetryAfter(b)]
    /\ UNCHANGED now

Tick == now < Horizon /\ now' = now + 1 /\ UNCHANGED <<hits, allowed, told>>

Next == Tick \/ \E ip \in Ip, u \in User : Attempt(ip, u)
Spec == Init /\ [][Next]_vars

-----------------------------------------------------------------------------

\* However the attempts come and whatever is dropped, no window of time holds more
\* than max_hits of a bucket.
AtMostPerWindow ==
    \A b \in Bucket : \A i \in 1..Len(allowed[b]) - MaxHits[b] :
        allowed[b][i + MaxHits[b]] - allowed[b][i] > Window

\* Who comes back at the time a refusal named is let through, unless somebody else was
\* in between: refused attempts do not put it off.
RetryIsEnough == \A b \in Bucket : told[b] # 0 /\ now >= told[b] => Lets(b)
==============================================================================
