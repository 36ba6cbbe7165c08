---------------------------- MODULE RateLimiter ----------------------------
(***************************************************************************)
(* The token bucket in front of the control plane's API                    *)
(* (internal/server/api/middleware/ratelimit.go), for one client.          *)
(*                                                                         *)
(* allow and cleanup hold the mutex from beginning to end, so each is one  *)
(* step, and the buckets of two clients do not touch each other.  Time is  *)
(* counted in any unit.  A window, opened at any time, counts the requests *)
(* admitted from then on; only the properties read it.                     *)
(***************************************************************************)
EXTENDS Integers

CONSTANTS
    Rate, Interval, Burst,  \* the arguments of NewRateLimiter
    Cutoff,                 \* age at which cleanup forgets a client
    MaxTime                 \* bound: time

\* The router's limiter, of 100 a second, 200 at once and ten minutes, satisfies
\* this: whoever is forgotten would have had a full bucket anyhow.
ASSUME LimiterAssumption ==
    /\ Rate \in Nat \ {0} /\ Interval \in Nat \ {0} /\ Burst \in Nat \ {0}
    /\ Cutoff \in Nat /\ MaxTime \in Nat
    /\ Burst <= Rate * (Cutoff \div Interval)

VARIABLES
    now,
    known,          \* the client has a bucket in visitors
    tokens,         \* of its bucket, or of the one it had
    lastRefill,
    sinceRefill,    \* requests admitted since the last refill
    windowStart,    \* -1 until the window opens
    inWindow        \* requests admitted in the window

bucket == <<known, tokens, lastRefill>>
limiterVars == <<now, bucket, sinceRefill, windowStart, inWindow>>

LimiterInit ==
    /\ now = 0
    /\ known = FALSE
    /\ tokens = 0 /\ lastRefill = 0
    /\ sinceRefill = 0
    /\ windowStart = -1 /\ inWindow = 0

TimePasses ==
    /\ now < MaxTime
    /\ now' \in now + 1 .. MaxTime
    /\ UNCHANGED <<bucket, sinceRefill, windowStart, inWindow>>

OpenWindow ==
    /\ windowStart = -1
    /\ windowStart' = now
    /\ UNCHANGED <<now, bucket, sinceRefill, inWindow>>

\* The request is counted where a window is open.
Admitted ==
    /\ inWindow' = IF windowStart = -1 THEN inWindow ELSE inWindow + 1
    /\ UNCHANGED <<now, windowStart>>

\* The first request of a client.
NewVisitor ==
    /\ ~known
    /\ known' = TRUE
    /\ tokens' = Burst - 1
    /\ lastRefill' = now
    /\ sinceRefill' = 1
    /\ Admitted

RefillsRoundedUp == (now - lastRefill + Interval - 1) \div Interval

RefillsNone == 0

\* int(elapsed / rl.interval)
Refills == (now - lastRefill) \div Interval

AtMostBurst(n) == IF n > Burst THEN Burst ELSE n

\* What the bucket holds once it is refilled.
Available == IF Refills > 0 THEN AtMostBurst(tokens + Refills * Rate) ELSE tokens

Refilled == lastRefill' = IF Refills > 0 THEN now ELSE lastRefill

\* A known client with a token left.
Allow ==
    /\ known
    /\ Available > 0
    /\ Refilled
    /\ tokens' = Available - 1
    /\ sinceRefill' = IF Refills > 0 THEN 1 ELSE sinceRefill + 1
    /\ UNCHANGED known
    /\ Admitted

\* 429: nothing of it is counted.
Refuse ==
    /\ known
    /\ Available <= 0
    /\ Refilled
    /\ tokens' = Available
    /\ sinceRefill' = IF Refills > 0 THEN 0 ELSE sinceRefill
    /\ UNCHANGED <<now, known, windowStart, inWindow>>

\* A pass of cleanup, whenever its sleep is over.
Cleanup ==
    /\ known
    /\ lastRefill < now - Cutoff
    /\ known' = FALSE
    /\ UNCHANGED <<now, tokens, lastRefill, sinceRefill, windowStart, inWindow>>

LimiterNext ==
    TimePasses \/ OpenWindow \/ NewVisitor \/ Allow \/ Refuse \/ Cleanup

LimiterSpec == LimiterInit /\ [][LimiterNext]_limiterVars

-----------------------------------------------------------------------------
(* Correctness.  RefillsRoundedUp and RefillsNone are regressions of        *)
(* Refills; no specification uses them.                                     *)

\* No window of any length lets more through than the burst and the refills that
\* fit into it, one more for the refill under way when it opens: neither the
\* rounding, nor a client that is forgotten and comes back, hands out more.
AdmittedWithinRate ==
    windowStart # -1 =>
        inWindow <= Burst + Rate * ((now - windowStart) \div Interval + 1)

\* The rounding never starves a client: a request would be refused only if at least
\* as many as one refill brings were admitted in the interval before it.
RefusedOnlyAtRate ==
    known /\ Available <= 0 =>
        /\ now - lastRefill < Interval
        /\ sinceRefill >= AtMostBurst(Rate)
=============================================================================
