----------------------------- MODULE RateLimiter -----------------------------
(***************************************************************************)
(* The token bucket of one agent (game-server/src/rate-limiter.ts).         *)
(* tryConsume awaits the store, so calls overlap: what the first part of a  *)
(* call reads is a bucket shared by reference, or nothing yet, and then the *)
(* call makes a bucket of its own.  From the await on a call is one step.   *)
(* A bucket is named after the call that made it; a tick is the time of     *)
(* RefillRate tokens.                                                       *)
(***************************************************************************)
EXTENDS Integers, FiniteSetsExt

CONSTANTS
  Requests,   \* the calls of tryConsume for the agent
  NoBucket,
  MaxTokens, RefillRate,  \* the agent's limit
  MaxTicks    \* bound: how long it lasts

ASSUME RateAssumption ==
  NoBucket \notin Requests /\ MaxTokens \in Nat \ {0} /\ RefillRate \in Nat /\ MaxTicks \in Nat

VARIABLES
  ticks,      \* Date.now()
  inStore,    \* the bucket in the store
  got,        \* the bucket a call has read, while it awaits
  asking,     \* the calls that are awaiting the store
  tokens, lastRefill,   \* the buckets
  allowedAt   \* history: when each call that was allowed was allowed

rateVars == <<ticks, inStore, got, asking, tokens, lastRefill, allowedAt>>

\* The calls that have made a bucket, those that were allowed.
Buckets == DOMAIN tokens

Allowed == DOMAIN allowedAt

RateInit ==
  /\ ticks = 0
  /\ inStore = NoBucket
  /\ got = [r \in Requests |-> NoBucket]
  /\ asking = {}
  /\ tokens = <<>>
  /\ lastRefill = <<>>
  /\ allowedAt = <<>>

Tick ==
  /\ ticks < MaxTicks
  /\ ticks' = ticks + 1
  /\ UNCHANGED <<inStore, got, asking, tokens, lastRefill, allowedAt>>

\* tryConsume up to its first await.
Ask(r) ==
  /\ asking' = asking \cup {r}
  /\ got' = [got EXCEPT ![r] = inStore]
  /\ UNCHANGED <<ticks, inStore, tokens, lastRefill, allowedAt>>

\* f with the value v for x, which may be new.
With(f, x, v) == [y \in DOMAIN f \cup {x} |-> IF y = x THEN v ELSE f[y]]

RefilledForEver(b) == tokens[b] + (ticks - lastRefill[b]) * RefillRate

Refilled(b) ==
  LET refill == tokens[b] + (ticks - lastRefill[b]) * RefillRate
  IN  IF refill < MaxTokens THEN refill ELSE MaxTokens

\* The bucket a call takes from: the one it has read, or its own.
BucketOf(r) == IF got[r] = NoBucket THEN r ELSE got[r]

\* The rest of tryConsume, with the store's set.
Consume(r) ==
  LET b == BucketOf(r)
      held == IF got[r] = NoBucket THEN MaxTokens ELSE Refilled(b)
      allowed == held >= 1
  IN  /\ tokens' = With(tokens, b, IF allowed THEN held - 1 ELSE held)
      /\ lastRefill' = With(lastRefill, b, ticks)
      /\ inStore' = b
      /\ asking' = asking \ {r}
      /\ allowedAt' = IF allowed THEN With(allowedAt, r, ticks) ELSE allowedAt
      /\ UNCHANGED <<ticks, got>>

RateNext ==
  \/ Tick
  \/ \E r \in Requests \ (asking \cup Allowed \cup Buckets) : Ask(r)
  \/ \E r \in asking : Consume(r)

RateSpec == RateInit /\ [][RateNext]_rateVars

-----------------------------------------------------------------------------
\* The calls that were allowed from a moment on, those of them that took a bucket's
\* tokens, and what the limit says of a stretch of time.
AllowedSince(from) == {r \in Allowed : allowedAt[r] >= from}

TakenSince(b, from) == {r \in AllowedSince(from) : BucketOf(r) = b}

Limit(from) == MaxTokens + (ticks - from) * RefillRate

\* A bucket keeps to the limit in any stretch of time, however the calls overlap that
\* share it, read its tokens before others took them and put it back after others.
BucketKeepsLimit == \A b \in Buckets, from \in 0..ticks :
  Cardinality(TakenSince(b, from)) <= Limit(from)

\* SKILL.md: "Don't exceed rate limits -- 10 actions/sec".  The agent keeps to the
\* limit, not just each of the buckets that its overlapping first calls make.
AgentKeepsLimit == \A from \in 0..ticks : Cardinality(AllowedSince(from)) <= Limit(from)
=============================================================================
