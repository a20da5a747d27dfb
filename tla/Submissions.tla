----------------------------- MODULE Submissions -----------------------------
(***************************************************************************)
(* The limiter of the cloud web service (cloud/app.py:                     *)
(* IdentityRateLimiter), which create_job and import_csv ask before they   *)
(* submit.  It lives and is forgotten with the process.                    *)
(***************************************************************************)
EXTENDS Integers, FiniteSets, Sequences

CONSTANTS
  Identities,     \* subjects of verified access assertions
  Limit,          \* submissions an identity may make ...
  WindowSeconds,  \* ... in a window of this length
  LastSecond      \* bound of the model: the clock stops here

ASSUME LimiterAssumption ==
  /\ Limit \in Nat \ {0} /\ WindowSeconds \in Nat \ {0} /\ LastSecond \in Nat

VARIABLES
  now,       \* time.monotonic
  events,    \* identity -> times of its submissions still remembered
  admitted,  \* history: identity -> times of all its submissions
  refused    \* history: identity -> times at which it was refused

limiterVars == <<now, events, admitted, refused>>

LimiterInit ==
  /\ now = 0
  /\ events = [i \in Identities |-> <<>>]
  /\ admitted = [i \in Identities |-> <<>>]
  /\ refused = [i \in Identities |-> {}]

Tick == now < LastSecond /\ now' = now + 1 /\ UNCHANGED <<events, admitted, refused>>

\* What is left when everything up to a second is dropped from the front.
DropUpTo(times, cutoff) ==
  LET dropped == CHOOSE n \in 0 .. Len(times) :
                   /\ \A k \in 1 .. n : times[k] <= cutoff
                   /\ n < Len(times) => times[n + 1] > cutoff
  IN  SubSeq(times, dropped + 1, Len(times))

\* Mutant: a submission exactly one window old still counts.
RecallTooLong(times) == DropUpTo(times, now - WindowSeconds - 1)

\* Events at or before the cutoff are dropped from the front.
Recall(times) == DropUpTo(times, now - WindowSeconds)

\* check: admit and remember, or refuse.  A request is counted here even if it
\* is found invalid afterwards.
Submit(i) ==
  LET recalled == Recall(events[i]) IN
    IF Len(recalled) >= Limit
      THEN /\ events' = [events EXCEPT ![i] = recalled]
           /\ refused' = [refused EXCEPT ![i] = @ \union {now}]
           /\ UNCHANGED <<now, admitted>>
      ELSE /\ events' = [events EXCEPT ![i] = Append(recalled, now)]
           /\ admitted' = [admitted EXCEPT ![i] = Append(@, now)]
           /\ UNCHANGED <<now, refused>>

LimiterNext == Tick \/ \E i \in Identities : Submit(i)

LimiterSpec == LimiterInit /\ [][LimiterNext]_limiterVars

\* Submissions of an identity in the window that ends with second t.
InWindow(i, t) ==
  Cardinality({ k \in DOMAIN admitted[i] :
                  t - WindowSeconds < admitted[i][k] /\ admitted[i][k] <= t })

\* No identity submits more than the limit within any window, and it is refused
\* only when it has used the limit up in the window that ends at that moment,
\* whatever the others do (cloud/app.py: IdentityRateLimiter.check).
WithinLimit ==
  \A i \in Identities :
    /\ \A t \in 0..now : InWindow(i, t) <= Limit
    /\ \A t \in refused[i] : InWindow(i, t) = Limit
=============================================================================
