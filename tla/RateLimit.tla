----------------------------- MODULE RateLimit -----------------------------
(***************************************************************************)
(* workspace.RateLimiter: how many uploads one caller is allowed within a  *)
(* window that slides with the clock.  The limiter keeps the moments of    *)
(* the uploads it let pass; here it keeps their numbers.  check reads the  *)
(* clock before it takes the lock; callers on the event loop, as uploads   *)
(* are, do both in one step.                                               *)
(***************************************************************************)
EXTENDS Integers, Sequences, FiniteSets

CONSTANTS
  Callers,
  Limit,      \* RATE_LIMIT_UPLOADS
  Window      \* RATE_WINDOW_SECONDS

ASSUME LimitAssumption == Limit \in Nat \ {0} /\ Window \in Nat \ {0}

VARIABLES
  clock,
  passed,     \* Callers -> when each upload let pass was made (history)
  seen        \* Callers -> the numbers of those the limiter remembers

limitVars == <<clock, passed, seen>>

LimitTypeOK ==
  /\ clock \in Nat
  /\ passed \in [Callers -> Seq(Nat)]
  /\ seen \in [Callers -> SUBSET Nat]

LimitInit ==
  /\ clock = 0
  /\ passed = [c \in Callers |-> <<>>]
  /\ seen = [c \in Callers |-> {}]

\* Mutant: the window starts with the caller's first upload and does not slide
\* (the class's docstring calls it a fixed window counter).
RecentFixed(c) ==
  {i \in seen[c] : clock \div Window = passed[c][i] \div Window}

Recent(c) == {i \in seen[c] : clock - passed[c][i] < Window}

Allowed(c) == Cardinality(Recent(c)) < Limit

Pass(c) ==
  /\ Allowed(c)
  /\ passed' = [passed EXCEPT ![c] = Append(@, clock)]
  /\ seen' = [seen EXCEPT ![c] = Recent(c) \cup {Len(passed[c]) + 1}]
  /\ UNCHANGED clock

\* RateLimited is raised, and what is out of the window is forgotten all the same.
Refuse(c) ==
  /\ ~Allowed(c)
  /\ seen' = [seen EXCEPT ![c] = Recent(c)]
  /\ UNCHANGED <<clock, passed>>

Tick == clock' = clock + 1 /\ UNCHANGED <<passed, seen>>

LimitNext == Tick \/ \E c \in Callers : Pass(c) \/ Refuse(c)

LimitSpec == LimitInit /\ [][LimitNext]_limitVars

\* No Limit + 1 uploads of one caller fall within one window, wherever the window
\* is laid: the limit at its boundary (RateLimiter.check, workspace.py).
Paced ==
  \A c \in Callers : \A i \in 1..(Len(passed[c]) - Limit) :
    passed[c][i + Limit] - passed[c][i] >= Window
=============================================================================
