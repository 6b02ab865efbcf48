---------------------------- MODULE SlidingWindow ----------------------------
(***************************************************************************)
(* What the rate limiter promises, with nothing forgotten.  Every admitted *)
(* query of a client stays in `log' for ever.  A check is decided for the  *)
(* client it was asked about and as of one instant between the call and    *)
(* the answer: it is admitted exactly when fewer than MaxQps queries of    *)
(* that client were admitted in the Window units before that instant.      *)
(* RateLimiter, which prunes its vectors and deletes whole clients,        *)
(* implements this specification.                                          *)
(***************************************************************************)
EXTENDS Integers, FiniteSets

CONSTANTS Clients, Tasks, None, MaxQps, Window, MaxTime

VARIABLES
  now,      \* the clock
  log,      \* [Clients -> set of admission stamps]
  granted,  \* [Clients -> how many queries were admitted], the next stamp's id
  asked,    \* [Tasks -> the client the task's check is about, None between checks]
  called,   \* [Tasks -> when that check was called, 0 between checks]
  verdict   \* [Tasks -> the answer of the task's latest check]

wvars == <<now, log, granted, asked, called, verdict>>

\* The admissions of c that a check made at time `at' has to count.
InWindow(c, at) == {s \in log[c] : at - s.at < Window}

Init ==
  /\ now = 0
  /\ log = [c \in Clients |-> {}]
  /\ granted = [c \in Clients |-> 0]
  /\ asked = [t \in Tasks |-> None]
  /\ called = [t \in Tasks |-> 0]
  /\ verdict = [t \in Tasks |-> "none"]

Tick ==
  /\ now < MaxTime
  /\ now' = now + 1
  /\ UNCHANGED <<log, granted, asked, called, verdict>>

Start(t, c) ==
  /\ asked[t] = None
  /\ asked' = [asked EXCEPT ![t] = c]
  /\ called' = [called EXCEPT ![t] = now]
  /\ verdict' = [verdict EXCEPT ![t] = "none"]
  /\ UNCHANGED <<now, log, granted>>

\* The check of t may be decided as of `at': an instant of the call, and none
\* before an admission of its client that was already made.
Decidable(t, at) ==
  /\ asked[t] # None
  /\ called[t] <= at /\ at <= now
  /\ \A s \in log[asked[t]] : s.at <= at

Answer(t, v) ==
  /\ asked' = [asked EXCEPT ![t] = None]
  /\ called' = [called EXCEPT ![t] = 0]
  /\ verdict' = [verdict EXCEPT ![t] = v]

Admit(t, at) ==
  /\ Decidable(t, at)
  /\ Cardinality(InWindow(asked[t], at)) < MaxQps
  /\ log' = [log EXCEPT ![asked[t]] = @ \cup {[at |-> at, id |-> granted[asked[t]]]}]
  /\ granted' = [granted EXCEPT ![asked[t]] = @ + 1]
  /\ Answer(t, "allowed")
  /\ now' = now

Refuse(t, at) ==
  /\ Decidable(t, at)
  /\ Cardinality(InWindow(asked[t], at)) >= MaxQps
  /\ Answer(t, "limited")
  /\ UNCHANGED <<now, log, granted>>

Next ==
  \/ Tick
  \/ \E t \in Tasks :
       \/ \E c \in Clients : Start(t, c)
       \/ \E at \in 0 .. now : Admit(t, at) \/ Refuse(t, at)

Spec == Init /\ [][Next]_wvars
=============================================================================
