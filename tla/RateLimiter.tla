----------------------------- MODULE RateLimiter -----------------------------
(***************************************************************************)
(* The per-client rate limiter (ratelimit.rs).  One Mutex guards the map   *)
(* from client address to the Vec of recent query times.  A check locks    *)
(* the Mutex, sometimes sweeps the whole map, samples the clock, prunes    *)
(* the client's Vec and decides.  The clock is sampled up to four times in *)
(* one check and advances between the samples, so every sample is a step.  *)
(*                                                                         *)
(* A Vec<Instant> is a set of stamps: its order is never used, and `id'    *)
(* keeps two queries of the same instant apart.                            *)
(***************************************************************************)
EXTENDS Integers, FiniteSets

CONSTANTS
  Clients,          \* source addresses
  Tasks,            \* tokio tasks that call the limiter
  None,             \* no task, no address
  MaxQps,           \* max_qps; 0 is legal and refuses everything
  Window,           \* window (1 s in the code)
  CleanupInterval,  \* 60 s in the code
  MaxTime           \* bound on the clock, for TLC

ASSUME RateAssumption ==
  /\ MaxQps \in Nat
  /\ Window \in Nat \ {0}
  /\ CleanupInterval \in Nat
  /\ MaxTime \in Nat
  /\ None \notin Tasks \cup Clients

VARIABLES
  now,           \* Instant::now()
  holder,        \* the task that holds the Mutex, or None
  pc,            \* [Tasks -> control point in check_rate_limit]
  addr,          \* [Tasks -> argument of the current call]
  sample,        \* [Tasks -> local variable now]
  clients,       \* the HashMap: a function whose domain is the tracked clients
  last_cleanup,
  verdict,       \* [Tasks -> value returned by the latest call]
  admitted,      \* history: every stamp ever pushed, per client
  grants,        \* history: stamps pushed per client, the id of its next one
  called         \* history: [Tasks -> when the current call began, 0 if none]

inner == <<clients, last_cleanup>>
history == <<admitted, grants>>
vars == <<now, holder, pc, addr, sample, inner, verdict, history, called>>

Stamp == [at : Nat, id : Nat]
Points == {"idle", "lock", "elapsed", "cleanup", "cleaned", "sample", "decide"}
HoldsLock == Points \ {"idle", "lock"}

\* Slip: a query exactly one window old still counts.
FreshInclusive(stamps, at) == {s \in stamps : at - s.at <= Window}

\* now.duration_since(timestamp) < window
Fresh(stamps, at) == {s \in stamps : at - s.at < Window}

\* entry(addr).or_insert_with(empty)
Queries(c) == IF c \in DOMAIN clients THEN clients[c] ELSE {}

Put(c, stamps) ==
  [d \in DOMAIN clients \cup {c} |-> IF d = c THEN stamps ELSE clients[d]]

Goto(t, point) == pc' = [pc EXCEPT ![t] = point]

-----------------------------------------------------------------------------
Init ==
  /\ now = 0
  /\ holder = None
  /\ pc = [t \in Tasks |-> "idle"]
  /\ addr = [t \in Tasks |-> None]
  /\ sample = [t \in Tasks |-> 0]
  /\ clients = [c \in {} |-> {}]
  /\ last_cleanup = 0
  /\ verdict = [t \in Tasks |-> "none"]
  /\ admitted = [c \in Clients |-> {}]
  /\ grants = [c \in Clients |-> 0]
  /\ called = [t \in Tasks |-> 0]

Tick ==
  /\ now < MaxTime
  /\ now' = now + 1
  /\ UNCHANGED <<holder, pc, addr, sample, inner, verdict, history, called>>

Call(t, c) ==
  /\ pc[t] = "idle"
  /\ Goto(t, "lock")
  /\ addr' = [addr EXCEPT ![t] = c]
  /\ called' = [called EXCEPT ![t] = now]
  /\ verdict' = [verdict EXCEPT ![t] = "none"]
  /\ UNCHANGED <<now, holder, sample, inner, history>>

Lock(t) ==
  /\ pc[t] = "lock"
  /\ holder = None
  /\ holder' = t
  /\ Goto(t, "elapsed")
  /\ UNCHANGED <<now, addr, sample, inner, verdict, history, called>>

\* if inner.last_cleanup.elapsed() > 60 s
Elapsed(t) ==
  /\ pc[t] = "elapsed"
  /\ Goto(t, IF now - last_cleanup > CleanupInterval THEN "cleanup" ELSE "sample")
  /\ UNCHANGED <<now, holder, addr, sample, inner, verdict, history, called>>

\* Slip: sweeping forgets the stamps that are still in the window.
CleanupForgetsAll(t) ==
  /\ pc[t] = "cleanup"
  /\ clients' = [c \in {} |-> {}]
  /\ Goto(t, "cleaned")
  /\ UNCHANGED <<now, holder, addr, sample, last_cleanup, verdict, history, called>>

\* Prune every Vec, then drop the clients whose Vec is empty.
Cleanup(t) ==
  /\ pc[t] = "cleanup"
  /\ clients' = [c \in {d \in DOMAIN clients : Fresh(clients[d], now) # {}}
                   |-> Fresh(clients[c], now)]
  /\ Goto(t, "cleaned")
  /\ UNCHANGED <<now, holder, addr, sample, last_cleanup, verdict, history, called>>

\* Slip: the time of the next sweep is stored instead of the last one.
SetNextCleanup(t) ==
  /\ pc[t] = "cleaned"
  /\ last_cleanup' = now + CleanupInterval
  /\ Goto(t, "sample")
  /\ UNCHANGED <<now, holder, addr, sample, clients, verdict, history, called>>

\* Slip: a loop instead of an if, and last_cleanup is never renewed.
CleanupAgain(t) ==
  /\ pc[t] = "cleaned"
  /\ Goto(t, "elapsed")
  /\ UNCHANGED <<now, holder, addr, sample, inner, verdict, history, called>>

SetLastCleanup(t) ==
  /\ pc[t] = "cleaned"
  /\ last_cleanup' = now
  /\ Goto(t, "sample")
  /\ UNCHANGED <<now, holder, addr, sample, clients, verdict, history, called>>

Sample(t) ==
  /\ pc[t] = "sample"
  /\ sample' = [sample EXCEPT ![t] = now]
  /\ Goto(t, "decide")
  /\ UNCHANGED <<now, holder, addr, inner, verdict, history, called>>

\* The retain of check_rate_limit, with the instant sampled before it.
Kept(t) == Fresh(Queries(addr[t]), sample[t])

\* The guard is dropped and the locals go out of scope.
Return(t) ==
  /\ holder' = None
  /\ Goto(t, "idle")
  /\ addr' = [addr EXCEPT ![t] = None]
  /\ sample' = [sample EXCEPT ![t] = 0]
  /\ called' = [called EXCEPT ![t] = 0]

Limited(t) ==
  /\ pc[t] = "decide"
  /\ Cardinality(Kept(t)) >= MaxQps
  /\ clients' = Put(addr[t], Kept(t))
  /\ verdict' = [verdict EXCEPT ![t] = "limited"]
  /\ Return(t)
  /\ UNCHANGED <<now, last_cleanup, history>>

\* Slip: the new stamp is pushed onto the Vec as it was before the retain.
AllowedUnpruned(t) ==
  /\ pc[t] = "decide"
  /\ Cardinality(Kept(t)) < MaxQps
  /\ LET stamp == [at |-> sample[t], id |-> grants[addr[t]]]
     IN  /\ clients' = Put(addr[t], Queries(addr[t]) \cup {stamp})
         /\ admitted' = [admitted EXCEPT ![addr[t]] = @ \cup {stamp}]
  /\ grants' = [grants EXCEPT ![addr[t]] = @ + 1]
  /\ verdict' = [verdict EXCEPT ![t] = "allowed"]
  /\ Return(t)
  /\ UNCHANGED <<now, last_cleanup>>

Allowed(t) ==
  /\ pc[t] = "decide"
  /\ Cardinality(Kept(t)) < MaxQps
  /\ LET stamp == [at |-> sample[t], id |-> grants[addr[t]]]
     IN  /\ clients' = Put(addr[t], Kept(t) \cup {stamp})
         /\ admitted' = [admitted EXCEPT ![addr[t]] = @ \cup {stamp}]
  /\ grants' = [grants EXCEPT ![addr[t]] = @ + 1]
  /\ verdict' = [verdict EXCEPT ![t] = "allowed"]
  /\ Return(t)
  /\ UNCHANGED <<now, last_cleanup>>

\* The steps a task takes while it holds the Mutex.
Critical(t) ==
  \/ Elapsed(t) \/ Cleanup(t) \/ SetLastCleanup(t)
  \/ Sample(t) \/ Limited(t) \/ Allowed(t)

Next ==
  \/ Tick
  \/ \E t \in Tasks :
       \/ \E c \in Clients : Call(t, c)
       \/ Lock(t)
       \/ Critical(t)

\* A task that holds the Mutex runs on: nothing inside the critical section
\* awaits, and std::sync::Mutex is not held across an await anywhere.
Fairness == \A t \in Tasks : WF_vars(Critical(t))

Spec == Init /\ [][Next]_vars /\ Fairness
-----------------------------------------------------------------------------
(* Properties *)

TypeOK ==
  /\ now \in Nat
  /\ holder \in Tasks \cup {None}
  /\ pc \in [Tasks -> Points]
  /\ addr \in [Tasks -> Clients \cup {None}]
  /\ sample \in [Tasks -> Nat]
  /\ DOMAIN clients \subseteq Clients
  /\ clients \in [DOMAIN clients -> SUBSET Stamp]
  /\ last_cleanup \in 0 .. now
  /\ verdict \in [Tasks -> {"none", "allowed", "limited"}]
  /\ admitted \in [Clients -> SUBSET Stamp]
  /\ grants \in [Clients -> Nat]
  /\ called \in [Tasks -> 0 .. now]

\* check_rate_limit never lets a client exceed its limit: in every interval of
\* length Window, wherever it starts, at most MaxQps of its queries were
\* admitted, although the stamps are pruned and whole clients forgotten.
WindowBound ==
  \A c \in Clients : \A from \in 0 .. now :
    Cardinality({s \in admitted[c] : from <= s.at /\ s.at < from + Window}) <= MaxQps

\* The Vec kept for one client never outgrows max_qps entries, so the memory
\* of a client is bounded however often it asks.
PerClientBound == \A c \in DOMAIN clients : Cardinality(clients[c]) <= MaxQps

\* The checks are exact both ways: each one is admitted or refused for its own
\* address, as of one instant between its call and its return, as if no
\* admission had ever been forgotten by retain or by cleanup.  A client that
\* was refused is served again as soon as its window has moved on.
Window_ == INSTANCE SlidingWindow WITH log <- admitted, granted <- grants, asked <- addr
ImplementsWindow == Window_!Init /\ [][Window_!Next]_(Window_!wvars)

\* The Mutex is always released again: no check keeps the other tasks out.
MutexReleased == []<>(holder = None)
=============================================================================
