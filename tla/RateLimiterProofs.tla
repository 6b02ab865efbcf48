-------------------------- MODULE RateLimiterProofs --------------------------
(***************************************************************************)
(* Proofs about RateLimiter for every number of clients and tasks, every   *)
(* limit, window and cleanup interval, and every clock bound.              *)
(***************************************************************************)
EXTENDS RateLimiter, FiniteSetTheorems, TLAPS

\* Only the holder of the Mutex is inside check_rate_limit's critical section.
LockInv == \A t \in Tasks : pc[t] \in HoldsLock <=> holder = t

\* A call in progress, and no other, has an address.
AddrInv ==
  \A t \in Tasks : IF pc[t] = "idle" THEN addr[t] = None ELSE addr[t] \in Clients

\* The instant of the decision lies in the call.
CallInv == \A t \in Tasks : pc[t] = "decide" => called[t] <= sample[t]

\* What was admitted was admitted in the past, and the ids are used up.
PastInv ==
  \A c \in Clients :
    /\ IsFiniteSet(admitted[c])
    /\ \A s \in admitted[c] : s.at <= now /\ s.id < grants[c]

\* The map holds nothing that was not admitted ...
StoredInv == \A c \in Clients : Queries(c) \subseteq admitted[c]

\* ... and has lost nothing that a check made at time `at' must count.
Complete(at) ==
  \A c \in Clients : \A s \in admitted[c] : at - s.at < Window => s \in Queries(c)

RetainedInv == Complete(now)

\* Between the sampling of the clock and the decision the clock may move on,
\* so the decision needs completeness at the sampled instant.
SampleInv ==
  \A t \in Tasks : pc[t] = "decide" =>
    /\ sample[t] <= now
    /\ \A c \in Clients : \A s \in admitted[c] : s.at <= sample[t]
    /\ Complete(sample[t])

IInv ==
  /\ TypeOK /\ LockInv /\ AddrInv /\ CallInv /\ PastInv /\ StoredInv
  /\ RetainedInv /\ SampleInv /\ PerClientBound /\ WindowBound
-----------------------------------------------------------------------------
\* The parts that relate the map to the admissions, which only Cleanup,
\* Limited and Allowed can disturb.
DataInv ==
  /\ PastInv /\ StoredInv /\ RetainedInv /\ SampleInv
  /\ PerClientBound /\ WindowBound

\* TypeOK, who is inside the critical section and with which address is
\* inductive by itself.
ControlInv == TypeOK /\ LockInv /\ AddrInv /\ CallInv

LEMMA InitInv == Init => IInv
<1> SUFFICES ASSUME Init PROVE IInv
  OBVIOUS
<1> USE RateAssumption DEF Init
<1>1. TypeOK
  BY DEF TypeOK, Points
<1>2. LockInv /\ AddrInv /\ CallInv
  BY DEF LockInv, AddrInv, CallInv, HoldsLock, Points
<1>3. PastInv
  BY FS_EmptySet DEF PastInv
<1>4. StoredInv /\ RetainedInv /\ SampleInv
  BY DEF StoredInv, RetainedInv, SampleInv, Complete, Queries
<1>5. PerClientBound
  BY DEF PerClientBound
<1>6. WindowBound
  <2> SUFFICES ASSUME NEW c \in Clients, NEW from \in 0 .. now
               PROVE  Cardinality({s \in admitted[c] : from <= s.at /\ s.at < from + Window}) <= MaxQps
    BY DEF WindowBound
  <2>1. {s \in admitted[c] : from <= s.at /\ s.at < from + Window} = {}
    OBVIOUS
  <2> QED BY <2>1, FS_EmptySet
<1> QED BY <1>1, <1>2, <1>3, <1>4, <1>5, <1>6 DEF IInv

\* Replacing one client's stamps keeps the map well typed.
LEMMA PutType ==
  ASSUME TypeOK, NEW c \in Clients, NEW S \in SUBSET Stamp
  PROVE  /\ DOMAIN Put(c, S) = DOMAIN clients \cup {c}
         /\ Put(c, S) \in [DOMAIN Put(c, S) -> SUBSET Stamp]
         /\ Put(c, S)[c] = S
         /\ \A d \in DOMAIN clients : d # c => Put(c, S)[d] = clients[d]
BY DEF Put, TypeOK

LEMMA KeptType ==
  ASSUME TypeOK, AddrInv, NEW t \in Tasks, pc[t] # "idle"
  PROVE  addr[t] \in Clients /\ Kept(t) \in SUBSET Stamp
BY DEF Kept, Fresh, Queries, TypeOK, AddrInv

LEMMA ControlStep == ControlInv /\ [Next]_vars => ControlInv'
<1> SUFFICES ASSUME ControlInv, [Next]_vars PROVE ControlInv'
  OBVIOUS
<1> USE RateAssumption DEF ControlInv
<1>1. CASE Tick
  BY <1>1 DEF Tick, TypeOK, LockInv, AddrInv, CallInv, inner, history
<1>2. ASSUME NEW t \in Tasks, NEW c \in Clients, Call(t, c) PROVE ControlInv'
  BY <1>2 DEF Call, Goto, TypeOK, LockInv, AddrInv, CallInv, inner, history, Points, HoldsLock
<1>3. ASSUME NEW t \in Tasks, Lock(t) PROVE ControlInv'
  BY <1>3 DEF Lock, Goto, TypeOK, LockInv, AddrInv, CallInv, inner, history, Points, HoldsLock
<1>4. ASSUME NEW t \in Tasks, Elapsed(t) PROVE ControlInv'
  BY <1>4 DEF Elapsed, Goto, TypeOK, LockInv, AddrInv, CallInv, inner, history, Points, HoldsLock
<1>5. ASSUME NEW t \in Tasks, Cleanup(t) PROVE ControlInv'
  <2>1. /\ DOMAIN clients' \subseteq Clients
        /\ clients' \in [DOMAIN clients' -> SUBSET Stamp]
    BY <1>5 DEF Cleanup, TypeOK, Fresh
  <2> QED
    BY <1>5, <2>1 DEF Cleanup, Goto, TypeOK, LockInv, AddrInv, CallInv, history, Points, HoldsLock
<1>6. ASSUME NEW t \in Tasks, SetLastCleanup(t) PROVE ControlInv'
  BY <1>6 DEF SetLastCleanup, Goto, TypeOK, LockInv, AddrInv, CallInv, history, Points, HoldsLock
<1>7. ASSUME NEW t \in Tasks, Sample(t) PROVE ControlInv'
  BY <1>7 DEF Sample, Goto, TypeOK, LockInv, AddrInv, CallInv, inner, history, Points, HoldsLock
<1>8. ASSUME NEW t \in Tasks, Limited(t) PROVE ControlInv'
  <2>1. addr[t] \in Clients /\ Kept(t) \in SUBSET Stamp
    BY <1>8, KeptType DEF Limited
  <2>2. /\ DOMAIN clients' \subseteq Clients
        /\ clients' \in [DOMAIN clients' -> SUBSET Stamp]
    <3>1. clients' = Put(addr[t], Kept(t)) /\ DOMAIN clients \subseteq Clients
      BY <1>8 DEF Limited, TypeOK
    <3>2. /\ DOMAIN Put(addr[t], Kept(t)) = DOMAIN clients \cup {addr[t]}
          /\ Put(addr[t], Kept(t)) \in [DOMAIN Put(addr[t], Kept(t)) -> SUBSET Stamp]
      BY <2>1, PutType
    <3> QED BY <2>1, <3>1, <3>2
  <2> QED
    BY <1>8, <2>2 DEF Limited, Return, Goto, TypeOK, LockInv, AddrInv, CallInv, history, Points, HoldsLock
<1>9. ASSUME NEW t \in Tasks, Allowed(t) PROVE ControlInv'
  <2> DEFINE stamp == [at |-> sample[t], id |-> grants[addr[t]]]
  <2>1. addr[t] \in Clients /\ Kept(t) \in SUBSET Stamp
    BY <1>9, KeptType DEF Allowed
  <2>2. stamp \in Stamp
    BY <2>1 DEF Stamp, TypeOK
  <2>3. /\ DOMAIN clients' \subseteq Clients
        /\ clients' \in [DOMAIN clients' -> SUBSET Stamp]
    <3>1. Kept(t) \cup {stamp} \in SUBSET Stamp
      BY <2>1, <2>2
    <3>2. clients' = Put(addr[t], Kept(t) \cup {stamp}) /\ DOMAIN clients \subseteq Clients
      BY <1>9 DEF Allowed, TypeOK
    <3>3. /\ DOMAIN Put(addr[t], Kept(t) \cup {stamp}) = DOMAIN clients \cup {addr[t]}
          /\ Put(addr[t], Kept(t) \cup {stamp})
               \in [DOMAIN Put(addr[t], Kept(t) \cup {stamp}) -> SUBSET Stamp]
      BY <2>1, <3>1, PutType
    <3> QED BY <2>1, <3>2, <3>3
  <2>4. admitted' \in [Clients -> SUBSET Stamp] /\ grants' \in [Clients -> Nat]
    BY <1>9, <2>1, <2>2 DEF Allowed, TypeOK
  <2>5. /\ now' = now /\ last_cleanup' = last_cleanup /\ holder' = None
        /\ pc' = [pc EXCEPT ![t] = "idle"]
        /\ addr' = [addr EXCEPT ![t] = None]
        /\ sample' = [sample EXCEPT ![t] = 0]
        /\ called' = [called EXCEPT ![t] = 0]
        /\ verdict' = [verdict EXCEPT ![t] = "allowed"]
        /\ pc[t] = "decide"
    BY <1>9 DEF Allowed, Return, Goto
  <2>6. TypeOK'
    BY <2>3, <2>4, <2>5 DEF TypeOK, Points
  <2> QED
    BY <2>5, <2>6 DEF TypeOK, LockInv, AddrInv, CallInv, Points, HoldsLock
<1>10. CASE UNCHANGED vars
  BY <1>10 DEF vars, TypeOK, LockInv, AddrInv, CallInv, inner, history
<1> QED
  BY <1>1, <1>2, <1>3, <1>4, <1>5, <1>6, <1>7, <1>8, <1>9, <1>10 DEF Next, Critical

\* Steps that touch neither the clock, the map nor the admissions.
LEMMA QuietStep ==
  ASSUME DataInv, UNCHANGED <<now, clients, admitted, grants, sample>>,
         \A t \in Tasks : pc'[t] = "decide" => pc[t] = "decide"
  PROVE  DataInv'
<1>1. PastInv' /\ StoredInv' /\ RetainedInv'
  BY DEF DataInv, PastInv, StoredInv, RetainedInv, Complete, Queries
<1>2. SampleInv'
  BY DEF DataInv, SampleInv, Complete, Queries
<1>3. PerClientBound' /\ WindowBound'
  BY DEF DataInv, PerClientBound, WindowBound
<1> QED BY <1>1, <1>2, <1>3 DEF DataInv

LEMMA TickStep == ASSUME IInv, Tick PROVE DataInv'
<1> USE RateAssumption
<1>1. /\ now \in Nat /\ now' = now + 1
      /\ UNCHANGED <<clients, admitted, grants, sample, pc>>
      /\ admitted \in [Clients -> SUBSET Stamp]
      /\ sample \in [Tasks -> Nat]
  BY DEF IInv, TypeOK, Tick, inner, history
<1>2. PastInv'
  BY <1>1 DEF IInv, PastInv, Stamp
<1>3. StoredInv' /\ RetainedInv'
  BY <1>1 DEF IInv, StoredInv, RetainedInv, Complete, Queries, Stamp
<1>4. SampleInv'
  BY <1>1 DEF IInv, SampleInv, Complete, Queries
<1>5. PerClientBound'
  BY <1>1 DEF IInv, PerClientBound
<1>6. WindowBound'
  <2> SUFFICES ASSUME NEW c \in Clients, NEW from \in 0 .. now'
               PROVE  Cardinality({s \in admitted[c] : from <= s.at /\ s.at < from + Window}) <= MaxQps
    BY <1>1 DEF WindowBound
  <2>1. CASE from \in 0 .. now
    BY <2>1 DEF IInv, WindowBound
  <2>2. CASE from = now + 1
    <3>1. {s \in admitted[c] : from <= s.at /\ s.at < from + Window} = {}
      BY <1>1, <2>2 DEF IInv, PastInv, Stamp
    <3> QED BY <3>1, FS_EmptySet
  <2> QED BY <1>1, <2>1, <2>2
<1> QED BY <1>2, <1>3, <1>4, <1>5, <1>6 DEF DataInv

LEMMA SampleStep == ASSUME IInv, NEW t \in Tasks, Sample(t) PROVE DataInv'
<1>1. /\ UNCHANGED <<now, clients, admitted, grants>>
      /\ sample' = [sample EXCEPT ![t] = now] /\ pc' = [pc EXCEPT ![t] = "decide"]
      /\ pc \in [Tasks -> Points] /\ sample \in [Tasks -> Nat] /\ now \in Nat
  BY DEF IInv, TypeOK, Sample, Goto, inner, history
<1>2. PastInv' /\ StoredInv' /\ RetainedInv'
  BY <1>1 DEF IInv, PastInv, StoredInv, RetainedInv, Complete, Queries
<1>3. SampleInv'
  <2> SUFFICES ASSUME NEW u \in Tasks, pc'[u] = "decide"
               PROVE  /\ sample'[u] <= now
                      /\ \A c \in Clients : \A s \in admitted[c] : s.at <= sample'[u]
                      /\ Complete(sample'[u])
    BY <1>1 DEF SampleInv, Complete, Queries
  <2>1. CASE u = t
    BY <1>1, <2>1 DEF IInv, PastInv, RetainedInv, Complete
  <2>2. CASE u # t
    BY <1>1, <2>2 DEF IInv, SampleInv
  <2> QED BY <2>1, <2>2
<1>4. PerClientBound' /\ WindowBound'
  BY <1>1 DEF IInv, PerClientBound, WindowBound
<1> QED BY <1>2, <1>3, <1>4 DEF DataInv

LEMMA CleanupStep == ASSUME IInv, NEW t \in Tasks, Cleanup(t) PROVE DataInv'
<1> USE RateAssumption
<1>1. /\ UNCHANGED <<now, admitted, grants, sample>>
      /\ pc' = [pc EXCEPT ![t] = "cleaned"] /\ pc[t] = "cleanup"
      /\ pc \in [Tasks -> Points]
      /\ now \in Nat /\ admitted \in [Clients -> SUBSET Stamp]
  BY DEF IInv, TypeOK, Cleanup, Goto, history
<1>2. \A c \in Clients : Queries(c)' = Fresh(Queries(c), now)
  BY DEF IInv, TypeOK, Cleanup, Queries, Fresh
<1>3. PastInv'
  BY <1>1 DEF IInv, PastInv
<1>4. StoredInv'
  BY <1>1, <1>2 DEF IInv, StoredInv, Fresh
<1>5. RetainedInv'
  <2> SUFFICES ASSUME NEW c \in Clients, NEW s \in admitted[c], now - s.at < Window
               PROVE  s \in Queries(c)'
    BY <1>1 DEF RetainedInv, Complete
  <2> QED BY <1>2 DEF IInv, RetainedInv, Complete, Fresh
<1>6. SampleInv'
  <2>1. \A u \in Tasks : pc'[u] # "decide"
    BY <1>1 DEF IInv, LockInv, HoldsLock, Points
  <2> QED BY <2>1 DEF SampleInv
<1>7. PerClientBound'
  <2> SUFFICES ASSUME NEW c \in DOMAIN clients' PROVE Cardinality(clients'[c]) <= MaxQps
    BY DEF PerClientBound
  <2>1. c \in DOMAIN clients /\ clients'[c] = Fresh(clients[c], now)
    BY DEF Cleanup
  <2>2. IsFiniteSet(clients[c]) /\ Cardinality(clients[c]) <= MaxQps
    <3>1. c \in Clients /\ clients[c] \subseteq admitted[c] /\ IsFiniteSet(admitted[c])
      BY <2>1 DEF IInv, TypeOK, StoredInv, Queries, PastInv
    <3> QED BY <2>1, <3>1, FS_Subset DEF IInv, PerClientBound
  <2>3. Fresh(clients[c], now) \subseteq clients[c]
    BY DEF Fresh
  <2>4. /\ Cardinality(clients'[c]) \in Nat /\ Cardinality(clients[c]) \in Nat
        /\ Cardinality(clients'[c]) <= Cardinality(clients[c])
    BY <2>1, <2>2, <2>3, FS_Subset, FS_CardinalityType
  <2> QED BY <2>2, <2>4
<1>8. WindowBound'
  BY <1>1 DEF IInv, WindowBound
<1> QED BY <1>3, <1>4, <1>5, <1>6, <1>7, <1>8 DEF DataInv

\* The heart of the argument: what survives the retain of check_rate_limit is
\* exactly the set of admissions in the window that ends at the sampled instant.
LEMMA KeptExact ==
  ASSUME IInv, NEW t \in Tasks, pc[t] = "decide"
  PROVE  /\ addr[t] \in Clients
         /\ Kept(t) = {s \in admitted[addr[t]] : sample[t] - s.at < Window}
         /\ IsFiniteSet(Kept(t))
<1>1. addr[t] \in Clients
  BY DEF IInv, AddrInv
<1>2. Kept(t) = {s \in admitted[addr[t]] : sample[t] - s.at < Window}
  BY <1>1 DEF IInv, SampleInv, Complete, StoredInv, Kept, Fresh
<1>3. IsFiniteSet(Kept(t))
  BY <1>1, <1>2, FS_Subset DEF IInv, PastInv
<1> QED BY <1>1, <1>2, <1>3

\* After a decision the client's Vec is `kept', every other one is untouched.
LEMMA PutQueries ==
  ASSUME TypeOK, NEW a \in Clients, NEW S \in SUBSET Stamp, clients' = Put(a, S)
  PROVE  /\ Queries(a)' = S
         /\ \A c \in Clients : c # a => Queries(c)' = Queries(c)
         /\ \A c \in DOMAIN clients' : clients'[c] = Queries(c)'
         /\ DOMAIN clients' \subseteq Clients
BY DEF Put, Queries, TypeOK

LEMMA LimitedStep == ASSUME IInv, NEW t \in Tasks, Limited(t) PROVE DataInv'
<1> USE RateAssumption
<1>0. PICK a \in Clients : a = addr[t]
  BY KeptExact DEF Limited
<1>1. /\ UNCHANGED <<now, admitted, grants>>
      /\ pc' = [pc EXCEPT ![t] = "idle"] /\ pc[t] = "decide"
      /\ clients' = Put(a, Kept(t))
      /\ pc \in [Tasks -> Points] /\ sample \in [Tasks -> Nat]
      /\ now \in Nat /\ admitted \in [Clients -> SUBSET Stamp]
  BY <1>0 DEF IInv, TypeOK, Limited, Return, Goto, history
<1>2. /\ a \in Clients /\ Kept(t) \in SUBSET Stamp /\ IsFiniteSet(Kept(t))
      /\ Kept(t) = {s \in admitted[a] : sample[t] - s.at < Window}
      /\ sample[t] \in Nat /\ sample[t] <= now
  <2>1. Kept(t) \in SUBSET Stamp
    BY <1>1, KeptType DEF IInv
  <2> QED BY <1>0, <1>1, <2>1, KeptExact DEF IInv, SampleInv
<1>3. /\ Queries(a)' = Kept(t)
      /\ \A c \in Clients : c # a => Queries(c)' = Queries(c)
      /\ \A c \in DOMAIN clients' : clients'[c] = Queries(c)'
      /\ DOMAIN clients' \subseteq Clients
  <2>1. TypeOK
    BY DEF IInv
  <2> QED BY <1>1, <1>2, <2>1, PutQueries
<1>4. \A u \in Tasks : pc'[u] # "decide"
  BY <1>1 DEF IInv, LockInv, HoldsLock, Points
<1>5. PastInv' /\ WindowBound'
  BY <1>1 DEF IInv, PastInv, WindowBound
<1>6. StoredInv'
  BY <1>1, <1>2, <1>3 DEF IInv, StoredInv
<1>7. RetainedInv'
  <2> SUFFICES ASSUME NEW c \in Clients, NEW s \in admitted[c], now - s.at < Window
               PROVE  s \in Queries(c)'
    BY <1>1 DEF RetainedInv, Complete
  <2>1. CASE c = a
    BY <1>1, <1>2, <1>3, <2>1 DEF Stamp
  <2>2. CASE c # a
    BY <1>3, <2>2 DEF IInv, RetainedInv, Complete
  <2> QED BY <2>1, <2>2
<1>8. SampleInv'
  BY <1>4 DEF SampleInv
<1>9. PerClientBound'
  <2> SUFFICES ASSUME NEW c \in DOMAIN clients' PROVE Cardinality(clients'[c]) <= MaxQps
    BY DEF PerClientBound
  <2>1. CASE c = a
    <3>1. c \in DOMAIN clients => Cardinality(clients[c]) <= MaxQps /\ Kept(t) \subseteq clients[c]
      BY <1>0, <2>1 DEF IInv, PerClientBound, Kept, Fresh, Queries
    <3>2. c \in DOMAIN clients => IsFiniteSet(clients[c])
      BY <1>2, <2>1, FS_Subset DEF IInv, StoredInv, PastInv, Queries
    <3>3. c \in DOMAIN clients => /\ Cardinality(Kept(t)) <= Cardinality(clients[c])
                                  /\ Cardinality(Kept(t)) \in Nat
                                  /\ Cardinality(clients[c]) \in Nat
      BY <1>2, <3>1, <3>2, FS_Subset, FS_CardinalityType
    <3>4. c \notin DOMAIN clients => Kept(t) = {}
      BY <1>0, <2>1 DEF Kept, Fresh, Queries
    <3>5. Cardinality(Kept(t)) <= MaxQps
      BY <3>1, <3>3, <3>4, FS_EmptySet
    <3> QED BY <1>2, <1>3, <2>1, <3>5
  <2>2. CASE c # a
    <3>1. c \in DOMAIN clients /\ clients'[c] = clients[c]
      BY <1>1, <2>2 DEF Put
    <3> QED BY <3>1 DEF IInv, PerClientBound
  <2> QED BY <2>1, <2>2
<1> QED BY <1>5, <1>6, <1>7, <1>8, <1>9 DEF DataInv

LEMMA AllowedStep == ASSUME IInv, NEW t \in Tasks, Allowed(t) PROVE DataInv'
<1> USE RateAssumption
<1>0. PICK a \in Clients : a = addr[t]
  BY KeptExact DEF Allowed
<1>1. PICK new \in Stamp : new = [at |-> sample[t], id |-> grants[a]]
  BY <1>0 DEF Stamp, IInv, TypeOK
<1>2. /\ now' = now
      /\ admitted' = [admitted EXCEPT ![a] = @ \cup {new}]
      /\ grants' = [grants EXCEPT ![a] = @ + 1]
      /\ clients' = Put(a, Kept(t) \cup {new})
      /\ pc' = [pc EXCEPT ![t] = "idle"] /\ pc[t] = "decide"
      /\ Cardinality(Kept(t)) < MaxQps
      /\ pc \in [Tasks -> Points] /\ sample \in [Tasks -> Nat] /\ now \in Nat
      /\ admitted \in [Clients -> SUBSET Stamp] /\ grants \in [Clients -> Nat]
  BY <1>0, <1>1 DEF IInv, TypeOK, Allowed, Return, Goto
<1>3. /\ Kept(t) \in SUBSET Stamp /\ IsFiniteSet(Kept(t))
      /\ Kept(t) = {s \in admitted[a] : sample[t] - s.at < Window}
      /\ sample[t] \in Nat /\ sample[t] <= now /\ new.at = sample[t]
      /\ \A s \in admitted[a] : s.at <= sample[t]
  <2>1. Kept(t) \in SUBSET Stamp
    BY <1>2, KeptType DEF IInv
  <2>2. sample[t] <= now /\ \A s \in admitted[a] : s.at <= sample[t]
    BY <1>2 DEF IInv, SampleInv
  <2> QED BY <1>0, <1>1, <1>2, <2>1, <2>2, KeptExact
<1>4. /\ Queries(a)' = Kept(t) \cup {new}
      /\ \A c \in Clients : c # a => Queries(c)' = Queries(c)
      /\ \A c \in DOMAIN clients' : clients'[c] = Queries(c)'
      /\ DOMAIN clients' \subseteq Clients
  <2>1. TypeOK /\ Kept(t) \cup {new} \in SUBSET Stamp
    BY <1>3 DEF IInv
  <2> QED BY <1>2, <2>1, PutQueries
<1>5. \A u \in Tasks : pc'[u] # "decide"
  BY <1>2 DEF IInv, LockInv, HoldsLock, Points
<1>6. /\ admitted'[a] = admitted[a] \cup {new}
      /\ \A c \in Clients : c # a => admitted'[c] = admitted[c]
  BY <1>2
<1>7. Cardinality(Kept(t)) \in Nat /\ Cardinality(Kept(t) \cup {new}) <= MaxQps
      /\ IsFiniteSet(Kept(t) \cup {new}) /\ Cardinality(Kept(t) \cup {new}) \in Nat
  <2>1. /\ Cardinality(Kept(t)) \in Nat
        /\ IsFiniteSet(Kept(t) \cup {new})
        /\ Cardinality(Kept(t) \cup {new}) \in Nat
        /\ Cardinality(Kept(t) \cup {new}) <= Cardinality(Kept(t)) + 1
    <3>1. /\ IsFiniteSet(Kept(t) \cup {new})
          /\ Cardinality(Kept(t) \cup {new}) =
               IF new \in Kept(t) THEN Cardinality(Kept(t)) ELSE Cardinality(Kept(t)) + 1
      BY <1>3, FS_AddElement
    <3>2. Cardinality(Kept(t)) \in Nat
      BY <1>3, FS_CardinalityType
    <3> QED BY <3>1, <3>2
  <2> QED BY <1>2, <2>1
<1>8. PastInv'
  <2> SUFFICES ASSUME NEW c \in Clients
               PROVE  /\ IsFiniteSet(admitted'[c])
                      /\ \A s \in admitted'[c] : s.at <= now /\ s.id < grants'[c]
    BY <1>2 DEF PastInv
  <2>1. CASE c = a
    <3>1. IsFiniteSet(admitted'[c])
      BY <1>6, <2>1, FS_AddElement DEF IInv, PastInv
    <3>2. new.id < grants'[c] /\ new.at <= now
      BY <1>1, <1>2, <1>3, <2>1
    <3>3. \A s \in admitted[c] : s.at <= now /\ s.id < grants[c] /\ s.id \in Nat
      BY <1>2 DEF IInv, PastInv, Stamp
    <3>4. grants'[c] = grants[c] + 1 /\ grants[c] \in Nat
      BY <1>2, <2>1
    <3> QED BY <1>6, <2>1, <3>1, <3>2, <3>3, <3>4
  <2>2. CASE c # a
    BY <1>2, <1>6, <2>2 DEF IInv, PastInv
  <2> QED BY <2>1, <2>2
<1>9. StoredInv'
  <2> SUFFICES ASSUME NEW c \in Clients PROVE Queries(c)' \subseteq admitted'[c]
    BY DEF StoredInv
  <2>1. CASE c = a
    BY <1>3, <1>4, <1>6, <2>1
  <2>2. CASE c # a
    BY <1>4, <1>6, <2>2 DEF IInv, StoredInv
  <2> QED BY <2>1, <2>2
<1>10. RetainedInv'
  <2> SUFFICES ASSUME NEW c \in Clients, NEW s \in admitted'[c], now - s.at < Window
               PROVE  s \in Queries(c)'
    BY <1>2 DEF RetainedInv, Complete
  <2>1. CASE c = a
    <3>1. CASE s = new
      BY <1>4, <2>1, <3>1
    <3>2. CASE s \in admitted[a]
      <4>1. s.at \in Nat
        BY <1>2, <3>2 DEF Stamp
      <4>2. sample[t] - s.at < Window
        BY <1>2, <1>3, <4>1
      <4> QED BY <1>3, <1>4, <2>1, <3>2, <4>2
    <3> QED BY <1>6, <2>1, <3>1, <3>2
  <2>2. CASE c # a
    BY <1>4, <1>6, <2>2 DEF IInv, RetainedInv, Complete
  <2> QED BY <2>1, <2>2
<1>11. SampleInv'
  BY <1>5 DEF SampleInv
<1>12. PerClientBound'
  <2> SUFFICES ASSUME NEW c \in DOMAIN clients' PROVE Cardinality(clients'[c]) <= MaxQps
    BY DEF PerClientBound
  <2>1. CASE c = a
    BY <1>4, <1>7, <2>1
  <2>2. CASE c # a
    <3>1. c \in DOMAIN clients /\ clients'[c] = clients[c]
      BY <1>2, <2>2 DEF Put
    <3> QED BY <3>1 DEF IInv, PerClientBound
  <2> QED BY <2>1, <2>2
<1>13. WindowBound'
  <2> SUFFICES ASSUME NEW c \in Clients, NEW from \in 0 .. now
               PROVE  Cardinality({s \in admitted'[c] : from <= s.at /\ s.at < from + Window}) <= MaxQps
    BY <1>2 DEF WindowBound
  <2> DEFINE Old == {s \in admitted[c] : from <= s.at /\ s.at < from + Window}
             New == {s \in admitted'[c] : from <= s.at /\ s.at < from + Window}
  <2>1. Cardinality(Old) <= MaxQps
    BY DEF IInv, WindowBound
  <2>2. CASE c # a \/ ~(from <= new.at /\ new.at < from + Window)
    <3>1. New = Old
      BY <1>6, <2>2
    <3> QED BY <2>1, <3>1
  <2>3. CASE c = a /\ from <= new.at /\ new.at < from + Window
    <3>1. New \subseteq Kept(t) \cup {new}
      <4> SUFFICES ASSUME NEW s \in New, s # new PROVE s \in Kept(t)
        OBVIOUS
      <4>1. s \in admitted[a] /\ s.at \in Nat /\ from <= s.at
        BY <1>2, <1>6, <2>3 DEF Stamp
      <4>2. sample[t] - s.at < Window
        BY <1>2, <1>3, <2>3, <4>1
      <4> QED BY <1>3, <4>1, <4>2
    <3>2. Cardinality(New) <= Cardinality(Kept(t) \cup {new}) /\ Cardinality(New) \in Nat
      BY <1>7, <3>1, FS_Subset, FS_CardinalityType
    <3> QED BY <1>7, <3>2
  <2> QED BY <2>2, <2>3
<1> QED BY <1>8, <1>9, <1>10, <1>11, <1>12, <1>13 DEF DataInv

LEMMA InvStep == IInv /\ [Next]_vars => IInv'
<1> SUFFICES ASSUME IInv, [Next]_vars PROVE IInv'
  OBVIOUS
<1>1. ControlInv'
  BY ControlStep DEF IInv, ControlInv
<1>2. DataInv /\ pc \in [Tasks -> Points]
  BY DEF IInv, DataInv, TypeOK
<1>3. DataInv'
  <2>1. CASE Tick
    BY <2>1, TickStep
  <2>2. ASSUME NEW t \in Tasks, NEW c \in Clients, Call(t, c) PROVE DataInv'
    BY <1>2, <2>2, QuietStep DEF Call, Goto, inner, history
  <2>3. ASSUME NEW t \in Tasks, Lock(t) PROVE DataInv'
    BY <1>2, <2>3, QuietStep DEF Lock, Goto, inner, history
  <2>4. ASSUME NEW t \in Tasks, Elapsed(t) PROVE DataInv'
    BY <1>2, <2>4, QuietStep DEF Elapsed, Goto, inner, history
  <2>5. ASSUME NEW t \in Tasks, SetLastCleanup(t) PROVE DataInv'
    BY <1>2, <2>5, QuietStep DEF SetLastCleanup, Goto, history
  <2>6. CASE UNCHANGED vars
    BY <1>2, <2>6, QuietStep DEF vars, inner, history
  <2> QED
    BY <2>1, <2>2, <2>3, <2>4, <2>5, <2>6, CleanupStep, SampleStep, LimitedStep, AllowedStep
       DEF Next, Critical
<1> QED BY <1>1, <1>3 DEF IInv, ControlInv, DataInv

\* The inductive invariant of the limiter holds in every reachable state.
LEMMA Invariance == Spec => []IInv
<1>1. Init => IInv
  BY InitInv
<1>2. IInv /\ [Next]_vars => IInv'
  BY InvStep
<1> QED BY <1>1, <1>2, PTL DEF Spec

\* Every variable of the limiter keeps its type; in particular no stamp, and
\* not last_cleanup, lies in the future.
THEOREM TypeCorrect == Spec => []TypeOK
<1>1. IInv => TypeOK
  BY DEF IInv
<1> QED BY <1>1, Invariance, PTL

\* check_rate_limit enforces max_qps in every interval of length window, for
\* any number of clients and tasks, any limit (0 included) and any clock.
THEOREM RateBound == Spec => []WindowBound
<1>1. IInv => WindowBound
  BY DEF IInv
<1> QED BY <1>1, Invariance, PTL

\* No client's Vec outgrows max_qps.
THEOREM MemoryBound == Spec => []PerClientBound
<1>1. IInv => PerClientBound
  BY DEF IInv
<1> QED BY <1>1, Invariance, PTL

-----------------------------------------------------------------------------
\* The limiter implements SlidingWindow: every check is admitted or refused
\* for its own client as of an instant of its own call, and forgetting stamps
\* and sweeping the map never change an answer.
THEOREM Refinement == Spec => ImplementsWindow
<1>1. Init => Window_!Init
  BY DEF Init, Window_!Init
<1>2. IInv /\ [Next]_vars => [Window_!Next]_(Window_!wvars)
  <2> SUFFICES ASSUME IInv, [Next]_vars PROVE [Window_!Next]_(Window_!wvars)
    OBVIOUS
  <2>1. CASE Tick
    BY <2>1 DEF Tick, Window_!Next, Window_!Tick, history
  <2>2. ASSUME NEW t \in Tasks, NEW c \in Clients, Call(t, c)
        PROVE  Window_!Next
    <3>1. addr[t] = None
      BY <2>2 DEF Call, IInv, AddrInv
    <3>2. Window_!Start(t, c)
      BY <2>2, <3>1 DEF Call, Window_!Start, history
    <3> QED BY <3>2 DEF Window_!Next
  <2>3. ASSUME NEW t \in Tasks,
               Lock(t) \/ Elapsed(t) \/ Cleanup(t) \/ SetLastCleanup(t) \/ Sample(t)
        PROVE  UNCHANGED Window_!wvars
    BY <2>3 DEF Lock, Elapsed, Cleanup, SetLastCleanup, Sample, Window_!wvars, history
  <2>4. ASSUME NEW t \in Tasks, pc[t] = "decide"
        PROVE  /\ sample[t] \in 0 .. now
               /\ Window_!Decidable(t, sample[t])
               /\ Kept(t) = Window_!InWindow(addr[t], sample[t])
               /\ Window_!Cardinality(Kept(t)) = Cardinality(Kept(t))
    <3>1. addr[t] \in Clients /\ Kept(t) = Window_!InWindow(addr[t], sample[t])
      BY <2>4, KeptExact DEF Window_!InWindow
    <3>2. sample[t] <= now /\ \A s \in admitted[addr[t]] : s.at <= sample[t]
      BY <2>4, <3>1 DEF IInv, SampleInv
    <3>3. sample[t] \in 0 .. now
      BY <3>2 DEF IInv, TypeOK
    <3>4. addr[t] # None /\ called[t] <= sample[t]
      BY <2>4, <3>1, RateAssumption DEF IInv, CallInv
    <3>5. Window_!Cardinality(Kept(t)) = Cardinality(Kept(t))
      BY Zenon DEF Window_!Cardinality, Cardinality, Window_!IsFiniteSet, IsFiniteSet
    <3> QED BY <3>1, <3>2, <3>3, <3>4, <3>5 DEF Window_!Decidable
  <2>5. ASSUME NEW t \in Tasks, Limited(t) PROVE Window_!Next
    <3>1. Window_!Answer(t, "limited")
      BY <2>5 DEF Limited, Return, Window_!Answer
    <3>2. Window_!Cardinality(Window_!InWindow(addr[t], sample[t])) >= MaxQps
      BY <2>4, <2>5 DEF Limited
    <3>3. Window_!Refuse(t, sample[t])
      BY <2>4, <2>5, <3>1, <3>2 DEF Limited, Window_!Refuse, history
    <3> QED BY <2>4, <2>5, <3>3 DEF Limited, Window_!Next
  <2>6. ASSUME NEW t \in Tasks, Allowed(t) PROVE Window_!Next
    <3>1. Window_!Answer(t, "allowed")
      BY <2>6 DEF Allowed, Return, Window_!Answer
    <3>2. Window_!Cardinality(Window_!InWindow(addr[t], sample[t])) < MaxQps
      BY <2>4, <2>6 DEF Allowed
    <3>3. Window_!Admit(t, sample[t])
      BY <2>4, <2>6, <3>1, <3>2 DEF Allowed, Window_!Admit
    <3> QED BY <2>4, <2>6, <3>3 DEF Allowed, Window_!Next
  <2>7. CASE UNCHANGED vars
    BY <2>7 DEF vars, Window_!wvars, history
  <2> QED
    BY <2>1, <2>2, <2>3, <2>5, <2>6, <2>7 DEF Next, Critical
<1> QED BY <1>1, <1>2, Invariance, PTL DEF Spec, ImplementsWindow
=============================================================================
