---------------------------- MODULE AtomicZones ----------------------------
(***************************************************************************)
(* What the reloadable zone store promises to a client: the served zones   *)
(* are replaced all at once, never by an older version, and every answer   *)
(* is computed from one store, in a single instant.  ZoneReload, with its  *)
(* lock queue, file by file loading and several lookups per answer,        *)
(* implements this specification.                                          *)
(***************************************************************************)
EXTENDS Integers

CONSTANTS Zones, Unknown, Tasks, None, Refused

VARIABLES
  store,   \* the version of every zone that is being served
  reply    \* [Tasks -> the answer ready to be sent, or None]

avars == <<store, reply>>

AInit ==
  /\ store = [z \in Zones |-> 0]
  /\ reply = [t \in Tasks |-> None]

Replace ==
  /\ DOMAIN store' = Zones
  /\ \A z \in Zones : store'[z] \in Nat /\ store'[z] >= store[z]
  /\ reply' = reply

Answer(t, z) ==
  /\ reply[t] = None
  /\ reply' = [reply EXCEPT ![t] =
                 IF z \in Zones
                 THEN [zone |-> z, answer |-> store[z], authority |-> store[z]]
                 ELSE [zone |-> z, answer |-> Refused, authority |-> Refused]]
  /\ store' = store

Send(t) ==
  /\ reply' = [reply EXCEPT ![t] = None]
  /\ store' = store

\* The process ends; what was not sent is lost.
Stop ==
  /\ reply' = [t \in Tasks |-> None]
  /\ store' = store

ANext ==
  \/ Replace
  \/ Stop
  \/ \E t \in Tasks : Send(t) \/ \E z \in Zones \cup {Unknown} : Answer(t, z)

ASpec == AInit /\ [][ANext]_avars
=============================================================================
