# TLA+ models of lrmdns

lrmdns is an authoritative DNS server in Rust on tokio and hickory-proto. This
directory holds TLA+ modules that model it, TLC configurations that model-check
them, and TLAPS proofs of the most important properties. `PROJECT.json` lists
components, runs, mutants, the map from definitions to source lines, findings,
hazards and theorems.

Source files are named relative to the crate (`server.rs` is `src/server.rs` of
the repository).

## 1. The system

| Part | State | Operations | Talks to |
|---|---|---|---|
| startup (`main.rs`) | control point of `main`, tasks | configuration, zones, API task, signal task, `DnsServer::run` | all |
| configuration (`config.rs`) | the YAML file's fields with defaults | `from_file`, `validate` | `main`, TCP limits |
| zone file parser (`zone.rs`) | line by line: joined lines, origin, TTL, the zone | `preprocess_zone_content`, `parse_zone_file`, `parse_resource_record` | `load_zones` |
| zones and zone store (`zone.rs`) | origin, SOA, name -> type -> records | `add_record`, `lookup`, `lookup_wildcard`, `get_all_records`, `find_zone` | parser, query processing |
| reload and shutdown (`main.rs`) | `Arc<RwLock<ZoneStore>>`, pending signals | SIGHUP reloads, SIGUSR1 logs, SIGINT/QUIT/TERM cancel | zone store, `DnsServer::run` |
| query processing (`protocol.rs`) | none of its own | `process_query`: answer, wildcard, CNAME, signatures, NXDOMAIN/NODATA, EDNS | zone store |
| UDP server (`server.rs`) | one task per datagram | rate limit, parse, process, truncate, send | limiter, query processing, metrics |
| TCP server (`server.rs`) | one task per connection, `queries_handled` | idle timeout, query limit, queries, transfers | limiter, store (read guard held through a transfer), metrics |
| rate limiter (`ratelimit.rs`) | map client -> recent query times, time of the last sweep, one Mutex | `check_rate_limit`, sweep of all clients every 60 s | called by every UDP and TCP query |
| metrics (`metrics.rs`), HTTP API (`api.rs`) | some twenty relaxed atomic counters | `record_*`, `get_snapshot`, `/metrics`, `/health` | handlers write, API and log read |
| DNSSEC helpers (`dnssec.rs`) | none | `verify_ds`, `check_signature_validity`, `validate_nsec_denial`, `find_related_dnssec_records` | called by no other code |

What is hard here:

- tokio's RwLock is fair, and a transfer keeps its read guard while it writes to
  the client, so a slow client, a reload and the queries wait on one another;
- reloads race with edits of the files, with merged signals and with shutdown,
  and one of several files may be broken;
- files may change between validation and loading, ports may be taken, and
  signals arrive before their handlers are registered;
- the limiter forgets (pruning, sweep) and samples the clock several times while
  other tasks run;
- a connection handler has nine exits, each with its own metrics calls, and a
  timeout on one of its reads only;
- a snapshot reads the counters one by one while handlers add to them, with
  relaxed loads and so in no particular order;
- a UDP response is shortened in two stages;
- parent and child zones, existing names, wildcards and aliases overlap;
- the zone file parser joins lines, strips comments and drops lines by rules of
  its own, next to those of RFC 1035;
- key tags, 32-bit times and the NSEC chain wrap around.

What makes each part correct: the limiter admits at most `max_qps` per window
and behaves as if it forgot nothing; a reload is all or nothing, never goes back
and is never lost; an answer comes from one store; a transfer is consistent and
complete; connections respect their limit, and one that never ends waits for its
own client or, behind a reload, for another client's transfer; a reply fits the
size the server advertises and is complete unless it says otherwise; counters
count what happened once, and a report of them contradicts itself by no more than
the requests it overlaps; answers and denials say what the zone files say, as far
as the code goes; a zone is its file as the RFC reads it, up to omissions that are
spelled out; a process serves its whole configuration or ends; the DNSSEC helpers
never accept or deny wrongly, within limits that the properties name. Where the
code stops short of what the repository says of it there is a finding (section 3).

## 2. Modules

| Module | Models |
|---|---|
| `SlidingWindow` | abstract specification of the limiter: every admission is remembered |
| `RateLimiter` | `check_rate_limit` and the sweep, step by step under the Mutex |
| `AtomicZones` | abstract specification of the store: replaced at once, answers in one instant |
| `ZoneReload` | signal task, `load_zones`, the RwLock queue, queries, transfers, shutdown |
| `TcpConnection` | `handle_tcp_connection` with its counters |
| `Zone` | the data structure of `zone.rs`, as operators |
| `Protocol` | `process_query`, as an operator on a query and a store |
| `Authority` | composition: files -> `parse_zone_file` -> store -> answers and transfers |
| `UdpQuery` | composition: `handle_udp_query` over `Protocol`, with reloads in between |
| `ZoneFile` | the zone file parser, word by word |
| `Metrics` | the `record_*` calls of the handlers, `get_snapshot` and `/metrics` |
| `Startup` | `main`, the configuration, the API task, signal registration, `DnsServer::run` |
| `Dnssec` | the DNSSEC helpers |
| `MC*` | instances for TLC |
| `*Proofs` | theorems and proofs about the module of that name; `AuthorityProofs` also those about `Dnssec`, which rest on the same order of names |

Definitions marked `Slip:` are wrong variants of the definition that follows
them. No specification uses them; `PROJECT.json` lists, for each property of a
passing run, the variant under which the property is violated.

### RateLimiter

`now` is the monotonic clock, which `Tick` may advance between any two steps.
`Lock`, `Elapsed`, `Cleanup`, `SetLastCleanup`, `Sample` and
`Limited`/`Allowed` are the steps of `check_rate_limit`: each clock sample has
its own step. A `Vec<Instant>` is a set of stamps whose `id` separates equal
instants. `admitted` and `grants` are histories, and so is the instant a check
was called. `SlidingWindow` decides a check for the address it was made for, as of
one instant of the call: admitted if fewer than `max_qps` of all admissions to
that address lie in the window before that instant, and refused if not.

### ZoneReload

A zone is its version, the number of the edit that wrote its file; `bad` holds
the versions that do not parse. `queue` is the lock's queue; a reader or a writer
enters when it is at its head and the lock admits it. Queries: `ReceiveQuery`,
`LockQuery`, `Lookup`, `Authority`, `Reply`; transfers: `ReceiveAxfr`, `LockAxfr`,
`Records`, then one `WriteMessage` per message, or `WriteFails`, under the
guard. Signal task: `Select*`, `LoadZone` file by file, `LoadFails` (old store
kept), `RequestWrite`, `WriteLock`, `Install`. `RunReturns` ends the process.

### TcpConnection

One control point per await that can last: the two reads, the two waits for the
store's read lock (`xferlock` for a transfer, `lookup` within `process_query`) and
the writes. Messages are their kinds, and the verdicts of parser and limiter are
inputs. Each exit of the handler is an action, the error of `process_query`, which
that function never returns today, included (`ProcessFails`). `writer` is a reload
that queues for the write lock: nobody passes it, and it enters when no transfer
holds the read guard. `met` is what a connection added to each counter.

### Zone, Protocol, Authority

A name is a sequence of labels; the two nested maps of a zone are one function
on pairs of name and type. `Authority` reads a file record by record (the first
SOA creates the zone, records before it are dropped, a file without SOA fails
the load) and then answers `Ask` and `Transfer`. Its properties are stated on
`file`, the records read, through an independent reading of them (`Kept`, `At`,
`Covers`, `Said`, `Absent`) and not on the maps.

### UdpQuery

One task per datagram: `RateLimited`, `ParseFails` or `Parsed`, `Process` (with
`Encode` for the truncation loop) or `ProcessFails`, then the send, which may fail. `Reload` may
replace the store at any time. Sizes are header, question, OPT record and a
constant operator for the sections.

### ZoneFile

A line is the sequence of its words; semicolons, parentheses and the blank at
the start of a line are words, and `HalfQuoted` are the words with one quotation
mark; `Dollar`, `OriginLike` and `TtlLike` are the words with the beginnings the
parser tests for. `Join*` are the branches of `preprocess_zone_content` for one line,
`Parse*` those of `parse_zone_file`. The branches of `parse_resource_record` are
tables of fields (`AFields`, `SoaFields`, ...), one per record type; what the
number, address, name, base64 and hex parsers accept is given by constants.
`Entries` and `RecordsOf` are a second reading of the same lines, after RFC 1035,
section 5.1, word by word and line by line (`RfcWords`, `RfcScan`), with which the
loaded records are compared. `Overlooked`,
`Joinable` and `Explicit` name where the code is known to depart from it.

### Metrics

A request is the script of atomic updates that its handler runs, put together
from the `record_*` calls in the order of `server.rs`. `Update` takes one step
of a script. All accesses are `Ordering::Relaxed`, so no order of the loads is
assumed: between `GetSnapshot` and `Respond`, `snap` collects the values each
counter takes, and a report shows any of them, for each counter on its own
(`Reported`). `inflight` and `begun` count the requests that overlap the snapshot.

### Startup

`main` goes through `ReadConfig`, `Validate` and `LoadZone` (one zone at a
time), `SpawnApi` and `SpawnSignals` to `run`, where `BindUdp`, `BindTcp` and
`Shutdown` are the branches of `select!`. Meanwhile `ApiBind`, `Register` and the
`Receive*` steps of the spawned tasks happen, the operator changes zone files
(`Change`) and sends signals (`Send`): one without a handler ends the process. The
five handlers are registered one by one (`SignalOrder`), and a registration that
fails takes the signal task with it. A reload loads in one step (`ReceiveHup`) and
then waits for the write lock (`Install`), which a transfer may hold off
(`TransferBegins`, `TransferEnds`); meanwhile the task receives nothing.

### Dnssec

A behaviour is one call; loops go element by element. Digests are ideal: the
pair of the hash function and what was hashed. Times are numbers that the code
sees modulo `TimeSpan`. The NSEC records of a call are part of the chain of a
zone, whose contents the properties compare the verdict with.

## 3. Runs

| Run | Checks | Bounds |
|---|---|---|
| `rate_limiter` | type, `WindowBound`, `PerClientBound`, refinement of `SlidingWindow`, `MutexReleased` | 2 clients, 2 tasks, limit 2, window 2, sweep 1, clock to 3: 800 thousand states |
| `zone_reload` | type, `StoreSound`, `TransferCurrent`, `NoRollback`, refinement of `AtomicZones` | 2 zones, 2 tasks, 2 edits, transfers of 2 messages: about 2 million states |
| `zone_reload_live` | `ReloadTakesEffect`, `ShutdownHappens`, `QueryAnswered` | 1 zone, 2 tasks, 1 edit |
| `zone_reload_stalled` | `ReloadTakesEffect` without the assumption on clients: violated | same |
| `tcp_connection` | type, `ReplyBound`, `NoOvercount`, `RepliesAccounted`, `HeldByClientsOnly` | 2 connections, limit 2, timeout 2, reloads at any time: 400 thousand states |
| `authority` | `AnswersComplete`, `DenialsSound`, `TransferFaithful` | every file of up to 4 and 2 records out of 10 and 2, for a zone and its child; 15 queries |
| `udp_query` | type, `FitsAdvertised`, `TruncationHonest`, `CountedOnce` | 2 tasks, 2 stores, 8 queries |
| `udp_promises` | `SomePromiseKept`: violated | 2 tasks, one signed zone with two aliases in a row, names of full length, 3 queries |
| `zone_file` | `NoPanic`, `LoadedAsRead`, `MalformedRefused` | files put together from lines of every kind and record type: 150 thousand states |
| `metrics` | `TornByOverlap`, `QuietExact`, `AverageWithin`, `ExtremesOrdered` | 2 handlers, one request of 12 kinds each, one snapshot: 600 thousand states |
| `startup` | `ServesWhole`, `HalfServerEnds`, `WindowCloses`, `TermEnds` | 4 configurations, 2 zones, any ports taken, 1 change of a file, 1 handler per protocol, one transfer at a time: 300 thousand states |
| `dnssec` | `DsBinds`, `SignatureTimely`, `DenialSound`, `DenialComplete` | keys with odd length, carry and equal tags; times over three spans of 8; parts of the NSEC chains of up to 4 names |

Why the bounds are enough for the interesting cases:

- limiter: a client reaches its limit, sees stamps leave the window one after
  the other, and is swept, while the other task waits for the Mutex; the clock
  passes a whole window and one more tick, and a sweep falls on every tick, inside
  and at the end of a window;
- reload: with two edits and two zones one file may be broken while the other is
  new, a signal can be merged or arrive during a reload, and a transfer, a query
  and the writer can all be queued; liveness needs one zone and one edit only,
  because the lock does not look at zones;
- TCP: each of two connections answers one query, then the last one its limit
  allows, and takes any exit after either; either may wait for the store behind
  the other's transfer and a reload;
- authority: the records include two of one name and type, a signature, an
  alias, an alias of an alias at a wildcard, two nested wildcards and a name that
  both zones hold; files may repeat records, start without an SOA or have none;
- UDP: record sizes make one response fit, one fit without its answers and one
  only when empty; for `udp_promises`, an alias between names of the greatest length
  takes more than 512 bytes;
- zone files: each kind of line stands before and after an SOA, inside and
  outside parentheses, and next to one that cannot be read;
- metrics: both requests can overlap the snapshot, each from any of its updates
  to any other, and two latencies are enough for a wrong minimum, maximum or
  average;
- startup: a file can go between validation and loading of either of two zones,
  and every set of ports may be taken;
- DNSSEC: four names make a chain with a first, a middle, a last and an empty
  gap, and the span of 8 stands for 2^32: only the wrap matters.

`CHECK_DEADLOCK FALSE` is set where the modelled part may stop: a failed load or
a served file (`authority`, `zone_file`), a process that ended (`startup`), a
call that returned (`dnssec`) and requests that are used up (`metrics`).
Elsewhere termination is an explicit stuttering step.

### Fairness

- Limiter: weak fairness of the steps under the Mutex, where nothing awaits.
- Reload: weak fairness of each task's steps (the runtime polls woken tasks) and
  of the signal task; strong fairness of the SIGHUP and termination branches,
  because `tokio::select!` picks among its ready branches at random, so a pending
  signal is not passed over for ever. No fairness of edits, signals or requests.
- TCP: weak fairness of the handler's own steps, its timer and time, and of a
  queued reload entering; strong fairness of entering the store's lock, which is
  fair: a waiting reader is let in before a second reload. None of the client's
  steps, and none of reloads coming. `HeldByClientsOnly` says what is left to the
  clients.
- Startup: weak fairness of `main`, the API task, the registration of the
  handlers, the binds, the installation of a reload and the return after
  cancellation; strong fairness of the termination branch, for the reason above.
  No fairness of SIGHUP, of files, of signals being sent, or of transfers ending.
- `ClientsDrain` is an assumption about clients, kept apart because the code does
  not enforce it: a client reads what it is sent, or the connection breaks.
  `zone_reload_live` runs under it, and `zone_reload_stalled` shows what happens
  without.

### Findings

Two runs show where the code disagrees with sentences of the repository;
`PROJECT.json` quotes each.

1. A transfer to a client that stops reading keeps a reload from taking effect,
   and the writer keeps all later queries waiting (`zone_reload_stalled`).
2. An alias of an alias is not followed.
3. Aliases, their targets and wildcard answers come without their signatures, also
   when the client asked for them.
4. The size limit of a UDP reply is the server's own payload size, also when the
   client advertised less.

Findings 2 to 4 are about one reply and share the run `udp_promises`. Its property
is the disjunction of the three promises (`Chased`, `Signed`, `FitsClient`), so
that the reply it is violated by refutes all three at once, not just one of them.

The passing properties are exact where the code is narrower than a reader may
expect, and so record these limits:

- answers (`AnswersComplete`, `Claims`): a root zone is found for the root name
  only; an alias is followed one step and within its zone, and signatures are
  included at the queried name only (findings 2 and 3);
- denials (`DenialsSound`): two kinds of names get NXDOMAIN in place of an empty
  NOERROR: a name covered by a wildcard that has neither the type asked for nor an
  alias (the comment at `protocol.rs:176` says "no wildcard match"), and an empty
  non-terminal, a name without records that has names below it;
- UDP (`FitsAdvertised`): the limit is the one of finding 4;
- TCP (`HeldByClientsOnly`): the read of an announced message and all writes have
  no timeout, and the wait for the store has none either, so that one client's
  unread transfer and a reload can hold another client's connection;
- zone files (`Overlooked`, `Joinable`, `Explicit`): a record with neither TTL nor
  class, a class before the TTL, an entry without owner, parentheses that open and close on one line, a second
  semicolon after a quoted one and the revoke bit of a DNSKEY are not read as the
  RFC has it; every word that begins with `$ORIGIN` or `$TTL` is that directive,
  `$INCLUDE` and every other line that begins with a dollar sign is ignored; every
  CAA tag becomes `issue`;
- zone files (`Accepted`, `MalformedRefused`): an owner, a field or a digest type
  that cannot be read fails the file, but a line that is too short, a TTL out of
  range, a mistyped type, a missing field and data that does not decode are dropped
  and the zone is loaded without them;
- metrics (`QuietExact`, `AverageWithin`): malformed and refused requests add a
  latency and no query, and a query whose reply cannot be sent adds no latency;
  the average divides by the queries, so it may leave the range of the latencies
  in both cases;
- startup (`WindowCloses`, `ServesWhole`): until its handler is registered a
  signal kills the process, and `/health` answers before the DNS sockets are
  bound; a termination signal is not noticed while a reload waits behind a
  transfer, nor after the registration of a later handler failed (`TermEnds`);
- DNSSEC (`DsBinds`, `SignatureTimely`, `DenialSound`): keys of algorithm 1 get the
  key tag of all others, not the one of RFC 4034, appendix B.1; times are compared without serial
  arithmetic, so a valid signature whose period holds a wrap is refused; a denial
  looks at the name and type only, not at wildcards or delegations.

## 4. Proofs

The theorems hold for every value of the constants that satisfies the named
`ASSUME` of each module. Each proof module defines an inductive invariant,
`IInv` (`CallInv` for `Dnssec`), proves that it holds initially and that each
action or group of like actions preserves it, joins these in one step lemma, and
derives the theorems; `MetricsProofs` does so for several smaller invariants one
after the other.

**RateLimiterProofs** (`TypeCorrect`, `RateBound`, `MemoryBound`, `Refinement`).
`WindowBound` speaks of admissions the code has forgotten, so the invariant says
what it may forget: the map holds only admitted stamps (`StoredInv`) and every
one that is still inside the window (`RetainedInv`). The decision uses a sample
older than the clock, so `SampleInv` states the same at the sampled instant, and
that no admission is later than the sample; that rests on mutual exclusion
(`LockInv`). The sample is an instant of the call, so the abstract check can be
decided there, for refusals as for admissions. `KeptExact` then identifies the pruned Vec with the window of the
abstract specification, from which bound and refinement follow.

**ZoneReloadProofs** (`TypeCorrect`, `OnlyCompleteLoads`, `TransferPinned`,
`Monotone`, `Linearizable`). Proved from `StalledSpec`, so without any assumption
on clients. `LoadInv`: the store under construction holds the zones read so far,
from files that parsed, each between the served version and the one on disk.
`LockInv`: the writer is alone. `GuardInv`: what a task read under its guard is
still served. Refinement maps a reply to `resp` at control point "reply"; the
step `Authority` (or the refusal in `Lookup`) is the instant of the answer.

**TcpConnectionProofs** (`TypeCorrect`, `ReplyLimit`, `NoOverclaim`,
`EveryReplyCounted`). `ConnInv` relates replies, `queries_handled` and the counters at
each control point: while a connection is open its replies are its handled
queries, and a reply being written has been counted already.

**UdpQueryProofs** (`TypeCorrect`, `DatagramFits`, `Honest`, `Counting`).
`ResponseShaped` describes every response of `process_query`, `EncodeCases` the
three results of the truncation; `Origin` ties a reply to the store it was
computed from, and `Tally` fixes the counters at each control point. The only
assumption on sizes is that a question has at most 259 bytes, which is what makes
the last stage fit 512.

**AuthorityProofs** (`AnswersAreComplete`, `DenialsAreSound`,
`TransferIsFaithful`), for all configurations, files and queries; the only
assumption on lines is that names are sequences of labels and types numbers. The
properties speak of files and the code looks in maps, so the invariant ties them:
a zone in the store, and the zone under construction, hold for each name and type
exactly the kept records of their file (`Holds`), each as often as the file does
(`Tallies`; together `ZoneSays`; `AddRecordHolds`, `AddRecordTallies` and
`KeptAppend` are the step). From it, `ContainsSays`, `WildcardSays` and
`FindZoneSays` show that existence, the first hit of the wildcard loop and the
search for the longest origin find what `Owns`, `Best` and `Enclosing` define;
`Absent` names own nothing and no wildcard speaks for them, which makes their denial
certain. The
wildcard needs the least element of a set of numbers, which the library's theorem
on minimal elements gives; the same lemma (`LeastNumber`) replaces induction below.

A transfer sorts the keys and concatenates their vectors. Names are totally
ordered (`NameLessTransitive`, `NameLessTotal`), hence keys are (`KeyOrder`).
`SortedKeysSay`: the number of lesser keys grows strictly along the order, so it
is an injection of the keys into as many numbers and takes every value; nothing is
lost in sorting. `FlattenSays` gives the concatenations of the first m vectors
(`Joins`), and `JoinedSay` shows by the least m at which it would fail that they
hold the records of the first m keys, as many as the file has lines for them, in
order. Counting needs `Tallies`: the set of records alone would allow a line that
occurs twice to be sent once.

About `Dnssec`, in the same module (`TypeCorrect`, `DenialIsSound`,
`DenialIsComplete`, `SignaturesTimely`, `AccumulatorFits`, `DsIsBound`): the types need to know which
function was called (`CallOK`). That a true NSEC record denies nothing the zone
holds (`NsecTrue`) follows from what the chain says of the names next to it.
Completeness is about a zone with finitely many names and at least one, and the
whole chain: the loop has passed over records that do not deny (`Tried`), but the
name itself, the greatest name before it (`GreatestName`) or else the last name of
the zone owns one that does (`ChainDenies`); this is where the order of names must
be total. `TimesCut` compares times cut to 32 bits with the times meant: within
half a span of each other, times that stand in the order of a period after the cut
lie between the same two wraps, and so stood in that order before it. `AcBound`
bounds the key tag's sum after each byte by 65280 times the bytes read, so that 32
bits hold it with the carry. `DsIsBound` needs what the sum is: after n bytes it
is the sum of the whole 16-bit words among them and the high half of one more
(`BytesSum`), where the words' partial sums are a recursive function whose
existence is shown first (`PartialSums`).

**StartupProofs** (`WholeConfiguration`, `NoHalfServer`, `Limits`,
`TypeCorrect`), for all configurations and orders of events. `LoadInv` says how
far validation and loading have come and that the store is complete after it;
`SpawnInv`, that nothing runs before `main` reaches it; `ExitInv`, that later
errors come from binding only. A reload that waits to be installed changes nothing
of this: it replaces a whole store by a whole store.

**MetricsProofs** (`TornOnlyByOverlap`, `QuietIsExact`, `AverageIsWithin`,
`ExtremesAreOrdered`), for any number of handlers, requests and latencies. A
request is a script of updates; the invariant says that what a handler has left is
a `Suffix` of a script of `server.rs`, and what every such suffix is like
(`Whole`): which counters it still adds to, and in which order. A counter equals
another one up to the handlers that are between the two (`Mid`). `Window` holds
while a snapshot is made: what any value it may show lacks of the counter now, and
what handlers have still to add to it, is within the requests that were in flight
when it began or began since. Nothing in it depends on the order of the loads, and
with `Counting` it bounds the difference of any two figures (`TornWithin`). `MaximumNext`: a handler whose latency reached the
minimum and not the maximum has the maximum as its next update. For the average,
`LatencyWithin` bounds the sum of latencies from both sides by the extremes times
the number of latencies added, which the responses count as long as no request was
faulty (`Faulty`).

**ZoneFileProofs** (`ParserNeverPanics`, `LoadedZoneIsItsFile`,
`MalformedFileIsRefused`, from `ParserInvariant`), for files of any length. The
code looks at a line as a whole, the reference at one word after the other, so the
argument goes from words to lines to files:

- Both readings are recursive functions. `IterationExists` and `IterationUnique`
  show once that a function with a base and steps exists and is the only one, by
  the least number at which it would fail; `WithoutIs`, `RfcWordsIs`, `RfcScanIs`
  and `RecordsUpToIs` are its uses.
- One line: `QuotedMeans` says that the reference is within quotes after an odd
  number of half quoted words, which is what the code counts; `CodeIsRead`, that
  on a joinable line the reference reads as code exactly what `StripComment`
  leaves; `WordsAreGathered`, that it gathers the words that remain when the
  parenthesis is replaced. `LineIsJoined` puts them together for the four branches
  of `preprocess_zone_content`.
- `JoinInv`: after each line the line being put together is the entry the
  reference has open, `in_parens` is its depth, and the lines put out are its
  entries (`Joined`). A flag is enough for a depth only because `Joinable` keeps
  groups from being nested or opened and closed on one line.
- One entry: `TypeIsFound` says that in an entry of four words or more, unless a
  class stands before a TTL, the moving index stops where the reference finds the
  type; a number is never a type (`WordsAssumption`), so an overlooked entry
  gives no record. `RecordIsParsed` compares what `parse_resource_record` returns
  with the record of the reference, field by field, and shows that it never
  panics.
- `ParseInv`: the lines are the entries of the file, up to empty ones, and after
  m entries the origin and TTL are those of the last directives, the zone exists
  if an SOA was kept, its records are those the reference has kept so far, and
  every record so far that must be readable is (`Parsed`). `NextLine` finds the
  entry to which a line belongs.

Only model-checked: liveness (`MutexReleased`, `ReloadTakesEffect`,
`ShutdownHappens`, `QueryAnswered`, `HeldByClientsOnly`, `WindowCloses`,
`TermEnds`), because fairness and ENABLED are outside the prover's reach.

## 5. Abstractions and what is not modelled

- Response sections are sets; the order of records in a transfer is kept. The
  EDNS version and flags echoed in a response, IDs and TTLs are left out.
- Zone names in the configuration are assumed distinct. Labels are already
  folded to lower case.
- Zone contents are versions in `ZoneReload`, constants in `UdpQuery` and names
  in `Startup`.
- In `ZoneFile` words are separated already: the blank stands only at the
  beginning of a line and is no name, and quotation marks are in words of their
  own kind (`ZoneFileAssumption`); a number is neither a class nor a type
  (`WordsAssumption`). "@" in the data of a record and a relative `$ORIGIN` do not
  occur.
- In `Metrics` a TCP connection asks one query; `TcpConnection` has the others.
  The updates of one handler are taken in program order; that others may see them
  in another order is covered for reports, whose figures are chosen independently
  of each other, and harmless for `ExtremesOrdered`.
- The lock, signals, timers, name order and message layout belong to tokio and
  hickory; they are modelled from how the code uses them.
- Clock, edits, transfer length, file changes, handlers and requests are bounded
  by `MaxTime`, `MaxEdits`, `XferLen`, `MaxChanges`, `MaxTasks` and
  `MaxRequests`, query limits and timeouts by their constants.
- Not modelled: log output and its levels; the listen address and the rate limit
  of the configuration, which are passed on unchanged, and `workers` and
  `dnssec`, which nothing reads; how long errors of the operating system persist
  (`accept` and `recv_from` are retried at once).

## 6. What could follow

1. Composition of `RateLimiter` with the handlers, whose verdict is an input now.
2. `Authority` reads records and `ZoneFile` words: a refinement of the one's
   `ParseLine` by the other would join the two proofs into one from text to answer.
