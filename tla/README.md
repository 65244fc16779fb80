# TLA+ verification of the rate limiter

This directory holds a model of the rate limiter in TLA+, the TLC instances
that check it, and TLAPS proofs of its safety properties. Paths below are relative to the
repository (`src/` in `PROJECT.json`).

## 1. The system

A request passes these parts, in this order:

| part | code | state | operations |
|---|---|---|---|
| kernel block list | `ebpf/tc_blocker.c`, `ebpf/loader/main.go`, `decision-engine/cmd/ebpf/blocklist.go` | the pinned LRU map `blocked_ips`, the map the attached program reads, two clocks, the loader process | verdict on a packet; `POST/DELETE/GET /block` of the loader; (re)load; the engine's `Blocklist.Add/Remove` |
| nginx | `nginx/lua/access.lua`, `counter.lua`, `fingerprint.lua` | shared dictionary of counters; pool of connections to the engine | increment, build the feature vector, `query_engine`, act on the verdict or fail open |
| decision socket | `fingerprint.lua`, `decision-engine/cmd/server/main.go` | Unix connections, one JSON line each way per request | accept, read, answer, deadline |
| decision engine | `decision-engine/internal/engine/engine.go` and its clients | none of its own between requests | `Evaluate`: `Decrement`, `Score`, switch, `Blocklist.Add`, two Kafka goroutines |
| token bucket | `decision-engine/internal/redis/client.go` | one integer with a TTL per IP | the Lua script, run through a retrying cluster client |
| ML sidecar | `ml-sidecar/*` | feature sequence per subnet, model per client, baseline and ONNX session loaded at start | `Score`; the retraining job |
| engine process | `decision-engine/cmd/server/main.go`, `internal/config`, `Close` of the clients | configuration, socket file, listeners, connections and events under way | start, signal, drain, close, restart |
| Kafka | `decision-engine/internal/kafka/producer.go`, `kafka/create-topics.sh` | two topics | fire-and-forget writes |

They interact by calls with time-outs (nginx to engine 50 ms, engine to sidecar
100 ms, engine to Redis 500 ms and retries), by shared Redis keys, by the pinned
map, and by events nobody waits for.

**What is hard.** Evaluations run concurrently and each is a chain of remote
calls; a call that timed out may still take effect; keys expire between two
steps; connections are reused while an answer may still be due; both ends of a
connection have timers; every process can die between two steps, start again over
what it left behind, or be told to stop with work under way; loader, kernel
program and engine share a map they describe three times over; nginx workers
share counters that expire while they are read; the sidecar
updates Redis with a read and a separate write. The hazards are listed, each at
its line, in `PROJECT.json`.

**What makes each part correct.**

* Bucket: a token is handed out once; the tokens of a bucket add up; at most
  `BucketSize` grants in any `BucketTTL` seconds; every call returns; an idle
  bucket comes back.
* Engine: failures never block anybody; the bucket bounds what passes; every
  evaluation ends; what an operator unblocks stays unblocked until there is a new
  reason.
* Socket: a request gets its own verdict; nothing hangs, on either side.
* Block map: listed = asked for = enforced, until it expires.
* Sidecar: a subnet's sequence is in order and its own; a request is scored with
  itself; one missing model does not block.
* Process: a stop after a signal ends, cuts nothing off that could still be
  answered and loses no record of what was answered; after a crash the next
  process serves.
* Rate counters: never too high; a burst is not overlooked.

## 2. Modules

| module | models | main actions and where they come from |
|---|---|---|
| `Quota` | what a bucket promises (abstract) | `Ask`, `Grant`, `Deny`, `Again`, `Fail`, `Close`, `Waste`, `Renew`, `Restore` |
| `TokenBucket` | script and `Client.Decrement` | `Script` = the Lua text branch by branch; `Decrement` (send), `Execute` (the script runs), `Receive`, `Retry`, `GiveUp`, `Finish`; `ExecuteOrphan` (an abandoned request runs late), `Crash`, `Tick`, `Evict`, `Failover` (a replica that lags behind is promoted) |
| `WindowedBucket` | `TokenBucket` plus the grants of the last `BucketTTL` seconds | the same actions, each recorded |
| `Engine` | `Evaluate`, ML client, producer goroutines, operator handlers, process life; instantiates `TokenBucket` with its handlers as callers | `Evaluate`, `RunScript`, `RedisCall`, `CallScore`, `ScoreReturns`/`ScoreFails`/`ScorePanics`, `Enforce`, `Return`, `Publish`, `HandleBlock`, `HandleUnblock`, `Killed`, `Start`, `KeysVanish`; `DoubleEvaluate` is the double of the unit tests |
| `DecisionSocket` | `query_engine`/`evaluate` in Lua, `runUnixSocket`/`handleConn` in Go | `EncodeFails`, `ConnectPooled/New/Fails`, `Send(Fails)`, `Receive(Closed)`, `TimesOut`, `LeavePool`; `ReadLine`, `Answer`, `Deadline`, `EndOfInput`, `EngineDies/Starts` |
| `BlockMap` | the loader (start, failed start, API, stop), the TC program | `LoadAndAttach`, `LoadFails`, `Stop`, `HandleAddBlock`, `HandleRemoveBlock`, `Tick`; the verdict is the operator `Ingress`, `GET /block` the operator `Listed` |
| `SessionStore` | `Score` in the sidecar | `PushRead`, `PushWrite`, `IsoScore`, `LstmScore`, `CallFails`, `LateWrite` (Redis applies a write whose caller has given up), `Lose`, `Restart` |
| `Lifecycle` | `main`, `runUnixSocket`, `runHTTP`, `config.Load`, `New` and `Close` of the clients | `Start(Fails)`, `ListenSocket(Fails)`, `ListenHTTP(Fails)`, `Accept`, `Answer`, `WriteMessages`, `Deliver`, `Signal`, `CloseListener`, `ShutdownHTTP`, `Wake`, `CloseWriter`, `Exit`, `Killed`, `Tick`; `Load`, `GetEnvInt64`, `SplitCSV`, `TTLSeconds` are operators |
| `RateCounter` | `counter.lua` as `access.lua` and `build_vector` use it | `Increment`, `IncrementFails`, `GetRate` (one call to the dictionary each), `Evict`, `Tick` |
| `*Proofs` | theorems about the module they are named after | section 4 |
| `MC*` | constants for TLC | |

An operation is split into several actions exactly where the code waits for
another process; everything between two waits is one action. Operators named
"Mutant" in their comment are wrong variants of the definition below them. They
are used only to show that the properties notice the fault.

What is abstracted:

* a feature vector is the request that carries it, a score a percentage (the
  rounding of `float32` is not modelled), a network's answer any member of a
  given set;
* time is in whole seconds for keys and blocks; the short timers (50, 100, 200
  ms) are events that may happen at any moment. One relation between them is
  kept: the first use of a connection (send and receive, 50 ms each) is over
  before its 200 ms deadline (`fresh` in `DecisionSocket`);
* in `Lifecycle` time is in ticks and a goroutine that can run does so before the
  next tick (`Runnable`): a process that is not starved for 200 ms. A connection
  carries one line there, since its deadline counts from its start;
  `DecisionSocket` has the reuse of connections;
* in `RateCounter` time is relative: a key has a time to live, what is past has an
  age and is forgotten when it is older than its window, so behaviours are not
  cut off at a last moment. One client is modelled, keys of others matter only
  through eviction;
* the loader's integers have `Width` bits and wrap, as do the durations of
  `config.Load`;
* addresses in `BlockMap` are tuples of octets, because byte order matters there.

Behaviour of software outside the repository is modelled from how the code uses
it and marked `external` in the map: go-redis (a timed-out command is sent again
and is not recalled), Redis expiry and eviction, the OpenResty connection pool,
cjson (encoding or decoding may fail), cilium/ebpf (a `uint32` is written in the host's byte order; a map spec without
`Pinning` creates a new map), kafka-go (`Close` refuses new messages and waits for
those under way; a write ends by acknowledgement or time-out), a shared dictionary
of OpenResty (`incr` with `init_ttl` sets a TTL at creation only), Redis failover,
process death.

History variables (`granted`, `holds`, `recent`, `evidence`, `pardoned`, `current`, `passes`,
`verdict`, `cause`, `requested`, `evicted`, `earlier`, `disturbed`,
`used`, `exit` in `Lifecycle`, `hits`, `unseen`, `peak`) record what happened and guard
no action, except that the bounds of `RateCounter` are stated on its history.

## 3. Runs

Passing runs:

* **bucket** (`WindowedBucket`, one IP, two callers, two tokens, TTL 3, two sends
  per call, one orphan, one loss of a key or of part of its grants; 115 000 states). `BucketConserved`:
  granted + left = `BucketSize` whatever is retried or late.
  `TokensHandedOutOnce`: two callers never hold the same token. `RateLimited`: at
  most `BucketSize` grants in any `BucketTTL` seconds, plus one bucket per eviction
  or failover. `ImplementsQuota`: refinement of `Quota`. `DecrementReturns`,
  `IdleBucketExpires`. Buckets of different IPs share nothing, so one IP is enough;
  two callers and an orphan give three concurrent users of a bucket of two, so
  that the last token is fought over; TTL 3 lets grants straddle two lives of a
  key within one window.
* **engine** (two handlers, one IP, one token; 220 000 states). `OnlyEvidenceBlocks`:
  an IP is in the kernel map or the topic only after a refusal, a high score or
  an operator's order; no combination of Redis errors, ML errors, retries and
  restarts does it. `PassesWithinBucket`: without Redis errors at most
  `BucketSize` requests pass on one bucket. `EvaluateReturns` without assuming
  that the sidecar ever answers. `PardonHolds`: an address that `DELETE /block/:ip`
  took out of the map comes back only for a refusal, a score or an order later than
  the DELETE, or through an evaluation that had its reason to block in hand at that
  moment, and so not because of a retry, a late run of the script, a restart or an
  evaluation that ends in a throttle. That last way back is a race in the code
  (`Evaluate` reads nothing between the refusal and `blocklist.Add`), and the property
  says that it is the only one. Whether an event reaches Kafka is left open:
  `Publish` writes it or fails. Scores 70 and 90 lie in the throttle and block
  ranges, a failed call gives 0. `DoubleMirrors`: for every reply of the bucket and
  every score the double the unit tests run decides as `Evaluate` does, so what
  those tests show is true of the engine.
* **socket** (three requests, two connections, pool of one; 563 000 states).
  `OwnVerdict`, `PoolIsClean`: the lines carry no request id, so it matters that
  every error path closes the connection. (A reply that cannot be decoded is the
  exception: its connection has gone back to the pool, clean.) `RequestFinishes` and `HandlerEnds`
  with an engine that may die at any time. Three requests allow time-out, reuse
  and eviction from the pool in one behaviour.
* **blockmap** (an address, its reversal and a palindrome, a map of two entries,
  TTLs -3, 0, 2 and 15 with integers of five bits, three starts of the loader;
  48 000 states). `ListMatchesRequests`: the list is what was asked for, each entry
  with its seconds left, on a little-endian host, after restarts, and for a TTL
  whose sum with the clock wraps (the difference wraps back). `StoredIsEnforced`:
  until a second program is attached, the first drops exactly the packets whose
  source has the stored bytes; no block ends early although two clocks are mixed,
  nor because the loader stops or fails to start. The loader may be down with no
  start left, so deadlock is not checked.
* **session** (three calls, two clients of one subnet and one whose address is too short to have one,
  sequences of two; 5 million states up to exchange of the calls). `SequenceInOrder`, `ScoreIncludesOwn`,
  `BlockNeedsBothModels`: with the weights 0.6/0.4 and a neutral 0.5, one model
  alone stays at or below 0.80, under the block threshold 0.85. A sequence of
  two with three calls makes trimming happen, and three calls are enough for a
  write that arrives after a later push and for one more call that reads its result.

* **lifecycle** (two connections, five environments, two kills, signals or failed
  starts; 286 000 states). `GraceKept`: what a shutdown cuts off could no longer be
  answered, a connection accepted between the signal and the close of the listener
  included. `AnsweredIsPublished`: an answer that reached nginx has its events
  written, or refused by the broker, when the process is gone.
  `WindowIsPositive`: a typing error in the environment never yields a window that
  is not positive; only a number that is not positive itself or that overflows does.
  (With such a window Redis refuses the script's `SET ... EX` and the engine fails
  open: `CreateBucket` in `TokenBucket`.) The environments include both kinds.
  `ShutdownEnds` with a silent broker and evaluations that never return.
  `RecoversForGood`: after the last kill or failed start, at whatever step, the
  engine serves at a live socket file. Two stops allow a kill during a shutdown
  and a start over a stale file; the grace period (3 ticks) is longer than a
  connection's deadline (1 tick), as 2 s is than 200 ms.
* **counter** (two workers, windows 1 and 3, three requests and one eviction in a
  window; 2.6 million states up to exchange of the workers). `NeverOvercounts`: a
  counter holds no request older than its window. `BurstIsSeen`: the highest rate
  reported to the engine within a window is at least half of the requests counted in that
  window (a request whose `incr` failed is in no counter; a smaller share after an eviction), except for requests whose own
  rate is still to be read or was read after the key had gone. The counters are
  no sliding window, as the header of `counter.lua` says they are; this is how
  far off they may be.

Runs that show a disagreement between the code and its own documentation (the
quotations are in `PROJECT.json`):

* **window_denial**: every run of the script, refusals included, restarts the TTL.
  A client that keeps asking, however slowly, is refused for good once its
  bucket is empty, with no grant in the last `BucketTTL` seconds.
* **socket_fail_open**: a pooled connection is closed by the engine after 200 ms
  while nginx keeps it for 60 s; a request that takes it at that moment is let
  through, with a healthy engine and no time-out of nginx.
* **blockmap_byte_order**: on a little-endian host the key written is the reversed
  address.
* **blockmap_reload**: a start of the loader that fails leaves a pinned map behind;
  the program of the next start reads a new, empty map while the API writes to the
  pinned one, so an address blocked through the API is not dropped.
* **blockmap_clock**: the expiry is wall-clock time, the program compares it with
  time since boot; a block with a TTL does not end.

The last two use addresses that read the same in both byte orders, so that the
byte order plays no part.

Met while modelling, without a run of their own: a failed dial of the sidecar leaves
a nil client whose first use panics and ends the process (`ScorePanics`), where
`main.go:65` says "Non-fatal"; the engine opens the map at
`/sys/fs/bpf/ratelimiter/blocked_ips` and writes four-byte values, the loader pins
`/sys/fs/bpf/blocked_ips` with eight-byte values, so the engine's blocks do not
reach the kernel; the HTTP server's shutdown allows 5 s but `main` returns after 2 s
and the closes, so an HTTP request may be cut off (`main.go:7` speaks of a graceful
shutdown of both servers); `SCORE_BLOCK_THRESHOLD=NaN` parses, and no score is
greater than it; `loader/main.go:480` assigns the two results of `fmt.Sscanf` to one
variable, which the compiler rejects, and the model follows the evident intention;
`kafka/create-topics.sh` does not
create `blocked-ips`, and neither the broker (`docker-compose.yml:173`) nor the producer
(`producer.go:44`) creates topics by itself, so in this deployment every write of
`PublishBlocked` fails and what `producer.go:71` says ("PublishBlocked sends a blocked
IP to the blocked-ips topic") does not come true; the comment at
`ml-sidecar/scorer.py:68` ("so the LSTM score includes the current request") is
false when two calls of a subnet overlap, and `ScoreIncludesOwn` states when it is
true; the retraining job looks for `client_ip`, while the engine's events carry
`ip`, so it finds nothing, fits nothing and never comes to replace the baseline.

### Bounds

`MaxAttempts` stands for the client's redirect and retry limit, a real bound of
the code. `MaxOrphans`, `MaxLosses`, `MaxPending`, `MaxStarts`, `MaxStops`, `MaxTime`, and
`MaxRequests` and `MaxEvictions` of `RateCounter` are
bounds of the model only. No property is meant to hold because of one: the theorems
in section 4 hold for every `MaxOrphans` and without a bound on evictions and failovers, and one
or two events of the other kinds are enough for the behaviours described above. `PoolSize`, `MaxEntries` and `MaxSeqLen`
are the code's 32, the map's size and 20, made small so that the limit is reached.

### Fairness

* `Tick`: time passes.
* The steps of a Redis call, as one disjunction: each wait ends in a reply, an
  error or `ReadTimeout`; which of them is left open.
* The local steps of `Evaluate` including `ScoreFails`, because `callDeadline`
  ends the call; `ScoreReturns` is not fair, the sidecar may stay silent.
* nginx: its timers fire. Engine side of a connection: `SetDeadline` fires, and the
  goroutine goes on; that `Evaluate` returns is `EvaluateReturns` of `Engine`.

* `Lifecycle`: goroutines run, `Sleep` and the write time-outs end, and the supervisor
  starts a process that died or could not start (`restart: unless-stopped` in
  `docker-compose.yml`). After `docker stop` it does not; the fairness then stands for
  the operator who starts the container again.
  That evaluations return or that the broker acknowledges is not assumed. Kills,
  signals and failed starts are finitely many (`MaxStops`), which is what "after
  the last one" in `RecoversForGood` means.

No fairness is assumed of the operator, of expiry other than by time, or, outside
`Lifecycle`, of process restarts and of the engine being up.

## 4. Proofs

Every safety property that a passing run checks is also a theorem: the run shows it on
a small instance, the proof for all values of the constants. TLAPS checks every proof
to its last leaf. In each module the argument is an inductive invariant `Inv`, one lemma
per action, and a short last step from `Inv` to the property. TLC checked the
invariants on small instances before they were proved.

| module | theorems | state |
|---|---|---|
| `TokenBucketProofs` | `TypeCorrect`, `Conservation`, `HandedOutOnce`, `BucketImplementsQuota` | `TypeOK`, `BucketConserved`, `TokensHandedOutOnce`, `ImplementsQuota` |
| `WindowedBucketProofs` | `RateIsLimited`, `RecordedBucketIsBucket` | `RateLimited`, `WSpec => Spec` |
| `EngineProofs` | `TypeCorrect`, `FailuresNeverBlock`, `PardonsHold`, `PassesAreLimited`, `DoubleIsFaithful`, `EngineUsesBucket` | `TypeOK`, `OnlyEvidenceBlocks`, `PardonHolds`, `PassesWithinBucket`, `DoubleMirrors`, `Spec => Bucket!Spec` |
| `DecisionSocketProofs` | `TypeCorrect`, `VerdictIsOwn`, `PoolStaysClean` | `TypeOK`, `OwnVerdict`, `PoolIsClean` |
| `BlockMapProofs` | `TypeCorrect`, `ListIsTrue`, `StoredStaysEnforced` | `TypeOK`, `ListMatchesRequests`, `StoredIsEnforced` |
| `LifecycleProofs` | `TypeCorrect`, `GraceIsKept`, `AnsweredStaysOnRecord`, `WindowStaysPositive` | `TypeOK`, `GraceKept`, `AnsweredIsPublished`, `WindowIsPositive` |
| `SessionStoreProofs` | `TypeCorrect`, `WindowStaysInOrder`, `OwnVectorIsScored`, `NoModelBlocksAlone` | `TypeOK`, `SequenceInOrder`, `ScoreIncludesOwn`, `BlockNeedsBothModels` |
| `RateCounterProofs` | `TypeCorrect`, `RatesNeverTooHigh`, `BurstsAreSeen` | `TypeOK`, `NeverOvercounts`, `BurstIsSeen` |

### The bucket

For all values that satisfy `BucketAssumption` (`BucketSize` and `BucketTTL` any
integers, zero and negative ones included; `MaxAttempts` positive; `NoIP` no address).
`Inv` of `TokenBucketProofs` is the conjunction of

* `TypeOK`;
* `KeysExpire`: a key that exists has a positive TTL. Without it nothing ties a key
  to the configuration: with `BucketTTL <= 0` no key can ever exist;
* `BucketConserved`: needed by the step that takes a token;
* `EmptyStaysEmpty`: in a bucket configured without tokens the stored value is never
  positive, so no run grants a token. This carries the configurations with
  `BucketSize <= 0`, where a first run stores a value below zero;
* `HoldersServed`: a caller that holds a token has been answered by the script,
  for a key that exists. It links the history variable to the call;
* `TokensHandedOutOnce`: the token taken last has a lower number than all tokens
  held, which makes it different from each of them.

The refinement maps each action to one of `Quota`: `Decrement` to `Ask`; `Execute` to
`Grant`, `Deny` or `Fail`; `Retry` to `Again` or a stutter; `GiveUp` to `Fail`; `Finish`
and `Crash` to `Close`; `ExecuteOrphan` to `Waste` or a stutter; `Tick` and `Evict` to
`Renew`; `Failover` to `Restore`. The mapping is `used <- granted`, `asks <- target`,
`answer <- answerBar`, `Limit <- LimitBar`.

`RateLimited` needs a positive TTL (`WindowAssumption`) and one idea (`Charged`): some of
the grants in the window are charged to losses, a bucket's worth each, and the others are the
living bucket's own. It has counted them, and none of them is younger than the last run
of the script, because that run restarted the TTL. So when the TTL runs out, the
bucket's own grants leave the window with it, and a new bucket starts with none.

### The engine

For every finite set of handlers and all bucket sizes, TTLs, thresholds and scores
(`EngineAssumption`). `BucketInv` is what of the bucket's invariant the engine needs.
`EvidenceFirst`: whatever is on its way to the map or the topic (a stage, a reply, a
goroutine) has its evidence already. `Pardons` is the same for what is later than an
operator's DELETE: no evaluation has anything in hand (`Holds`) against an address that
is pardoned, because every refusal, high score or order ends the pardon. `PassesHaveTokens`: requests let through, plus
handlers with an unused token of the bucket of now (`Unused`), are no more than the
tokens handed out; this needs `CurrentIsLive`, which says when a reply still counts for
the bucket of now. `RoomLeft` keeps the goroutines under `MaxPending`.
`EngineUsesBucket` shows that the engine takes the bucket through its own steps only,
so the theorems about `TokenBucket` hold of the bucket inside the engine. `DoubleMirrors`
is a statement about two operators and is proved by cases on the reply and the score.

### The socket

For every finite set of connections and every pool size. At most one line of a
connection is with the engine (`OneLine`); a connection in use has one user
(`OneUser`, `InUse`); a request whose line is still with the engine waits at
that connection or has been given up (`Pending`); and up to its send a request's
connection is quiet, after it the engine owes the answer, the answer is there, or it
was lost (`OwnConnection`). A pooled connection is quiet (`PoolQuiet`), which is where
the error paths that close the connection are needed.

### The block map

For every set of IPv4 addresses closed under reversal, both byte orders, every integer
width and every `ttl_seconds` of that width. `MapHoldsRequests`: under the loader's key
of an address the pinned map has the expiry last asked for, and nothing after a removal
or an eviction. `RequestsFit`: no expiry is further ahead of the clock than
`ttl_seconds` can say; with it the wrapped difference in `GET /block` is the true one.

### The process

For every deadline shorter than the grace period, every environment and every integer
width. The listener is closed before the first tick of the grace period, so a connection
that is open is at least as old as the signal, up to its deadline (`OldConnections`);
once no connection can be answered, every event has reached a writer
(`EventsReachWriter`), and only the deferred calls close the writers (`MainInOrder`).

### The sidecar

For every set of calls, every window length and every set of model outputs. Stored
sequences and the copies that calls have read are windows in order (`StoreInOrder`,
`CopiesInOrder`); a push that met no other is kept by the store and by every
call that has read it since, also by one whose write is late (`PushKept`), because only whole windows of later pushes can
trim it away (`Covers`). `NoModelBlocksAlone` assumes a block threshold of 0.80 or more, as
the default 0.85 is. With a lower one a model alone does block: 0.6 of a full score
and 0.4 of a neutral one make 0.80.

### The rate counters

For every list of windows and any number of workers, requests and evictions. The
windows do not depend on each other, so the invariant `Good` is about one of them: every
hit in the window can be given a life of its key (the current one, the one that expired,
or one that an eviction ended) and the number `incr` returned in it (`Numbered`). Only
one expired life has hits in the window, since a key lives as long as the window, from its
first hit on. Hits that were seen have a number not above a rate reported later
(`Seen`), the others have a place of their own among the unseen of their age (`Placed`), and a
worker that has still to read knows which of these it made (`Awaited`). Then the seen hits are
at most lives times the highest rate, by counting pairs of life and number, which is
`BurstIsSeen`.

### Assumptions and limits

The constants' assumptions are in the modules and TLC evaluates them. Beyond types they
say: `Handlers` and `Conns` are finite; addresses have four octets; `Windows` is not empty;
the connection deadline is shorter than the grace period; the default TTL fits its
integer. `PowersOfTwo` in `Lifecycle` and `BlockMap` states the two facts about `2 ^ Width`
that the provers do not know; both are true of every positive `Width`.

The prover has no induction over data, so nothing may rest on what a sum over a
window is. "How many in the window" is therefore stated as the number of elements of
a set of events (`Grants`, `Events`), each known by its age and its number, and
the proofs compare such sets by injections.

Only model-checked: what must eventually happen, which is beyond the prover
(`DecrementReturns`, `IdleBucketExpires`, `EvaluateReturns`, `RequestFinishes`, `HandlerEnds`, `ShutdownEnds`, `RecoversForGood`); and the runs of section 3 that
show a disagreement.

## 5. Not modelled

* The numerics of the models, JSON and formatting, the netlink messages that attach
  the TC filter (an attempt succeeds or fails), generated protocol code, SQL schema,
  provisioning scripts, dashboards and the load test.
* The retraining job: with the events this engine writes it returns before it fits
  or replaces anything. A model of its later steps would describe a system that is
  not in the repository. (Were it fixed: it renames the baseline before it writes
  the new one, and a crash between the two leaves none under that name.)
* `redis/lua-scripts/token_bucket.lua` and `get_set_model.lua`: no code loads them.
* HTTP requests in progress at a shutdown, a second engine process at the same
  socket path, and failover in `Engine` (it is in `TokenBucket`).

The components with their reasons are in `PROJECT.json`.

## 6. Plan

The modules of the plan are written (`Quota`, `TokenBucket`, `WindowedBucket`, `Engine`,
`DecisionSocket`, `BlockMap`, `SessionStore`, `Lifecycle`, `RateCounter`), and the safety
properties of their runs are proved. What is left:

1. Action properties as theorems: what one step may not do (a verdict that changes once
   given, a block that ends without a removal, an expiry or an eviction).
2. The refinement through the engine: that `Engine` implements `Quota` for its handlers,
   from `EngineUsesBucket` and `BucketImplementsQuota`.
3. Under which additional assumptions the properties of the runs that fail would hold
   (a big-endian host, one start of the loader, equal clocks), as theorems.
