------------------------------ MODULE Lifecycle ------------------------------
(***************************************************************************)
(* The life of the decision-engine process: configuration, start, the two  *)
(* servers, the shutdown after a signal, and the restarts by its           *)
(* supervisor (decision-engine/cmd/server/main.go, internal/config,        *)
(* New and Close of the Redis client and of the Kafka producer).           *)
(*                                                                         *)
(* The process may be killed at any step.  What outlives it is the socket  *)
(* file, on a volume shared with nginx.  Time passes in ticks of less than *)
(* the 200 ms a connection has; a goroutine that can run does so before    *)
(* the next tick.                                                          *)
(***************************************************************************)
EXTENDS Integers, Sequences

CONSTANTS Requests,      \* connections of nginx in one life of the process
          Envs,          \* environments: redis, brokers, ttl
          Unset, Junk,   \* a variable that is not set; text that is no number
          Blank,         \* an empty or blank part of a list
          Width,         \* bits of int64
          Second,        \* time.Second, in nanoseconds
          DefaultTTL,    \* the default of BUCKET_TTL_SECONDS
          ConnDeadline,  \* ticks: 200 ms
          Grace,         \* ticks: main's 2 s
          MaxStops       \* bound: kills, signals and failed starts

ASSUME LifecycleAssumption ==
  /\ Width \in Nat \ {0} /\ Second \in Nat \ {0}
  /\ DefaultTTL \in Nat \ {0} /\ DefaultTTL * Second < 2 ^ (Width - 1)
  /\ ConnDeadline \in Nat /\ Grace \in Nat /\ ConnDeadline < Grace
  /\ MaxStops \in Nat

(* What the proofs need to know of the two powers of two below.            *)
ASSUME PowersOfTwo == /\ 2 ^ (Width - 1) \in Nat \ {0}
                      /\ 2 ^ Width = 2 * 2 ^ (Width - 1)

VARIABLES env,      \* the environment of the last start
          cfg,      \* what Load made of it
          main,     \* where main is
          sock,     \* where runUnixSocket is
          http,     \* where runHTTP is
          file,     \* the socket file
          open,     \* the Kafka writers that are not closed
          since,    \* ticks since the signal
          conn,     \* conn[r]: where handleConn is
          age,      \* age[r]: ticks since the connection was accepted
          event,    \* event[t][r]: the event of r for topic t
          exit,     \* how the last process ended
          stops     \* kills, signals and failed starts so far

config == <<env, cfg>>
servers == <<sock, http, file>>
requests == <<conn, age, event>>
vars == <<config, main, servers, open, since, requests, exit, stops>>

Topics == {"decisions", "blocked"}

MaxInt == 2 ^ (Width - 1) - 1

TypeOK == /\ env \in Envs
          /\ cfg.ttl \in -MaxInt - 1 .. MaxInt
          /\ main \in {"down", "up", "draining", "closing"}
          /\ sock \in {"off", "starting", "listening", "closed"}
          /\ http \in {"off", "starting", "listening", "closed"}
          /\ file \in {"none", "live", "stale"}
          /\ file = "live" <=> sock = "listening"
          /\ open \subseteq Topics
          /\ since \in 0 .. Grace
          /\ conn \in [Requests -> {"new", "open", "answered", "late", "cut"}]
          /\ age \in [Requests -> 0 .. ConnDeadline + 1]
          /\ event \in [Topics -> [Requests -> {"none", "spawned", "sending", "written",
                                                "refused", "dropped", "lost"}]]
          /\ exit \in {"none", "clean", "died"}
          /\ stops \in 0 .. MaxStops

-----------------------------------------------------------------------------
(* Configuration.  Lists are sequences of parts, numbers are integers.     *)

GetEnv(v, default) == IF v = Unset THEN default ELSE v

(* Mutant: a number that cannot be parsed counts as zero.                  *)
GetEnvOrZero(v, default) ==
  IF v = Unset THEN default ELSE IF v = Junk THEN 0 ELSE v

(* strconv.ParseInt refuses text and what does not fit into int64.         *)
GetEnvInt64(v, default) ==
  IF v \in {Unset, Junk} THEN default ELSE IF v \in -MaxInt - 1 .. MaxInt THEN v ELSE default

SplitCSV(parts) == SelectSeq(parts, LAMBDA p : p # Blank)

(* Duration(n) * time.Second wraps; Decrement hands its whole seconds to   *)
(* the script, rounded towards zero.                                       *)
TTLSeconds(n) ==
  LET u == (n * Second) % 2 ^ Width
      d == IF u <= MaxInt THEN u ELSE u - 2 ^ Width
  IN  IF d >= 0 THEN d \div Second ELSE -((-d) \div Second)

Load(e) == [redis   |-> SplitCSV(GetEnv(e.redis, <<"localhost">>)),
            brokers |-> SplitCSV(GetEnv(e.brokers, <<"localhost">>)),
            ttl     |-> TTLSeconds(GetEnvInt64(e.ttl, DefaultTTL))]

Fresh(s) == [r \in Requests |-> s]

Init == /\ env \in Envs /\ cfg = Load(env)
        /\ main = "down" /\ sock = "off" /\ http = "off" /\ file = "none"
        /\ open = {} /\ since = 0
        /\ conn = Fresh("new") /\ age = Fresh(0)
        /\ event = [t \in Topics |-> Fresh("none")]
        /\ exit = "none" /\ stops = 0

-----------------------------------------------------------------------------
(* The end of the process, whatever ends it: connections break, events on  *)
(* their way are lost, and a socket file nobody unlinked stays.            *)

Fault == stops < MaxStops /\ stops' = stops + 1

EndProcess(how) ==
  /\ main' = "down" /\ exit' = how
  /\ sock' = "off" /\ http' = "off" /\ open' = {} /\ since' = 0
  /\ file' = IF file = "live" THEN "stale" ELSE file
  /\ conn' = [r \in Requests |-> IF conn[r] = "open" THEN "cut" ELSE conn[r]]
  /\ event' = [t \in Topics |-> [r \in Requests |->
                 IF event[t][r] \in {"spawned", "sending"} THEN "lost" ELSE event[t][r]]]
  /\ UNCHANGED <<config, age>>

(* log.Fatal and death by a signal run no deferred call.                   *)
Killed == main # "down" /\ Fault /\ EndProcess("died")

-----------------------------------------------------------------------------
(* Start                                                                   *)

(* main up to the start of the two server goroutines: configuration, a     *)
(* Redis that answers the ping.                                            *)
Start(e) ==
  /\ main = "down" /\ Load(e).redis # <<>>
  /\ env' = e /\ cfg' = Load(e)
  /\ main' = "up" /\ sock' = "starting" /\ http' = "starting"
  /\ open' = Topics /\ exit' = "none"
  /\ conn' = Fresh("new") /\ age' = Fresh(0)
  /\ event' = [t \in Topics |-> Fresh("none")]
  /\ UNCHANGED <<file, since, stops>>

(* No Redis address, no answer within 5 s, or a signal before              *)
(* NotifyContext: the process ends before it has touched anything.         *)
StartFails(e) ==
  /\ main = "down" /\ Fault
  /\ env' = e /\ cfg' = Load(e) /\ exit' = "died"
  /\ UNCHANGED <<main, servers, open, since, requests>>

(* Mutant: runUnixSocket does not remove the file of an earlier run.       *)
FileKept == file

(* The socket file after os.Remove, whose error is ignored.                *)
FileRemoved == "none"

(* The first half of runUnixSocket.  The context may be done already.      *)
ListenSocket == /\ sock = "starting" /\ FileRemoved = "none"
                /\ sock' = "listening" /\ file' = "live"
                /\ UNCHANGED <<config, main, http, open, since, requests, exit, stops>>

(* net.Listen finds a file, or fails for another reason: log.Fatal.        *)
ListenSocketFails == /\ sock = "starting"
                     /\ Fault \/ (FileRemoved # "none" /\ UNCHANGED stops)
                     /\ EndProcess("died")

(* ListenAndServe; a port in use is log.Fatal.                             *)
ListenHTTP == /\ http = "starting"
              /\ http' = "listening"
              /\ UNCHANGED <<config, main, sock, file, open, since, requests, exit, stops>>

ListenHTTPFails == http = "starting" /\ Fault /\ EndProcess("died")

-----------------------------------------------------------------------------
(* Work: handleConn as far as its deadline and its events matter           *)

Accept(r) == /\ sock = "listening" /\ conn[r] = "new"
             /\ conn' = [conn EXCEPT ![r] = "open"]
             /\ UNCHANGED <<config, main, servers, open, since, age, event, exit, stops>>

(* Evaluate starts its publishing goroutines and returns; writeResponse    *)
(* reaches nginx only before the deadline.                                 *)
Answer(r, blocks) ==
  /\ conn[r] = "open"
  /\ conn' = [conn EXCEPT ![r] = IF age[r] <= ConnDeadline THEN "answered" ELSE "late"]
  /\ event' = [event EXCEPT !["decisions"][r] = "spawned",
                            !["blocked"][r] = IF blocks THEN "spawned" ELSE @]
  /\ UNCHANGED <<config, main, servers, open, since, age, exit, stops>>

(* The goroutine calls WriteMessages: a closed writer refuses at once, an  *)
(* open one takes part in what Close waits for.                            *)
WriteMessages(t, r) ==
  /\ event[t][r] = "spawned"
  /\ event' = [event EXCEPT ![t][r] = IF t \in open THEN "sending" ELSE "dropped"]
  /\ UNCHANGED <<config, main, servers, open, since, conn, age, exit, stops>>

(* Mutant: a batch is tried until the broker takes it.                     *)
ResultsForever == {"written"}

(* The batch is acknowledged, or its attempts are used up: each ends after *)
(* WriteTimeout at the latest.                                             *)
Results == {"written", "refused"}

Deliver(t, r, result) ==
  /\ event[t][r] = "sending"
  /\ result = "written" => cfg.brokers # <<>>
  /\ event' = [event EXCEPT ![t][r] = result]
  /\ UNCHANGED <<config, main, servers, open, since, conn, age, exit, stops>>

-----------------------------------------------------------------------------
(* Shutdown                                                                *)

(* SIGINT or SIGTERM after NotifyContext.                                  *)
Signal == /\ main = "up" /\ Fault
          /\ main' = "draining"
          /\ UNCHANGED <<config, servers, open, since, requests, exit>>

(* The goroutine of runUnixSocket closes the listener, which unlinks the   *)
(* file; Accept returns ErrClosed.                                         *)
CloseListener == /\ main \in {"draining", "closing"} /\ sock = "listening"
                 /\ sock' = "closed" /\ file' = "none"
                 /\ UNCHANGED <<config, main, http, open, since, requests, exit, stops>>

(* Shutdown; a later ListenAndServe returns ErrServerClosed.               *)
ShutdownHTTP == /\ main \in {"draining", "closing"} /\ http \in {"starting", "listening"}
                /\ http' = "closed"
                /\ UNCHANGED <<config, main, sock, file, open, since, requests, exit, stops>>

(* Mutant: main does not wait.                                             *)
WakeAtOnce == main = "draining"

(* Mutant: off by one.                                                     *)
AwakeLate == main = "draining" /\ since > Grace

(* time.Sleep is over.                                                     *)
Awake == main = "draining" /\ since = Grace

(* The deferred calls run, last first: stop, block list, ML, then Kafka.   *)
Wake == /\ Awake
        /\ main' = "closing"
        /\ UNCHANGED <<config, servers, open, since, requests, exit, stops>>

Sending(t) == \E r \in Requests : event[t][r] = "sending"

(* Mutant: Close does not wait for messages on their way.                  *)
FlushedAtOnce(t) == t \notin open

(* Writer.Close marks the writer closed and waits for its messages.        *)
Flushed(t) == t \notin open /\ ~Sending(t)

(* Producer.Close: decisions, then blocked.                                *)
CloseWriter(t) == /\ main = "closing" /\ t \in open
                  /\ t = "blocked" => Flushed("decisions")
                  /\ open' = open \ {t}
                  /\ UNCHANGED <<config, main, servers, since, requests, exit, stops>>

(* redisClient.Close, and main returns.                                    *)
Exit == /\ main = "closing" /\ \A t \in Topics : Flushed(t)
        /\ EndProcess("clean")
        /\ UNCHANGED stops

-----------------------------------------------------------------------------
Runnable == \/ "starting" \in {sock, http}
            \/ main = "draining" /\ "listening" \in {sock, http}
            \/ \E t \in Topics, r \in Requests : event[t][r] = "spawned"
            \/ Awake

Tick == /\ main # "down" /\ ~Runnable
        /\ since' = IF main = "draining" THEN since + 1 ELSE since
        /\ age' = [r \in Requests |-> IF conn[r] = "open" /\ age[r] <= ConnDeadline
                                      THEN age[r] + 1 ELSE age[r]]
        /\ UNCHANGED <<config, main, servers, open, conn, event, exit, stops>>

Listening == ListenSocket \/ ListenSocketFails

Next == \/ \E e \in Envs : Start(e) \/ StartFails(e)
        \/ Listening \/ ListenHTTP \/ ListenHTTPFails
        \/ \E r \in Requests : Accept(r)
        \/ \E r \in Requests, blocks \in BOOLEAN : Answer(r, blocks)
        \/ \E t \in Topics, r \in Requests : WriteMessages(t, r)
        \/ \E t \in Topics, r \in Requests, result \in Results : Deliver(t, r, result)
        \/ Signal \/ CloseListener \/ ShutdownHTTP \/ Wake \/ Exit
        \/ \E t \in Topics : CloseWriter(t)
        \/ Killed \/ Tick

(* Goroutines run, timers fire, a message is acknowledged or given up, and *)
(* the supervisor ("restart: unless-stopped") starts a process that ended. *)
(* That evaluations return is not assumed, nor that the broker answers.    *)
Fairness ==
  /\ WF_vars(\E e \in Envs : Start(e))
  /\ WF_vars(Listening) /\ WF_vars(ListenHTTP)
  /\ WF_vars(CloseListener) /\ WF_vars(ShutdownHTTP)
  /\ WF_vars(Wake) /\ WF_vars(\E t \in Topics : CloseWriter(t)) /\ WF_vars(Exit)
  /\ WF_vars(Tick)
  /\ \A t \in Topics, r \in Requests :
       /\ WF_vars(WriteMessages(t, r))
       /\ WF_vars(\E result \in Results : Deliver(t, r, result))

Spec == Init /\ [][Next]_vars /\ Fairness

-----------------------------------------------------------------------------
(* "Give goroutines a moment to finish in-flight requests": a shutdown     *)
(* after a signal cuts no connection off that could still be answered,     *)
(* also one accepted after the signal, just before the listener closed.    *)
GraceKept == exit = "clean" =>
  \A r \in Requests : conn[r] = "cut" => age[r] > ConnDeadline

(* An answer that reached nginx is on record: after a shutdown by signal   *)
(* its events have been written, or refused by the broker; none was        *)
(* dropped at a closed writer or lost in a goroutine that had not run.     *)
AnsweredIsPublished == exit = "clean" =>
  \A t \in Topics, r \in Requests :
    conn[r] = "answered" => event[t][r] \in {"none", "written", "refused"}

(* A window that is not positive, with which Redis refuses the SET ... EX  *)
(* of the script and the engine fails open on every request, comes only    *)
(* from a number in the environment that is itself not positive or that    *)
(* overflows a Duration; a typing error gives the default.                 *)
WindowIsPositive == main # "down" /\ cfg.ttl <= 0 =>
  /\ env.ttl \notin {Unset, Junk}
  /\ env.ttl <= 0 \/ env.ttl * Second > MaxInt

(* A shutdown ends, also when the broker is silent and evaluations hang.   *)
ShutdownEnds == main = "draining" ~> main = "down"

(* After the last kill or failed start the engine serves for good, at a    *)
(* socket file that leads to it: no state a killed process leaves behind   *)
(* stands in the way.                                                      *)
RecoversForGood ==
  <>[](main = "up" /\ sock = "listening" /\ http = "listening" /\ file = "live")
==============================================================================
