------------------------------- MODULE Config -------------------------------
(***************************************************************************)
(* The configuration of the processor: what Config.Validate accepts        *)
(* (config.go), and what newTracesProcessor, triggers.New, buffer.New and  *)
(* forward.NewClient make of it.                                           *)
(*                                                                         *)
(* Durations are in seconds, below half of what a time.Duration can hold.  *)
(* A rate and the baseline multiplier are float64: a multiple of 1/One, or *)
(* infinite, or NaN.  One is any number; with a power of two that is large *)
(* enough every finite float64 is such a multiple.  An endpoint is what    *)
(* its URL and its host are classified as: parsing URLs and looking up     *)
(* hosts are the standard library's.                                       *)
(***************************************************************************)
EXTENDS Integers

CONSTANT One     \* the rate 1.0

ASSUME OneAssumption == One \in Nat /\ One >= 100

Floats    == [class : {"-Inf", "number", "+Inf", "NaN"}, n : Int]
Number(n) == [class |-> "number", n |-> n]

\* The comparisons <= and > of Go.  Both are false of NaN.
AtMost(x, y) ==
    \/ x.class = "number" /\ y.class = "number" /\ x.n <= y.n
    \/ x.class = "-Inf" /\ y.class # "NaN"
    \/ y.class = "+Inf" /\ x.class # "NaN"
Above(x, y) == x.class # "NaN" /\ y.class # "NaN" /\ ~AtMost(x, y)

Endpoints ==
    [parses  : BOOLEAN,                              \* url.Parse succeeds
     scheme  : {"https", "http", "other", "none"},
     host    : {"named", "only a port", "none"},     \* u.Hostname() is not empty: "named"
     blocked : BOOLEAN]                              \* isBlockedHost
Rates     == [high : Floats, mild : Floats]
Pileups   == [minAbsolute : Int, multiplier : Floats, netGrowth : Int, severeHold : Int,
              mildHold : Int]
Configs   ==
    [window : Int, maxBuffer : Int, endpoint : Endpoints, insecure : BOOLEAN,
     hasToken : BOOLEAN, timeout : Int,
     error5xx : Rates, slow : Rates, retry : Rates, inFlight : Pileups]

\* A literal of the source, to the next lower multiple of 1/One.
Percent(p) == Number((p * One) \div 100)

\* DefaultConfig.  The token has no default.
DefaultConfig ==
    [window |-> 300, maxBuffer |-> 50000,
     endpoint |-> [parses |-> TRUE, scheme |-> "https", host |-> "named", blocked |-> FALSE],
     insecure |-> FALSE, hasToken |-> FALSE, timeout |-> 30,
     error5xx |-> [high |-> Percent(10), mild |-> Percent(2)],
     slow |-> [high |-> Percent(20), mild |-> Percent(10)],
     retry |-> [high |-> Percent(10), mild |-> Percent(5)],
     inFlight |-> [minAbsolute |-> 16, multiplier |-> Number(3 * One), netGrowth |-> 8,
                   severeHold |-> 6, mildHold |-> 3]]

-----------------------------------------------------------------------------
(***************************************************************************)
(* Validate and the validations it calls.                                  *)
(***************************************************************************)

\* An empty endpoint has neither a scheme nor a host.
validateForwardEndpoint(e, insecure) ==
    /\ e.parses /\ e.scheme \in {"https", "http"} /\ e.host = "named"
    /\ insecure \/ (e.scheme = "https" /\ ~e.blocked)

\* Three methods: of ErrorRate5xxConfig, whose mild is called low, of
\* SlowSuccessRateConfig and of RetryRateConfig.
RatesAccepted(r) ==
    /\ ~(AtMost(r.high, Number(0)) \/ Above(r.high, Number(One)))
    /\ ~(AtMost(r.mild, Number(0)) \/ Above(r.mild, r.high))

PileupAccepted(i) ==
    /\ i.minAbsolute > 0 /\ ~AtMost(i.multiplier, Number(0))
    /\ i.netGrowth >= 0
    /\ i.severeHold >= i.mildHold

Validate(c) ==
    /\ c.window > 0 /\ c.maxBuffer > 0
    /\ validateForwardEndpoint(c.endpoint, c.insecure)
    /\ c.timeout >= 0
    /\ RatesAccepted(c.error5xx) /\ RatesAccepted(c.slow) /\ RatesAccepted(c.retry)
    /\ PileupAccepted(c.inFlight)

-----------------------------------------------------------------------------
(***************************************************************************)
(* What newTracesProcessor builds.                                         *)
(***************************************************************************)
OrDefault(n, default) == IF n <= 0 THEN default ELSE n

\* triggers.New: the processor leaves three fields at zero.
NewEvaluator(c) ==
    [maxServices |-> OrDefault(0, 4096), serviceTTL |-> OrDefault(0, 600),
     minSamples |-> OrDefault(0, 20),
     error5xx |-> c.error5xx, slow |-> c.slow, retry |-> c.retry, inFlight |-> c.inFlight]

\* DefaultConfig of the package triggers, which only its tests use.
TriggerDefaults ==
    [maxServices |-> 4096, serviceTTL |-> 600, minSamples |-> 20,
     error5xx |-> [high |-> Percent(10), mild |-> Percent(2)],
     slow |-> [high |-> Percent(20), mild |-> Percent(10)],
     retry |-> [high |-> Percent(10), mild |-> Percent(5)],
     inFlight |-> [minAbsolute |-> 16, multiplier |-> Number(3 * One), netGrowth |-> 8,
                   severeHold |-> 6, mildHold |-> 3]]

\* buffer.New panics without a positive MaxSpans.
NewRing(c) == [maxSpans |-> c.maxBuffer, window |-> OrDefault(c.window, 300)]
RingPanics(c) == c.maxBuffer <= 0

newTraceBreakerTTL(c) == 2 * c.window

\* splitEndpoint finds a base.
splitEndpoint(e) == e.parses /\ e.scheme # "none" /\ e.host # "none"

\* forward.NewClient returns a client, and the client's timeout.  The ingest client
\* it wraps, which is not part of the repository, is taken to accept a base and a key.
ClientBuilt(c) == c.hasToken /\ splitEndpoint(c.endpoint)
ClientTimeout(c) == OrDefault(c.timeout, 30)

\* The deadline drainDLQOnce gives each send: the configured time as it stands.
DrainTimeout(c) == c.timeout

\* newTracesProcessor returns a processor.  A failure of the telemetry does not
\* stop it.
ProcessorBuilt(c) == Validate(c) /\ ClientBuilt(c)

-----------------------------------------------------------------------------
\* What RateTrigger assumes of its thresholds and Evaluator of its in-flight
\* trigger, in units of 1/One.
RatesFit(mild, high) == mild \in 1..high /\ high \in 1..One
PileupFits(minAbsolute, multiplier, severeHold, mildHold) ==
    /\ minAbsolute \in Nat \ {0} /\ multiplier \in Nat \ {0}
    /\ severeHold >= mildHold

IsNumber(x) == x.class = "number"
AllNumbers(c) ==
    \A x \in {c.error5xx.high, c.error5xx.mild, c.slow.high, c.slow.mild, c.retry.high,
              c.retry.mild, c.inFlight.multiplier} : IsNumber(x)

\* What the modules of the parts assume of their constants: Ring of its bounds,
\* TraceBreaker of its TTL, RateTrigger of its thresholds and samples, Evaluator
\* of its table and of the in-flight trigger.  Only the holds of that trigger may
\* be anything, as long as the severe one is not the shorter.
PartsFit(c) ==
    LET e == NewEvaluator(c)
        Fits(r) == IsNumber(r.mild) /\ IsNumber(r.high) /\ RatesFit(r.mild.n, r.high.n)
        i == e.inFlight
    IN  /\ ~RingPanics(c)
        /\ NewRing(c).maxSpans \in Nat \ {0} /\ NewRing(c).window \in Nat \ {0}
        /\ newTraceBreakerTTL(c) > NewRing(c).window
        /\ Fits(e.error5xx) /\ Fits(e.slow) /\ Fits(e.retry)
        /\ e.minSamples \in Nat \ {0} /\ e.maxServices \in Nat \ {0} /\ e.serviceTTL \in Nat
        /\ IsNumber(i.multiplier)
        /\ PileupFits(i.minAbsolute, i.multiplier.n, i.severeHold, i.mildHold)
        /\ ClientTimeout(c) \in Nat \ {0}
=============================================================================
