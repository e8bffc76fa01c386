------------------------------ MODULE ToolCall ------------------------------
(***************************************************************************)
(* finroot.tools.base.BaseTool.__call__: TTL cache, token-bucket rate      *)
(* limiter, retries with exponential backoff and audit emission, called by *)
(* one thread (an orchestrator owns its tools and runs them one by one).   *)
(*                                                                         *)
(* Time is discrete. A tick is the time in which the bucket earns one unit *)
(* of a token; a token is TokenTicks units, so that elapsed * rate_per_sec *)
(* tokens are `elapsed` units, and waiting for the missing part of a token *)
(* takes as many ticks as units are missing. The bucket holds Burst units, *)
(* rate_per_sec tokens: Burst is also the number of ticks of a second.     *)
(*                                                                         *)
(* A value the upstream source returns is represented by the input it was  *)
(* asked for and the instant at which the source was read.                 *)
(***************************************************************************)
EXTENDS Integers, Sequences

CONSTANTS
    Inputs,         \* inputs of the tool
    Keys, KeyOf,    \* _cache_key: the SHA-256 of str(inp)
    TTL,            \* ttl_seconds
    TokenTicks,     \* ticks of 1 / rate_per_sec
    Burst,          \* ticks of a second
    MaxRetries,     \* max_retries
    BaseDelay,      \* base_delay
    RunMax,         \* bound on the duration of one _run()
    IdleMax,        \* bound on the time between two calls
    MaxCalls,       \* bound on the number of calls
    None            \* no entry, no value, no input

ASSUME KeyAssumption ==
    /\ KeyOf \in [Inputs -> Keys]
    /\ \A x, y \in Inputs : KeyOf[x] = KeyOf[y] => x = y
ASSUME TimeAssumption ==
    /\ TTL \in Nat /\ RunMax \in Nat /\ BaseDelay \in Nat /\ IdleMax \in Nat
    /\ TokenTicks \in Nat \ {0} /\ Burst \in Nat \ {0}
ASSUME CountAssumption == MaxRetries \in Nat /\ MaxCalls \in Nat
(* What the proofs need to know of 2^k and the provers do not; TLC         *)
(* evaluates it in every run.                                              *)
ASSUME PowerAssumption ==
    /\ 2^0 = 1
    /\ \A k \in 0..MaxRetries : 2^k \in 1..(2^MaxRetries) /\ 2^(k + 1) = 2 * 2^k
    /\ 2^MaxRetries \in Nat
ASSUME NoneAssumption ==
    /\ None \notin Inputs
    /\ None \notin [of: Inputs, at: Nat]
    /\ None \notin [ts: Nat, value: [of: Inputs, at: Nat]]
    /\ None \notin [asked: Inputs, value: [of: Inputs, at: Nat] \union {None}, at: Nat]

VARIABLES
    now,            \* time.monotonic()
    tokens,         \* _tokens, in units
    last_refill,    \* _last_refill
    cache,          \* _cache
    pc,             \* what the tool is doing
    since,          \* when it started doing it
    wake,           \* when the current sleep ends
    inp,            \* input of the current call
    attempt,        \* attempts of the current call that have failed
    read,           \* what the current _run() has read upstream
    audit,          \* the tool's events in the trail
    refused,        \* history: returned values whose event the trail refused
    called,         \* history: when the current call was made
    result,         \* history: outcome of the last call
    calls,          \* history: number of calls
    granted         \* history: number of calls the limiter let through

bucket == <<tokens, last_refill, granted>>
run == <<inp, attempt, read>>
trail == <<audit, refused>>
vars == <<now, bucket, cache, pc, since, wake, run, trail, called, result, calls>>

Value == [of: Inputs, at: Nat]
Entry == [ts: Nat, value: Value]
Result == [asked: Inputs, value: Value \union {None}, at: Nat]
Event == [type: {"tool.called", "tool.failed"}, input: Inputs, output: Value \union {None}]

TypeOK ==
    /\ now \in Nat /\ last_refill \in Nat /\ since \in Nat
    /\ wake \in Nat /\ called \in Nat
    /\ tokens \in 0..Burst
    /\ cache \in [Keys -> Entry \union {None}]
    /\ pc \in {"idle", "limited", "running", "backoff"}
    /\ inp \in Inputs \union {None}
    /\ attempt \in 0..MaxRetries
    /\ read \in Value \union {None}
    /\ audit \in Seq(Event)
    /\ refused \in SUBSET Value
    /\ result \in Result \union {None}
    /\ calls \in 0..MaxCalls
    /\ granted \in Nat

Init ==
    /\ now = 0 /\ last_refill = 0 /\ since = 0 /\ wake = 0 /\ called = 0
    /\ tokens = Burst
    /\ cache = [k \in Keys |-> None]
    /\ pc = "idle"
    /\ inp = None /\ attempt = 0 /\ read = None
    /\ audit = << >> /\ refused = {}
    /\ result = None
    /\ calls = 0 /\ granted = 0

-----------------------------------------------------------------------------

Goto(label) == pc' = label /\ since' = now

Least(a, b) == IF a <= b THEN a ELSE b

(* _cache_get                                                              *)
Fresh(entry) == entry # None /\ now - entry.ts <= TTL

ShortfallForgotten(t) == 0                          \* mutant

(* The bucket once refilled, and how long the caller must sleep then.      *)
Refilled == Least(Burst, tokens + (now - last_refill))
Shortfall(t) == IF t < TokenTicks THEN TokenTicks - t ELSE 0

(* Mutant: a hit starts the life of the entry anew.                        *)
HitRenews(x) ==
    /\ pc = "idle" /\ calls < MaxCalls
    /\ Fresh(cache[KeyOf[x]])
    /\ cache' = [cache EXCEPT ![KeyOf[x]].ts = now]
    /\ result' = [asked |-> x, value |-> cache[KeyOf[x]].value, at |-> now]
    /\ calls' = calls + 1
    /\ called' = now
    /\ Goto("idle")
    /\ UNCHANGED <<now, bucket, wake, run, trail>>

(* The call x finds a live entry and returns its value.                    *)
Hit(x) ==
    /\ pc = "idle" /\ calls < MaxCalls
    /\ Fresh(cache[KeyOf[x]])
    /\ result' = [asked |-> x, value |-> cache[KeyOf[x]].value, at |-> now]
    /\ calls' = calls + 1
    /\ called' = now
    /\ Goto("idle")
    /\ UNCHANGED <<now, bucket, cache, wake, run, trail>>

(* _last_refill moves to the present.                                      *)
RefillClock == last_refill' = now

(* The call x finds none, forgets an expired one, and asks for a token.    *)
Miss(x) ==
    /\ pc = "idle" /\ calls < MaxCalls
    /\ ~Fresh(cache[KeyOf[x]])
    /\ cache' = [cache EXCEPT ![KeyOf[x]] = None]
    /\ tokens' = Refilled
    /\ RefillClock
    /\ wake' = now + Shortfall(Refilled)
    /\ inp' = x /\ attempt' = 0 /\ read' = None
    /\ calls' = calls + 1
    /\ called' = now
    /\ Goto("limited")
    /\ UNCHANGED <<now, granted, trail, result>>

(* Mutant: after the sleep the caller needs a whole token all the same.    *)
GrantWholeToken ==
    /\ pc = "limited" /\ now >= wake
    /\ tokens >= TokenTicks
    /\ tokens' = tokens - TokenTicks
    /\ granted' = granted + 1
    /\ Goto("running")
    /\ UNCHANGED <<now, last_refill, cache, wake, run, trail, called, result, calls>>

(* The rest of _consume_token, after the sleep if there was one.           *)
Grant ==
    /\ pc = "limited" /\ now >= wake
    /\ tokens' = IF tokens < TokenTicks THEN 0 ELSE tokens - TokenTicks
    /\ granted' = granted + 1
    /\ Goto("running")
    /\ UNCHANGED <<now, last_refill, cache, wake, run, trail, called, result, calls>>

(* Some time during _run the source is read.                               *)
ReadUpstream ==
    /\ pc = "running" /\ read = None
    /\ read' = [of |-> inp, at |-> now]
    /\ UNCHANGED <<now, bucket, cache, pc, since, wake, inp, attempt, trail, called,
                   result, calls>>

Recorded(type, output) ==
    Append(audit, [type |-> type, input |-> inp, output |-> output])

EmitFailures(type, output) ==       \* mutant: successes are not audited
    /\ audit' = IF type = "tool.called" THEN audit ELSE Recorded(type, output)
    /\ UNCHANGED refused

(* _emit_audit: a failing append is logged and forgotten.                  *)
EmitAudit(type, output) ==
    \/ /\ audit' = Recorded(type, output)
       /\ UNCHANGED refused
    \/ /\ refused' = refused \union ({output} \ {None})
       /\ UNCHANGED audit

(* _run succeeds: cache the result, audit it, return it.                   *)
RunReturns ==
    /\ pc = "running" /\ read # None
    /\ cache' = [cache EXCEPT ![KeyOf[inp]] = [ts |-> now, value |-> read]]
    /\ EmitAudit("tool.called", read)
    /\ result' = [asked |-> inp, value |-> read, at |-> now]
    /\ Goto("idle")
    /\ UNCHANGED <<now, bucket, wake, run, called, calls>>

DelayLinear(k) == BaseDelay * k                     \* mutant

(* The backoff after the k-th attempt, counting from 0.                    *)
Delay(k) == BaseDelay * 2^k

(* _run raises and there is an attempt left: sleep, ...                    *)
RunRaises ==
    /\ pc = "running" /\ attempt < MaxRetries
    /\ wake' = now + Delay(attempt)
    /\ attempt' = attempt + 1
    /\ Goto("backoff")
    /\ UNCHANGED <<now, bucket, cache, inp, read, trail, called, result, calls>>

(* ... then try again.                                                     *)
Retry ==
    /\ pc = "backoff" /\ now >= wake
    /\ read' = None
    /\ Goto("running")
    /\ UNCHANGED <<now, bucket, cache, wake, inp, attempt, trail, called, result, calls>>

(* The last attempt raises: ToolCallError.                                 *)
CallFails ==
    /\ pc = "running" /\ attempt = MaxRetries
    /\ EmitAudit("tool.failed", None)
    /\ result' = [asked |-> inp, value |-> None, at |-> now]
    /\ Goto("idle")
    /\ UNCHANGED <<now, bucket, cache, wake, run, called, calls>>

(* Time passes: time.sleep does not oversleep, a _run ends within RunMax.  *)
Tick ==
    /\ \/ pc = "idle" /\ now - since < IdleMax
       \/ pc \in {"limited", "backoff"} /\ now < wake
       \/ pc = "running" /\ now - since < RunMax
    /\ now' = now + 1
    /\ UNCHANGED <<bucket, cache, pc, since, wake, run, trail, called, result, calls>>

Step == Grant \/ ReadUpstream \/ RunReturns \/ RunRaises \/ Retry \/ CallFails

Next ==
    \/ \E x \in Inputs : Hit(x) \/ Miss(x)
    \/ Step
    \/ Tick

Spec == Init /\ [][Next]_vars

(* Sleeps end, and a _run returns or raises: the tools' clients have their *)
(* own timeouts. Nobody has to call.                                       *)
Fairness == WF_vars(Step) /\ WF_vars(Tick /\ pc # "idle")

FairSpec == Spec /\ Fairness

-----------------------------------------------------------------------------
(* Properties                                                              *)

(* A returned value answers the input that was asked and was read upstream *)
(* no longer ago than the TTL and one _run: neither a hit nor a failing    *)
(* upstream extends the life of an old value.                              *)
ResultIsFresh ==
    result # None /\ result.value # None =>
        /\ result.value.of = result.asked
        /\ result.at - result.value.at <= TTL + RunMax

(* The limiter never lets through more than a full bucket and twice the    *)
(* nominal rate. Twice, because the time slept for a token is credited     *)
(* again by the next refill.                                               *)
RateBounded == granted * TokenTicks <= Burst + 2 * now

(* A call comes back within the wait for one token, every attempt at its   *)
(* longest and every backoff: retries do not queue for tokens again.       *)
CallBounded ==
    pc # "idle" =>
        now - called <= TokenTicks + (MaxRetries + 1) * RunMax
                                   + BaseDelay * (2^MaxRetries - 1)

(* ToolCallError comes only after every attempt and every backoff.         *)
FailureIsPatient ==
    [][result' # result /\ result'.value = None =>
          /\ attempt = MaxRetries
          /\ now - called >= BaseDelay * (2^MaxRetries - 1)]_vars

(* Every value a call returns, from the cache too, is the output of a      *)
(* tool.called event for that input, unless the trail refused that event.  *)
ResultIsAudited ==
    result # None /\ result.value # None =>
        \/ result.value \in refused
        \/ \E k \in DOMAIN audit :
             /\ audit[k].type = "tool.called"
             /\ audit[k].input = result.asked
             /\ audit[k].output = result.value

(* Every call comes back.                                                  *)
CallReturns == (pc # "idle") ~> (pc = "idle")
=============================================================================
