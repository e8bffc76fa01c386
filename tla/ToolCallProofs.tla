--------------------------- MODULE ToolCallProofs ---------------------------
(***************************************************************************)
(* Theorems about ToolCall, for every bucket, TTL, retry policy and number *)
(* of calls.                                                               *)
(***************************************************************************)
EXTENDS ToolCall, TLAPS, SequenceTheorems

USE DEF RefillClock, Delay, trail

(***************************************************************************)
(* Type correctness. A call under way has an input, and no instant that    *)
(* the tool remembers lies in the future.                                  *)
(***************************************************************************)
TypeInv ==
    /\ TypeOK
    /\ pc # "idle" => inp \in Inputs
    /\ last_refill <= now /\ since <= now

LEMMA InitType == Init => TypeInv
<1> SUFFICES ASSUME Init PROVE TypeInv
  OBVIOUS
<1> USE TimeAssumption, CountAssumption
<1>1. audit \in Seq(Event)
  BY EmptySeq DEF Init
<1>2. calls \in 0..MaxCalls /\ attempt \in 0..MaxRetries
  BY DEF Init
<1> QED
  BY <1>1, <1>2 DEF Init, TypeInv, TypeOK

(* An entry that is live is an entry.                                      *)
LEMMA FreshIsEntry ==
  ASSUME TypeOK, NEW x \in Inputs, Fresh(cache[KeyOf[x]])
  PROVE  cache[KeyOf[x]] \in Entry
BY KeyAssumption DEF TypeOK, Fresh

LEMMA EmitType ==
  ASSUME TypeInv, pc # "idle",
         NEW type \in {"tool.called", "tool.failed"},
         NEW output \in Value \union {None}, EmitAudit(type, output)
  PROVE  audit' \in Seq(Event) /\ refused' \in SUBSET Value
<1> DEFINE e == [type |-> type, input |-> inp, output |-> output]
<1>1. e \in Event
  BY DEF TypeInv, Event
<1>2. audit \in Seq(Event)
  BY DEF TypeInv, TypeOK
<1>3. audit' = Append(audit, e) \/ audit' = audit
  BY DEF EmitAudit, Recorded
<1>4. refused' \in SUBSET Value
  BY DEF EmitAudit, TypeInv, TypeOK
<1> HIDE DEF e
<1> QED
  BY <1>1, <1>2, <1>3, <1>4, AppendProperties

LEMMA NextType == TypeInv /\ [Next]_vars => TypeInv'
<1> SUFFICES ASSUME TypeInv, [Next]_vars PROVE TypeInv'
  OBVIOUS
<1> USE TimeAssumption, CountAssumption, KeyAssumption
<1>0. /\ now \in Nat /\ last_refill \in Nat /\ last_refill <= now
      /\ tokens \in 0..Burst /\ calls \in 0..MaxCalls /\ attempt \in 0..MaxRetries
  BY DEF TypeInv, TypeOK
<1>1. ASSUME NEW x \in Inputs, Hit(x)
      PROVE  TypeInv'
  <2>1. cache[KeyOf[x]] \in Entry
    BY <1>1, FreshIsEntry DEF Hit, TypeInv
  <2>2. result' \in Result
    BY <1>0, <1>1, <2>1 DEF Hit, Entry, Result
  <2>3. calls' \in 0..MaxCalls
    BY <1>0, <1>1 DEF Hit
  <2> QED
    BY <1>0, <1>1, <2>2, <2>3 DEF Hit, Goto, TypeInv, TypeOK, bucket, run
<1>2. ASSUME NEW x \in Inputs, Miss(x)
      PROVE  TypeInv'
  <2>1. Refilled \in 0..Burst
    BY <1>0 DEF Refilled, Least
  <2>2. Shortfall(Refilled) \in Nat
    BY <2>1 DEF Shortfall
  <2>3. wake' \in Nat /\ tokens' \in 0..Burst /\ last_refill' = now
    BY <1>0, <1>2, <2>1, <2>2 DEF Miss
  <2>4. cache' \in [Keys -> Entry \union {None}]
    BY <1>2 DEF Miss, TypeInv, TypeOK
  <2>5. calls' \in 0..MaxCalls /\ attempt' \in 0..MaxRetries
    BY <1>0, <1>2 DEF Miss
  <2> QED
    BY <1>0, <1>2, <2>3, <2>4, <2>5 DEF Miss, Goto, TypeInv, TypeOK
<1>3. CASE Grant
  <2>1. tokens' \in 0..Burst
    BY <1>0, <1>3 DEF Grant
  <2>2. granted' \in Nat
    BY <1>3 DEF Grant, TypeInv, TypeOK
  <2> QED
    BY <1>0, <1>3, <2>1, <2>2 DEF Grant, Goto, TypeInv, TypeOK, run
<1>4. CASE ReadUpstream
  <2>1. read' \in Value
    BY <1>0, <1>4 DEF ReadUpstream, TypeInv, Value
  <2> QED
    BY <1>4, <2>1 DEF ReadUpstream, TypeInv, TypeOK, bucket
<1>5. CASE RunReturns
  <2>1. read \in Value /\ inp \in Inputs
    BY <1>5 DEF RunReturns, TypeInv, TypeOK
  <2>2. audit' \in Seq(Event) /\ refused' \in SUBSET Value
    BY <1>5, <2>1, EmitType DEF RunReturns
  <2>3. [ts |-> now, value |-> read] \in Entry
    BY <1>0, <2>1 DEF Entry
  <2>4. cache' \in [Keys -> Entry \union {None}]
    BY <1>5, <2>3 DEF RunReturns, TypeInv, TypeOK
  <2>5. result' \in Result
    BY <1>0, <1>5, <2>1 DEF RunReturns, Result
  <2> QED
    BY <1>0, <1>5, <2>2, <2>4, <2>5 DEF RunReturns, Goto, TypeInv, TypeOK, bucket, run
<1>6. CASE RunRaises
  <2>1. attempt' \in 0..MaxRetries
    BY <1>0, <1>6 DEF RunRaises
  <2>2. BaseDelay * 2^attempt \in Nat
    BY <1>0, PowerAssumption
  <2>3. wake' \in Nat
    BY <1>0, <1>6, <2>2 DEF RunRaises
  <2> QED
    BY <1>0, <1>6, <2>1, <2>3 DEF RunRaises, Goto, TypeInv, TypeOK, bucket
<1>7. CASE Retry
  BY <1>0, <1>7 DEF Retry, Goto, TypeInv, TypeOK, bucket
<1>8. CASE CallFails
  <2>1. audit' \in Seq(Event) /\ refused' \in SUBSET Value
    BY <1>8, EmitType DEF CallFails
  <2>2. result' \in Result
    BY <1>0, <1>8 DEF CallFails, TypeInv, Result
  <2> QED
    BY SMTT(30), <1>0, <1>8, <2>1, <2>2 DEF CallFails, Goto, TypeInv, TypeOK, bucket, run
<1>9. CASE Tick
  BY <1>0, <1>9 DEF Tick, TypeInv, TypeOK, bucket, run
<1>10. CASE UNCHANGED vars
  BY <1>10 DEF vars, bucket, run, TypeInv, TypeOK
<1> QED
  BY <1>1, <1>2, <1>3, <1>4, <1>5, <1>6, <1>7, <1>8, <1>9, <1>10 DEF Next, Step

LEMMA TypeInvariant == Spec => []TypeInv
  BY InitType, NextType, PTL DEF Spec

(* The variables of the tool keep their types.                             *)
THEOREM ToolTypeCorrect == Spec => []TypeOK
<1>1. TypeInv => TypeOK
  BY DEF TypeInv
<1> QED
  BY <1>1, TypeInvariant, PTL

-----------------------------------------------------------------------------
(***************************************************************************)
(* The rate. What has been granted and what is in the bucket was earned    *)
(* since the start, or earned a second time while sleeping. The time slept *)
(* lies before now, and before last_refill while the next sleep is going   *)
(* on: that is the slack the end of the sleep uses.                        *)
(***************************************************************************)
Earned == granted * TokenTicks + tokens

RateInv ==
    /\ Earned <= Burst + last_refill + (IF pc = "limited" THEN last_refill ELSE now)
    /\ pc = "limited" => wake = last_refill + Shortfall(tokens)

LEMMA RefillSum ==
  ASSUME NEW g \in Int, NEW t \in Int, NEW u \in Int, NEW l \in Int, NEW n \in Int,
         g + t <= Burst + l + n, u <= t + (n - l)
  PROVE  g + u <= Burst + n + n
BY TimeAssumption

LEMMA RateInvariant == Spec => []RateInv
<1> USE TimeAssumption
<1>1. Init => RateInv
  BY DEF Init, RateInv, Earned
<1>2. TypeInv /\ RateInv /\ [Next]_vars => RateInv'
  <2> SUFFICES ASSUME TypeInv, RateInv, [Next]_vars PROVE RateInv'
    OBVIOUS
  <2>0. /\ now \in Nat /\ last_refill \in Nat /\ tokens \in Nat /\ granted \in Nat
        /\ granted * TokenTicks \in Nat
        /\ last_refill <= now
    BY DEF TypeInv, TypeOK
  <2>1. ASSUME NEW x \in Inputs, Miss(x)
        PROVE  RateInv'
    <3>1. /\ tokens' <= tokens + (now - last_refill)
          /\ tokens' \in Int
      BY <2>0, <2>1 DEF Miss, Refilled, Least
    <3>2. /\ last_refill' = now /\ now' = now /\ granted' = granted /\ pc' = "limited"
          /\ wake' = last_refill' + Shortfall(tokens')
      BY <2>1 DEF Miss, Goto, Shortfall
    <3>3. Earned <= Burst + last_refill + now
      BY <2>1 DEF RateInv, Miss
    <3>4. Earned' <= Burst + last_refill' + last_refill'
      <4>1. granted' * TokenTicks = granted * TokenTicks
        BY <3>2
      <4>2. granted * TokenTicks + tokens <= Burst + last_refill + now
        BY <3>3 DEF Earned
      <4>3. granted * TokenTicks + tokens' <= Burst + now + now
        <5> DEFINE g == granted * TokenTicks
        <5>1. g \in Int
          BY <2>0
        <5>2. g + tokens <= Burst + last_refill + now
          BY <4>2
        <5>3. now \in Int /\ last_refill \in Int /\ tokens \in Int /\ tokens' \in Int
          BY <2>0, <3>1
        <5>4. tokens' <= tokens + (now - last_refill)
          BY <3>1
        <5> HIDE DEF g
        <5>5. g + tokens' <= Burst + now + now
          BY <5>1, <5>2, <5>3, <5>4, RefillSum
        <5> QED
          BY <5>5 DEF g
      <4> QED
        BY <3>2, <4>1, <4>3 DEF Earned
    <3>5. (wake = last_refill + Shortfall(tokens))'
      BY <3>2 DEF Shortfall
    <3> QED
      BY <3>2, <3>4, <3>5 DEF RateInv
  <2>2. CASE Grant
    <3>1. granted' * TokenTicks = granted * TokenTicks + TokenTicks
      BY <2>0, <2>2 DEF Grant
    <3>2. /\ last_refill' = last_refill /\ now' = now /\ pc' = "running"
          /\ now >= last_refill + Shortfall(tokens)
          /\ Earned <= Burst + last_refill + last_refill
      BY <2>2 DEF Grant, Goto, RateInv
    <3>3. CASE tokens < TokenTicks
      <4>1. tokens' = 0 /\ now >= last_refill + (TokenTicks - tokens)
        BY <2>2, <3>2, <3>3 DEF Grant, Shortfall
      <4> QED
        BY <2>0, <3>1, <3>2, <4>1 DEF RateInv, Earned
    <3>4. CASE ~(tokens < TokenTicks)
      <4>1. tokens' = tokens - TokenTicks
        BY <2>2, <3>4 DEF Grant
      <4> QED
        BY <2>0, <3>1, <3>2, <4>1 DEF RateInv, Earned
    <3> QED
      BY <3>3, <3>4
  <2>3. CASE Tick
    BY <2>0, <2>3 DEF Tick, bucket, RateInv, Earned
  <2>4. ASSUME UNCHANGED bucket, UNCHANGED now, pc # "limited", pc' # "limited"
        PROVE  RateInv'
    BY <2>4 DEF bucket, RateInv, Earned
  <2>5. CASE UNCHANGED vars
    BY <2>5 DEF vars, bucket, RateInv, Earned
  <2> QED
    BY <2>1, <2>2, <2>3, <2>4, <2>5
       DEF Next, Step, Hit, ReadUpstream, RunReturns, RunRaises, Retry, CallFails, Goto
<1> QED
  BY <1>1, <1>2, TypeInvariant, PTL DEF Spec

(* Whatever the rate, the burst and the moments of the calls, the limiter  *)
(* lets through at most a full bucket and twice the nominal rate.          *)
THEOREM RateIsBounded == Spec => []RateBounded
<1>1. TypeInv /\ RateInv => RateBounded
  <2> SUFFICES ASSUME TypeInv, RateInv PROVE RateBounded
    OBVIOUS
  <2>1. /\ now \in Nat /\ last_refill \in Nat /\ tokens \in Nat /\ granted \in Nat
        /\ granted * TokenTicks \in Nat
        /\ last_refill <= now
    BY TimeAssumption DEF TypeInv, TypeOK
  <2> QED
    BY <2>1, TimeAssumption DEF RateInv, Earned, RateBounded
<1> QED
  BY <1>1, TypeInvariant, RateInvariant, PTL

-----------------------------------------------------------------------------
(***************************************************************************)
(* Staleness. A cached value was read at most one _run before it was       *)
(* stored, under the key of the input it was read for.                     *)
(***************************************************************************)
CacheInv ==
    \A k \in Keys : cache[k] # None =>
        /\ KeyOf[cache[k].value.of] = k
        /\ cache[k].ts - cache[k].value.at <= RunMax

RunInv ==
    /\ pc = "limited" => read = None
    /\ pc = "running" =>
          /\ now - since <= RunMax
          /\ read # None => read.of = inp /\ since <= read.at

FreshInv == CacheInv /\ RunInv /\ ResultIsFresh

LEMMA FreshInvariant == Spec => []FreshInv
<1> USE TimeAssumption, KeyAssumption
<1>1. Init => FreshInv
  BY DEF Init, FreshInv, CacheInv, RunInv, ResultIsFresh
<1>2. TypeInv /\ FreshInv /\ [Next]_vars => FreshInv'
  <2> SUFFICES ASSUME TypeInv, FreshInv, [Next]_vars PROVE FreshInv'
    OBVIOUS
  <2>0. now \in Nat /\ since \in Nat /\ cache \in [Keys -> Entry \union {None}]
    BY DEF TypeInv, TypeOK
  <2>1. ASSUME NEW x \in Inputs, Hit(x)
        PROVE  FreshInv'
    <3> DEFINE entry == cache[KeyOf[x]]
    <3>1. entry \in Entry /\ now - entry.ts <= TTL
      BY <2>1, FreshIsEntry DEF Hit, Fresh, TypeInv
    <3>2. entry # None
      BY <2>1 DEF Hit, Fresh
    <3>3. entry.value.of \in Inputs /\ entry.value.at \in Nat /\ entry.ts \in Nat
      BY <3>1 DEF Entry, Value
    <3>4. KeyOf[entry.value.of] = KeyOf[x] /\ entry.ts - entry.value.at <= RunMax
      BY <3>2 DEF FreshInv, CacheInv
    <3>5. entry.value.of = x
      BY <3>3, <3>4
    <3>6. now - entry.value.at <= TTL + RunMax
      BY <2>0, <3>1, <3>3, <3>4
    <3>7. result' = [asked |-> x, value |-> entry.value, at |-> now]
      BY <2>1 DEF Hit
    <3> HIDE DEF entry
    <3>8. ResultIsFresh'
      BY <3>5, <3>6, <3>7 DEF ResultIsFresh
    <3> QED
      BY <2>1, <3>8 DEF Hit, Goto, FreshInv, CacheInv, RunInv
  <2>2. ASSUME NEW x \in Inputs, Miss(x)
        PROVE  FreshInv'
    <3>1. \A k \in Keys : cache'[k] = None \/ cache'[k] = cache[k]
      BY <2>0, <2>2 DEF Miss
    <3>2. CacheInv'
      BY <3>1 DEF FreshInv, CacheInv
    <3> QED
      BY <2>2, <3>2 DEF Miss, Goto, FreshInv, RunInv, ResultIsFresh
  <2>3. CASE Grant
    <3>1. read = None
      BY <2>3 DEF Grant, FreshInv, RunInv
    <3> QED
      BY <2>0, <2>3, <3>1 DEF Grant, Goto, run, FreshInv, CacheInv, RunInv, ResultIsFresh
  <2>4. CASE ReadUpstream
    <3>1. RunInv'
      BY <2>0, <2>4 DEF ReadUpstream, TypeInv, FreshInv, RunInv
    <3> QED
      BY <2>4, <3>1 DEF ReadUpstream, FreshInv, CacheInv, ResultIsFresh
  <2>5. CASE RunReturns
    <3>1. read \in Value /\ inp \in Inputs /\ read.at \in Nat
      BY <2>5 DEF RunReturns, TypeInv, TypeOK, Value
    <3>2. read.of = inp /\ now - read.at <= RunMax
      BY <2>0, <2>5, <3>1 DEF RunReturns, FreshInv, RunInv
    <3>3. \A k \in Keys :
             cache'[k] = IF k = KeyOf[inp] THEN [ts |-> now, value |-> read] ELSE cache[k]
      BY <2>0, <2>5, <3>1 DEF RunReturns
    <3>4. CacheInv'
      BY <3>2, <3>3 DEF FreshInv, CacheInv
    <3>5. result' = [asked |-> inp, value |-> read, at |-> now]
      BY <2>5 DEF RunReturns
    <3>6. now - read.at <= TTL + RunMax
      BY <2>0, <3>1, <3>2
    <3>7. ResultIsFresh'
      BY <3>2, <3>5, <3>6 DEF ResultIsFresh
    <3> QED
      BY <2>5, <3>4, <3>7 DEF RunReturns, Goto, FreshInv, RunInv
  <2>6. CASE RunRaises
    BY <2>6 DEF RunRaises, Goto, FreshInv, CacheInv, RunInv, ResultIsFresh
  <2>7. CASE Retry
    BY <2>0, <2>7 DEF Retry, Goto, FreshInv, CacheInv, RunInv, ResultIsFresh
  <2>8. CASE CallFails
    BY <2>8 DEF CallFails, Goto, FreshInv, CacheInv, RunInv, ResultIsFresh
  <2>9. CASE Tick
    <3>1. RunInv'
      BY <2>0, <2>9 DEF Tick, run, FreshInv, RunInv
    <3> QED
      BY <2>9, <3>1 DEF Tick, FreshInv, CacheInv, ResultIsFresh
  <2>10. CASE UNCHANGED vars
    BY <2>10 DEF vars, run, FreshInv, CacheInv, RunInv, ResultIsFresh
  <2> QED
    BY <2>1, <2>2, <2>3, <2>4, <2>5, <2>6, <2>7, <2>8, <2>9, <2>10 DEF Next, Step
<1> QED
  BY <1>1, <1>2, TypeInvariant, PTL DEF Spec

(* Every value a call returns answers that call's input and was read       *)
(* upstream at most TTL and one _run ago.                                  *)
THEOREM ResultsAreFresh == Spec => []ResultIsFresh
<1>1. FreshInv => ResultIsFresh
  BY DEF FreshInv
<1> QED
  BY <1>1, FreshInvariant, PTL

-----------------------------------------------------------------------------
(***************************************************************************)
(* Audit. What the cache holds for an input has its event, or the trail    *)
(* has refused the event.                                                  *)
(***************************************************************************)
Vouched(x, v) ==
    \/ v \in refused
    \/ \E k \in DOMAIN audit :
         /\ audit[k].type = "tool.called"
         /\ audit[k].input = x
         /\ audit[k].output = v

CacheVouched ==
    \A x \in Inputs : cache[KeyOf[x]] # None => Vouched(x, cache[KeyOf[x]].value)

AuditInv == CacheVouched /\ ResultIsAudited

(* Events and refusals stay.                                               *)
LEMMA TrailGrows ==
  ASSUME TypeInv, NEW type, NEW output, EmitAudit(type, output)
  PROVE  /\ refused \subseteq refused'
         /\ \A k \in DOMAIN audit : k \in DOMAIN audit' /\ audit'[k] = audit[k]
<1> DEFINE e == [type |-> type, input |-> inp, output |-> output]
<1>1. CASE audit' = Append(audit, e) /\ UNCHANGED refused
  <2>1. audit \in Seq(Event \union {e})
    BY DEF TypeInv, TypeOK
  <2> HIDE DEF e
  <2>2. /\ Len(audit') = Len(audit) + 1 /\ Len(audit) \in Nat
        /\ audit' \in Seq(Event \union {e})
        /\ \A k \in 1..Len(audit) : audit'[k] = audit[k]
    BY <1>1, <2>1, AppendProperties
  <2>3. DOMAIN audit = 1..Len(audit) /\ DOMAIN audit' = 1..Len(audit')
    BY <2>1, <2>2
  <2> QED
    BY <1>1, <2>2, <2>3
<1>2. CASE refused' = refused \union ({output} \ {None}) /\ UNCHANGED audit
  BY <1>2
<1> QED
  BY <1>1, <1>2 DEF EmitAudit, Recorded

LEMMA CacheStaysVouched ==
  ASSUME TypeInv, CacheVouched, NEW type, NEW output, EmitAudit(type, output),
         NEW x \in Inputs, cache[KeyOf[x]] # None
  PROVE  \/ cache[KeyOf[x]].value \in refused'
         \/ \E k \in DOMAIN audit' :
              /\ audit'[k].type = "tool.called"
              /\ audit'[k].input = x
              /\ audit'[k].output = cache[KeyOf[x]].value
BY TrailGrows DEF CacheVouched, Vouched

(* A success is recorded, or refused.                                      *)
LEMMA EmitVouches ==
  ASSUME TypeInv, NEW output, output # None, EmitAudit("tool.called", output)
  PROVE  inp' = inp => Vouched(inp, output)'
<1> SUFFICES ASSUME inp' = inp PROVE
      \/ output \in refused'
      \/ \E k \in DOMAIN audit' :
           /\ audit'[k].type = "tool.called"
           /\ audit'[k].input = inp
           /\ audit'[k].output = output
  BY DEF Vouched
<1> DEFINE e == [type |-> "tool.called", input |-> inp, output |-> output]
<1>1. CASE audit' = Append(audit, e)
  <2>1. audit \in Seq(Event \union {e})
    BY DEF TypeInv, TypeOK
  <2>2. e.type = "tool.called" /\ e.input = inp /\ e.output = output
    OBVIOUS
  <2> HIDE DEF e
  <2>3. /\ Len(audit') = Len(audit) + 1 /\ Len(audit) \in Nat
        /\ audit' \in Seq(Event \union {e})
        /\ audit'[Len(audit) + 1] = e
    BY <1>1, <2>1, AppendProperties
  <2>4. Len(audit) + 1 \in DOMAIN audit'
    BY <2>3
  <2> QED
    BY <2>2, <2>3, <2>4
<1>2. CASE refused' = refused \union ({output} \ {None})
  BY <1>2
<1> QED
  BY <1>1, <1>2 DEF EmitAudit, Recorded

LEMMA AuditInvariant == Spec => []AuditInv
<1> USE KeyAssumption
<1>1. Init => AuditInv
  BY DEF Init, AuditInv, CacheVouched, ResultIsAudited
<1>2. TypeInv /\ AuditInv /\ [Next]_vars => AuditInv'
  <2> SUFFICES ASSUME TypeInv, AuditInv, [Next]_vars PROVE AuditInv'
    OBVIOUS
  <2>0. cache \in [Keys -> Entry \union {None}]
    BY DEF TypeInv, TypeOK
  <2>1. ASSUME NEW x \in Inputs, Hit(x)
        PROVE  AuditInv'
    <3>1. /\ UNCHANGED <<cache, audit, refused>> /\ cache[KeyOf[x]] # None
          /\ result' = [asked |-> x, value |-> cache[KeyOf[x]].value, at |-> now]
      BY <2>1 DEF Hit, Fresh
    <3>2. Vouched(x, cache[KeyOf[x]].value)
      BY <3>1 DEF AuditInv, CacheVouched
    <3> QED
      BY <3>1, <3>2 DEF AuditInv, CacheVouched, ResultIsAudited, Vouched
  <2>2. ASSUME NEW x \in Inputs, Miss(x)
        PROVE  AuditInv'
    <3>1. \A k \in Keys : cache'[k] = None \/ cache'[k] = cache[k]
      BY <2>0, <2>2 DEF Miss
    <3>2. UNCHANGED <<audit, refused, result>>
      BY <2>2 DEF Miss
    <3> QED
      BY <3>1, <3>2 DEF AuditInv, CacheVouched, ResultIsAudited, Vouched
  <2>3. CASE RunReturns
    <3>1. /\ inp \in Inputs /\ inp' = inp /\ read # None /\ EmitAudit("tool.called", read)
          /\ result' = [asked |-> inp, value |-> read, at |-> now]
      BY <2>3 DEF RunReturns, run, TypeInv
    <3>2. Vouched(inp, read)'
      BY <3>1, <2>3, EmitVouches DEF RunReturns, run, Vouched
    <3>3. \A x \in Inputs : cache'[KeyOf[x]] = IF x = inp THEN [ts |-> now, value |-> read]
                                                ELSE cache[KeyOf[x]]
      BY <2>0, <2>3, <3>1 DEF RunReturns
    <3>4. CacheVouched'
      <4> SUFFICES ASSUME NEW x \in Inputs, cache'[KeyOf[x]] # None
                   PROVE  \/ cache'[KeyOf[x]].value \in refused'
                          \/ \E k \in DOMAIN audit' :
                               /\ audit'[k].type = "tool.called"
                               /\ audit'[k].input = x
                               /\ audit'[k].output = cache'[KeyOf[x]].value
        BY DEF CacheVouched, Vouched
      <4>1. CASE x = inp
        BY <3>1, <3>2, <3>3, <4>1, <2>3 DEF Vouched, RunReturns, run
      <4>2. CASE x # inp
        <5>1. cache'[KeyOf[x]] = cache[KeyOf[x]]
          BY <3>3, <4>2
        <5> QED
          BY <3>1, <5>1, CacheStaysVouched DEF AuditInv
      <4> QED
        BY <4>1, <4>2
    <3>5. ResultIsAudited'
      BY <2>3, <3>1, <3>2 DEF ResultIsAudited, Vouched, RunReturns, run
    <3> QED
      BY <3>4, <3>5 DEF AuditInv
  <2>4. CASE CallFails
    <3>1. EmitAudit("tool.failed", None) /\ cache' = cache /\ result'.value = None
      BY <2>4 DEF CallFails
    <3> QED
      BY <3>1, CacheStaysVouched DEF AuditInv, CacheVouched, ResultIsAudited, Vouched
  <2>5. CASE Grant \/ ReadUpstream \/ RunRaises \/ Retry \/ Tick \/ UNCHANGED vars
    <3>1. UNCHANGED <<cache, audit, refused, result>>
      BY <2>5 DEF Grant, ReadUpstream, RunRaises, Retry, Tick, vars
    <3> QED
      BY <3>1 DEF AuditInv, CacheVouched, ResultIsAudited, Vouched
  <2> QED
    BY <2>1, <2>2, <2>3, <2>4, <2>5 DEF Next, Step
<1> QED
  BY <1>1, <1>2, TypeInvariant, PTL DEF Spec

(* Every value a call returns, also one from the cache, is the output of a *)
(* tool.called event for that input, unless the trail refused the event.   *)
THEOREM ResultsAreAudited == Spec => []ResultIsAudited
<1>1. AuditInv => ResultIsAudited
  BY DEF AuditInv
<1> QED
  BY <1>1, AuditInvariant, PTL

-----------------------------------------------------------------------------
(***************************************************************************)
(* Duration. After so many failed attempts a call has slept for Lapse, and *)
(* has taken Most when it waited for a token and every _run took RunMax.   *)
(***************************************************************************)
Lapse(failed) == BaseDelay * (2^failed - 1)
Most(failed) == TokenTicks + failed * RunMax + Lapse(failed)

TimeInv ==
    /\ pc = "limited" =>
         attempt = 0 /\ called <= now /\ now <= wake /\ wake <= called + TokenTicks
    /\ pc = "running" =>
         /\ now - since <= RunMax
         /\ called + Lapse(attempt) <= since /\ since <= called + Most(attempt)
    /\ pc = "backoff" =>
         /\ now <= wake
         /\ called + Lapse(attempt) <= wake /\ wake <= called + Most(attempt)

LEMMA PowersTyped ==
  ASSUME NEW k \in 0..MaxRetries
  PROVE  2^k \in Nat /\ BaseDelay * 2^k \in Nat
<1>1. 2^k \in Nat /\ BaseDelay \in Nat
  BY PowerAssumption, TimeAssumption
<1> QED
  BY <1>1

LEMMA ProductGrows ==
  ASSUME NEW a \in Nat, NEW b \in Nat, NEW c \in Nat, a <= b
  PROVE  c * a \in Nat /\ c * b \in Nat /\ c * a <= c * b
<1>1. PICK d \in Nat : b = a + d
  <2>1. b - a \in Nat /\ b = a + (b - a)
    OBVIOUS
  <2> QED
    BY <2>1
<1>2. c * b = c * a + c * d
  BY <1>1
<1>3. c * a \in Nat /\ c * d \in Nat
  OBVIOUS
<1> QED
  BY <1>2, <1>3

LEMMA LapseFirst == Lapse(0) = 0 /\ Most(0) = TokenTicks
<1>1. 2^0 - 1 = 0 /\ BaseDelay * 0 = 0 /\ 0 * RunMax = 0
  BY TimeAssumption, PowerAssumption
<1> QED
  BY <1>1, TimeAssumption DEF Lapse, Most

LEMMA LapseTyped ==
  ASSUME NEW k \in 0..MaxRetries
  PROVE  Lapse(k) \in Nat /\ Most(k) \in Nat
<1>1. 2^k - 1 \in Nat /\ BaseDelay \in Nat /\ RunMax \in Nat /\ TokenTicks \in Nat
  BY TimeAssumption, PowerAssumption, CountAssumption
<1>2. BaseDelay * (2^k - 1) \in Nat /\ k * RunMax \in Nat
  BY <1>1, CountAssumption
<1> QED
  BY <1>1, <1>2 DEF Lapse, Most

(* One attempt and one backoff more.                                       *)
LEMMA LapseNext ==
  ASSUME NEW k \in 0..MaxRetries
  PROVE  /\ Lapse(k + 1) = Lapse(k) + BaseDelay * 2^k
         /\ Most(k + 1) = Most(k) + RunMax + BaseDelay * 2^k
<1> DEFINE p == 2^k
<1>1. p \in Nat /\ 2^(k + 1) = 2 * p /\ BaseDelay \in Nat /\ RunMax \in Nat /\ TokenTicks \in Nat
  BY PowersTyped, PowerAssumption, TimeAssumption
<1>2. Lapse(k) = BaseDelay * (p - 1) /\ Lapse(k + 1) = BaseDelay * (2 * p - 1)
  BY <1>1 DEF Lapse
<1> HIDE DEF p
<1>3. BaseDelay * (2 * p - 1) = BaseDelay * (p - 1) + BaseDelay * p
  BY <1>1
<1>4. (k + 1) * RunMax = k * RunMax + RunMax
  BY <1>1, CountAssumption
<1>5. Lapse(k) \in Nat /\ BaseDelay * p \in Nat /\ k * RunMax \in Nat
  BY <1>1, LapseTyped, CountAssumption
<1>6. Lapse(k + 1) = Lapse(k) + BaseDelay * p
  BY <1>2, <1>3
<1>7. Most(k + 1) = Most(k) + RunMax + BaseDelay * p
  BY <1>1, <1>4, <1>5, <1>6 DEF Most
<1> QED
  BY <1>6, <1>7 DEF p

(* The last attempt is the longest.                                        *)
LEMMA LapseGrows ==
  ASSUME NEW k \in 0..MaxRetries
  PROVE  Most(k) <= Most(MaxRetries)
<1>1. /\ 2^k - 1 \in Nat /\ 2^MaxRetries - 1 \in Nat /\ 2^k - 1 <= 2^MaxRetries - 1
      /\ k \in Nat /\ MaxRetries \in Nat /\ k <= MaxRetries
  BY PowerAssumption, CountAssumption
<1>2. Lapse(k) <= Lapse(MaxRetries)
  BY <1>1, ProductGrows, TimeAssumption DEF Lapse
<1>3. RunMax * k <= RunMax * MaxRetries
  BY <1>1, ProductGrows, TimeAssumption
<1>4. /\ k * RunMax = RunMax * k /\ MaxRetries * RunMax = RunMax * MaxRetries
      /\ RunMax * k \in Nat /\ RunMax * MaxRetries \in Nat
  BY <1>1, TimeAssumption
<1>5. Lapse(k) \in Nat /\ Lapse(MaxRetries) \in Nat
  BY <1>1, LapseTyped
<1> QED
  BY <1>2, <1>3, <1>4, <1>5, TimeAssumption DEF Most

LEMMA TimeInvariant == Spec => []TimeInv
<1> USE TimeAssumption, CountAssumption
<1>1. Init => TimeInv
  BY DEF Init, TimeInv
<1>2. TypeInv /\ TimeInv /\ [Next]_vars => TimeInv'
  <2> SUFFICES ASSUME TypeInv, TimeInv, [Next]_vars PROVE TimeInv'
    OBVIOUS
  <2>0. /\ now \in Nat /\ since \in Nat /\ wake \in Nat /\ called \in Nat
        /\ attempt \in 0..MaxRetries /\ Lapse(attempt) \in Nat /\ Most(attempt) \in Nat
    BY LapseTyped DEF TypeInv, TypeOK
  <2>1. ASSUME NEW x \in Inputs, Hit(x)
        PROVE  TimeInv'
    BY <2>1 DEF Hit, Goto, TimeInv
  <2>2. ASSUME NEW x \in Inputs, Miss(x)
        PROVE  TimeInv'
    <3>1. Refilled \in Nat
      BY DEF Refilled, Least, TypeInv, TypeOK
    <3>2. Shortfall(Refilled) \in 0..TokenTicks
      BY <3>1 DEF Shortfall
    <3> QED
      BY <2>0, <2>2, <3>2 DEF Miss, Goto, TimeInv
  <2>3. CASE Grant
    <3>1. /\ attempt' = 0 /\ attempt = 0 /\ pc' = "running" /\ since' = now
          /\ UNCHANGED <<now, called>>
          /\ called <= now /\ now <= called + TokenTicks
      BY <2>0, <2>3 DEF Grant, Goto, run, TimeInv
    <3> QED
      BY <2>0, <3>1, LapseFirst DEF TimeInv
  <2>4. CASE RunRaises
    <3>1. /\ pc' = "backoff" /\ wake' = now + BaseDelay * 2^attempt
          /\ attempt' = attempt + 1 /\ UNCHANGED <<now, called>>
          /\ now - since <= RunMax
          /\ called + Lapse(attempt) <= since /\ since <= called + Most(attempt)
          /\ since <= now
      BY <2>0, <2>4 DEF RunRaises, Goto, TimeInv, TypeInv
    <3>2. /\ Lapse(attempt + 1) = Lapse(attempt) + BaseDelay * 2^attempt
          /\ Most(attempt + 1) = Most(attempt) + RunMax + BaseDelay * 2^attempt
          /\ BaseDelay * 2^attempt \in Nat
      BY <2>0, LapseNext, PowersTyped
    <3> DEFINE d == BaseDelay * 2^attempt
               l == Lapse(attempt)
               m == Most(attempt)
    <3>3. /\ d \in Nat /\ l \in Nat /\ m \in Nat
          /\ Lapse(attempt') = l + d /\ Most(attempt') = m + RunMax + d
          /\ wake' = now + d
          /\ called + l <= since /\ since <= called + m
      BY <2>0, <3>1, <3>2
    <3> HIDE DEF d, l, m
    <3>4. /\ now <= wake' /\ called + (l + d) <= wake'
          /\ wake' <= called + (m + RunMax + d)
      BY <2>0, <3>1, <3>3
    <3> QED
      BY <3>1, <3>3, <3>4 DEF TimeInv
  <2>5. CASE Retry
    <3>1. /\ pc' = "running" /\ since' = now /\ UNCHANGED <<now, called, attempt>>
          /\ now = wake
          /\ called + Lapse(attempt) <= wake /\ wake <= called + Most(attempt)
      BY <2>0, <2>5 DEF Retry, Goto, TimeInv
    <3> QED
      BY <2>0, <3>1 DEF TimeInv
  <2>6. CASE RunReturns \/ CallFails
    BY <2>6 DEF RunReturns, CallFails, Goto, TimeInv
  <2>7. CASE Tick
    <3>1. /\ now' = now + 1 /\ UNCHANGED <<pc, since, wake, attempt, called>>
          /\ \/ pc = "idle"
             \/ pc \in {"limited", "backoff"} /\ now < wake
             \/ pc = "running" /\ now - since < RunMax
      BY <2>7 DEF Tick, run
    <3> QED
      BY <2>0, <3>1 DEF TimeInv
  <2>8. CASE ReadUpstream \/ UNCHANGED vars
    <3>1. UNCHANGED <<now, pc, since, wake, attempt, called>>
      BY <2>8 DEF ReadUpstream, vars, run
    <3> QED
      BY <3>1 DEF TimeInv
  <2> QED
    BY <2>1, <2>2, <2>3, <2>4, <2>5, <2>6, <2>7, <2>8 DEF Next, Step
<1> QED
  BY <1>1, <1>2, TypeInvariant, PTL DEF Spec

(* A call comes back within the wait for one token, the longest attempts   *)
(* and the backoffs between them.                                          *)
THEOREM CallsAreBounded == Spec => []CallBounded
<1>1. TypeInv /\ TimeInv => CallBounded
  <2> SUFFICES ASSUME TypeInv, TimeInv, pc # "idle"
               PROVE  now - called <= TokenTicks + (MaxRetries + 1) * RunMax
                                        + BaseDelay * (2^MaxRetries - 1)
    BY DEF CallBounded
  <2>1. /\ now \in Nat /\ since \in Nat /\ wake \in Nat /\ called \in Nat
        /\ attempt \in 0..MaxRetries /\ MaxRetries \in 0..MaxRetries
        /\ pc \in {"limited", "running", "backoff"}
    BY CountAssumption DEF TypeInv, TypeOK
  <2>2. /\ Most(attempt) <= Most(MaxRetries)
        /\ Most(attempt) \in Nat /\ Most(MaxRetries) \in Nat /\ RunMax \in Nat
        /\ TokenTicks <= Most(MaxRetries) /\ TokenTicks \in Nat
    <3>1. 0 \in 0..MaxRetries
      BY CountAssumption
    <3> QED
      BY <2>1, <3>1, LapseTyped, LapseGrows, LapseFirst, TimeAssumption
  <2>3. now - called <= Most(MaxRetries) + RunMax
    BY <2>1, <2>2 DEF TimeInv
  <2>4. Most(MaxRetries) + RunMax =
          TokenTicks + (MaxRetries + 1) * RunMax + BaseDelay * (2^MaxRetries - 1)
    <3>1. (MaxRetries + 1) * RunMax = MaxRetries * RunMax + RunMax /\ MaxRetries * RunMax \in Nat
      BY TimeAssumption, CountAssumption
    <3>2. BaseDelay * (2^MaxRetries - 1) \in Nat
      BY <2>1, LapseTyped DEF Lapse
    <3> QED
      BY <2>2, <3>1, <3>2 DEF Most, Lapse
  <2> QED
    BY <2>3, <2>4
<1> QED
  BY <1>1, TypeInvariant, TimeInvariant, PTL

(* ToolCallError comes after every attempt, and after every backoff.       *)
THEOREM FailuresArePatient == Spec => FailureIsPatient
<1>1. TypeInv /\ TimeInv /\ [Next]_vars =>
        [result' # result /\ result'.value = None =>
            /\ attempt = MaxRetries
            /\ now - called >= BaseDelay * (2^MaxRetries - 1)]_vars
  <2> SUFFICES ASSUME TypeInv, TimeInv, Next, result' # result, result'.value = None
               PROVE  attempt = MaxRetries /\ now - called >= BaseDelay * (2^MaxRetries - 1)
    BY DEF vars
  <2>1. ASSUME NEW x \in Inputs, Hit(x)
        PROVE  FALSE
    <3>1. cache[KeyOf[x]] \in Entry
      BY <2>1, FreshIsEntry DEF Hit, TypeInv
    <3>2. cache[KeyOf[x]].value \in Value
      BY <3>1 DEF Entry
    <3>3. result'.value = cache[KeyOf[x]].value
      BY <2>1 DEF Hit
    <3> QED
      BY <3>2, <3>3, NoneAssumption DEF Value
  <2>2. CASE RunReturns
    BY <2>2 DEF RunReturns
  <2>3. CASE CallFails
    <3>1. /\ attempt = MaxRetries /\ called + Lapse(attempt) <= since /\ since <= now
          /\ now \in Nat /\ since \in Nat /\ called \in Nat
      BY <2>3 DEF CallFails, TimeInv, TypeInv, TypeOK
    <3>2. Lapse(MaxRetries) = BaseDelay * (2^MaxRetries - 1) /\ Lapse(MaxRetries) \in Nat
      BY LapseTyped, CountAssumption DEF Lapse
    <3> DEFINE l == Lapse(MaxRetries)
    <3>3. called + l <= since /\ l \in Nat /\ l = BaseDelay * (2^MaxRetries - 1)
      BY <3>1, <3>2
    <3> HIDE DEF l
    <3>4. now - called >= l
      BY <3>1, <3>3
    <3> QED
      BY <3>1, <3>3, <3>4
  <2>4. ASSUME NEW x \in Inputs, Miss(x)
        PROVE  FALSE
    BY <2>4 DEF Miss
  <2>5. CASE Grant \/ ReadUpstream \/ RunRaises \/ Retry \/ Tick
    BY <2>5 DEF Grant, ReadUpstream, RunRaises, Retry, Tick
  <2> QED
    BY <2>1, <2>2, <2>3, <2>4, <2>5 DEF Next, Step
<1> QED
  BY <1>1, TypeInvariant, TimeInvariant, PTL DEF Spec, FailureIsPatient
=============================================================================
