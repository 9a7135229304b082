------------------------------- MODULE Peers -------------------------------
(***************************************************************************)
(* What one side remembers of its peers, and whether it is true: the       *)
(* features they support (src/discovery.ts, src/caps.ts), the decisions a  *)
(* user took about them (manualPolicy, src/server/policy.ts) and the       *)
(* requests they may still make (src/server/rate-limit.ts).                *)
(*                                                                         *)
(* A ver stands for the features it is the hash of.  A peer's stanzas      *)
(* arrive in the order it sent them, so that sending and arriving are one  *)
(* step.                                                                   *)
(*                                                                         *)
(* A definition whose comment starts with "Mutant" is no part of the       *)
(* specification: it is the definition that follows it, with a bug the     *)
(* properties must catch.                                                  *)
(***************************************************************************)
EXTENDS Integers, Sequences, FiniteSets

CONSTANTS
  Users,     \* bare JIDs
  Vers,      \* what an entity can run and announce
  Slots,     \* bound: lookups under way at once
  Requests,  \* bound: requests put to the policy and to the limiter
  Horizon,   \* bound: how far the clock runs, in half seconds
  TtlTicks, Burst, MaxTracked,   \* options; the clock ticks in half seconds
  RateNum, RateDen,              \* ratePerSecond = RateNum / RateDen
  Plans      \* which entities there are, which of them lie, what is used

ASSUME PeersAssumption ==
  /\ {Requests, Horizon, TtlTicks, Burst, MaxTracked, RateNum, RateDen} \subseteq Nat \ {0}
  /\ Vers \cap {"none", "unknown", "lie"} = {}
  /\ \A p \in Plans : \A e \in p.entities : e[1] \in Users

VARIABLES
  plan,
  runs,                         \* what each entity really runs
  jidVer, cache, verFeatures,   \* the three maps of DiscoCache
  lookup,    \* per slot: a call of #features()
  overtaken, \* entities whose verdict is from before their last presence,
             \* because their answer was not looked at yet when that came, or
             \* its digest was under way
  clock,
  asked,     \* requests so far
  decisions, \* per user: the prompt remembered
  prompts,   \* the prompts put to the application
  buckets,   \* per user that is tracked: its bucket
  account    \* per user: since when it has this bucket, what it was granted,
             \* and the time it was last told to come back at

discoVars  == <<runs, jidVer, cache, verFeatures, lookup, overtaken>>
manualVars == <<decisions, prompts>>
rateVars   == <<buckets, account>>
vars       == <<plan, discoVars, clock, asked, manualVars, rateVars>>

Entities == plan.entities
Bare(e)  == e[1]
Uses(part) == part \in plan.uses

(* A liar announces what it likes and answers something else.              *)
Features(e) == IF e \in plan.liars THEN "lie" ELSE runs[e]

(* An answer has come, and its verdict has not been written down. *)
Replying(s) == lookup[s].state \in {"answered", "hashing"}

NoLookup == [state |-> "free", jid |-> <<>>, ver |-> "none", answer |-> "none", late |-> FALSE]
Tracking == [since |-> 0, granted |-> 0, promise |-> 0]

Init ==
  /\ plan \in Plans
  /\ runs \in [Entities -> Vers]
  /\ jidVer = [u \in Users |-> "none"]
  /\ cache = [e \in Entities |-> "none"]
  /\ verFeatures = [v \in Vers |-> "none"]
  /\ lookup = [s \in Slots |-> NoLookup]
  /\ overtaken = {}
  /\ clock = 0 /\ asked = 0
  /\ decisions = [u \in Users |-> 0] /\ prompts = <<>>
  /\ buckets = [u \in {} |-> 0]
  /\ account = [u \in Users |-> Tracking]

-----------------------------------------------------------------------------
(* DiscoCache. *)

DiscoStep == UNCHANGED <<plan, clock, asked, manualVars, rateVars>>

(* What is answered without asking: what somebody with this ver was seen   *)
(* to support, or what this entity said before.                            *)
Verdict(e) ==
  LET ver == jidVer[Bare(e)]
      known == IF ver = "none" THEN "none" ELSE verFeatures[ver] IN
  IF known # "none" THEN known ELSE cache[e]

(* #features() that has to ask.  Two lookups may ask for the same thing.   *)
Ask(s, e) ==
  /\ Uses("disco") /\ lookup[s].state = "free" /\ Verdict(e) = "none"
  /\ lookup' = [lookup EXCEPT ![s] = [NoLookup EXCEPT !.state = "asked", !.jid = e, !.ver = jidVer[Bare(e)]]]
  /\ UNCHANGED <<runs, jidVer, cache, verFeatures, overtaken>> /\ DiscoStep

(* The end of #features(): whatever came is remembered, also no answer.    *)
Record(s, features) ==
  LET e == lookup[s].jid IN
  /\ cache' = [cache EXCEPT ![e] = features]
  /\ overtaken' = IF lookup[s].late THEN overtaken \cup {e} ELSE overtaken \ {e}
  /\ lookup' = [lookup EXCEPT ![s] = NoLookup]

(* The answer arrives.  It resolves the request, and #features() goes on   *)
(* in a microtask: what arrived with it, a presence say, is handled first. *)
Replied(s) ==
  /\ lookup[s].state = "asked"
  /\ lookup' = [lookup EXCEPT ![s].state = "answered", ![s].answer = Features(lookup[s].jid)]
  /\ UNCHANGED <<runs, jidVer, cache, verFeatures, overtaken>> /\ DiscoStep

(* The ver that was announced when it was asked for is checked with a      *)
(* digest, which takes its time.                                           *)
Answered(s) ==
  LET l == lookup[s] IN
  /\ l.state = "answered"
  /\ IF l.ver = "none" THEN Record(s, l.answer)
     ELSE lookup' = [lookup EXCEPT ![s].state = "hashing"] /\ UNCHANGED <<cache, overtaken>>
  /\ UNCHANGED <<runs, jidVer, verFeatures>> /\ DiscoStep

(* An error or a timeout is "unknown". *)
Unanswered(s) ==
  /\ lookup[s].state = "asked"
  /\ Record(s, "unknown")
  /\ UNCHANGED <<runs, jidVer, verFeatures>> /\ DiscoStep

(* Mutant: the ver that was announced is believed. *)
VerifiedBlindly(l) == TRUE

(* capsVerFromDiscoQuery(query) === ver: the ver it was asked for with.    *)
Verified(l) == l.answer = l.ver

Hashed(s) ==
  LET l == lookup[s] IN
  /\ l.state = "hashing"
  /\ verFeatures' = IF Verified(l) THEN [verFeatures EXCEPT ![l.ver] = l.answer] ELSE verFeatures
  /\ Record(s, l.answer)
  /\ UNCHANGED <<runs, jidVer>> /\ DiscoStep

(* Mutant: what the entity said before stays. *)
DroppedNever(e, v) == {}

(* "The entity's capabilities changed; drop stale per-JID verdicts."       *)
Dropped(e, v) == IF jidVer[Bare(e)] # v THEN {e} ELSE {}

(* #handlePresence(): an entity is available, and runs what it announces.  *)
(* A verdict that nobody has written down yet is not dropped.              *)
Presence(e, v) ==
  /\ Uses("disco")
  /\ runs' = [runs EXCEPT ![e] = v]
  /\ jidVer' = [jidVer EXCEPT ![Bare(e)] = v]
  /\ cache' = [x \in Entities |-> IF x \in Dropped(e, v) THEN "none" ELSE cache[x]]
  /\ overtaken' = overtaken \ Dropped(e, v)
  /\ lookup' = [s \in Slots |-> IF lookup[s].jid = e /\ Replying(s)
                                THEN [lookup[s] EXCEPT !.late = TRUE] ELSE lookup[s]]
  /\ UNCHANGED verFeatures /\ DiscoStep

(* What it said stays in the cache. *)
Unavailable(e) ==
  /\ Uses("disco") /\ jidVer[Bare(e)] # "none"
  /\ jidVer' = [jidVer EXCEPT ![Bare(e)] = "none"]
  /\ UNCHANGED <<runs, cache, verFeatures, lookup, overtaken>> /\ DiscoStep

(* invalidate(jid), and invalidate(). *)
Invalidate(e) ==
  /\ Uses("disco")
  /\ cache' = [cache EXCEPT ![e] = "none"]
  /\ jidVer' = [jidVer EXCEPT ![Bare(e)] = "none"]
  /\ overtaken' = overtaken \ {e}
  /\ UNCHANGED <<runs, verFeatures, lookup>> /\ DiscoStep

InvalidateAll ==
  /\ Uses("disco")
  /\ cache' = [e \in Entities |-> "none"]
  /\ jidVer' = [u \in Users |-> "none"]
  /\ verFeatures' = [v \in Vers |-> "none"]
  /\ overtaken' = {}
  /\ UNCHANGED <<runs, lookup>> /\ DiscoStep

-----------------------------------------------------------------------------
(* manualPolicy(). *)

Tick ==
  /\ clock < Horizon /\ ~Uses("disco") /\ clock' = clock + 1
  /\ UNCHANGED <<plan, discoVars, asked, manualVars, rateVars>>

(* Mutant: a prompt is remembered once it is decided. *)
RememberedDecided(u) ==
  /\ decisions[u] # 0 /\ ~prompts[decisions[u]].pending /\ clock - prompts[decisions[u]].at < TtlTicks

(* The decision, or the prompt still open, is remembered from when it was  *)
(* asked for.                                                              *)
Remembered(u) == decisions[u] # 0 /\ clock - prompts[decisions[u]].at < TtlTicks

Authorize(u) ==
  /\ Uses("manual") /\ asked < Requests /\ asked' = asked + 1
  /\ IF Remembered(u) THEN UNCHANGED manualVars
     ELSE /\ prompts' = Append(prompts, [user |-> u, at |-> clock, pending |-> TRUE])
          /\ decisions' = [decisions EXCEPT ![u] = Len(prompts')]
  /\ UNCHANGED <<plan, discoVars, clock, rateVars>>

(* The application answers, or throws, which denies. *)
Decide(p) ==
  /\ prompts[p].pending
  /\ prompts' = [prompts EXCEPT ![p].pending = FALSE]
  /\ UNCHANGED <<plan, discoVars, clock, asked, decisions, rateVars>>

-----------------------------------------------------------------------------
(* withRateLimit().  Tokens are counted in units: a tick refills RateNum.  *)

Token == 2 * RateDen
Lesser(a, b)  == IF a < b THEN a ELSE b
Greater(a, b) == IF a > b THEN a ELSE b
CeilDiv(a, b) == (a + b - 1) \div b

(* evictOldest(), when there is no room for a newcomer. *)
Evictions ==
  IF Cardinality(DOMAIN buckets) < MaxTracked THEN {{}}
  ELSE {{u} : u \in {w \in DOMAIN buckets : \A x \in DOMAIN buckets : buckets[w].updated <= buckets[x].updated}}

Refilled(b) == Lesser(Burst * Token, b.tokens + (clock - b.updated) * RateNum)

(* Mutant: a wait that is no whole second is cut short. *)
RetryAfterCut(tokens) == Greater(1, (Token - tokens) \div (2 * RateNum))

(* "Ceil so Retry-After never tells a client to come back too early."      *)
RetryAfter(tokens) == Greater(1, CeilDiv(Token - tokens, 2 * RateNum))

Known(u) == u \in DOMAIN buckets

(* Mutant: the time of a refused request is not noted. *)
SpendStale(u, tokens) ==
  IF tokens >= Token THEN [tokens |-> tokens - Token, updated |-> clock]
  ELSE [tokens |-> tokens, updated |-> IF Known(u) THEN buckets[u].updated ELSE clock]

Spend(u, tokens) == [tokens |-> IF tokens >= Token THEN tokens - Token ELSE tokens, updated |-> clock]

(* consume(): the request goes to the handler, or is answered 429.         *)
Consume(u) ==
  LET tokens == IF Known(u) THEN Refilled(buckets[u]) ELSE Burst * Token
      before == IF Known(u) THEN account[u] ELSE [Tracking EXCEPT !.since = clock]
      allowed == tokens >= Token IN
  /\ Uses("rate") /\ asked < Requests /\ asked' = asked + 1
  /\ \E gone \in IF Known(u) THEN {{}} ELSE Evictions :
       buckets' = [w \in (DOMAIN buckets \ gone) \cup {u} |-> IF w = u THEN Spend(u, tokens) ELSE buckets[w]]
  /\ account' = [account EXCEPT ![u] =
       IF allowed THEN [before EXCEPT !.granted = @ + 1, !.promise = 0]
       ELSE [before EXCEPT !.promise = clock + 2 * RetryAfter(tokens)]]
  /\ UNCHANGED <<plan, discoVars, clock, manualVars>>

-----------------------------------------------------------------------------
Next ==
  \/ \E s \in Slots : (\E e \in Entities : Ask(s, e)) \/ Replied(s) \/ Answered(s) \/ Unanswered(s) \/ Hashed(s)
  \/ \E e \in Entities : (\E v \in Vers : Presence(e, v)) \/ Unavailable(e) \/ Invalidate(e)
  \/ InvalidateAll
  \/ Tick
  \/ \E u \in Users : Authorize(u) \/ Consume(u)
  \/ \E p \in DOMAIN prompts : Decide(p)

Spec == Init /\ [][Next]_vars

-----------------------------------------------------------------------------
TypeOK ==
  /\ jidVer \in [Users -> Vers \cup {"none"}]
  /\ cache \in [Entities -> Vers \cup {"none", "unknown", "lie"}]
  /\ verFeatures \in [Vers -> Vers \cup {"none", "lie"}]
  /\ \A s \in Slots : lookup[s].state \in {"free", "asked", "answered", "hashing"}
  /\ overtaken \subseteq Entities
  /\ Cardinality(DOMAIN buckets) <= MaxTracked
  /\ \A u \in DOMAIN buckets : buckets[u].tokens \in 0..(Burst * Token) /\ buckets[u].updated <= clock

Alone(e) == \A x \in Entities : Bare(x) = Bare(e) => x = e

(* A verdict on an entity is what it supports now, whoever announces the   *)
(* same ver, lies about it, comes and goes or changes meanwhile.  There    *)
(* are three exceptions: an entity that shares its bare JID, whose         *)
(* resources share one ver; an answer that a presence overtook between its *)
(* arrival and the code that awaits it; and one that a presence overtook   *)
(* during its digest.                                                      *)
VerdictsAreTrue ==
  \A e \in Entities :
    Alone(e) /\ e \notin overtaken => Verdict(e) \in {"none", "unknown", Features(e)} \/ e \in plan.liars

(* "Concurrent requests from the same JID share one pending prompt": two   *)
(* are open only if the first has been for longer than a decision lives.   *)
OnePromptAtATime ==
  \A p, q \in DOMAIN prompts :
    p < q /\ prompts[p].pending /\ prompts[p].user = prompts[q].user => prompts[q].at - prompts[p].at >= TtlTicks

(* As long as its bucket lives, a user gets its burst and its rate, no     *)
(* more; and who comes back when it was told to is not refused again.      *)
LimiterKeepsItsWord ==
  \A u \in Users :
    /\ Known(u) => account[u].granted * Token <= Burst * Token + (clock - account[u].since) * RateNum
    /\ account[u].promise \in 1..clock /\ Known(u) => Refilled(buckets[u]) >= Token
=============================================================================
