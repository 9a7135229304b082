----------------------------- MODULE Peers_proofs -----------------------------
(***************************************************************************)
(* What a side remembers of its peers is true, for any number of users,    *)
(* entities, lookups, prompts and requests and any rate: proofs of the     *)
(* safety properties of Peers.  The three parts of that module share no    *)
(* variable but the clock, and each has an invariant of its own.           *)
(*                                                                         *)
(* The sections from "Sizes" on prove the safety properties of             *)
(* HttpExchange: what two peers that know each other's features and limits *)
(* make of one exchange.                                                   *)
(***************************************************************************)
EXTENDS Peers, HttpExchange, FiniteSetTheorems, SequenceTheorems, WellFoundedInduction, TLAPS

-----------------------------------------------------------------------------
(* The feature cache. *)

Lookups ==
  [state : {"free", "asked", "answered", "hashing"}, jid : Entities \cup {<<>>}, ver : Vers \cup {"none"},
   answer : Vers \cup {"none", "lie"}, late : BOOLEAN]

DiscoTyped ==
  /\ plan \in Plans /\ runs \in [Entities -> Vers]
  /\ jidVer \in [Users -> Vers \cup {"none"}]
  /\ cache \in [Entities -> Vers \cup {"none", "unknown", "lie"}]
  /\ verFeatures \in [Vers -> Vers \cup {"none", "lie"}]
  /\ lookup \in [Slots -> Lookups] /\ overtaken \subseteq Entities
  /\ \A s \in Slots : lookup[s].state # "free" => lookup[s].jid \in Entities

(* A ver is only ever known as what it is the hash of, the ver announced   *)
(* by an entity that has its bare JID alone is the one it runs, and a      *)
(* verdict about it, or an answer nobody has written down yet, is true     *)
(* unless a presence overtook it.                                          *)
DiscoInv ==
  /\ \A v \in Vers : verFeatures[v] \in {"none", v}
  /\ \A e \in Entities : Alone(e) => jidVer[Bare(e)] \in {"none", runs[e]}
  /\ \A e \in Entities :
       Alone(e) /\ e \notin overtaken \cup plan.liars => cache[e] \in {"none", "unknown", runs[e]}
  /\ \A s \in Slots : lookup[s].state = "hashing" => lookup[s].ver \in Vers
  /\ \A s \in Slots : Replying(s) /\ ~lookup[s].late => lookup[s].answer = Features(lookup[s].jid)

LEMMA BareIsUser ==
  ASSUME DiscoTyped, NEW e \in Entities
  PROVE  Bare(e) \in Users
BY PeersAssumption DEF DiscoTyped, PeersAssumption, Bare, Entities

LEMMA FeaturesTyped ==
  ASSUME DiscoTyped, NEW e \in Entities
  PROVE  Features(e) \in Vers \cup {"lie"} /\ (e \notin plan.liars => Features(e) = runs[e])
BY DEF DiscoTyped, Features

LEMMA NoLookupTyped ==
  NoLookup \in Lookups /\ NoLookup.state = "free"
BY DEF NoLookup, Lookups

(* A verdict is written down. *)
LEMMA RecordKeeps ==
  ASSUME DiscoTyped, DiscoInv, NEW s \in Slots, NEW f \in Vers \cup {"none", "unknown", "lie"},
         lookup[s].state # "free", UNCHANGED <<plan, runs, jidVer>>, Record(s, f),
         verFeatures' \in [Vers -> Vers \cup {"none", "lie"}],
         \A v \in Vers : verFeatures'[v] \in {"none", v},
         ~lookup[s].late => f \in {"none", "unknown", Features(lookup[s].jid)}
  PROVE  DiscoTyped' /\ DiscoInv'
<1> DEFINE e == lookup[s].jid
<1>1. /\ cache' = [cache EXCEPT ![e] = f]
      /\ overtaken' = IF lookup[s].late THEN overtaken \cup {e} ELSE overtaken \ {e}
      /\ lookup' = [lookup EXCEPT ![s] = NoLookup]
  BY DEF Record
<1>2. e \in Entities /\ lookup[s].late \in BOOLEAN
  BY DEF DiscoTyped, Lookups
<1>3. /\ plan' = plan /\ runs' = runs /\ jidVer' = jidVer
      /\ Entities' = Entities /\ Lookups' = Lookups
      /\ \A x : Alone(x)' = Alone(x) /\ Features(x)' = Features(x)
  BY DEF Entities, Alone, Features, Lookups
<1>4. lookup'[s] = NoLookup /\ \A t \in Slots \ {s} : lookup'[t] = lookup[t]
  BY <1>1 DEF DiscoTyped
<1>5. cache'[e] = f /\ \A x \in Entities \ {e} : cache'[x] = cache[x]
  BY <1>1, <1>2 DEF DiscoTyped
<1>6. DiscoTyped'
  <2>1. lookup' \in [Slots -> Lookups]
    BY <1>1, NoLookupTyped DEF DiscoTyped
  <2>2. cache' \in [Entities -> Vers \cup {"none", "unknown", "lie"}]
    BY <1>1 DEF DiscoTyped
  <2>3. overtaken' \subseteq Entities
    BY <1>1, <1>2 DEF DiscoTyped
  <2>4. \A t \in Slots : lookup'[t].state # "free" => lookup'[t].jid \in Entities
    BY <1>4, NoLookupTyped DEF DiscoTyped
  <2>. QED BY <1>3, <2>1, <2>2, <2>3, <2>4 DEF DiscoTyped
<1>7. \A x \in Entities :
        Alone(x) /\ x \notin overtaken' \cup plan.liars => cache'[x] \in {"none", "unknown", runs[x]}
  <2> SUFFICES ASSUME NEW x \in Entities, Alone(x), x \notin overtaken' \cup plan.liars
               PROVE  cache'[x] \in {"none", "unknown", runs[x]}
    OBVIOUS
  <2>1. CASE x = e
    BY <1>1, <1>2, <1>5, <2>1, FeaturesTyped
  <2>2. CASE x # e
    BY <1>1, <1>5, <2>2 DEF DiscoInv
  <2>. QED BY <2>1, <2>2
<1>8. /\ \A t \in Slots : lookup'[t].state = "hashing" => lookup'[t].ver \in Vers
      /\ \A t \in Slots : Replying(t)' /\ ~lookup'[t].late => lookup'[t].answer = Features(lookup'[t].jid)
  BY <1>4, NoLookupTyped DEF DiscoInv, Replying
<1>9. \A x \in Entities : Alone(x) => jidVer[Bare(x)] \in {"none", runs[x]}
  BY DEF DiscoInv
<1>10. /\ \A t \in Slots : Features(lookup[t].jid)' = Features(lookup'[t].jid)
       /\ \A t \in Slots : Replying(t)' => lookup'[t] = lookup[t]
  BY <1>3, <1>4, NoLookupTyped DEF Features, Replying
<1>11. DiscoInv'
  <2>1. (\A x \in Entities : Alone(x) => jidVer[Bare(x)] \in {"none", runs[x]})'
    BY <1>3, <1>9 DEF Bare
  <2>2. (\A x \in Entities :
           Alone(x) /\ x \notin overtaken \cup plan.liars => cache[x] \in {"none", "unknown", runs[x]})'
    BY <1>3, <1>7
  <2>. QED BY <1>8, <1>10, <2>1, <2>2 DEF DiscoInv
<1>. QED BY <1>6, <1>11

LEMMA AskKeeps ==
  ASSUME DiscoTyped, DiscoInv, NEW s \in Slots, NEW e \in Entities, Ask(s, e)
  PROVE  DiscoTyped' /\ DiscoInv'
<1> DEFINE new == [NoLookup EXCEPT !.state = "asked", !.jid = e, !.ver = jidVer[Bare(e)]]
<1>1. /\ lookup' = [lookup EXCEPT ![s] = new]
      /\ plan' = plan /\ runs' = runs /\ jidVer' = jidVer /\ cache' = cache
      /\ verFeatures' = verFeatures /\ overtaken' = overtaken
  BY DEF Ask, DiscoStep
<1>2. new \in Lookups /\ new.state = "asked" /\ new.jid = e
  <2>1. jidVer[Bare(e)] \in Vers \cup {"none"}
    BY BareIsUser DEF DiscoTyped
  <2>. QED BY <2>1 DEF NoLookup, Lookups
<1> HIDE DEF new
<1>3. lookup'[s] = new /\ \A t \in Slots \ {s} : lookup'[t] = lookup[t]
  BY <1>1 DEF DiscoTyped
<1>4. /\ Entities' = Entities /\ Lookups' = Lookups
      /\ \A x : Alone(x)' = Alone(x) /\ Features(x)' = Features(x)
  BY <1>1 DEF Entities, Alone, Features, Lookups
<1>5. DiscoTyped'
  BY <1>1, <1>2, <1>3, <1>4 DEF DiscoTyped
<1>6. /\ \A t \in Slots : lookup'[t].state = "hashing" => lookup'[t].ver \in Vers
      /\ \A t \in Slots : Replying(t)' /\ ~lookup'[t].late => lookup'[t].answer = Features(lookup[t].jid)'
  <2>1. \A t \in Slots : Features(lookup[t].jid)' = Features(lookup'[t].jid)
    BY <1>1 DEF Features
  <2>. QED BY <1>2, <1>3, <2>1 DEF DiscoInv, Replying
<1>7. DiscoInv'
  BY <1>1, <1>4, <1>6 DEF DiscoInv, Bare
<1>. QED BY <1>5, <1>7

LEMMA AnsweredKeeps ==
  ASSUME DiscoTyped, DiscoInv, NEW s \in Slots, Replied(s) \/ Answered(s) \/ Unanswered(s) \/ Hashed(s)
  PROVE  DiscoTyped' /\ DiscoInv'
<1> DEFINE l == lookup[s]
<1>0. l \in Lookups /\ l.state \in {"free", "asked", "answered", "hashing"} /\ l.ver \in Vers \cup {"none"}
      /\ l.answer \in Vers \cup {"none", "lie"} /\ l.late \in BOOLEAN
      /\ verFeatures \in [Vers -> Vers \cup {"none", "lie"}]
      /\ \A v \in Vers : verFeatures[v] \in {"none", v}
  BY DEF DiscoTyped, DiscoInv, Lookups
<1>1. CASE Unanswered(s)
  <2>1. l.state # "free" /\ Record(s, "unknown") /\ UNCHANGED <<plan, runs, jidVer, verFeatures>>
    BY <1>1 DEF Unanswered, DiscoStep
  <2>. QED BY <1>0, <2>1, RecordKeeps
<1>2. CASE Hashed(s)
  <2>1. /\ l.state = "hashing" /\ Record(s, l.answer) /\ UNCHANGED <<plan, runs, jidVer>>
        /\ verFeatures' = IF l.answer = l.ver THEN [verFeatures EXCEPT ![l.ver] = l.answer] ELSE verFeatures
    BY <1>2 DEF Hashed, DiscoStep, Verified
  <2>2. l.ver \in Vers /\ (~l.late => l.answer = Features(l.jid))
    BY <2>1 DEF DiscoInv, Replying
  <2>3. verFeatures' \in [Vers -> Vers \cup {"none", "lie"}] /\ \A v \in Vers : verFeatures'[v] \in {"none", v}
    BY <1>0, <2>1, <2>2
  <2>. QED BY <1>0, <2>1, <2>2, <2>3, RecordKeeps
<1>3. CASE Answered(s) /\ l.ver = "none"
  <2>1. l.state = "answered" /\ Record(s, l.answer) /\ UNCHANGED <<plan, runs, jidVer, verFeatures>>
    BY <1>3 DEF Answered, DiscoStep
  <2>2. ~l.late => l.answer = Features(l.jid)
    BY <2>1 DEF DiscoInv, Replying
  <2>. QED BY <1>0, <2>1, <2>2, RecordKeeps
<1>4. CASE Replied(s) \/ (Answered(s) /\ l.ver # "none")
  <2> DEFINE to == IF l.state = "asked" THEN "answered" ELSE "hashing"
             said == IF l.state = "asked" THEN Features(l.jid) ELSE l.answer
             new == [l EXCEPT !.state = to, !.answer = said]
  <2>1. /\ l.state \in {"asked", "answered"} /\ (l.state = "answered" => l.ver \in Vers)
        /\ lookup' = [lookup EXCEPT ![s] = new]
        /\ plan' = plan /\ runs' = runs /\ jidVer' = jidVer /\ cache' = cache
        /\ verFeatures' = verFeatures /\ overtaken' = overtaken
    <3>1. CASE Replied(s)
      BY <3>1 DEF Replied, DiscoStep, DiscoTyped
    <3>2. CASE Answered(s) /\ l.ver # "none"
      <4>1. new = [l EXCEPT !.state = "hashing"] /\ l.state = "answered"
        BY <1>0, <3>2 DEF Answered, Lookups
      <4>. QED BY <1>0, <3>2, <4>1 DEF Answered, DiscoStep, DiscoTyped
    <3>. QED BY <1>4, <3>1, <3>2
  <2>2. l.jid \in Entities /\ Features(l.jid) \in Vers \cup {"lie"}
    BY <1>0, <1>4, <2>1, FeaturesTyped DEF DiscoTyped
  <2>3. /\ new \in Lookups /\ new.jid = l.jid /\ new.ver = l.ver /\ new.late = l.late
        /\ new.state = "hashing" => new.ver \in Vers
        /\ ~new.late => new.answer = Features(l.jid)
    <3>1. ~l.late => said = Features(l.jid)
      BY <2>1 DEF DiscoInv, Replying
    <3>2. said \in Vers \cup {"none", "lie"} /\ to \in {"answered", "hashing"} /\ (to = "hashing" => l.ver \in Vers)
      BY <1>0, <2>1, <2>2
    <3> HIDE DEF said, to, l
    <3>. QED BY <1>0, <2>2, <3>1, <3>2 DEF Lookups
  <2> HIDE DEF new, l
  <2>4. lookup'[s] = new /\ \A t \in Slots \ {s} : lookup'[t] = lookup[t]
    BY <2>1 DEF DiscoTyped
  <2>5. /\ Entities' = Entities /\ Lookups' = Lookups
        /\ \A x : Alone(x)' = Alone(x) /\ Features(x)' = Features(x)
    BY <2>1 DEF Entities, Alone, Features, Lookups
  <2>6. DiscoTyped'
    BY <2>1, <2>2, <2>3, <2>4, <2>5 DEF DiscoTyped
  <2>7. /\ \A t \in Slots : lookup'[t].state = "hashing" => lookup'[t].ver \in Vers
        /\ \A t \in Slots : Replying(t)' /\ ~lookup'[t].late => lookup'[t].answer = Features(lookup[t].jid)'
    <3>1. \A t \in Slots : Features(lookup[t].jid)' = Features(lookup'[t].jid)
      BY <2>1 DEF Features
    <3>. QED BY <2>2, <2>3, <2>4, <2>5, <3>1 DEF DiscoInv, Replying
  <2>8. DiscoInv'
    BY <2>1, <2>5, <2>7 DEF DiscoInv, Bare
  <2>. QED BY <2>6, <2>8
<1>. QED BY <1>1, <1>2, <1>3, <1>4

LEMMA PresenceKeeps ==
  ASSUME DiscoTyped, DiscoInv, NEW e \in Entities, NEW v \in Vers, Presence(e, v)
  PROVE  DiscoTyped' /\ DiscoInv'
<1>1. /\ plan' = plan /\ runs' = [runs EXCEPT ![e] = v] /\ jidVer' = [jidVer EXCEPT ![Bare(e)] = v]
      /\ cache' = [x \in Entities |-> IF x \in Dropped(e, v) THEN "none" ELSE cache[x]]
      /\ overtaken' = overtaken \ Dropped(e, v) /\ verFeatures' = verFeatures
      /\ lookup' = [s \in Slots |-> IF lookup[s].jid = e /\ Replying(s)
                                    THEN [lookup[s] EXCEPT !.late = TRUE] ELSE lookup[s]]
  BY DEF Presence, DiscoStep
<1>2. /\ Entities' = Entities /\ Lookups' = Lookups /\ \A x : Alone(x)' = Alone(x)
  BY <1>1 DEF Entities, Alone, Lookups
<1>3. Bare(e) \in Users
  BY BareIsUser
<1>4. \A s \in Slots :
        /\ lookup'[s] \in Lookups /\ lookup'[s].state = lookup[s].state /\ lookup'[s].jid = lookup[s].jid
        /\ lookup'[s].ver = lookup[s].ver /\ lookup'[s].answer = lookup[s].answer
        /\ lookup[s].late => lookup'[s].late
        /\ lookup[s].jid = e /\ Replying(s) => lookup'[s].late
  <2> SUFFICES ASSUME NEW s \in Slots
               PROVE  /\ lookup'[s] \in Lookups /\ lookup'[s].state = lookup[s].state
                      /\ lookup'[s].jid = lookup[s].jid
                      /\ lookup'[s].ver = lookup[s].ver /\ lookup'[s].answer = lookup[s].answer
                      /\ lookup[s].late => lookup'[s].late
                      /\ lookup[s].jid = e /\ Replying(s) => lookup'[s].late
    OBVIOUS
  <2> DEFINE l == lookup[s]
  <2>1. l \in Lookups /\ lookup'[s] = IF l.jid = e /\ Replying(s) THEN [l EXCEPT !.late = TRUE] ELSE l
    BY <1>1 DEF DiscoTyped
  <2> HIDE DEF l
  <2>2. /\ lookup'[s] \in Lookups /\ lookup'[s].state = l.state /\ lookup'[s].jid = l.jid
        /\ lookup'[s].ver = l.ver /\ lookup'[s].answer = l.answer
        /\ l.late => lookup'[s].late
        /\ l.jid = e /\ Replying(s) => lookup'[s].late
    BY <2>1 DEF Lookups
  <2>. QED BY <2>2 DEF l
<1>5. DiscoTyped'
  <2>1. cache' \in [Entities -> Vers \cup {"none", "unknown", "lie"}]
    BY <1>1 DEF DiscoTyped
  <2>2. lookup' \in [Slots -> Lookups] /\ \A s \in Slots : lookup'[s].state # "free" => lookup'[s].jid \in Entities
    BY <1>1, <1>4 DEF DiscoTyped
  <2>3. runs' \in [Entities -> Vers] /\ jidVer' \in [Users -> Vers \cup {"none"}]
    BY <1>1, <1>3 DEF DiscoTyped
  <2>. QED BY <1>1, <1>2, <2>1, <2>2, <2>3 DEF DiscoTyped
<1>6. /\ runs'[e] = v /\ \A x \in Entities \ {e} : runs'[x] = runs[x]
      /\ jidVer'[Bare(e)] = v /\ \A u \in Users \ {Bare(e)} : jidVer'[u] = jidVer[u]
      /\ \A x \in Entities : cache'[x] = IF x \in Dropped(e, v) THEN "none" ELSE cache[x]
  BY <1>1, <1>3 DEF DiscoTyped
<1>7. ASSUME NEW x \in Entities, Alone(x) PROVE jidVer'[Bare(x)] \in {"none", runs'[x]}
  <2>1. CASE x = e
    BY <1>6, <2>1
  <2>2. CASE x # e
    <3>1. Bare(x) # Bare(e) /\ Bare(x) \in Users
      BY <1>7, <2>2, BareIsUser DEF Alone
    <3>. QED BY <1>6, <1>7, <2>2, <3>1 DEF DiscoInv
  <2>. QED BY <2>1, <2>2
<1>8. ASSUME NEW x \in Entities, Alone(x), x \notin overtaken' \cup plan.liars
      PROVE  cache'[x] \in {"none", "unknown", runs'[x]}
  <2>1. CASE x \in Dropped(e, v)
    BY <1>6, <2>1
  <2>2. CASE x \notin Dropped(e, v)
    <3>1. x \notin overtaken /\ cache'[x] = cache[x]
      BY <1>1, <1>6, <1>8, <2>2
    <3>2. cache[x] \in {"none", "unknown", runs[x]}
      BY <1>8, <3>1 DEF DiscoInv
    <3>3. runs'[x] = runs[x]
      <4>1. CASE x # e
        BY <1>6, <4>1
      <4>2. CASE x = e
        <5>1. jidVer[Bare(e)] = v /\ v # "none"
          BY <2>2, <4>2, PeersAssumption DEF Dropped, PeersAssumption
        <5>. QED BY <1>6, <1>8, <4>2, <5>1 DEF DiscoInv
      <4>. QED BY <4>1, <4>2
    <3>. QED BY <3>1, <3>2, <3>3
  <2>. QED BY <2>1, <2>2
<1>9. ASSUME NEW s \in Slots
      PROVE  /\ lookup'[s].state = "hashing" => lookup'[s].ver \in Vers
             /\ Replying(s)' /\ ~lookup'[s].late => lookup'[s].answer = Features(lookup[s].jid)'
  <2>1. Replying(s)' => Replying(s)
    BY <1>4 DEF Replying
  <2>2. /\ lookup[s].state = "hashing" => lookup[s].ver \in Vers
        /\ Replying(s) /\ ~lookup[s].late => lookup[s].answer = Features(lookup[s].jid)
    BY DEF DiscoInv
  <2>3. Replying(s) /\ ~lookup'[s].late => ~lookup[s].late /\ lookup[s].jid # e
    BY <1>4
  <2>4. Replying(s) => lookup[s].jid \in Entities
    BY DEF DiscoTyped, Replying
  <2>5. Replying(s) /\ lookup[s].jid # e => Features(lookup[s].jid)' = Features(lookup[s].jid)
    BY <1>1, <1>4, <1>6, <2>4 DEF Features
  <2>. QED BY <1>4, <2>1, <2>2, <2>3, <2>5
<1>10. DiscoInv'
  <2>1. (\A x \in Entities : Alone(x) => jidVer[Bare(x)] \in {"none", runs[x]})'
    BY <1>2, <1>7 DEF Bare
  <2>2. (\A x \in Entities :
           Alone(x) /\ x \notin overtaken \cup plan.liars => cache[x] \in {"none", "unknown", runs[x]})'
    BY <1>1, <1>2, <1>8
  <2>. QED BY <1>1, <1>9, <2>1, <2>2 DEF DiscoInv
<1>. QED BY <1>5, <1>10

LEMMA ForgetKeeps ==
  ASSUME DiscoTyped, DiscoInv, UNCHANGED <<plan, runs, lookup>>,
         jidVer' \in [Users -> Vers \cup {"none"}], \A u \in Users : jidVer'[u] \in {"none", jidVer[u]},
         cache' \in [Entities -> Vers \cup {"none", "unknown", "lie"}],
         \A e \in Entities : cache'[e] \in {"none", cache[e]} /\ (cache'[e] = "none" \/ (e \in overtaken => e \in overtaken')),
         verFeatures' \in [Vers -> Vers \cup {"none", "lie"}],
         \A v \in Vers : verFeatures'[v] \in {"none", verFeatures[v]},
         overtaken' \subseteq overtaken
  PROVE  DiscoTyped' /\ DiscoInv'
<1>1. /\ Entities' = Entities /\ Lookups' = Lookups
      /\ \A x : Alone(x)' = Alone(x) /\ Features(x)' = Features(x)
  BY DEF Entities, Alone, Features, Lookups
<1>2. DiscoTyped'
  BY <1>1 DEF DiscoTyped
<1>3. \A e \in Entities : Alone(e) => jidVer'[Bare(e)] \in {"none", runs[e]}
  BY BareIsUser DEF DiscoInv
<1>4. \A e \in Entities :
        Alone(e) /\ e \notin overtaken' \cup plan.liars => cache'[e] \in {"none", "unknown", runs[e]}
  BY DEF DiscoInv
<1>5. \A s \in Slots : Features(lookup[s].jid)' = Features(lookup[s].jid)
  BY DEF Features
<1>6. DiscoInv'
  <2>1. (\A e \in Entities : Alone(e) => jidVer[Bare(e)] \in {"none", runs[e]})'
    BY <1>1, <1>3 DEF Bare
  <2>2. (\A e \in Entities :
           Alone(e) /\ e \notin overtaken \cup plan.liars => cache[e] \in {"none", "unknown", runs[e]})'
    BY <1>1, <1>4
  <2>3. \A s \in Slots : Replying(s)' = Replying(s)
    BY DEF Replying
  <2>. QED BY <1>5, <2>1, <2>2, <2>3 DEF DiscoInv
<1>. QED BY <1>2, <1>6

(* Every step keeps it. *)
LEMMA DiscoKept ==
  ASSUME DiscoTyped, DiscoInv, [Next]_vars
  PROVE  DiscoTyped' /\ DiscoInv'
<1>1. ASSUME NEW s \in Slots, (\E e \in Entities : Ask(s, e)) \/ Replied(s) \/ Answered(s) \/ Unanswered(s) \/ Hashed(s)
      PROVE  DiscoTyped' /\ DiscoInv'
  BY <1>1, AskKeeps, AnsweredKeeps
<1>2. ASSUME NEW e \in Entities, NEW v \in Vers, Presence(e, v) PROVE DiscoTyped' /\ DiscoInv'
  BY <1>2, PresenceKeeps
<1>3. ASSUME NEW e \in Entities, Unavailable(e) PROVE DiscoTyped' /\ DiscoInv'
  <2>1. /\ UNCHANGED <<plan, runs, lookup, cache, verFeatures, overtaken>>
        /\ jidVer' = [jidVer EXCEPT ![Bare(e)] = "none"]
    BY <1>3 DEF Unavailable, DiscoStep
  <2>2. /\ jidVer' \in [Users -> Vers \cup {"none"}] /\ \A u \in Users : jidVer'[u] \in {"none", jidVer[u]}
    BY <2>1 DEF DiscoTyped
  <2>. QED BY <2>1, <2>2, ForgetKeeps DEF DiscoTyped
<1>4. ASSUME NEW e \in Entities, Invalidate(e) PROVE DiscoTyped' /\ DiscoInv'
  <2>1. /\ UNCHANGED <<plan, runs, lookup, verFeatures>>
        /\ jidVer' = [jidVer EXCEPT ![Bare(e)] = "none"] /\ cache' = [cache EXCEPT ![e] = "none"]
        /\ overtaken' = overtaken \ {e}
    BY <1>4 DEF Invalidate, DiscoStep
  <2>2. /\ jidVer' \in [Users -> Vers \cup {"none"}] /\ \A u \in Users : jidVer'[u] \in {"none", jidVer[u]}
    BY <2>1 DEF DiscoTyped
  <2>3. /\ cache' \in [Entities -> Vers \cup {"none", "unknown", "lie"}]
        /\ \A x \in Entities : cache'[x] \in {"none", cache[x]} /\ (cache'[x] = "none" \/ x # e)
    BY <2>1 DEF DiscoTyped
  <2>. QED BY <2>1, <2>2, <2>3, ForgetKeeps DEF DiscoTyped
<1>5. CASE InvalidateAll
  <2>1. /\ UNCHANGED <<plan, runs, lookup>> /\ overtaken' = {}
        /\ jidVer' = [u \in Users |-> "none"] /\ cache' = [e \in Entities |-> "none"]
        /\ verFeatures' = [v \in Vers |-> "none"]
    BY <1>5 DEF InvalidateAll, DiscoStep
  <2>2. /\ jidVer' \in [Users -> Vers \cup {"none"}] /\ \A u \in Users : jidVer'[u] = "none"
        /\ cache' \in [Entities -> Vers \cup {"none", "unknown", "lie"}] /\ \A e \in Entities : cache'[e] = "none"
        /\ verFeatures' \in [Vers -> Vers \cup {"none", "lie"}] /\ \A v \in Vers : verFeatures'[v] = "none"
    BY <2>1
  <2>. QED BY <2>1, <2>2, ForgetKeeps
<1>6. ASSUME Tick \/ (\E u \in Users : Authorize(u) \/ Consume(u)) \/ (\E p \in DOMAIN prompts : Decide(p))
             \/ UNCHANGED vars
      PROVE  DiscoTyped' /\ DiscoInv'
  <2>1. UNCHANGED <<plan, runs, lookup, jidVer, cache, verFeatures, overtaken>>
    BY <1>6 DEF Tick, Authorize, Consume, Decide, discoVars, vars
  <2>. QED BY <2>1, ForgetKeeps DEF DiscoTyped
<1>. QED BY <1>1, <1>2, <1>3, <1>4, <1>5, <1>6 DEF Next

LEMMA DiscoIsSound == Spec => [](DiscoTyped /\ DiscoInv)
<1>1. Init => DiscoTyped /\ DiscoInv
  <2> SUFFICES ASSUME Init PROVE DiscoTyped /\ DiscoInv
    OBVIOUS
  <2>1. DiscoTyped
    BY NoLookupTyped DEF Init, DiscoTyped
  <2>2. DiscoInv
    BY <2>1, BareIsUser, NoLookupTyped DEF Init, DiscoInv, Replying
  <2>. QED BY <2>1, <2>2
<1>2. DiscoTyped /\ DiscoInv /\ [Next]_vars => DiscoTyped' /\ DiscoInv'
  BY DiscoKept
<1>. QED BY <1>1, <1>2, PTL DEF Spec

(* The verdict #features() gives without asking is what the entity         *)
(* supports now, but for the exceptions the property names.                *)
THEOREM VerdictsStayTrue == Spec => []VerdictsAreTrue
<1>1. DiscoTyped /\ DiscoInv => VerdictsAreTrue
  <2> SUFFICES ASSUME DiscoTyped, DiscoInv, NEW e \in Entities, Alone(e), e \notin overtaken, e \notin plan.liars
               PROVE  Verdict(e) \in {"none", "unknown", Features(e)}
    BY DEF VerdictsAreTrue
  <2> DEFINE ver == jidVer[Bare(e)]
  <2>1. Features(e) = runs[e] /\ runs[e] \in Vers /\ cache[e] \in {"none", "unknown", runs[e]}
    BY FeaturesTyped DEF DiscoTyped, DiscoInv
  <2>2. ver \in {"none", runs[e]} /\ verFeatures[runs[e]] \in {"none", runs[e]}
    BY <2>1 DEF DiscoInv
  <2>. QED BY <2>1, <2>2 DEF Verdict
<1>. QED BY <1>1, DiscoIsSound, PTL

-----------------------------------------------------------------------------
(* The prompts of manualPolicy(). *)

PromptForms == [user : Users, at : Nat, pending : BOOLEAN]

PromptTyped ==
  /\ clock \in Nat /\ decisions \in [Users -> Nat] /\ prompts \in Seq(PromptForms)

(* The decision remembered of a user is its last prompt, prompts are in    *)
(* order of time, and two of one user are a decision's life apart.         *)
PromptInv ==
  /\ \A u \in Users : decisions[u] # 0 => decisions[u] \in 1..Len(prompts) /\ prompts[decisions[u]].user = u
  /\ \A p \in 1..Len(prompts) : prompts[p].at <= clock /\ p <= decisions[prompts[p].user]
  /\ \A p, q \in 1..Len(prompts) : p < q =>
       /\ prompts[p].at <= prompts[q].at
       /\ prompts[p].user = prompts[q].user => prompts[q].at - prompts[p].at >= TtlTicks

LEMMA PromptFacts ==
  ASSUME PromptTyped
  PROVE  /\ Len(prompts) \in Nat /\ DOMAIN prompts = 1..Len(prompts)
         /\ \A p \in 1..Len(prompts) : /\ prompts[p] \in PromptForms /\ prompts[p].user \in Users
                                       /\ prompts[p].at \in Nat /\ prompts[p].pending \in BOOLEAN
<1>1. prompts \in Seq(PromptForms)
  BY DEF PromptTyped
<1>2. Len(prompts) \in Nat /\ DOMAIN prompts = 1..Len(prompts) /\ \A p \in 1..Len(prompts) : prompts[p] \in PromptForms
  BY <1>1, LenProperties, ElementOfSeq
<1>. QED BY <1>2 DEF PromptForms

LEMMA AuthorizeKeeps ==
  ASSUME PromptTyped, PromptInv, NEW u \in Users, Authorize(u)
  PROVE  PromptTyped' /\ PromptInv'
<1> DEFINE n   == Len(prompts)
           new == [user |-> u, at |-> clock, pending |-> TRUE]
<1>1. clock' = clock
  BY DEF Authorize
<1>2. CASE Remembered(u)
  <2>1. decisions' = decisions /\ prompts' = prompts
    BY <1>2 DEF Authorize, manualVars
  <2>. QED BY <1>1, <2>1 DEF PromptTyped, PromptInv
<1>3. CASE ~Remembered(u)
  <2>1. prompts' = Append(prompts, new) /\ decisions' = [decisions EXCEPT ![u] = Len(prompts')]
    BY <1>3 DEF Authorize
  <2>2. new \in PromptForms /\ new.user = u /\ new.at = clock /\ clock \in Nat /\ TtlTicks \in Nat
    BY PeersAssumption DEF PromptTyped, PromptForms, PeersAssumption
  <2> HIDE DEF new
  <2>3. /\ n \in Nat /\ prompts' \in Seq(PromptForms) /\ Len(prompts') = n + 1 /\ prompts'[n + 1] = new
        /\ \A p \in 1..n : prompts'[p] = prompts[p]
    BY <2>1, <2>2, LenProperties, AppendProperties DEF PromptTyped
  <2>4. /\ decisions' \in [Users -> Nat] /\ decisions'[u] = n + 1
        /\ \A w \in Users \ {u} : decisions'[w] = decisions[w]
        /\ \A w \in Users : decisions[w] \in Nat
    BY <2>1, <2>3 DEF PromptTyped
  <2>5. \A p \in 1..n : prompts[p].user \in Users /\ prompts[p].at \in Nat /\ p \in Int
    BY PromptFacts
  <2>6. \A w \in Users : decisions'[w] # 0 =>
          decisions'[w] \in 1..n + 1 /\ prompts'[decisions'[w]].user = w
    <3> SUFFICES ASSUME NEW w \in Users, decisions'[w] # 0
                 PROVE  decisions'[w] \in 1..n + 1 /\ prompts'[decisions'[w]].user = w
      OBVIOUS
    <3>1. CASE w = u
      BY <2>2, <2>3, <2>4, <3>1
    <3>2. CASE w # u
      <4>1. decisions[w] \in 1..n /\ prompts[decisions[w]].user = w /\ decisions'[w] = decisions[w]
        BY <2>4, <3>2 DEF PromptInv
      <4>. QED BY <2>3, <4>1
    <3>. QED BY <3>1, <3>2
  <2>7. \A p \in 1..n + 1 : prompts'[p].at <= clock /\ p <= decisions'[prompts'[p].user]
    <3> SUFFICES ASSUME NEW p \in 1..n + 1
                 PROVE  prompts'[p].at <= clock /\ p <= decisions'[prompts'[p].user]
      OBVIOUS
    <3>1. CASE p = n + 1
      BY <2>2, <2>3, <2>4, <3>1
    <3>2. CASE p # n + 1
      <4>1. p \in 1..n /\ prompts'[p] = prompts[p]
        BY <2>3, <3>2
      <4>2. prompts[p].at <= clock /\ p <= decisions[prompts[p].user]
        BY <4>1 DEF PromptInv
      <4>3. decisions[prompts[p].user] <= decisions'[prompts[p].user]
        <5>1. decisions[u] <= n
          BY <2>3, <2>4 DEF PromptInv
        <5>. QED BY <2>3, <2>4, <2>5, <4>1, <5>1
      <4>4. p \in Int /\ decisions[prompts[p].user] \in Int /\ decisions'[prompts[p].user] \in Int
        BY <2>4, <2>5, <4>1
      <4>5. p <= decisions'[prompts[p].user]
        BY <4>2, <4>3, <4>4
      <4>. QED BY <4>1, <4>2, <4>5
    <3>. QED BY <3>1, <3>2
  <2>8. \A p, q \in 1..n + 1 : p < q =>
          /\ prompts'[p].at <= prompts'[q].at
          /\ prompts'[p].user = prompts'[q].user => prompts'[q].at - prompts'[p].at >= TtlTicks
    <3> SUFFICES ASSUME NEW p \in 1..n + 1, NEW q \in 1..n + 1, p < q
                 PROVE  /\ prompts'[p].at <= prompts'[q].at
                        /\ prompts'[p].user = prompts'[q].user => prompts'[q].at - prompts'[p].at >= TtlTicks
      OBVIOUS
    <3>1. p \in 1..n /\ prompts'[p] = prompts[p]
      BY <2>3
    <3>2. CASE q # n + 1
      <4>1. q \in 1..n /\ prompts'[q] = prompts[q]
        BY <2>3, <3>2
      <4>. QED BY <3>1, <4>1 DEF PromptInv
    <3>3. CASE q = n + 1
      <4>1. prompts'[q].at = clock /\ prompts'[q].user = u
        BY <2>2, <2>3, <3>3
      <4>2. prompts[p].at <= clock /\ p <= decisions[prompts[p].user]
        BY <3>1 DEF PromptInv
      <4>3. ASSUME prompts[p].user = u PROVE clock - prompts[p].at >= TtlTicks
        <5> DEFINE d == decisions[u]
        <5>1. d \in Nat /\ d # 0 /\ p <= d
          BY <2>4, <2>5, <3>1, <4>2, <4>3
        <5>2. d \in 1..n
          BY <5>1 DEF PromptInv
        <5>3. prompts[p].at <= prompts[d].at
          BY <2>5, <3>1, <5>1, <5>2 DEF PromptInv
        <5>4. ~(clock - prompts[d].at < TtlTicks)
          BY <1>3, <5>1 DEF Remembered
        <5> HIDE DEF d
        <5>5. prompts[d].at \in Nat /\ prompts[p].at \in Nat
          BY <2>5, <3>1, <5>2
        <5>. QED BY <2>2, <5>3, <5>4, <5>5
      <4>. QED BY <3>1, <4>1, <4>2, <4>3
    <3>. QED BY <3>2, <3>3
  <2>9. PromptTyped'
    BY <1>1, <2>2, <2>3, <2>4 DEF PromptTyped
  <2>10. PromptInv'
    BY <1>1, <2>3, <2>6, <2>7, <2>8 DEF PromptInv
  <2>. QED BY <2>9, <2>10
<1>. QED BY <1>2, <1>3

LEMMA PromptKept ==
  ASSUME PromptTyped, PromptInv, [Next]_vars
  PROVE  PromptTyped' /\ PromptInv'
<1>1. ASSUME NEW u \in Users, Authorize(u) PROVE PromptTyped' /\ PromptInv'
  BY <1>1, AuthorizeKeeps
<1>2. ASSUME NEW d \in DOMAIN prompts, Decide(d) PROVE PromptTyped' /\ PromptInv'
  <2>1. prompts' = [prompts EXCEPT ![d].pending = FALSE] /\ decisions' = decisions /\ clock' = clock
    BY <1>2 DEF Decide
  <2>2. prompts[d] \in PromptForms /\ d \in 1..Len(prompts)
    BY PromptFacts
  <2>3. [prompts[d] EXCEPT !.pending = FALSE] \in PromptForms
    BY <2>2 DEF PromptForms
  <2>4. prompts' \in Seq(PromptForms) /\ Len(prompts') = Len(prompts)
    <3>1. prompts' = [prompts EXCEPT ![d] = [prompts[d] EXCEPT !.pending = FALSE]]
      BY <2>1
    <3>. QED BY <2>2, <2>3, <3>1, ExceptSeq DEF PromptTyped
  <2>5. \A p \in 1..Len(prompts) : prompts'[p].user = prompts[p].user /\ prompts'[p].at = prompts[p].at
    BY <2>1, <2>2, PromptFacts DEF PromptForms
  <2>6. decisions \in [Users -> Nat]
    BY DEF PromptTyped
  <2>7. PromptTyped'
    BY <2>1, <2>4 DEF PromptTyped
  <2>8. PromptInv'
    BY <2>1, <2>4, <2>5 DEF PromptInv
  <2>. QED BY <2>7, <2>8
<1>3. ASSUME UNCHANGED manualVars, clock' \in {clock, clock + 1} PROVE PromptTyped' /\ PromptInv'
  <2>1. decisions' = decisions /\ prompts' = prompts /\ clock \in Nat /\ clock' \in Nat /\ clock <= clock'
    BY <1>3 DEF manualVars, PromptTyped
  <2>2. \A p \in 1..Len(prompts) : prompts[p].at \in Nat
    BY PromptFacts
  <2>3. \A p \in 1..Len(prompts) : prompts[p].at <= clock'
    BY <2>1, <2>2 DEF PromptInv
  <2>. QED BY <2>1, <2>3 DEF PromptTyped, PromptInv
<1>4. ASSUME NEW s \in Slots, (\E e \in Entities : Ask(s, e)) \/ Replied(s) \/ Answered(s) \/ Unanswered(s) \/ Hashed(s)
      PROVE  PromptTyped' /\ PromptInv'
  <2>1. UNCHANGED manualVars /\ clock' = clock
    BY <1>4 DEF Ask, Replied, Answered, Unanswered, Hashed, DiscoStep
  <2>. QED BY <1>3, <2>1
<1>5. ASSUME NEW e \in Entities, (\E v \in Vers : Presence(e, v)) \/ Unavailable(e) \/ Invalidate(e) \/ InvalidateAll
      PROVE  PromptTyped' /\ PromptInv'
  <2>1. UNCHANGED manualVars /\ clock' = clock
    BY <1>5 DEF Presence, Unavailable, Invalidate, InvalidateAll, DiscoStep
  <2>. QED BY <1>3, <2>1
<1>6. ASSUME InvalidateAll \/ Tick \/ (\E u \in Users : Consume(u)) \/ UNCHANGED vars
      PROVE  PromptTyped' /\ PromptInv'
  <2>1. UNCHANGED manualVars /\ clock' \in {clock, clock + 1}
    BY <1>6 DEF InvalidateAll, DiscoStep, Tick, Consume, vars
  <2>. QED BY <1>3, <2>1
<1>. QED BY <1>1, <1>2, <1>4, <1>5, <1>6 DEF Next

(* Of one user's prompts, two are open at a time only if the first has     *)
(* been open for longer than a decision lives.                             *)
THEOREM PromptsAreShared == Spec => []OnePromptAtATime
<1>1. Init => PromptTyped /\ PromptInv
  <2> SUFFICES ASSUME Init PROVE PromptTyped /\ PromptInv
    OBVIOUS
  <2>1. prompts = <<>> /\ prompts \in Seq(PromptForms) /\ Len(prompts) = 0
    BY DEF Init
  <2>. QED BY <2>1 DEF Init, PromptTyped, PromptInv
<1>2. PromptTyped /\ PromptInv => OnePromptAtATime
  BY PromptFacts DEF PromptInv, OnePromptAtATime
<1>3. PromptTyped /\ PromptInv /\ [Next]_vars => PromptTyped' /\ PromptInv'
  BY PromptKept
<1>. QED BY <1>1, <1>2, <1>3, PTL DEF Spec

-----------------------------------------------------------------------------
(* The buckets of withRateLimit(). *)

Buckets  == [tokens : 0..Burst * Token, updated : Nat]
Accounts == [since : Nat, granted : Nat, promise : Nat]

RateTyped ==
  /\ clock \in Nat /\ account \in [Users -> Accounts]
  /\ DOMAIN buckets \subseteq Users /\ buckets \in [DOMAIN buckets -> Buckets]
  /\ IsFiniteSet(DOMAIN buckets) /\ Cardinality(DOMAIN buckets) <= MaxTracked

(* What a user was granted and what its bucket holds is what it began with *)
(* and was refilled since; and its bucket will hold a token when it comes  *)
(* back as told.                                                           *)
BucketInv ==
  \A u \in DOMAIN buckets :
    /\ account[u].since <= buckets[u].updated /\ buckets[u].updated <= clock
    /\ account[u].granted * Token + buckets[u].tokens
         <= Burst * Token + (buckets[u].updated - account[u].since) * RateNum
    /\ account[u].promise # 0 =>
         /\ account[u].promise > buckets[u].updated
         /\ buckets[u].tokens + (account[u].promise - buckets[u].updated) * RateNum >= Token

LEMMA Numbers ==
  /\ Token \in Nat /\ Token > 0 /\ Burst \in Nat /\ Burst > 0 /\ RateNum \in Nat /\ RateNum > 0
  /\ MaxTracked \in Nat /\ MaxTracked > 0 /\ Burst * Token \in Nat /\ Burst * Token >= Token
<1>1. /\ Burst \in Nat /\ Burst > 0 /\ RateNum \in Nat /\ RateNum > 0 /\ RateDen \in Nat /\ RateDen > 0
      /\ MaxTracked \in Nat /\ MaxTracked > 0
  BY PeersAssumption DEF PeersAssumption
<1>2. Token \in Nat /\ Token > 0
  BY <1>1 DEF Token
<1>3. \A a, b \in Nat : a > 0 /\ b > 0 => a * b \in Nat /\ a * b >= b
  OBVIOUS
<1>. QED BY <1>1, <1>2, <1>3

(* Rounding up never falls short. *)
LEMMA CeilIsEnough ==
  ASSUME NEW a \in Nat, NEW b \in Nat \ {0}
  PROVE  CeilDiv(a, b) \in Nat /\ CeilDiv(a, b) * b >= a
<1> DEFINE x == a + b - 1
           q == x \div b
<1>1. x \in Nat /\ q \in Int /\ x % b \in 0..b - 1 /\ x = b * q + (x % b)
  OBVIOUS
<1>2. q >= 0
  OBVIOUS
<1>3. b * q >= a
  BY <1>1
<1>4. b * q = q * b
  BY <1>1
<1>. QED BY <1>1, <1>2, <1>3, <1>4 DEF CeilDiv

LEMMA RetryIsEnough ==
  ASSUME NEW tokens \in Nat, tokens < Token
  PROVE  /\ RetryAfter(tokens) \in Nat /\ RetryAfter(tokens) > 0
         /\ 2 * RetryAfter(tokens) \in Nat
         /\ tokens + (2 * RetryAfter(tokens)) * RateNum >= Token
<1> DEFINE a == Token - tokens
           b == 2 * RateNum
           c == CeilDiv(a, b)
           k == RetryAfter(tokens)
<1>1. a \in Nat /\ b \in Nat \ {0} /\ RateNum \in Nat /\ Token \in Nat
  BY Numbers
<1>2. c \in Nat /\ c * b >= a
  <2> HIDE DEF a, b
  <2>. QED BY <1>1, CeilIsEnough
<1>3. k = IF 1 > c THEN 1 ELSE c
  BY DEF RetryAfter, Greater
<1> HIDE DEF c, k
<1>4. k \in Nat /\ k > 0 /\ k >= c
  BY <1>2, <1>3
<1>5. \A i, j, n \in Nat : i >= j => i * n >= j * n
  OBVIOUS
<1>6. k * b >= c * b
  BY <1>1, <1>2, <1>4, <1>5
<1>7. \A i, n \in Nat : i * (2 * n) = (2 * i) * n
  OBVIOUS
<1>8. k * b = (2 * k) * RateNum
  BY <1>1, <1>4, <1>7
<1> DEFINE d == (2 * k) * RateNum
           f == k * b
<1>9. d = f /\ f >= c * b
  BY <1>6, <1>8
<1>10. k * b \in Int /\ c * b \in Int
  BY <1>1, <1>2, <1>4
<1>11. d \in Int /\ d >= a
  <2> HIDE DEF d, b, a
  <2>1. a \in Int
    BY <1>1
  <2>. QED BY <1>2, <1>9, <1>10, <2>1
<1>12. tokens + d >= Token
  <2> HIDE DEF d
  <2>. QED BY <1>1, <1>11
<1>. QED BY <1>4, <1>12 DEF k

LEMMA BucketFacts ==
  ASSUME RateTyped, NEW u \in DOMAIN buckets
  PROVE  /\ u \in Users /\ buckets[u] \in Buckets
         /\ buckets[u].tokens \in Nat /\ buckets[u].tokens <= Burst * Token /\ buckets[u].updated \in Nat
BY Numbers DEF RateTyped, Buckets

LEMMA AccountFacts ==
  ASSUME RateTyped, NEW u \in Users
  PROVE  /\ account[u] \in Accounts
         /\ account[u].since \in Nat /\ account[u].granted \in Nat /\ account[u].promise \in Nat
BY DEF RateTyped, Accounts

(* What a bucket holds once it is refilled. *)
LEMMA RefilledIs ==
  ASSUME RateTyped, BucketInv, NEW u \in DOMAIN buckets
  PROVE  /\ Refilled(buckets[u]) \in 0..Burst * Token
         /\ account[u].granted * Token + Refilled(buckets[u]) <= Burst * Token + (clock - account[u].since) * RateNum
         /\ Refilled(buckets[u]) = Burst * Token
              \/ Refilled(buckets[u]) = buckets[u].tokens + (clock - buckets[u].updated) * RateNum
<1> DEFINE t   == buckets[u].tokens
           up  == buckets[u].updated
           since == account[u].since
           g   == account[u].granted * Token
           cap == Burst * Token
           r   == (clock - up) * RateNum
           s   == (up - since) * RateNum
           all == (clock - since) * RateNum
           now == Refilled(buckets[u])
<1>1. /\ t \in Nat /\ up \in Nat /\ since \in Nat /\ cap \in Nat /\ t <= cap /\ RateNum \in Nat
      /\ account[u].granted \in Nat /\ clock \in Nat /\ Token \in Nat
  BY BucketFacts, AccountFacts, Numbers DEF RateTyped
<1>2. since <= up /\ up <= clock /\ g + t <= cap + s
  BY DEF BucketInv
<1>3. r \in Nat /\ s \in Nat /\ all = s + r /\ g \in Nat
  <2>1. \A x, y, z, n \in Nat : x <= y /\ y <= z =>
          /\ (z - y) * n \in Nat /\ (y - x) * n \in Nat /\ (z - x) * n = (y - x) * n + (z - y) * n
    <3> SUFFICES ASSUME NEW x \in Nat, NEW y \in Nat, NEW z \in Nat, NEW n \in Nat, x <= y, y <= z
                 PROVE  /\ (z - y) * n \in Nat /\ (y - x) * n \in Nat
                        /\ (z - x) * n = (y - x) * n + (z - y) * n
      OBVIOUS
    <3>1. z - y \in Nat /\ y - x \in Nat /\ z - x = (y - x) + (z - y)
      OBVIOUS
    <3>2. \A i, j, m \in Nat : i * m \in Nat /\ (i + j) * m = i * m + j * m
      OBVIOUS
    <3>. QED BY <3>1, <3>2
  <2>2. \A i, j \in Nat : i * j \in Nat
    OBVIOUS
  <2>3. r \in Nat /\ s \in Nat /\ all = s + r
    BY <1>1, <1>2, <2>1
  <2>. QED BY <1>1, <2>2, <2>3
<1>4. now = IF cap < t + r THEN cap ELSE t + r
  BY DEF Refilled, Lesser
<1> HIDE DEF t, up, since, g, cap, r, s, all, now
<1>5. now \in 0..cap /\ g + now <= cap + all /\ (now = cap \/ now = t + r)
  BY <1>1, <1>2, <1>3, <1>4
<1>. QED BY <1>5 DEF t, up, since, g, cap, r, s, all, now

LEMMA ConsumeKeeps ==
  ASSUME RateTyped, BucketInv, NEW u \in Users, Consume(u)
  PROVE  RateTyped' /\ BucketInv'
<1> DEFINE tokens == IF Known(u) THEN Refilled(buckets[u]) ELSE Burst * Token
           before == IF Known(u) THEN account[u] ELSE [Tracking EXCEPT !.since = clock]
           told   == clock + 2 * RetryAfter(tokens)
           b      == Spend(u, tokens)
           a      == IF tokens >= Token THEN [before EXCEPT !.granted = @ + 1, !.promise = 0]
                     ELSE [before EXCEPT !.promise = told]
<1>1. clock' = clock /\ account' = [account EXCEPT ![u] = a]
  BY DEF Consume
<1>2. PICK gone \in (IF Known(u) THEN {{}} ELSE Evictions) :
        buckets' = [w \in (DOMAIN buckets \ gone) \cup {u} |-> IF w = u THEN b ELSE buckets[w]]
  BY DEF Consume
<1>3. /\ Token \in Nat /\ Token > 0 /\ Burst * Token \in Nat /\ Burst * Token >= Token
      /\ RateNum \in Nat /\ clock \in Nat
  BY Numbers DEF RateTyped
<1>4. /\ tokens \in Nat /\ tokens <= Burst * Token
      /\ before \in Accounts /\ before.since \in Nat /\ before.since <= clock /\ before.granted \in Nat
      /\ before.granted * Token + tokens <= Burst * Token + (clock - before.since) * RateNum
  <2>1. CASE Known(u)
    <3>1. u \in DOMAIN buckets /\ tokens = Refilled(buckets[u]) /\ before = account[u]
      BY <2>1 DEF Known
    <3>2. account[u].since <= clock
      BY <3>1, <1>3, BucketFacts, AccountFacts DEF BucketInv
    <3>3. /\ Refilled(buckets[u]) \in 0..Burst * Token
          /\ account[u].granted * Token + Refilled(buckets[u]) <= Burst * Token + (clock - account[u].since) * RateNum
      BY <3>1, RefilledIs
    <3>4. account[u] \in Accounts /\ account[u].since \in Nat /\ account[u].granted \in Nat
      BY AccountFacts
    <3>5. tokens \in Nat /\ tokens <= Burst * Token
      BY <1>3, <3>1, <3>3
    <3> HIDE DEF tokens, before
    <3>. QED BY <3>1, <3>2, <3>3, <3>4, <3>5
  <2>2. CASE ~Known(u)
    <3>1. tokens = Burst * Token /\ before = [since |-> clock, granted |-> 0, promise |-> 0]
      BY <2>2 DEF Tracking
    <3>2. 0 * Token = 0 /\ (clock - clock) * RateNum = 0
      BY <1>3
    <3>3. before \in Accounts
      BY <1>3, <3>1 DEF Accounts
    <3>. QED BY <1>3, <3>1, <3>2, <3>3
  <2>. QED BY <2>1, <2>2
<1>5. b = [tokens |-> IF tokens >= Token THEN tokens - Token ELSE tokens, updated |-> clock]
  BY DEF Spend
<1> HIDE DEF tokens, before, b
<1>6. /\ b \in Buckets /\ b.updated = clock
      /\ tokens >= Token => b.tokens = tokens - Token
      /\ tokens < Token => b.tokens = tokens
  BY <1>3, <1>4, <1>5 DEF Buckets
<1>7. /\ a \in Accounts /\ a.since = before.since
      /\ a.granted * Token + b.tokens <= Burst * Token + (clock - a.since) * RateNum
      /\ a.promise # 0 => a.promise > clock /\ b.tokens + (a.promise - clock) * RateNum >= Token
  <2>1. CASE tokens >= Token
    <3>1. /\ a \in Accounts /\ a.since = before.since /\ a.granted = before.granted + 1 /\ a.promise = 0
      <4>1. a = [before EXCEPT !.granted = @ + 1, !.promise = 0]
        BY <2>1
      <4> HIDE DEF a
      <4>2. before.granted + 1 \in Nat
        BY <1>4
      <4>3. a = [since |-> before.since, granted |-> before.granted + 1, promise |-> 0]
        BY <1>4, <4>1 DEF Accounts
      <4>. QED BY <1>4, <4>2, <4>3 DEF Accounts
    <3>2. \A i, n \in Nat : (i + 1) * n = i * n + n /\ i * n \in Nat
      OBVIOUS
    <3>3. a.granted * Token = before.granted * Token + Token /\ before.granted * Token \in Nat
      BY <1>3, <1>4, <3>1, <3>2
    <3>4. b.tokens = tokens - Token
      BY <1>6, <2>1
    <3> DEFINE lhs == a.granted * Token
               g   == before.granted * Token
               rhs == Burst * Token + (clock - before.since) * RateNum
    <3>5. lhs = g + Token /\ g \in Nat /\ g + tokens <= rhs
      BY <1>4, <3>3
    <3>6. (clock - before.since) * RateNum \in Int
      BY <1>3, <1>4
    <3>7. rhs \in Int
      BY <1>3, <3>6
    <3>8. lhs + b.tokens <= rhs
      <4> HIDE DEF lhs, g, rhs
      <4>. QED BY <1>3, <1>4, <3>4, <3>5, <3>7
    <3>. QED BY <3>1, <3>8
  <2>2. CASE tokens < Token
    <3>1. /\ RetryAfter(tokens) \in Nat /\ RetryAfter(tokens) > 0 /\ 2 * RetryAfter(tokens) \in Nat
          /\ tokens + (2 * RetryAfter(tokens)) * RateNum >= Token
      BY <1>4, <2>2, RetryIsEnough
    <3>2. told \in Nat /\ told > clock /\ told - clock = 2 * RetryAfter(tokens)
      BY <1>3, <3>1
    <3>3. a = [before EXCEPT !.promise = told]
      BY <1>3, <1>4, <2>2
    <3> HIDE DEF told, a
    <3>4. /\ a \in Accounts /\ a.since = before.since /\ a.granted = before.granted /\ a.promise = told
      BY <1>4, <3>2, <3>3 DEF Accounts
    <3>5. b.tokens = tokens
      BY <1>6, <2>2
    <3>6. b.tokens + (a.promise - clock) * RateNum >= Token
      BY <3>1, <3>2, <3>4, <3>5
    <3>7. a.granted * Token + b.tokens <= Burst * Token + (clock - a.since) * RateNum
      BY <1>4, <3>4, <3>5
    <3>. QED BY <3>2, <3>4, <3>6, <3>7
  <2>. QED BY <1>3, <1>4, <2>1, <2>2
<1> HIDE DEF a
<1>8. /\ account'[u] = a /\ \A w \in Users \ {u} : account'[w] = account[w]
      /\ account' \in [Users -> Accounts]
  BY <1>1, <1>7 DEF RateTyped
<1>9. /\ DOMAIN buckets' = (DOMAIN buckets \ gone) \cup {u} /\ buckets'[u] = b
      /\ \A w \in DOMAIN buckets' : w # u => w \in DOMAIN buckets /\ buckets'[w] = buckets[w]
  BY <1>2
<1>10. IsFiniteSet(DOMAIN buckets') /\ Cardinality(DOMAIN buckets') <= MaxTracked
  <2> DEFINE D == DOMAIN buckets
  <2>0. IsFiniteSet(D) /\ Cardinality(D) \in Nat /\ Cardinality(D) <= MaxTracked /\ MaxTracked \in Nat /\ MaxTracked > 0
    BY FS_CardinalityType, Numbers DEF RateTyped
  <2>1. CASE Known(u)
    <3>1. DOMAIN buckets' = D
      BY <1>2, <1>9, <2>1 DEF Known
    <3>. QED BY <2>0, <3>1
  <2>2. CASE ~Known(u) /\ Cardinality(D) < MaxTracked
    <3>1. gone = {} /\ u \notin D
      BY <1>2, <2>2 DEF Known, Evictions
    <3>2. DOMAIN buckets' = D \cup {u}
      BY <1>9, <3>1
    <3>3. IsFiniteSet(D \cup {u}) /\ Cardinality(D \cup {u}) = Cardinality(D) + 1
      BY <2>0, <3>1, FS_AddElement
    <3>. QED BY <2>0, <2>2, <3>2, <3>3
  <2>3. CASE ~Known(u) /\ ~(Cardinality(D) < MaxTracked)
    <3>1. PICK w \in D : gone = {w}
      BY <1>2, <2>3 DEF Evictions
    <3>2. u \notin D \ {w}
      BY <2>3 DEF Known
    <3>3. IsFiniteSet(D \ {w}) /\ Cardinality(D \ {w}) = Cardinality(D) - 1
      BY <2>0, FS_RemoveElement
    <3>4. /\ IsFiniteSet((D \ {w}) \cup {u})
          /\ Cardinality((D \ {w}) \cup {u}) = Cardinality(D \ {w}) + 1
      BY <3>2, <3>3, FS_AddElement
    <3>. QED BY <1>9, <2>0, <3>1, <3>3, <3>4
  <2>. QED BY <2>1, <2>2, <2>3
<1>11. RateTyped'
  <2>1. \A w \in DOMAIN buckets' : w \in Users /\ buckets'[w] \in Buckets
    BY <1>6, <1>9, BucketFacts
  <2>2. buckets' = [w \in DOMAIN buckets' |-> buckets'[w]]
    BY <1>2
  <2>3. buckets' \in [DOMAIN buckets' -> Buckets] /\ DOMAIN buckets' \subseteq Users
    BY <2>1, <2>2
  <2>. QED BY <1>1, <1>8, <1>10, <2>3, <1>3 DEF RateTyped, Buckets, Accounts, Token
<1>12. BucketInv'
  <2> SUFFICES ASSUME NEW w \in DOMAIN buckets'
               PROVE  /\ account'[w].since <= buckets'[w].updated /\ buckets'[w].updated <= clock
                      /\ account'[w].granted * Token + buckets'[w].tokens
                           <= Burst * Token + (buckets'[w].updated - account'[w].since) * RateNum
                      /\ account'[w].promise # 0 =>
                           /\ account'[w].promise > buckets'[w].updated
                           /\ buckets'[w].tokens + (account'[w].promise - buckets'[w].updated) * RateNum >= Token
    BY <1>1 DEF BucketInv, Token
  <2>1. CASE w = u
    BY <1>3, <1>4, <1>6, <1>7, <1>8, <1>9, <2>1
  <2>2. CASE w # u
    <3>1. w \in DOMAIN buckets /\ buckets'[w] = buckets[w] /\ account'[w] = account[w]
      BY <1>8, <1>9, <2>2, BucketFacts
    <3>. QED BY <3>1 DEF BucketInv
  <2>. QED BY <2>1, <2>2
<1>. QED BY <1>11, <1>12

LEMMA RateKept ==
  ASSUME RateTyped, BucketInv, [Next]_vars
  PROVE  RateTyped' /\ BucketInv'
<1>1. ASSUME NEW u \in Users, Consume(u) PROVE RateTyped' /\ BucketInv'
  BY <1>1, ConsumeKeeps
<1>2. ASSUME UNCHANGED rateVars, clock' \in {clock, clock + 1} PROVE RateTyped' /\ BucketInv'
  <2>1. buckets' = buckets /\ account' = account /\ clock \in Nat /\ clock' \in Nat /\ clock <= clock'
    BY <1>2 DEF rateVars, RateTyped
  <2>2. \A u \in DOMAIN buckets : buckets[u].updated <= clock'
    BY <2>1, BucketFacts DEF BucketInv
  <2>. QED BY <2>1, <2>2 DEF RateTyped, BucketInv
<1>3. ASSUME NEW s \in Slots, (\E e \in Entities : Ask(s, e)) \/ Replied(s) \/ Answered(s) \/ Unanswered(s) \/ Hashed(s)
      PROVE  RateTyped' /\ BucketInv'
  <2>1. UNCHANGED rateVars /\ clock' = clock
    BY <1>3 DEF Ask, Replied, Answered, Unanswered, Hashed, DiscoStep
  <2>. QED BY <1>2, <2>1
<1>4. ASSUME NEW e \in Entities, (\E v \in Vers : Presence(e, v)) \/ Unavailable(e) \/ Invalidate(e)
      PROVE  RateTyped' /\ BucketInv'
  <2>1. UNCHANGED rateVars /\ clock' = clock
    BY <1>4 DEF Presence, Unavailable, Invalidate, DiscoStep
  <2>. QED BY <1>2, <2>1
<1>5. ASSUME InvalidateAll \/ Tick \/ (\E u \in Users : Authorize(u)) \/ (\E p \in DOMAIN prompts : Decide(p))
             \/ UNCHANGED vars
      PROVE  RateTyped' /\ BucketInv'
  <2>1. UNCHANGED rateVars /\ clock' \in {clock, clock + 1}
    BY <1>5 DEF InvalidateAll, DiscoStep, Tick, Authorize, Decide, vars
  <2>. QED BY <1>2, <2>1
<1>. QED BY <1>1, <1>3, <1>4, <1>5 DEF Next

LEMMA RateIsSound == Spec => [](RateTyped /\ BucketInv)
<1>1. Init => RateTyped /\ BucketInv
  <2> SUFFICES ASSUME Init PROVE RateTyped /\ BucketInv
    OBVIOUS
  <2>1. DOMAIN buckets = {} /\ buckets \in [{} -> Buckets] /\ Tracking \in Accounts
    BY DEF Init, Tracking, Accounts
  <2>2. IsFiniteSet({}) /\ Cardinality({}) = 0
    BY FS_EmptySet
  <2>. QED BY <2>1, <2>2, Numbers DEF Init, RateTyped, BucketInv
<1>2. RateTyped /\ BucketInv /\ [Next]_vars => RateTyped' /\ BucketInv'
  BY RateKept
<1>. QED BY <1>1, <1>2, PTL DEF Spec

(* A user gets its burst and its rate and no more while its bucket lives,  *)
(* and one that comes back when it was told to is let through.             *)
THEOREM LimiterIsFair == Spec => []LimiterKeepsItsWord
<1>1. RateTyped /\ BucketInv => LimiterKeepsItsWord
  <2> SUFFICES ASSUME RateTyped, BucketInv, NEW u \in DOMAIN buckets, u \in Users
               PROVE  /\ account[u].granted * Token <= Burst * Token + (clock - account[u].since) * RateNum
                      /\ account[u].promise \in 1..clock => Refilled(buckets[u]) >= Token
    BY DEF LimiterKeepsItsWord, Known
  <2> DEFINE g   == account[u].granted * Token
             now == Refilled(buckets[u])
             cap == Burst * Token + (clock - account[u].since) * RateNum
             t   == buckets[u].tokens
             up  == buckets[u].updated
             p   == account[u].promise
  <2>1. /\ now \in 0..Burst * Token /\ g + now <= cap
        /\ now = Burst * Token \/ now = t + (clock - up) * RateNum
    BY RefilledIs
  <2>2. /\ t \in Nat /\ up \in Nat /\ p \in Nat /\ clock \in Nat /\ RateNum \in Nat /\ Token \in Nat
        /\ Burst * Token \in Nat /\ Burst * Token >= Token /\ account[u].granted \in Nat /\ account[u].since \in Nat
    BY BucketFacts, AccountFacts, Numbers DEF RateTyped
  <2>3. g \in Int /\ cap \in Int
    <3>1. \A i, j \in Int : i * j \in Int
      OBVIOUS
    <3>2. (clock - account[u].since) * RateNum \in Int /\ g \in Int
      BY <2>2, <3>1
    <3>. QED BY <2>2, <3>2
  <2>4. g <= cap
    <3> HIDE DEF g, now, cap
    <3>. QED BY <2>1, <2>2, <2>3
  <2>5. ASSUME p \in 1..clock PROVE now >= Token
    <3>1. p > up /\ t + (p - up) * RateNum >= Token
      BY <2>2, <2>5 DEF BucketInv
    <3>2. \A x, y, z, n \in Nat : x <= y /\ y <= z => (z - x) * n >= (y - x) * n
      <4> SUFFICES ASSUME NEW x \in Nat, NEW y \in Nat, NEW z \in Nat, NEW n \in Nat, x <= y, y <= z
                   PROVE  (z - x) * n >= (y - x) * n
        OBVIOUS
      <4>1. y - x \in Nat /\ z - x \in Nat /\ z - x >= y - x
        OBVIOUS
      <4>2. \A i, j, m \in Nat : i >= j => i * m >= j * m
        OBVIOUS
      <4>. QED BY <4>1, <4>2
    <3> DEFINE late == (clock - up) * RateNum
               due  == (p - up) * RateNum
    <3>3. late >= due
      BY <2>2, <2>5, <3>1, <3>2
    <3>4. late \in Int /\ due \in Int
      BY <2>2
    <3>5. t + due >= Token /\ (now = Burst * Token \/ now = t + late)
      BY <2>1, <3>1
    <3> HIDE DEF late, due, now, t, up, p
    <3>. QED BY <2>2, <3>3, <3>4, <3>5
  <2>. QED BY <2>4, <2>5
<1>. QED BY <1>1, RateIsSound, PTL

-----------------------------------------------------------------------------
(* Every variable keeps its type: no more users are tracked than may be,   *)
(* and no bucket holds more than a burst or less than nothing.             *)
THEOREM TypeCorrect == Spec => []TypeOK
<1>1. DiscoTyped /\ DiscoInv /\ RateTyped /\ BucketInv => TypeOK
  <2> SUFFICES ASSUME DiscoTyped, RateTyped, BucketInv PROVE TypeOK
    OBVIOUS
  <2>1. \A s \in Slots : lookup[s].state \in {"free", "asked", "answered", "hashing"}
    BY DEF DiscoTyped, Lookups
  <2>2. \A u \in DOMAIN buckets : buckets[u].tokens \in 0..(Burst * Token) /\ buckets[u].updated <= clock
    BY BucketFacts, Numbers DEF BucketInv
  <2>. QED BY <2>1, <2>2 DEF TypeOK, DiscoTyped, RateTyped
<1>. QED BY <1>1, DiscoIsSound, RateIsSound, PTL

-----------------------------------------------------------------------------
(* Sizes: what BodySizes computes for one body, for every limit a side may *)
(* advertise.                                                              *)

(* selectStream() takes a mechanism the requester accepts. *)

LEMMA FirstIsAccepted ==
  ASSUME NEW preferred \in Seq(Mechanisms), NEW accepted, Usable(preferred, accepted) # {}
  PROVE  First(preferred, accepted) \in Mechanisms \cap accepted
<1> DEFINE usable == Usable(preferred, accepted)
<1>1. usable \in SUBSET Nat /\ usable # {} /\ \A i \in usable : preferred[i] \in Mechanisms \cap accepted
  <2>1. DOMAIN preferred = 1..Len(preferred) /\ Len(preferred) \in Nat
    OBVIOUS
  <2>2. \A i \in 1..Len(preferred) : preferred[i] \in Mechanisms
    OBVIOUS
  <2>. QED BY <2>1, <2>2 DEF Usable
<1> HIDE DEF usable
<1>2. \E x \in usable : \A y \in usable : ~(<<y, x>> \in OpToRel(<, Nat))
  BY <1>1, NatLessThanWellFounded, WFMin
<1>3. \A x, y \in Nat : y < x => <<y, x>> \in OpToRel(<, Nat)
  BY DEF OpToRel
<1>4. \E x \in usable : \A y \in usable : ~(y < x)
  BY <1>1, <1>2, <1>3, Zenon
<1>5. \E x \in usable : \A y \in usable : x <= y
  BY <1>1, <1>4
<1>6. (CHOOSE i \in usable : \A j \in usable : i <= j) \in usable
  BY <1>5, Zenon
<1>. QED BY <1>1, <1>6 DEF First, usable

(* A longer body has no shorter encoding. *)
LEMMA Base64Lengths ==
  /\ \A n \in Nat : base64Length(n) \in Nat
  /\ \A m, n \in Nat : m <= n => base64Length(m) <= base64Length(n)
<1>1. \A n \in Nat : base64Length(n) \in Nat
  BY DEF base64Length
<1>2. \A m, n \in Nat : m <= n => base64Length(m) <= base64Length(n)
  BY DEF base64Length
<1>. QED BY <1>1, <1>2

(* What stanzaBudgets() allows keeps a limit that leaves room for the      *)
(* floors of the budgets.                                                  *)
LEMMA LimitsKept ==
  ASSUME NEW limit \in Nat, limit = Unset \/ limit >= 3072
  PROVE  LET b == stanzaBudgets(limit) IN
         /\ b.inline \in Nat /\ b.inline + 2048 <= Or(limit, Floor)
         /\ limit = Unset => b.chunk = Unset
         /\ limit # Unset => b.chunk \in MinChunk..MaxChunk /\ base64Length(b.chunk) + 510 <= limit
<1>1. CASE limit = Unset
  BY <1>1 DEF stanzaBudgets, Unset, Or, Floor, DefaultInline
<1>2. CASE limit # Unset
  <2>0. limit >= 3072
    BY <1>2
  <2>1. /\ stanzaBudgets(limit).inline = AtLeast(1024, limit - 2048)
        /\ stanzaBudgets(limit).chunk = AtMost(MaxChunk, AtLeast(MinChunk, ((limit - 512) * 3) \div 4))
    BY <1>2 DEF stanzaBudgets
  <2>2. AtLeast(1024, limit - 2048) = limit - 2048
    BY <2>0 DEF AtLeast
  <2>3. PICK part \in Nat : part = ((limit - 512) * 3) \div 4 /\ 4 * part <= 3 * (limit - 512)
    <3> DEFINE p == ((limit - 512) * 3) \div 4
    <3>1. p \in Nat /\ 4 * p <= 3 * (limit - 512)
      BY <2>0
    <3>. QED BY <3>1
  <2>4. PICK chunk \in Nat : chunk = stanzaBudgets(limit).chunk
          /\ chunk \in MinChunk..MaxChunk /\ (chunk <= part \/ chunk = MinChunk)
    BY <2>1, <2>3 DEF AtMost, AtLeast, MinChunk, MaxChunk
  <2>5. base64Length(chunk) + 510 <= limit
    <3>1. CASE chunk <= part
      <4>1. 4 * chunk <= 3 * (limit - 512)
        BY <2>3, <3>1
      <4>. QED BY <2>0, <4>1 DEF base64Length
    <3>2. CASE chunk = MinChunk
      BY <2>0, <3>2 DEF base64Length, MinChunk
    <3>. QED BY <2>4, <3>1, <3>2
  <2>. QED BY <1>2, <2>0, <2>1, <2>2, <2>4, <2>5 DEF Or
<1>. QED BY <1>1, <1>2

(* What a size is that was computed from a limit's chunk, or from none. *)
LEMMA ChunksKept ==
  ASSUME NEW chunk \in Nat, chunk = Unset \/ chunk \in MinChunk..MaxChunk
  PROVE  resolveChunkSize(chunk) = IF chunk = Unset THEN DefaultChunk ELSE chunk
BY DEF resolveChunkSize, Or, AtMost, AtLeast, MinChunk, MaxChunk, DefaultChunk, SafeCap, Unset

(* What selectEncoding() decides keeps the budgets it was given. *)
LEMMA EncodingFits ==
  ASSUME NEW body \in Bodies, NEW budget \in Nat, NEW preferred \in Seq(Mechanisms), NEW accepted,
         NEW chunk \in Nat, chunk = Unset \/ chunk \in MinChunk..MaxChunk
  PROVE  LET e == selectEncoding(body, budget, preferred, accepted, chunk) IN
         /\ e.mode \in Inline \cup Mechanisms \cup {"too-large"} /\ e.size \in Nat
         /\ e.mode \in Inline => e.size <= 3 * budget
         /\ e.mode \in Inline /\ (e.mode = "base64" \/ BytePerUnit(body)) => e.size <= budget
         /\ e.mode \in {"ibb", "chunked", "jingle"} => e.size = resolveChunkSize(chunk)
         /\ e.mode = "too-large" => e.size = 0
<1>0. /\ body.kind \in {"empty", "bytes", "element", "stream"} /\ body.size \in Nat /\ body.escaped \in Nat
      /\ body.wire \in Nat /\ body.wire <= 3 * body.escaped
      /\ base64Length(body.size) \in Nat
  BY Base64Lengths DEF Bodies
<1>1. resolveChunkSize(chunk) \in Nat
  BY ChunksKept DEF DefaultChunk
<1> DEFINE s == selectStream(preferred, accepted, chunk)
<1>2. /\ s.mode \in Mechanisms \cup {"too-large"} /\ s.size \in Nat
      /\ s.mode \in {"ibb", "chunked", "jingle"} => s.size = resolveChunkSize(chunk)
      /\ s.mode = "too-large" => s.size = 0
  <2>1. CASE Usable(preferred, accepted) = {}
    BY <2>1 DEF selectStream, Mode
  <2>2. CASE Usable(preferred, accepted) # {}
    <3>1. First(preferred, accepted) \in Mechanisms
      BY <2>2, FirstIsAccepted
    <3>2. s = Mode(First(preferred, accepted),
                   IF First(preferred, accepted) = "sipub" THEN 0 ELSE resolveChunkSize(chunk))
      BY <2>2 DEF selectStream
    <3>. QED BY <1>1, <3>1, <3>2 DEF Mode, Mechanisms
  <2>. QED BY <2>1, <2>2
<1> HIDE DEF s
<1> DEFINE en == selectEncoding(body, budget, preferred, accepted, chunk)
<1>3. \/ en = Mode("none", 0)
      \/ body.escaped <= budget /\ en = Mode("xml", body.wire)
      \/ body.escaped <= budget /\ en = Mode("text", body.wire)
      \/ base64Length(body.size) <= budget /\ en = Mode("base64", base64Length(body.size))
      \/ en = s
  BY <1>0 DEF selectEncoding, AsText, s
<1> HIDE DEF en
<1> DEFINE Fits == /\ en.mode \in Inline \cup Mechanisms \cup {"too-large"} /\ en.size \in Nat
                   /\ en.mode \in Inline => en.size <= 3 * budget
                   /\ en.mode \in Inline /\ (en.mode = "base64" \/ BytePerUnit(body)) => en.size <= budget
                   /\ en.mode \in {"ibb", "chunked", "jingle"} => en.size = resolveChunkSize(chunk)
                   /\ en.mode = "too-large" => en.size = 0
<1>4. ASSUME en = s PROVE Fits
  BY <1>2, <1>4 DEF Inline, Mechanisms
<1>5. ASSUME en # s PROVE Fits
  BY <1>0, <1>3, <1>5 DEF Inline, Mechanisms, Mode, BytePerUnit
<1>6. Fits
  BY <1>4, <1>5
<1>. QED BY <1>6 DEF en

-----------------------------------------------------------------------------
(* One exchange, whatever its faults: where everybody is, who comes first, *)
(* and what a body has carried when it ends.                               *)

Dirs == {"up", "down"}

Channel ==
  [mech : Inline \cup Mechanisms, block : Nat,
   src  : {"none", "held", "reading", "drained", "cancelled", "dropped"},
   snd  : {"off", "due", "opening", "offered", "sending", "sent", "failed"},
   rcv  : {"off", "armed", "open", "closing", "ended", "failed", "cancelling", "cancelled"},
   sent : Nat, read : Nat, lost : BOOLEAN]

Places ==
  /\ exchange \in Exchanges
  /\ aborted \in BOOLEAN /\ closed \in BOOLEAN /\ running \in BOOLEAN
  /\ pc \in {"idle", "disco", "uploading", "waiting", "settled"}
  /\ outcome \in {"none", "response", "refused", "unsupported", "too large", "upload failed",
                  "timeout", "aborted", "crashed"}
  /\ iq \in {"unsent", "asked", "answered", "received", "lost", "expired"}
  /\ sp \in {"idle", "authorizing", "handling", "normalizing", "throwing", "done"}

(* Who comes first: nobody answers, receives or sends before it is his     *)
(* turn.                                                                   *)
InOrder ==
  /\ pc \in {"idle", "disco"} => iq = "unsent"
  /\ pc # "settled" => outcome = "none"
  /\ iq = "unsent" => sp = "idle" /\ chan["up"] = NoChannel
  /\ sp \in {"idle", "authorizing"} => chan["up"].rcv = "off"
  /\ sp # "done" => chan["down"] = NoChannel
  /\ iq \in {"answered", "received", "lost"} \/ outcome = "response" => sp = "done"
  /\ outcome # "response" => chan["down"].rcv = "off"

(* What a channel has carried of the stream "from" it is made of, if it is *)
(* piped, and what its end means.                                          *)
Carries(c, piped, from) ==
  /\ c.read <= c.sent
  /\ c.sent <= IF piped THEN from.read ELSE Parts
  /\ c.mech \in Streamed =>
       /\ c.rcv \in {"closing", "ended"} => c.snd \in {"sent", "failed"}
       /\ c.rcv = "ended" /\ c.snd = "sent" => c.read = c.sent
       /\ c.snd = "sent" => IF piped THEN from.rcv = "ended" /\ c.sent = from.read ELSE c.sent = Parts

Carried == \A d \in Dirs : Carries(chan[d], Piped(d), chan["up"])

ExchangeInv == Places /\ chan \in [Dirs -> Channel] /\ InOrder /\ Carried

LEMMA ExchangeTypes ==
  ASSUME ExchangeInv
  PROVE  ExchangeTypeOK /\ EndedMeansWhole
<1>0. Parts \in Nat /\ Exchanges \subseteq Plan
  BY ExchangeAssumption DEF ExchangeAssumption
<1>1. /\ chan["up"] \in Channel /\ chan["down"] \in Channel /\ Dirs = {"up", "down"}
      /\ \A d \in Dirs : chan[d] \in Channel /\ chan[d].read \in Nat /\ chan[d].sent \in Nat
  BY DEF ExchangeInv, Dirs, Channel
<1>2. ~Piped("up")
  BY DEF Piped
<1>3. chan["up"].sent <= Parts /\ chan["up"].read <= Parts
  BY <1>0, <1>1, <1>2 DEF ExchangeInv, Carried, Carries, Dirs
<1>4. chan["down"].sent <= Parts
  BY <1>0, <1>1, <1>3 DEF ExchangeInv, Carried, Carries, Dirs
<1>5. \A d \in Dirs : chan[d].read \in 0..chan[d].sent /\ chan[d].sent \in 0..Parts
  BY <1>0, <1>1, <1>3, <1>4 DEF ExchangeInv, Carried, Carries, Dirs
<1>6. ExchangeTypeOK
  <2>1. \A d \in Dirs :
          /\ chan[d].src \in {"none", "held", "reading", "drained", "cancelled", "dropped"}
          /\ chan[d].snd \in {"off", "due", "opening", "offered", "sending", "sent", "failed"}
          /\ chan[d].rcv \in {"off", "armed", "open", "closing", "ended", "failed", "cancelling", "cancelled"}
    BY <1>1 DEF Channel
  <2>2. exchange \in Plan
    BY <1>0 DEF ExchangeInv, Places
  <2>. QED BY <1>5, <2>1, <2>2 DEF ExchangeTypeOK, ExchangeInv, Places, Dirs
<1>7. EndedMeansWhole
  BY <1>1 DEF ExchangeInv, Carried, Carries, EndedMeansWhole, Dirs
<1>. QED BY <1>6, <1>7

(* How the bodies of an exchange travel, with the limits of its two sides. *)
Advertised == \A side \in {"client", "server"} : exchange.limits[side] = Unset \/ exchange.limits[side] >= 3072

LEMMA PlanFields ==
  ASSUME Places
  PROVE  /\ exchange.upload \in Bodies /\ exchange.download \in Bodies /\ exchange.packed \in Nat
         /\ exchange.preferred \in Seq(Mechanisms) /\ exchange.accept \subseteq Mechanisms
         /\ exchange.limits["client"] \in Nat /\ exchange.limits["server"] \in Nat
         /\ exchange.limits.client = exchange.limits["client"] /\ exchange.limits.server = exchange.limits["server"]
BY ExchangeAssumption DEF ExchangeAssumption, Places, Plan

(* The two budgets are what the code computes, whatever the limit. *)
LEMMA BudgetTypes ==
  ASSUME NEW limit \in Nat
  PROVE  LET b == stanzaBudgets(limit) IN
         b.inline \in Nat /\ b.chunk \in Nat /\ (b.chunk = Unset \/ b.chunk \in MinChunk..MaxChunk)
<1>1. CASE limit = Unset
  BY <1>1 DEF stanzaBudgets, DefaultInline, Unset
<1>2. CASE limit # Unset
  <2>1. /\ stanzaBudgets(limit).inline = AtLeast(1024, limit - 2048)
        /\ stanzaBudgets(limit).chunk = AtMost(MaxChunk, AtLeast(MinChunk, ((limit - 512) * 3) \div 4))
    BY <1>2 DEF stanzaBudgets
  <2>2. ((limit - 512) * 3) \div 4 \in Int
    OBVIOUS
  <2>3. \A n \in Int : AtLeast(1024, n) \in Nat /\ AtMost(MaxChunk, AtLeast(MinChunk, n)) \in MinChunk..MaxChunk
    BY DEF AtLeast, AtMost, MinChunk, MaxChunk
  <2>4. stanzaBudgets(limit).inline \in Nat
    <3>1. limit - 2048 \in Int
      OBVIOUS
    <3>. QED BY <2>1, <2>3, <3>1
  <2>5. stanzaBudgets(limit).chunk \in MinChunk..MaxChunk
    BY <2>1, <2>2, <2>3
  <2>6. MinChunk..MaxChunk \subseteq Nat
    BY DEF MinChunk
  <2>. QED BY <2>4, <2>5, <2>6
<1>. QED BY <1>1, <1>2

LEMMA SourceIsBody ==
  ASSUME Places
  PROVE  Source \in Bodies
<1>1. exchange.download \in Bodies /\ exchange.packed \in Nat
  BY PlanFields
<1>2. \A b \in Bodies : Bytes(b) \in Bodies
  BY DEF Bytes, Body, Wide, Bodies, Unset
<1>3. PICK b \in Bodies : Source = maybeCompress(b, exchange.packed)
  BY <1>1, <1>2 DEF Source, streamSource
<1>4. Body("bytes", exchange.packed, Unset, FALSE) \in Bodies
  BY <1>1 DEF Body, Wide, Bodies, Unset
<1>5. [b EXCEPT !.declared = FALSE] \in Bodies
  BY DEF Bodies
<1>. QED BY <1>3, <1>4, <1>5 DEF maybeCompress

LEMMA ModesKnown ==
  ASSUME Places
  PROVE  /\ UploadMode.mode \in Inline \cup Mechanisms \cup {"too-large"} /\ UploadMode.size \in Nat
         /\ RespondMode.mode \in Inline \cup Mechanisms \cup {"too-large"} /\ RespondMode.size \in Nat
         /\ Block \in Nat
<1>1. /\ ClientBudgets.inline \in Nat /\ ClientBudgets.chunk \in Nat
      /\ ClientBudgets.chunk = Unset \/ ClientBudgets.chunk \in MinChunk..MaxChunk
  BY PlanFields, BudgetTypes DEF ClientBudgets
<1>2. ServerBudgets.inline \in Nat /\ ServerBudgets.chunk \in Nat
  BY PlanFields, BudgetTypes DEF ServerBudgets
<1>3. UploadMode.mode \in Inline \cup Mechanisms \cup {"too-large"} /\ UploadMode.size \in Nat
  BY <1>1, PlanFields, EncodingFits DEF UploadMode
<1>4. RespondMode.mode \in Inline \cup Mechanisms \cup {"too-large"} /\ RespondMode.size \in Nat
  BY <1>1, <1>2, PlanFields, SourceIsBody, EncodingFits DEF RespondMode
<1>5. Block \in Nat
  BY <1>2, <1>4 DEF Block, ibbBlockSize, AtLeast, AtMost, Or, MinChunk
<1>. QED BY <1>3, <1>4, <1>5

(* What most steps do to a channel: nothing more is carried, it does not   *)
(* end for its reader, and if it is closing its sender has stopped.        *)
Turns(old, new) ==
  /\ new \in Channel /\ new.mech = old.mech /\ new.sent = old.sent /\ new.read = old.read
  /\ \/ new.rcv = old.rcv
     \/ old.rcv # "ended" /\ new.rcv # "ended"
     \/ old.mech \notin Streamed
  /\ new.snd = old.snd \/ new.snd # "sent"
  /\ new.rcv \in {"closing", "ended"} =>
       \/ new.rcv = old.rcv /\ new.snd = old.snd
       \/ new.snd = "failed"
       \/ old.mech \notin Streamed

OnlyTurns == \A d \in Dirs : Turns(chan[d], chan'[d])

LEMMA CarriedStays ==
  ASSUME Carried, OnlyTurns, exchange' = exchange
  PROVE  Carried'
<1>1. \A d \in Dirs : Piped(d)' = Piped(d)
  BY DEF OnlyTurns, Turns, Piped, Dirs
<1>2. "up" \in Dirs
  BY DEF Dirs
<1> SUFFICES ASSUME NEW d \in Dirs
             PROVE  Carries(chan'[d], Piped(d), chan'["up"])
  BY <1>1 DEF Carried
<1>3. chan'[d].read <= chan'[d].sent /\ chan'[d].sent <= IF Piped(d) THEN chan'["up"].read ELSE Parts
  BY <1>2 DEF Carried, Carries, OnlyTurns, Turns
<1>4. ASSUME chan'[d].mech \in Streamed
      PROVE  /\ chan'[d].rcv \in {"closing", "ended"} => chan'[d].snd \in {"sent", "failed"}
             /\ chan'[d].rcv = "ended" /\ chan'[d].snd = "sent" => chan'[d].read = chan'[d].sent
  BY <1>4 DEF Carried, Carries, OnlyTurns, Turns
<1>5. ASSUME chan'[d].mech \in Streamed, chan'[d].snd = "sent"
      PROVE  IF Piped(d) THEN chan'["up"].rcv = "ended" /\ chan'[d].sent = chan'["up"].read
             ELSE chan'[d].sent = Parts
  <2>1. chan[d].mech \in Streamed /\ chan[d].snd = "sent" /\ chan'[d].sent = chan[d].sent
    BY <1>5 DEF OnlyTurns, Turns
  <2>2. IF Piped(d) THEN chan["up"].rcv = "ended" /\ chan[d].sent = chan["up"].read ELSE chan[d].sent = Parts
    BY <2>1 DEF Carried, Carries
  <2>3. CASE Piped(d)
    <3>1. chan["up"].mech \in Streamed /\ chan["up"].rcv = "ended"
      BY <2>2, <2>3 DEF Piped
    <3>2. chan'["up"].rcv = "ended" /\ chan'["up"].read = chan["up"].read
      BY <1>2, <3>1 DEF OnlyTurns, Turns
    <3>. QED BY <2>1, <2>2, <2>3, <3>2
  <2>. QED BY <2>1, <2>2, <2>3
<1>. QED BY <1>3, <1>4, <1>5 DEF Carries

(* And of those that move nobody along: a channel that is not there yet    *)
(* stays away, and nobody begins to receive.                               *)
NoneBegins ==
  \A d \in Dirs : /\ chan[d] = NoChannel => chan'[d] = NoChannel
                  /\ chan[d].rcv = "off" => chan'[d].rcv = "off"

LEMMA OrderStays ==
  ASSUME InOrder, NoneBegins, UNCHANGED <<pc, outcome, iq, sp>>
  PROVE  InOrder'
BY DEF InOrder, NoneBegins, Dirs

LEMMA PlacesStay ==
  ASSUME Places, UNCHANGED <<exchange, clientVars, flags, iq, serverVars>>
  PROVE  Places'
<1>1. /\ exchange' = exchange /\ aborted' = aborted /\ closed' = closed /\ running' = running
      /\ pc' = pc /\ outcome' = outcome /\ iq' = iq /\ sp' = sp
  BY DEF clientVars, serverVars, flags
<1>2. aborted' \in BOOLEAN /\ closed' \in BOOLEAN /\ running' \in BOOLEAN
  BY <1>1, Zenon DEF Places
<1>. QED BY <1>1, <1>2 DEF Places

LEMMA NoChannelIs ==
  /\ NoChannel.snd = "off" /\ NoChannel.rcv = "off" /\ NoChannel.mech = "none" /\ NoChannel \in Channel
  /\ NoChannel.sent = 0 /\ NoChannel.read = 0
BY DEF NoChannel, Channel, Inline

LEMMA NoTurn == \A c \in Channel : Turns(c, c)
BY DEF Turns

(* A step that changes one channel, in a turn. *)
LEMMA OneTurns ==
  ASSUME chan \in [Dirs -> Channel], Carried, exchange' = exchange,
         NEW d \in Dirs, NEW c, chan' = [chan EXCEPT ![d] = c], Turns(chan[d], c)
  PROVE  /\ chan' \in [Dirs -> Channel] /\ Carried'
         /\ chan'[d] = c /\ \A e \in Dirs : e # d => chan'[e] = chan[e]
<1>1. c \in Channel
  BY DEF Turns
<1>2. /\ chan' \in [Dirs -> Channel]
      /\ chan'[d] = c /\ \A e \in Dirs : e # d => chan'[e] = chan[e]
  BY <1>1
<1>3. OnlyTurns
  BY <1>2, NoTurn DEF OnlyTurns
<1>. QED BY <1>2, <1>3, CarriedStays

LEMMA TurnsSound ==
  ASSUME ExchangeInv, NEW d \in Dirs, NEW c, chan' = [chan EXCEPT ![d] = c], Turns(chan[d], c),
         chan[d] # NoChannel, chan[d].rcv # "off" \/ c.rcv = "off",
         UNCHANGED <<exchange, clientVars, flags, iq, serverVars>>
  PROVE  ExchangeInv'
<1>1. /\ chan' \in [Dirs -> Channel] /\ Carried'
      /\ chan'[d] = c /\ \A e \in Dirs : e # d => chan'[e] = chan[e]
  BY OneTurns DEF ExchangeInv
<1>2. NoneBegins
  BY <1>1 DEF NoneBegins
<1>3. InOrder'
  BY <1>2, OrderStays DEF ExchangeInv, clientVars, serverVars
<1>. QED BY <1>1, <1>3, PlacesStay DEF ExchangeInv

(* What a transport does besides. *)
LEMMA TransportTurns ==
  ASSUME ExchangeInv, NEW d \in Dirs,
         \/ Accepts(d) \/ OpenRefused(d) \/ SendFails(d) \/ SourceFails(d) \/ GivesUp(d) \/ IdleTimeout(d)
         \/ ReadPart(d) /\ Exceeds(d)
  PROVE  ExchangeInv'
<1>0. chan[d] \in Channel
  BY DEF ExchangeInv
<1>6. chan[d].mech \in Streamed /\ chan[d].rcv \in {"closing", "ended"} => chan[d].snd \in {"sent", "failed"}
  BY DEF ExchangeInv, Carried, Carries
<1>1. CASE Accepts(d)
  <2> DEFINE how == IF chan[d].rcv = "armed" THEN "open" ELSE "cancelled"
             c == [chan[d] EXCEPT !.snd = "sending", !.rcv = how]
  <2>1. /\ chan' = [chan EXCEPT ![d] = c] /\ chan[d].snd \in {"opening", "offered"}
        /\ chan[d].rcv \in {"armed", "cancelling"} /\ UNCHANGED <<exchange, clientVars, flags, iq, serverVars>>
    BY <1>0, <1>1 DEF Accepts, ChanStep
  <2>2. /\ c \in Channel /\ c.rcv = how /\ c.snd = "sending" /\ c.mech = chan[d].mech
        /\ c.sent = chan[d].sent /\ c.read = chan[d].read
    BY <1>0 DEF Channel
  <2>. HIDE DEF c
  <2>4. Turns(chan[d], c) /\ chan[d] # NoChannel
    BY <2>1, <2>2, <1>6, NoChannelIs DEF Turns
  <2>. QED BY <2>1, <2>2, <2>4, TurnsSound
<1>2. CASE OpenRefused(d)
  <2> DEFINE c == [chan[d] EXCEPT !.snd = "failed", !.src = "dropped"]
  <2>1. /\ chan' = [chan EXCEPT ![d] = c] /\ chan[d].snd \in {"opening", "offered"}
        /\ UNCHANGED <<exchange, clientVars, flags, iq, serverVars>>
    BY <1>0, <1>2 DEF OpenRefused, ChanStep
  <2>2. /\ c \in Channel /\ c.rcv = chan[d].rcv /\ c.snd = "failed" /\ c.mech = chan[d].mech
        /\ c.sent = chan[d].sent /\ c.read = chan[d].read
    BY <1>0 DEF Channel
  <2>. HIDE DEF c
  <2>4. Turns(chan[d], c) /\ chan[d] # NoChannel
    BY <2>1, <2>2, <1>6, NoChannelIs DEF Turns
  <2>. QED BY <2>1, <2>2, <2>4, TurnsSound
<1>3. CASE SendFails(d)
  <2> DEFINE c == [chan[d] EXCEPT !.snd = "failed", !.src = IF Drained(d) THEN "drained" ELSE "dropped"]
  <2>1. /\ chan' = [chan EXCEPT ![d] = c] /\ chan[d].snd = "sending"
        /\ UNCHANGED <<exchange, clientVars, flags, iq, serverVars>>
    BY <1>0, <1>3 DEF SendFails, Sending, ChanStep
  <2>2. /\ c \in Channel /\ c.rcv = chan[d].rcv /\ c.snd = "failed" /\ c.mech = chan[d].mech
        /\ c.sent = chan[d].sent /\ c.read = chan[d].read
    BY <1>0 DEF Channel
  <2>. HIDE DEF c
  <2>4. Turns(chan[d], c) /\ chan[d] # NoChannel
    BY <2>1, <2>2, <1>6, NoChannelIs DEF Turns
  <2>. QED BY <2>1, <2>2, <2>4, TurnsSound
<1>4. CASE SourceFails(d) \/ GivesUp(d)
  <2> DEFINE c == [chan[d] EXCEPT !.snd = "failed", !.src = "dropped", !.rcv = Ending(d)]
  <2>1. /\ chan' = [chan EXCEPT ![d] = c] /\ chan[d].snd = "sending"
        /\ UNCHANGED <<exchange, clientVars, flags, iq, serverVars>>
    BY <1>0, <1>4 DEF SourceFails, GivesUp, Stops, Sending, ChanStep
  <2>2. /\ c \in Channel /\ c.rcv = Ending(d) /\ c.snd = "failed" /\ c.mech = chan[d].mech
        /\ c.sent = chan[d].sent /\ c.read = chan[d].read
    BY <1>0 DEF Channel, Ending
  <2>3. Ending(d) = chan[d].rcv \/ (chan[d].rcv = "open" /\ Ending(d) = "closing")
    BY DEF Ending
  <2>. HIDE DEF c
  <2>4. Turns(chan[d], c) /\ chan[d] # NoChannel
    BY <2>1, <2>2, <2>3, <1>6, NoChannelIs DEF Turns
  <2>. QED BY <2>1, <2>2, <2>3, <2>4, TurnsSound
<1>5. CASE IdleTimeout(d) \/ (ReadPart(d) /\ Exceeds(d))
  <2> DEFINE c == [chan[d] EXCEPT !.rcv = "failed"]
  <2>1. /\ chan' = [chan EXCEPT ![d] = c] /\ chan[d].rcv \in {"armed", "open", "closing", "cancelling"}
        /\ UNCHANGED <<exchange, clientVars, flags, iq, serverVars>>
    BY <1>0, <1>5 DEF IdleTimeout, ReadPart, Readable, ChanStep
  <2>2. /\ c \in Channel /\ c.rcv = "failed" /\ c.snd = chan[d].snd /\ c.mech = chan[d].mech
        /\ c.sent = chan[d].sent /\ c.read = chan[d].read
    BY <1>0 DEF Channel
  <2>. HIDE DEF c
  <2>4. Turns(chan[d], c) /\ chan[d] # NoChannel
    BY <2>1, <2>2, <1>6, NoChannelIs DEF Turns
  <2>. QED BY <2>1, <2>2, <2>4, TurnsSound
<1>. QED BY <1>1, <1>2, <1>3, <1>4, <1>5

(* A part more, and the end of a source. *)
LEMMA SourceIsSent ==
  ASSUME ExchangeInv, NEW d \in Dirs, SendPart(d) \/ SendEnd(d)
  PROVE  ExchangeInv'
<1>0. /\ \A e \in Dirs : chan[e] \in Channel /\ chan[e].sent \in Nat /\ chan[e].read \in Nat
      /\ "up" \in Dirs /\ chan \in [Dirs -> Channel] /\ Parts \in Nat
  BY ExchangeAssumption DEF ExchangeInv, Channel, Dirs, ExchangeAssumption
<1>1. chan[d].snd = "sending" /\ chan[d] # NoChannel /\ UNCHANGED <<exchange, clientVars, flags, iq, serverVars>>
  BY NoChannelIs DEF SendPart, SendEnd, Sending, ChanStep
<1>2. chan[d].mech \in Streamed => chan[d].rcv \notin {"closing", "ended"}
  BY <1>1 DEF ExchangeInv, Carried, Carries
<1>3. \A e \in Dirs : Piped(e) <=> e = "down" /\ exchange.handler = "pipes" /\ chan["up"].mech \in Streamed
  BY DEF Piped
<1>4. CASE SendPart(d)
  <2> DEFINE c(l) == [chan[d] EXCEPT !.src = "reading", !.sent = chan[d].sent + 1, !.lost = l]
  <2>1. PICK l \in BOOLEAN : chan' = [chan EXCEPT ![d] = c(l)]
    <3>1. PICK l \in {chan[d].lost} \cup (IF Faulty("loss") /\ chan[d].mech = "chunked" THEN {TRUE} ELSE {}) :
             chan' = [chan EXCEPT ![d].src = "reading", ![d].sent = @ + 1, ![d].lost = l]
      BY <1>4 DEF SendPart, ChanStep
    <3>2. l \in BOOLEAN
      BY <1>0, <3>1 DEF Channel
    <3>3. chan' = [chan EXCEPT ![d] = c(l)]
      BY <1>0, <3>1
    <3>. QED BY <3>2, <3>3
  <2>2. /\ chan'[d].sent = chan[d].sent + 1 /\ chan'[d].read = chan[d].read /\ chan'[d].snd = chan[d].snd
        /\ chan'[d].rcv = chan[d].rcv /\ chan'[d].mech = chan[d].mech /\ chan'[d] \in Channel
        /\ \A e \in Dirs : e # d => chan'[e] = chan[e]
    <3>1. /\ c(l).sent = chan[d].sent + 1 /\ c(l).read = chan[d].read /\ c(l).snd = chan[d].snd
          /\ c(l).rcv = chan[d].rcv /\ c(l).mech = chan[d].mech
      BY <1>0 DEF Channel
    <3>2. c(l) \in Channel
      <4>1. chan[d].sent + 1 \in Nat
        BY <1>0
      <4>2. \A r \in Channel, n \in Nat, m \in BOOLEAN :
              [r EXCEPT !.src = "reading", !.sent = n, !.lost = m] \in Channel
        BY DEF Channel
      <4>. QED BY <1>0, <4>1, <4>2
    <3>. HIDE DEF c
    <3>. QED BY <1>0, <2>1, <3>1, <3>2
  <2>3. chan' \in [Dirs -> Channel] /\ NoneBegins
    BY <1>0, <1>1, <2>1, <2>2 DEF NoneBegins
  <2>4. /\ chan'["up"].read = chan["up"].read /\ chan'["up"].mech = chan["up"].mech
        /\ chan'["up"].rcv = chan["up"].rcv
    BY <1>0, <2>2
  <2>5. \A e \in Dirs : Piped(e)' <=> Piped(e)
    BY <1>1, <2>4 DEF Piped
  <2>6. chan'[d].sent <= IF Piped(d) THEN chan["up"].read ELSE Parts
    <3>1. IF Piped(d) THEN chan["down"].sent < chan["up"].read ELSE chan[d].sent < Parts
      BY <1>4 DEF SendPart, Yields
    <3>2. Piped(d) => d = "down"
      BY DEF Piped
    <3>. QED BY <1>0, <2>2, <3>1, <3>2
  <2>7. Carried'
    <3> SUFFICES ASSUME NEW e \in Dirs
                 PROVE  Carries(chan'[e], Piped(e), chan'["up"])
      BY <2>5 DEF Carried, Carries
    <3>1. CASE e = d
      <4>1. chan[d].read <= chan[d].sent
        BY DEF ExchangeInv, Carried, Carries
      <4>. QED BY <1>0, <1>1, <1>2, <2>2, <2>4, <2>6, <3>1, <4>1 DEF Carries
    <3>2. CASE e # d
      BY <1>0, <2>2, <2>4, <3>2 DEF ExchangeInv, Carried, Carries
    <3>. QED BY <3>1, <3>2
  <2>8. InOrder'
    BY <1>1, <2>3, OrderStays DEF ExchangeInv, clientVars, serverVars
  <2>. QED BY <1>1, <2>3, <2>7, <2>8, PlacesStay DEF ExchangeInv
<1>5. CASE SendEnd(d)
  <2>1. chan' = [chan EXCEPT ![d] = [chan[d] EXCEPT !.src = "drained", !.snd = "sent", !.rcv = Ending(d)]]
    BY <1>0, <1>5 DEF SendEnd, ChanStep
  <2>2. /\ chan'[d].sent = chan[d].sent /\ chan'[d].read = chan[d].read /\ chan'[d].snd = "sent"
        /\ chan'[d].rcv = Ending(d) /\ chan'[d].mech = chan[d].mech /\ chan'[d] \in Channel
        /\ \A e \in Dirs : e # d => chan'[e] = chan[e]
    BY <1>0, <2>1 DEF Channel, Ending
  <2>3. Ending(d) = chan[d].rcv \/ (chan[d].rcv = "open" /\ Ending(d) = "closing")
    BY DEF Ending
  <2>4. chan' \in [Dirs -> Channel] /\ NoneBegins
    BY <1>0, <1>1, <2>1, <2>2, <2>3 DEF NoneBegins
  <2>5. chan'["up"].read = chan["up"].read /\ chan'["up"].mech = chan["up"].mech
    BY <1>0, <2>2
  <2>6. chan["up"].rcv = "ended" => chan'["up"].rcv = "ended"
    BY <1>0, <2>2, <2>3
  <2>7. \A e \in Dirs : Piped(e)' <=> Piped(e)
    BY <1>1, <2>5 DEF Piped
  <2>8. IF Piped(d) THEN chan["up"].rcv = "ended" /\ chan[d].sent >= chan["up"].read ELSE chan[d].sent >= Parts
    BY <1>0, <1>3, <1>5 DEF SendEnd, Drained, Yields
  <2>9. IF Piped(d) THEN chan["up"].rcv = "ended" /\ chan[d].sent = chan["up"].read ELSE chan[d].sent = Parts
    <3>1. chan[d].sent <= IF Piped(d) THEN chan["up"].read ELSE Parts
      BY DEF ExchangeInv, Carried, Carries
    <3>. QED BY <1>0, <2>8, <3>1
  <2>10. Carried'
    <3> SUFFICES ASSUME NEW e \in Dirs
                 PROVE  Carries(chan'[e], Piped(e), chan'["up"])
      BY <2>7 DEF Carried, Carries
    <3>1. CASE e = d
      <4>1. chan[d].read <= chan[d].sent /\ chan[d].sent <= IF Piped(d) THEN chan["up"].read ELSE Parts
        BY DEF ExchangeInv, Carried, Carries
      <4>2. chan[d].mech \in Streamed => Ending(d) # "ended"
        BY <1>2, <2>3
      <4>. QED BY <2>2, <2>5, <2>6, <2>9, <3>1, <4>1, <4>2 DEF Carries
    <3>2. CASE e # d
      BY <2>2, <2>5, <2>6, <3>2 DEF ExchangeInv, Carried, Carries
    <3>. QED BY <3>1, <3>2
  <2>11. InOrder'
    BY <1>1, <2>4, OrderStays DEF ExchangeInv, clientVars, serverVars
  <2>. QED BY <1>1, <2>4, <2>10, <2>11, PlacesStay DEF ExchangeInv
<1>. QED BY <1>4, <1>5

(* A part is read, and the end of a body. *)
LEMMA BodyIsRead ==
  ASSUME ExchangeInv, NEW d \in Dirs, (ReadPart(d) /\ ~Exceeds(d)) \/ ReadEnd(d)
  PROVE  ExchangeInv'
<1>0. /\ \A e \in Dirs : chan[e] \in Channel /\ chan[e].sent \in Nat /\ chan[e].read \in Nat
      /\ "up" \in Dirs /\ chan \in [Dirs -> Channel] /\ Parts \in Nat
  BY ExchangeAssumption DEF ExchangeInv, Channel, Dirs, ExchangeAssumption
<1>1. /\ chan[d].rcv \in {"armed", "open", "closing"} /\ chan[d] # NoChannel
      /\ UNCHANGED <<exchange, clientVars, flags, iq, serverVars>>
  BY NoChannelIs DEF ReadPart, Readable, ReadEnd, ChanStep
<1>2. PICK how, n : /\ chan' = [chan EXCEPT ![d] = [chan[d] EXCEPT !.rcv = how, !.read = n]]
                    /\ \/ how = chan[d].rcv /\ n = chan[d].read + 1 /\ n <= chan[d].sent
                       \/ how = "ended" /\ n = chan[d].read /\ n = chan[d].sent /\ chan[d].snd \in {"sent", "failed"}
                       \/ chan[d].mech \notin Streamed /\ n = chan[d].read /\ how = "ended"
  <2>1. CASE ReadPart(d) /\ ~Exceeds(d)
    <3>1. chan' = [chan EXCEPT ![d] = [chan[d] EXCEPT !.read = chan[d].read + 1]] /\ chan[d].read + 1 <= chan[d].sent
      BY <1>0, <2>1 DEF ReadPart, ChanStep
    <3>2. [chan[d] EXCEPT !.rcv = chan[d].rcv, !.read = chan[d].read + 1] = [chan[d] EXCEPT !.read = chan[d].read + 1]
      BY <1>0 DEF Channel
    <3>. QED BY <1>0, <3>1, <3>2
  <2>2. CASE ReadEnd(d)
    <3>1. /\ chan' = [chan EXCEPT ![d] = [chan[d] EXCEPT !.rcv = "ended"]] /\ chan[d].read = chan[d].sent
          /\ chan[d].rcv = "closing" \/ chan[d].snd = "sent"
      BY <1>0, <2>2 DEF ReadEnd, ChanStep
    <3>2. [chan[d] EXCEPT !.rcv = "ended", !.read = chan[d].read] = [chan[d] EXCEPT !.rcv = "ended"]
      BY <1>0 DEF Channel
    <3>3. chan[d].mech \in Streamed => chan[d].snd \in {"sent", "failed"}
      BY <3>1 DEF ExchangeInv, Carried, Carries
    <3>. QED BY <1>0, <3>1, <3>2, <3>3
  <2>. QED BY <2>1, <2>2
<1>3. /\ how \in {"armed", "open", "closing", "ended"} /\ n \in Nat /\ n >= chan[d].read
      /\ how # "ended" => how = chan[d].rcv
  BY <1>0, <1>1, <1>2
<1>4. /\ chan'[d].sent = chan[d].sent /\ chan'[d].read = n /\ chan'[d].snd = chan[d].snd
      /\ chan'[d].rcv = how /\ chan'[d].mech = chan[d].mech /\ chan'[d] \in Channel
      /\ \A e \in Dirs : e # d => chan'[e] = chan[e]
  BY <1>0, <1>2, <1>3 DEF Channel
<1>5. chan' \in [Dirs -> Channel] /\ NoneBegins
  BY <1>0, <1>1, <1>2, <1>4 DEF NoneBegins
<1>6. \A e \in Dirs : Piped(e)' <=> Piped(e)
  BY <1>0, <1>1, <1>4 DEF Piped
<1>7. chan[d].rcv # "ended" /\ chan[d].read <= chan[d].sent
  BY <1>1 DEF ExchangeInv, Carried, Carries
<1>8. Carried'
  <2> SUFFICES ASSUME NEW e \in Dirs
               PROVE  Carries(chan'[e], Piped(e), chan'["up"])
    BY <1>6 DEF Carried, Carries
  <2>1. CASE e = d
    <3>1. Piped(d) => d # "up"
      BY DEF Piped
    <3>2. Piped(d) => chan'["up"] = chan["up"]
      BY <1>0, <1>4, <3>1
    <3>3. Carries(chan[d], Piped(d), chan["up"])
      BY DEF ExchangeInv, Carried
    <3>4. n <= chan[d].sent
      BY <1>0, <1>2, <1>7
    <3>5. chan[d].mech \in Streamed /\ how = "ended" => n = chan[d].sent /\ chan[d].snd \in {"sent", "failed"}
      BY <1>2, <1>7
    <3>. QED BY <1>3, <1>4, <2>1, <3>2, <3>3, <3>4, <3>5 DEF Carries
  <2>2. CASE e # d
    <3>1. chan'[e] = chan[e]
      BY <1>4, <2>2
    <3>2. Carries(chan[e], Piped(e), chan["up"])
      BY DEF ExchangeInv, Carried
    <3>3. CASE d = "up"
      <4>1. chan'["up"].read >= chan["up"].read /\ chan'["up"].read \in Nat
        BY <1>3, <1>4, <3>3
      <4>2. chan["up"].rcv # "ended"
        BY <1>7, <3>3
      <4>3. chan'[e].sent <= IF Piped(e) THEN chan'["up"].read ELSE Parts
        BY <1>0, <3>1, <3>2, <4>1 DEF Carries
      <4>. QED BY <3>1, <3>2, <4>2, <4>3 DEF Carries
    <3>4. CASE d # "up"
      <4>1. chan'["up"] = chan["up"]
        BY <1>0, <1>4, <3>4
      <4>. QED BY <3>1, <3>2, <4>1
    <3>. QED BY <3>3, <3>4
  <2>. QED BY <2>1, <2>2
<1>9. InOrder'
  BY <1>1, <1>5, OrderStays DEF ExchangeInv, clientVars, serverVars
<1>. QED BY <1>1, <1>5, <1>8, <1>9, PlacesStay DEF ExchangeInv

(* A cancellation and a release are turns, and nobody begins with one. *)
LEMMA CancelTurns ==
  ASSUME ExchangeInv, NEW d \in Dirs
  PROVE  \A how \in {chan[d].rcv, Cancelled(d), Released(d)} :
           /\ Turns(chan[d], [chan[d] EXCEPT !.rcv = how])
           /\ chan[d].rcv = "off" => how = "off"
           /\ chan[d] = NoChannel => [chan[d] EXCEPT !.rcv = how] = NoChannel
<1>0. /\ chan[d] \in Channel
      /\ chan[d].mech \in Streamed /\ chan[d].rcv \in {"closing", "ended"} => chan[d].snd \in {"sent", "failed"}
  BY DEF ExchangeInv, Carried, Carries
<1> SUFFICES ASSUME NEW how \in {chan[d].rcv, Cancelled(d), Released(d)}
             PROVE  /\ Turns(chan[d], [chan[d] EXCEPT !.rcv = how])
                    /\ chan[d].rcv = "off" => how = "off"
                    /\ chan[d] = NoChannel => [chan[d] EXCEPT !.rcv = how] = NoChannel
  OBVIOUS
<1>1. /\ how \in {chan[d].rcv, "failed", "cancelling", "cancelled"}
      /\ how # chan[d].rcv => chan[d].rcv \in {"armed", "open", "closing", "cancelling"}
  BY <1>0 DEF Cancelled, Released
<1> DEFINE c == [chan[d] EXCEPT !.rcv = how]
<1>2. /\ c \in Channel /\ c.rcv = how /\ c.snd = chan[d].snd /\ c.mech = chan[d].mech
      /\ c.sent = chan[d].sent /\ c.read = chan[d].read
  BY <1>0, <1>1 DEF Channel
<1>3. how = chan[d].rcv => c = chan[d]
  BY <1>0 DEF Channel
<1>. HIDE DEF c
<1>4. Turns(chan[d], c)
  BY <1>1, <1>2 DEF Turns
<1>5. chan[d].rcv = "off" => how = "off" /\ c = chan[d]
  BY <1>1, <1>3
<1>6. Turns(chan[d], c) /\ (chan[d].rcv = "off" => how = "off") /\ (chan[d] = NoChannel => c = NoChannel)
  BY <1>4, <1>5, NoChannelIs
<1>. QED BY <1>6 DEF c

LEMMA ReceiverTurns ==
  ASSUME ExchangeInv, exchange' = exchange, NEW d \in Dirs,
         NEW how \in {chan[d].rcv, Cancelled(d), Released(d)}, Receives(d, how)
  PROVE  chan' \in [Dirs -> Channel] /\ Carried' /\ NoneBegins /\ \A e \in Dirs : e # d => chan'[e] = chan[e]
<1> DEFINE c == [chan[d] EXCEPT !.rcv = how]
<1>1. chan' = [chan EXCEPT ![d] = c]
  BY DEF Receives
<1>2. /\ Turns(chan[d], c)
      /\ chan[d].rcv = "off" => how = "off"
      /\ chan[d] = NoChannel => c = NoChannel
  BY CancelTurns
<1>3. c.rcv = how
  BY DEF ExchangeInv, Channel
<1>. HIDE DEF c
<1>4. /\ chan' \in [Dirs -> Channel] /\ Carried'
      /\ chan'[d] = c /\ \A e \in Dirs : e # d => chan'[e] = chan[e]
  BY <1>1, <1>2, OneTurns DEF ExchangeInv
<1>5. NoneBegins
  BY <1>2, <1>3, <1>4 DEF NoneBegins
<1>. QED BY <1>4, <1>5

(* So is the withdrawal of an offer. *)
LEMMA WithdrawnTurns ==
  ASSUME ExchangeInv, NEW d \in Dirs
  PROVE  /\ Turns(chan[d], Withdrawn(d)) /\ Withdrawn(d).rcv = chan[d].rcv
         /\ chan[d] = NoChannel => Withdrawn(d) = NoChannel
<1>0. /\ chan[d] \in Channel
      /\ chan[d].mech \in Streamed /\ chan[d].rcv \in {"closing", "ended"} => chan[d].snd \in {"sent", "failed"}
  BY DEF ExchangeInv, Carried, Carries
<1>1. CASE chan[d].snd # "offered"
  <2>1. Withdrawn(d) = chan[d]
    BY <1>1 DEF Withdrawn
  <2>. QED BY <1>0, <2>1, NoTurn
<1>2. CASE chan[d].snd = "offered"
  <2> DEFINE c == [chan[d] EXCEPT !.snd = "failed", !.src = "dropped"]
  <2>1. Withdrawn(d) = c
    BY <1>2 DEF Withdrawn
  <2>2. /\ c \in Channel /\ c.rcv = chan[d].rcv /\ c.snd = "failed" /\ c.mech = chan[d].mech
        /\ c.sent = chan[d].sent /\ c.read = chan[d].read
    BY <1>0 DEF Channel
  <2>3. chan[d] # NoChannel
    BY <1>2, NoChannelIs
  <2>. HIDE DEF c
  <2>. QED BY <1>0, <2>1, <2>2, <2>3 DEF Turns
<1>. QED BY <1>1, <1>2

(* The steps that leave both channels alone. *)
LEMMA QuietSound ==
  ASSUME ExchangeInv,
         \/ Request \/ DiscoRefuses \/ Uploaded \/ OnReq \/ Forbidden \/ HandlerReturns
         \/ AnswerArrives \/ AnswerLost \/ RequestExpires
  PROVE  ExchangeInv'
<1>1. UNCHANGED <<exchange, flags, chan>>
  BY DEF Request, DiscoRefuses, Uploaded, OnReq, Forbidden, HandlerReturns, AnswerArrives, AnswerLost,
         RequestExpires, Travels
<1>2. chan' \in [Dirs -> Channel] /\ Carried'
  <2>1. OnlyTurns
    BY <1>1, NoTurn DEF ExchangeInv, OnlyTurns
  <2>. QED BY <1>1, <2>1, CarriedStays DEF ExchangeInv
<1>3. /\ exchange \in Exchanges /\ aborted \in BOOLEAN /\ closed \in BOOLEAN /\ running \in BOOLEAN
      /\ pc \in {"idle", "disco", "uploading", "waiting", "settled"}
      /\ outcome \in {"none", "response", "refused", "unsupported", "too large", "upload failed",
                      "timeout", "aborted", "crashed"}
      /\ iq \in {"unsent", "asked", "answered", "received", "lost", "expired"}
      /\ sp \in {"idle", "authorizing", "handling", "normalizing", "throwing", "done"}
  BY DEF ExchangeInv, Places
<1>4. exchange' \in Exchanges /\ aborted' \in BOOLEAN /\ closed' \in BOOLEAN /\ running' \in BOOLEAN
  <2>1. exchange' = exchange /\ aborted' = aborted /\ closed' = closed /\ running' = running
    BY <1>1 DEF flags
  <2>. QED BY <1>3, <2>1, Zenon
<1>5. /\ pc' \in {"idle", "disco", "uploading", "waiting", "settled"}
      /\ outcome' \in {"none", "response", "refused", "unsupported", "too large", "upload failed",
                       "timeout", "aborted", "crashed"}
      /\ iq' \in {"unsent", "asked", "answered", "received", "lost", "expired"}
      /\ sp' \in {"idle", "authorizing", "handling", "normalizing", "throwing", "done"}
      /\ InOrder'
  <2>1. InOrder
    BY DEF ExchangeInv
  <2>2. CASE Request
    BY <1>1, <1>3, <2>1, <2>2 DEF Request, Settle, serverVars, InOrder
  <2>3. CASE DiscoRefuses
    BY <1>1, <1>3, <2>1, <2>3 DEF DiscoRefuses, Settle, serverVars, InOrder
  <2>4. CASE Uploaded
    BY <1>1, <1>3, <2>1, <2>4 DEF Uploaded, Settle, serverVars, InOrder
  <2>5. CASE OnReq
    BY <1>1, <1>3, <2>1, <2>5 DEF OnReq, Answer, clientVars, InOrder
  <2>6. CASE Forbidden
    BY <1>1, <1>3, <2>1, <2>6 DEF Forbidden, Answer, clientVars, InOrder
  <2>7. CASE HandlerReturns
    BY <1>1, <1>3, <2>1, <2>7 DEF HandlerReturns, clientVars, InOrder
  <2>8. CASE AnswerArrives \/ AnswerLost \/ RequestExpires
    BY <1>1, <1>3, <2>1, <2>8 DEF AnswerArrives, AnswerLost, RequestExpires, Travels, clientVars, serverVars, InOrder
  <2>. QED BY <2>2, <2>3, <2>4, <2>5, <2>6, <2>7, <2>8
<1>. QED BY <1>2, <1>4, <1>5 DEF ExchangeInv, Places

LEMMA PlacesAre ==
  ASSUME Places, UNCHANGED exchange,
         aborted' = aborted \/ aborted' = TRUE, closed' = closed \/ closed' = TRUE, running' = running \/ running' = FALSE,
         pc' \in {pc, "disco", "uploading", "waiting", "settled"},
         outcome' \in {outcome, "response", "refused", "unsupported", "too large", "upload failed",
                       "timeout", "aborted", "crashed"},
         iq' \in {iq, "asked", "answered", "received", "lost", "expired"},
         sp' \in {sp, "authorizing", "handling", "normalizing", "throwing", "done"}
  PROVE  Places'
<1>1. aborted' \in BOOLEAN /\ closed' \in BOOLEAN /\ running' \in BOOLEAN
  BY Zenon DEF Places
<1>2. /\ exchange' \in Exchanges
      /\ pc' \in {"idle", "disco", "uploading", "waiting", "settled"}
      /\ outcome' \in {"none", "response", "refused", "unsupported", "too large", "upload failed",
                       "timeout", "aborted", "crashed"}
      /\ iq' \in {"unsent", "asked", "answered", "received", "lost", "expired"}
      /\ sp' \in {"idle", "authorizing", "handling", "normalizing", "throwing", "done"}
  BY DEF Places
<1>. QED BY <1>1, <1>2, Zenon DEF Places

(* The caller's signal and close(). *)
LEMMA LetGoSound ==
  ASSUME ExchangeInv, Abort \/ Close \/ CallerCancels
  PROVE  ExchangeInv'
<1>1. /\ Carried /\ InOrder /\ Places /\ chan \in [Dirs -> Channel] /\ "down" \in Dirs /\ "up" \in Dirs
      /\ chan["down"] \in Channel
  BY DEF ExchangeInv, Dirs
<1>2. CASE Abort
  <2>1. UNCHANGED <<exchange, closed, running, iq, serverVars>> /\ aborted' = TRUE
    BY <1>2 DEF Abort
  <2>2. \/ UNCHANGED clientVars
        \/ pc' = "settled" /\ outcome' = "aborted" /\ pc \in {"disco", "waiting"}
    BY <1>2 DEF Abort, Settle
  <2>3. Places'
    BY <1>1, <2>1, <2>2, PlacesAre DEF clientVars, serverVars
  <2>4. CASE outcome # "response"
    <3>1. UNCHANGED chan
      BY <1>2, <2>4 DEF Abort
    <3>2. chan' \in [Dirs -> Channel] /\ Carried'
      <4>1. OnlyTurns
        BY <1>1, <3>1, NoTurn DEF OnlyTurns
      <4>. QED BY <1>1, <2>1, <3>1, <4>1, CarriedStays
    <3>3. InOrder'
      BY <1>1, <2>1, <2>2, <2>4, <3>1 DEF InOrder, clientVars, serverVars
    <3>. QED BY <2>3, <3>2, <3>3 DEF ExchangeInv
  <2>5. CASE outcome = "response"
    <3>1. pc = "settled" /\ sp = "done"
      BY <1>1, <2>5 DEF InOrder
    <3>2. UNCHANGED clientVars
      BY <2>2, <3>1
    <3>3. \/ \E how \in {chan["down"].rcv, Cancelled("down")} : Receives("down", how)
          \/ Receives("down", "failed") /\ chan["down"].rcv = "armed"
      BY <1>2, <2>5 DEF Abort
    <3>4. /\ chan' \in [Dirs -> Channel] /\ Carried' /\ chan'["up"] = chan["up"]
      <4>1. CASE \E how \in {chan["down"].rcv, Cancelled("down")} : Receives("down", how)
        BY <1>1, <2>1, <4>1, ReceiverTurns DEF Dirs
      <4>2. CASE Receives("down", "failed") /\ chan["down"].rcv = "armed"
        <5> DEFINE c == [chan["down"] EXCEPT !.rcv = "failed"]
        <5>1. Turns(chan["down"], c)
          BY <1>1, <4>2 DEF Turns, Channel
        <5>2. chan' = [chan EXCEPT !["down"] = c]
          BY <1>1, <4>2 DEF Receives
        <5>. HIDE DEF c
        <5>. QED BY <1>1, <2>1, <5>1, <5>2, OneTurns
      <4>. QED BY <3>3, <4>1, <4>2
    <3>5. InOrder'
      BY <1>1, <2>1, <2>5, <3>1, <3>2, <3>4 DEF InOrder, clientVars, serverVars
    <3>. QED BY <2>3, <3>4, <3>5 DEF ExchangeInv
  <2>. QED BY <2>4, <2>5
<1>3. CASE CallerCancels
  <2>1. /\ UNCHANGED <<exchange, clientVars, flags, iq, serverVars>> /\ Receives("down", Cancelled("down"))
    BY <1>3 DEF CallerCancels
  <2>2. chan' \in [Dirs -> Channel] /\ Carried' /\ NoneBegins
    BY <1>1, <2>1, ReceiverTurns
  <2>3. InOrder'
    BY <1>1, <2>1, <2>2, OrderStays DEF clientVars, serverVars
  <2>4. Places'
    BY <1>1, <2>1, PlacesStay
  <2>. QED BY <2>2, <2>3, <2>4 DEF ExchangeInv
<1>4. CASE Close
  <2> DEFINE down == [chan["down"] EXCEPT !.rcv = Released("down")]
             up   == Withdrawn("up")
  <2>1. /\ UNCHANGED <<exchange, clientVars, aborted, running, iq, serverVars>> /\ closed' = TRUE
        /\ chan' = [chan EXCEPT !["down"] = down, !["up"] = up]
    BY <1>1, <1>4 DEF Close
  <2>2. /\ Turns(chan["down"], down) /\ (chan["down"].rcv = "off" => Released("down") = "off")
        /\ chan["down"] = NoChannel => down = NoChannel
    BY <1>1, CancelTurns
  <2>3. down.rcv = Released("down")
    BY <1>1 DEF Channel
  <2>4. Turns(chan["up"], up) /\ up.rcv = chan["up"].rcv /\ (chan["up"] = NoChannel => up = NoChannel)
    BY <1>1, WithdrawnTurns
  <2>. HIDE DEF down, up
  <2>5. chan'["down"] = down /\ chan'["up"] = up /\ chan' \in [Dirs -> Channel]
    BY <1>1, <2>1, <2>2, <2>4 DEF Turns
  <2>6. OnlyTurns /\ NoneBegins
    BY <2>2, <2>3, <2>4, <2>5 DEF OnlyTurns, NoneBegins, Dirs
  <2>7. Carried'
    BY <1>1, <2>1, <2>6, CarriedStays
  <2>8. InOrder'
    BY <1>1, <2>1, <2>6, OrderStays DEF clientVars, serverVars
  <2>9. Places'
    BY <1>1, <2>1, PlacesAre DEF clientVars, serverVars
  <2>. QED BY <2>5, <2>7, <2>8, <2>9 DEF ExchangeInv
<1>. QED BY <1>2, <1>3, <1>4

(* The server's macrotask and stop(). *)
LEMMA ServerTurnsSound ==
  ASSUME ExchangeInv, SendScheduled \/ Stop
  PROVE  ExchangeInv'
<1>1. /\ Carried /\ InOrder /\ Places /\ chan \in [Dirs -> Channel] /\ Dirs = {"up", "down"}
      /\ chan["up"] \in Channel /\ chan["down"] \in Channel
      /\ \A d \in Dirs : chan[d].mech \in Streamed /\ chan[d].rcv \in {"closing", "ended"} =>
                           chan[d].snd \in {"sent", "failed"}
  BY DEF ExchangeInv, Dirs, Carried, Carries
<1>2. CASE SendScheduled
  <2> DEFINE c == [chan["down"] EXCEPT !.snd = IF chan["down"].mech = "ibb" THEN "opening" ELSE "sending"]
  <2>1. /\ chan["down"].snd = "due" /\ chan' = [chan EXCEPT !["down"] = c]
        /\ UNCHANGED <<exchange, clientVars, flags, iq, serverVars>>
    BY <1>1, <1>2 DEF SendScheduled
  <2>2. /\ c \in Channel /\ c.rcv = chan["down"].rcv /\ c.snd \in {"opening", "sending"}
        /\ c.mech = chan["down"].mech /\ c.sent = chan["down"].sent /\ c.read = chan["down"].read
    BY <1>1 DEF Channel
  <2>. HIDE DEF c
  <2>3. Turns(chan["down"], c) /\ chan["down"] # NoChannel
    BY <1>1, <2>1, <2>2, NoChannelIs DEF Turns
  <2>. QED BY <1>1, <2>1, <2>2, <2>3, TurnsSound
<1>3. CASE Stop
  <2> DEFINE u == [chan["up"] EXCEPT !.rcv = Released("up")]
             c == Withdrawn("down")
  <2>1. /\ chan' = [chan EXCEPT !["up"] = u, !["down"] = c] /\ running' = FALSE
        /\ UNCHANGED <<exchange, clientVars, aborted, closed, iq, serverVars>>
    BY <1>1, <1>3 DEF Stop
  <2>2. /\ Turns(chan["down"], c) /\ c.rcv = chan["down"].rcv /\ (chan["down"] = NoChannel => c = NoChannel)
    BY <1>1, WithdrawnTurns
  <2>4. /\ Turns(chan["up"], u) /\ (chan["up"].rcv = "off" => u.rcv = "off") /\ (chan["up"] = NoChannel => u = NoChannel)
    <3>1. u.rcv = Released("up")
      BY <1>1 DEF Channel
    <3>2. "up" \in Dirs
      BY <1>1
    <3>. QED BY <3>1, <3>2, CancelTurns
  <2>. HIDE DEF u, c
  <2>6. chan'["up"] = u /\ chan'["down"] = c /\ chan' \in [Dirs -> Channel]
    BY <1>1, <2>1, <2>2, <2>4 DEF Turns
  <2>7. OnlyTurns /\ NoneBegins
    BY <1>1, <2>2, <2>4, <2>6 DEF OnlyTurns, NoneBegins
  <2>8. InOrder' /\ Carried'
    BY <1>1, <2>1, <2>7, OrderStays, CarriedStays DEF clientVars, serverVars
  <2>9. Places'
    BY <1>1, <2>1, PlacesAre DEF clientVars, serverVars
  <2>. QED BY <2>6, <2>8, <2>9 DEF ExchangeInv
<1>. QED BY <1>2, <1>3

(* The body of a request is expected, and that of a response. *)
LEMMA AllowedSound ==
  ASSUME ExchangeInv, Allowed
  PROVE  ExchangeInv'
<1>1. /\ Carried /\ InOrder /\ Places /\ chan \in [Dirs -> Channel] /\ Dirs = {"up", "down"} /\ chan["up"] \in Channel
  BY DEF ExchangeInv, Dirs
<1>2. /\ sp = "authorizing" /\ iq # "unsent" /\ chan["up"].rcv = "off" /\ outcome # "response"
      /\ iq \notin {"answered", "received", "lost"} /\ UNCHANGED <<exchange, clientVars, flags>>
  BY <1>1 DEF Allowed, InOrder
<1>3. \/ sp' = "done" /\ UNCHANGED chan /\ iq' \in {iq, "answered"}
      \/ /\ sp' = "handling" /\ iq' = iq
         /\ \E how \in {"ended", "armed", "failed"} :
              Receives("up", how) /\ (how = "ended" => chan["up"].mech \notin Streamed)
  BY DEF Allowed, Answer
<1>4. Places'
  BY <1>1, <1>2, <1>3, PlacesAre DEF clientVars, flags
<1>5. /\ chan' \in [Dirs -> Channel] /\ Carried' /\ chan'["down"] = chan["down"]
      /\ chan'["up"].rcv = "off" \/ sp' = "handling"
  <2>1. CASE sp' = "done" /\ UNCHANGED chan
    <3>1. OnlyTurns
      BY <1>1, <2>1, NoTurn DEF OnlyTurns
    <3>. QED BY <1>1, <1>2, <2>1, <3>1, CarriedStays
  <2>2. ASSUME NEW how \in {"ended", "armed", "failed"}, Receives("up", how), sp' = "handling",
               how = "ended" => chan["up"].mech \notin Streamed
        PROVE  chan' \in [Dirs -> Channel] /\ Carried' /\ chan'["down"] = chan["down"]
    <3> DEFINE c == [chan["up"] EXCEPT !.rcv = how]
    <3>1. Turns(chan["up"], c)
      BY <1>1, <1>2, <2>2 DEF Turns, Channel
    <3>2. chan' = [chan EXCEPT !["up"] = c]
      BY <1>1, <2>2 DEF Receives
    <3>. HIDE DEF c
    <3>. QED BY <1>1, <1>2, <3>1, <3>2, OneTurns
  <2>. QED BY <1>3, <2>1, <2>2
<1>6. InOrder'
  BY <1>1, <1>2, <1>3, <1>5 DEF InOrder, clientVars
<1>. QED BY <1>4, <1>5, <1>6 DEF ExchangeInv

LEMMA ResultSound ==
  ASSUME ExchangeInv, ResultIsHere
  PROVE  ExchangeInv'
<1>1. /\ Carried /\ InOrder /\ Places /\ chan \in [Dirs -> Channel] /\ Dirs = {"up", "down"} /\ chan["down"] \in Channel
  BY DEF ExchangeInv, Dirs
<1>2. /\ pc = "waiting" /\ iq # "unsent" /\ outcome = "none" /\ chan["down"].rcv = "off"
      /\ iq = "received" => sp = "done"
      /\ UNCHANGED <<exchange, flags, iq, serverVars>>
  BY <1>1 DEF ResultIsHere, InOrder
<1>3. pc' = "settled" /\ (\/ outcome' \in {"timeout", "refused", "crashed"} /\ UNCHANGED chan
                          \/ outcome' = "response" /\ iq = "received" /\ Expect)
  BY DEF ResultIsHere, Settle
<1>4. Places'
  BY <1>1, <1>2, <1>3, PlacesAre DEF serverVars, flags
<1>5. chan' \in [Dirs -> Channel] /\ Carried' /\ chan'["up"] = chan["up"]
  <2>1. CASE UNCHANGED chan
    <3>1. OnlyTurns
      BY <1>1, <2>1, NoTurn DEF OnlyTurns
    <3>. QED BY <1>1, <1>2, <2>1, <3>1, CarriedStays
  <2>2. CASE Expect
    <3> DEFINE how == IF chan["down"].mech \in Streamed THEN "armed" ELSE "ended"
               gone == chan["down"].lost \/ (closed /\ chan["down"].mech = "chunked")
               c == [chan["down"] EXCEPT !.rcv = how, !.lost = gone]
    <3>1. chan' = [chan EXCEPT !["down"] = c]
      BY <1>1, <2>2 DEF Expect
    <3>2. gone \in BOOLEAN /\ how \in {"armed", "ended"} /\ (how = "ended" => chan["down"].mech \notin Streamed)
      OBVIOUS
    <3>. HIDE DEF gone, how
    <3>3. c \in Channel
      BY <1>1, <3>2 DEF Channel
    <3>4. /\ c.rcv = how /\ c.snd = chan["down"].snd /\ c.mech = chan["down"].mech
          /\ c.sent = chan["down"].sent /\ c.read = chan["down"].read
      BY <1>1 DEF Channel
    <3>. HIDE DEF c
    <3>5. Turns(chan["down"], c)
      BY <1>2, <3>2, <3>3, <3>4 DEF Turns
    <3>. QED BY <1>1, <1>2, <3>1, <3>5, OneTurns
  <2>. QED BY <1>3, <2>1, <2>2
<1>6. InOrder'
  <2>1. CASE UNCHANGED chan /\ outcome' # "response"
    BY <1>1, <1>2, <1>3, <2>1 DEF InOrder, serverVars
  <2>2. CASE outcome' = "response" /\ iq = "received"
    BY <1>1, <1>2, <1>3, <1>5, <2>2 DEF InOrder, serverVars
  <2>. QED BY <1>3, <2>1, <2>2
<1>. QED BY <1>4, <1>5, <1>6 DEF ExchangeInv

(* A channel nothing was sent on, and nobody waits for. *)
Fresh(c) ==
  /\ c \in Channel /\ c.sent = 0 /\ c.read = 0 /\ c.rcv = "off"
  /\ c.mech \in Streamed => c.snd # "sent"

(* The request leaves, and the response. *)
LEMMA RequestSent ==
  ASSUME ExchangeInv, SendRequest
  PROVE  ExchangeInv'
<1>1. /\ Carried /\ InOrder /\ Places /\ chan \in [Dirs -> Channel] /\ Dirs = {"up", "down"}
      /\ Parts \in Nat
  BY ExchangeAssumption DEF ExchangeInv, Dirs, ExchangeAssumption
<1>2. /\ pc = "disco" /\ iq = "unsent" /\ sp = "idle" /\ chan["up"] = NoChannel /\ chan["down"] = NoChannel
      /\ outcome = "none" /\ UNCHANGED <<exchange, flags, serverVars>>
  BY <1>1 DEF SendRequest, InOrder
<1>3. CASE UNCHANGED <<iq, chan>>
  <2>1. pc' = "settled" /\ outcome' \in {"too large", "crashed"}
    BY <1>2, <1>3 DEF SendRequest, Settle
  <2>2. OnlyTurns
    BY <1>1, <1>3, NoTurn DEF OnlyTurns
  <2>3. chan' \in [Dirs -> Channel] /\ Carried'
    BY <1>1, <1>2, <1>3, <2>2, CarriedStays
  <2>4. Places'
    BY <1>1, <1>2, <1>3, <2>1, PlacesAre DEF serverVars, flags
  <2>5. InOrder'
    BY <1>1, <1>2, <1>3, <2>1 DEF InOrder, serverVars
  <2>. QED BY <2>3, <2>4, <2>5 DEF ExchangeInv
<1>4. CASE ~UNCHANGED <<iq, chan>>
  <2> DEFINE mode == UploadMode.mode
             src == IF mode \in Streamed THEN "held" ELSE "none"
             snd == CASE mode = "ibb"     -> "opening"
                      [] mode = "chunked" -> "sending"
                      [] mode \in Offers  -> "offered"
                      [] OTHER            -> "sent"
             c == [NoChannel EXCEPT !.mech = mode, !.block = UploadMode.size, !.src = src, !.snd = snd]
  <2>1. /\ iq' = "asked" /\ pc' \in {"uploading", "waiting"} /\ outcome' = outcome /\ mode # "too-large"
        /\ chan' = [chan EXCEPT !["up"].mech = mode, !["up"].block = UploadMode.size,
                                !["up"].src = src, !["up"].snd = snd]
    BY <1>2, <1>4 DEF SendRequest
  <2>2. chan' = [chan EXCEPT !["up"] = c]
    <3>. HIDE DEF mode, src, snd
    <3>1. chan' = [chan EXCEPT !["up"] = [chan["up"] EXCEPT !.mech = mode, !.block = UploadMode.size,
                                                            !.src = src, !.snd = snd]]
      BY <1>1, <2>1
    <3>. QED BY <1>2, <3>1
  <2>3. mode \in Inline \cup Mechanisms /\ UploadMode.size \in Nat
    BY <1>1, <2>1, ModesKnown
  <2>4. /\ src \in {"held", "none"} /\ snd \in {"opening", "sending", "offered", "sent"}
        /\ mode \in Streamed => snd # "sent"
    BY DEF Streamed, Acked, Offers
  <2>. HIDE DEF mode, src, snd
  <2>5. Fresh(c)
    BY <2>3, <2>4 DEF Fresh, Channel, NoChannel
  <2>. HIDE DEF c
  <2>6. chan'["up"] = c /\ chan'["down"] = NoChannel /\ chan' \in [Dirs -> Channel]
    BY <1>1, <1>2, <2>2, <2>5 DEF Fresh
  <2>7. Places'
    BY <1>1, <1>2, <2>1, PlacesAre DEF serverVars, flags
  <2>8. InOrder'
    BY <1>1, <1>2, <2>1, <2>5, <2>6 DEF InOrder, Fresh, serverVars
  <2>9. Carried'
    <3>1. ~Piped("up")' /\ NoChannel.mech \notin Streamed
      BY NoChannelIs DEF Piped, Streamed, Acked, Offers
    <3>2. chan'["up"].read \in Nat
      BY <2>5, <2>6 DEF Fresh
    <3>3. /\ chan'["up"].read = 0 /\ chan'["up"].sent = 0 /\ chan'["up"].rcv = "off"
          /\ chan'["up"].mech \in Streamed => chan'["up"].snd # "sent"
          /\ chan'["down"].read = 0 /\ chan'["down"].sent = 0 /\ chan'["down"].mech \notin Streamed
      BY <2>5, <2>6, <3>1, NoChannelIs DEF Fresh
    <3>. QED BY <1>1, <3>1, <3>2, <3>3 DEF Carried, Carries
  <2>. QED BY <2>6, <2>7, <2>8, <2>9 DEF ExchangeInv
<1>. QED BY <1>3, <1>4

LEMMA ResponseSent ==
  ASSUME ExchangeInv, Respond
  PROVE  ExchangeInv'
<1>1. /\ Carried /\ InOrder /\ Places /\ chan \in [Dirs -> Channel] /\ Dirs = {"up", "down"}
      /\ Parts \in Nat /\ chan["up"] \in Channel
  BY ExchangeAssumption DEF ExchangeInv, Dirs, ExchangeAssumption
<1>2. /\ sp \in {"throwing", "normalizing"} /\ iq # "unsent" /\ outcome # "response" /\ chan["down"] = NoChannel
      /\ sp' = "done" /\ iq' \in {iq, "answered"} /\ UNCHANGED <<exchange, clientVars, flags>>
  <2>1. sp \in {"throwing", "normalizing"} /\ UNCHANGED <<exchange, clientVars, flags>>
    BY DEF Respond
  <2>2. sp' = "done" /\ iq' \in {iq, "answered"}
    BY DEF Respond, Answer
  <2>. QED BY <1>1, <2>1, <2>2 DEF InOrder
<1>3. Unused \in {chan["up"].rcv, Cancelled("up")}
  BY DEF Unused
<1>4. Places'
  BY <1>1, <1>2, PlacesAre DEF clientVars, flags
<1>5. CASE Receives("up", Unused)
  <2>1. chan' \in [Dirs -> Channel] /\ Carried' /\ chan'["down"] = chan["down"]
    BY <1>1, <1>2, <1>3, <1>5, ReceiverTurns
  <2>2. InOrder'
    BY <1>1, <1>2, <2>1, NoChannelIs DEF InOrder, clientVars
  <2>. QED BY <1>4, <2>1, <2>2 DEF ExchangeInv
<1>6. CASE chan' = [chan EXCEPT !["up"].rcv = Unused, !["down"] = Outgoing]
  <2> DEFINE u == [chan["up"] EXCEPT !.rcv = Unused]
  <2>1. Turns(chan["up"], u)
    BY <1>1, <1>3, CancelTurns
  <2>2. Fresh(Outgoing)
    <3> DEFINE mode == RespondMode.mode
               dead == mode = "ibb" /\ ~running
               mech == IF mode = "too-large" THEN "none" ELSE mode
               src == CASE mode = "too-large"        -> "cancelled"
                        [] dead                      -> "dropped"
                        [] mode \in Streamed /\ ~dead -> "held"
                        [] OTHER                     -> "none"
               snd == CASE dead                                    -> "failed"
                        [] mode \in {"ibb", "chunked"} /\ ~dead     -> "due"
                        [] mode \in Offers                         -> "offered"
                        [] OTHER                                   -> "sent"
    <3>1. Outgoing = [NoChannel EXCEPT !.mech = mech, !.block = Block, !.src = src, !.snd = snd]
      BY <1>2 DEF Outgoing
    <3>2. Block \in Nat /\ mech \in Inline \cup Mechanisms
      BY <1>1, ModesKnown DEF Inline
    <3>3. src \in {"cancelled", "dropped", "held", "none"}
      BY DEF Streamed, Acked, Offers
    <3>4. snd \in {"failed", "due", "offered", "sent"} /\ (mech \in Streamed => snd # "sent")
      BY DEF Streamed, Acked, Offers
    <3>. HIDE DEF mech, src, snd
    <3>. QED BY <3>1, <3>2, <3>3, <3>4 DEF Fresh, Channel, NoChannel
  <2>3. chan' = [chan EXCEPT !["up"] = u, !["down"] = Outgoing]
    BY <1>1, <1>6
  <2>. HIDE DEF u
  <2>4. chan'["up"] = u /\ chan'["down"] = Outgoing /\ chan' \in [Dirs -> Channel]
    BY <1>1, <2>1, <2>2, <2>3 DEF Turns, Fresh
  <2>5. InOrder'
    BY <1>1, <1>2, <2>2, <2>4 DEF InOrder, Fresh, clientVars
  <2>6. Carried'
    <3>1. ~Piped("up") /\ ~Piped("up")'
      BY DEF Piped
    <3>2. /\ chan'["up"].read = chan["up"].read /\ chan["up"].read \in Nat
          /\ chan["up"].read <= chan["up"].sent /\ chan["up"].sent <= Parts
          /\ chan["up"].mech \in Streamed =>
               /\ chan["up"].rcv \in {"closing", "ended"} => chan["up"].snd \in {"sent", "failed"}
               /\ chan["up"].rcv = "ended" /\ chan["up"].snd = "sent" => chan["up"].read = chan["up"].sent
               /\ chan["up"].snd = "sent" => chan["up"].sent = Parts
      BY <1>1, <2>1, <2>4, <3>1 DEF Carried, Carries, Turns, Channel
    <3>3. /\ u.read <= u.sent /\ u.sent <= Parts
          /\ u.mech \in Streamed =>
               /\ u.rcv \in {"closing", "ended"} => u.snd \in {"sent", "failed"}
               /\ u.rcv = "ended" /\ u.snd = "sent" => u.read = u.sent
               /\ u.snd = "sent" => u.sent = Parts
      BY <1>1, <2>1, <3>2 DEF Turns
    <3>4. /\ chan'["down"].read = 0 /\ chan'["down"].sent = 0 /\ chan'["down"].rcv = "off"
          /\ chan'["down"].mech \in Streamed => chan'["down"].snd # "sent"
      BY <2>2, <2>4 DEF Fresh
    <3>. QED BY <1>1, <2>4, <3>1, <3>2, <3>3, <3>4 DEF Carried, Carries
  <2>. QED BY <1>4, <2>4, <2>5, <2>6 DEF ExchangeInv
<1>. QED BY <1>5, <1>6 DEF Respond

LEMMA ExchangeInvStart == ExchangeInit => ExchangeInv
<1> SUFFICES ASSUME ExchangeInit PROVE ExchangeInv
  OBVIOUS
<1>1. chan = [d \in Dirs |-> NoChannel] /\ Parts \in Nat /\ NoChannel.mech \notin Streamed
  BY ExchangeAssumption, NoChannelIs DEF ExchangeInit, Dirs, ExchangeAssumption, Streamed, Acked, Offers
<1>2. chan \in [Dirs -> Channel] /\ (\A d \in Dirs : chan[d] = NoChannel) /\ Dirs = {"up", "down"}
  BY <1>1, NoChannelIs DEF Dirs
<1>3. Places /\ InOrder
  BY <1>2, NoChannelIs DEF ExchangeInit, Places, InOrder
<1>4. Carried
  BY <1>1, <1>2, NoChannelIs DEF Carried, Carries
<1>. QED BY <1>2, <1>3, <1>4 DEF ExchangeInv

LEMMA ExchangeInvStep ==
  ASSUME ExchangeInv, [ExchangeNext]_exchangeVars
  PROVE  ExchangeInv'
<1>1. CASE UNCHANGED exchangeVars
  <2>1. UNCHANGED <<exchange, clientVars, flags, iq, serverVars>> /\ UNCHANGED chan
    BY <1>1 DEF exchangeVars
  <2>2. OnlyTurns
    BY <2>1, NoTurn DEF OnlyTurns, ExchangeInv
  <2>3. Carried' /\ Places'
    BY <2>1, <2>2, CarriedStays, PlacesStay DEF ExchangeInv
  <2>4. InOrder'
    BY <2>1 DEF ExchangeInv, InOrder, clientVars, serverVars
  <2>. QED BY <2>1, <2>3, <2>4 DEF ExchangeInv
<1>2. CASE Client \/ Server
  BY <1>2, QuietSound, RequestSent, ResultSound, AllowedSound, ResponseSent, ServerTurnsSound DEF Client, Server
<1>3. CASE \/ DiscoRefuses \/ Forbidden \/ Abort \/ Close \/ CallerCancels \/ Stop
           \/ AnswerArrives \/ AnswerLost \/ RequestExpires
  BY <1>3, QuietSound, LetGoSound, ServerTurnsSound
<1>4. ASSUME NEW d \in Dirs, Transfer(d) \/ Timer(d) \/ SourceFails(d) PROVE ExchangeInv'
  <2>1. \/ Accepts(d) \/ OpenRefused(d) \/ SendFails(d) \/ SourceFails(d) \/ GivesUp(d) \/ IdleTimeout(d)
        \/ SendPart(d) \/ SendEnd(d) \/ ReadPart(d) \/ ReadEnd(d)
    BY <1>4 DEF Transfer, Timer
  <2>2. ReadPart(d) => (ReadPart(d) /\ Exceeds(d)) \/ (ReadPart(d) /\ ~Exceeds(d))
    OBVIOUS
  <2>. QED BY <2>1, <2>2, TransportTurns, SourceIsSent, BodyIsRead
<1>. QED BY <1>1, <1>2, <1>3, <1>4 DEF ExchangeNext, Dirs

(* The exchange keeps its invariant. *)
THEOREM ExchangeIsSound == ExchangeSpec => []ExchangeInv
BY ExchangeInvStart, ExchangeInvStep, PTL DEF ExchangeSpec

(* Every variable of the exchange keeps its type, and no body is read      *)
(* beyond what was sent.                                                   *)
THEOREM ExchangeTypesHold == ExchangeSpec => []ExchangeTypeOK
BY ExchangeIsSound, ExchangeTypes, PTL

(* A body whose sender finished and whose reader saw its end was read to   *)
(* the last part, and one that is piped through has all that was read of   *)
(* the other: for any bodies, mechanisms and preferences, and whatever     *)
(* request(), #onReq, close(), stop() and the two transports meet.         *)
THEOREM CleanBodiesAreWhole == ExchangeSpec => []EndedMeansWhole
BY ExchangeIsSound, ExchangeTypes, PTL

-----------------------------------------------------------------------------
(* The sizes of the stanzas depend on how a body travels and in what sizes, *)
(* and that is decided once.                                               *)
SizeFits(d, mech, block) ==
  LET sender == IF d = "up" THEN "client" ELSE "server"
      stanza == base64Length(block) + 510 IN
  /\ mech \in Inline /\ (mech = "base64" \/ BytePerUnit(Considered(d))) => block + 2048 <= LimitOf(sender)
  /\ mech \in Inline => block <= 3 * (LimitOf(sender) - 2048)
  /\ mech \in {"ibb", "chunked", "jingle"} => stanza <= LimitOf("client")
  /\ mech = "ibb" /\ exchange.limits[sender] # Unset => stanza <= LimitOf(sender)

LEMMA StanzasAre == StanzasFit <=> \A d \in Dirs : SizeFits(d, chan[d].mech, chan[d].block)
BY DEF StanzasFit, SizeFits, Dirs

(* They depend on nothing that changes but the channels. *)
LEMMA SizesAlike ==
  ASSUME exchange' = exchange
  PROVE  \A d \in Dirs : \A m, b : SizeFits(d, m, b)' <=> SizeFits(d, m, b)
BY DEF SizeFits, LimitOf, Considered, Source, ServerBudgets, Accepted

LEMMA StanzasAreNext ==
  ASSUME exchange' = exchange
  PROVE  StanzasFit' <=> \A d \in Dirs : SizeFits(d, chan'[d].mech, chan'[d].block)
<1>1. Considered("up")' = Considered("up") /\ Considered("down")' = Considered("down")
  BY DEF Considered, Source, ServerBudgets, Accepted
<1>2. LimitOf("client")' = LimitOf("client") /\ LimitOf("server")' = LimitOf("server")
  BY DEF LimitOf
<1>. QED BY <1>1, <1>2 DEF StanzasFit, SizeFits, Dirs

LEMMA SizesFit ==
  ASSUME Places, Advertised
  PROVE  /\ UploadMode.mode # "too-large" => SizeFits("up", UploadMode.mode, UploadMode.size)
         /\ RespondMode.mode # "too-large" => SizeFits("down", RespondMode.mode, Block)
         /\ \A d \in Dirs : SizeFits(d, "none", 0)
<1> DEFINE client == exchange.limits["client"]
           server == exchange.limits["server"]
<1>1. /\ client \in Nat /\ (client = Unset \/ client >= 3072)
      /\ server \in Nat /\ (server = Unset \/ server >= 3072)
      /\ ClientBudgets = stanzaBudgets(client) /\ ServerBudgets = stanzaBudgets(server)
  BY PlanFields DEF Advertised, ClientBudgets, ServerBudgets
<1> DEFINE cb == ClientBudgets
           sb == ServerBudgets
<1>2. /\ cb.inline \in Nat /\ cb.inline + 2048 <= LimitOf("client") /\ cb.chunk \in Nat
      /\ client = Unset => cb.chunk = Unset
      /\ client # Unset => cb.chunk \in MinChunk..MaxChunk /\ base64Length(cb.chunk) + 510 <= client
  BY <1>1, LimitsKept, BudgetTypes DEF LimitOf
<1>3. /\ sb.inline \in Nat /\ sb.inline + 2048 <= LimitOf("server") /\ sb.chunk \in Nat
      /\ server = Unset => sb.chunk = Unset
      /\ server # Unset => sb.chunk \in MinChunk..MaxChunk /\ base64Length(sb.chunk) + 510 <= server
  BY <1>1, LimitsKept, BudgetTypes DEF LimitOf
<1> DEFINE most == resolveChunkSize(cb.chunk)
<1>4. most \in Nat /\ base64Length(most) + 510 <= LimitOf("client") /\ most \in MinChunk..MaxChunk
  <2>1. CASE client = Unset
    <3>1. most = DefaultChunk
      BY <1>2, <2>1, ChunksKept
    <3>. QED BY <2>1, <3>1 DEF DefaultChunk, base64Length, LimitOf, Or, Floor, Unset, MinChunk, MaxChunk
  <2>2. CASE client # Unset
    <3>1. most = cb.chunk
      BY <1>2, <2>2, ChunksKept DEF Unset, MinChunk
    <3>. QED BY <1>2, <2>2, <3>1 DEF LimitOf, Or, Unset
  <2>. QED BY <2>1, <2>2
<1>5. /\ exchange.upload \in Bodies /\ Source \in Bodies /\ exchange.preferred \in Seq(Mechanisms)
      /\ cb.chunk = Unset \/ cb.chunk \in MinChunk..MaxChunk
  BY <1>2, PlanFields, SourceIsBody
<1>6. LET e == UploadMode IN
      /\ e.mode \in Inline \cup Mechanisms \cup {"too-large"} /\ e.size \in Nat
      /\ e.mode \in Inline => e.size <= 3 * cb.inline
      /\ e.mode \in Inline /\ (e.mode = "base64" \/ BytePerUnit(exchange.upload)) => e.size <= cb.inline
      /\ e.mode \in {"ibb", "chunked", "jingle"} => e.size = most
  BY <1>2, <1>5, EncodingFits DEF UploadMode
<1>7. LET e == RespondMode IN
      /\ e.mode \in Inline \cup Mechanisms \cup {"too-large"} /\ e.size \in Nat
      /\ e.mode \in Inline => e.size <= 3 * sb.inline
      /\ e.mode \in Inline /\ (e.mode = "base64" \/ BytePerUnit(Source)) => e.size <= sb.inline
      /\ e.mode \in {"ibb", "chunked", "jingle"} => e.size = most
  BY <1>2, <1>3, <1>5, EncodingFits DEF RespondMode
<1>. HIDE DEF cb, sb, most, client, server
<1>8. UploadMode.mode # "too-large" => SizeFits("up", UploadMode.mode, UploadMode.size)
  <2>1. /\ UploadMode.mode \in Inline /\ (UploadMode.mode = "base64" \/ BytePerUnit(exchange.upload)) =>
             UploadMode.size + 2048 <= LimitOf("client")
        /\ UploadMode.mode \in Inline => UploadMode.size <= 3 * (LimitOf("client") - 2048)
    <3>1. LimitOf("client") \in Nat
      BY <1>1 DEF LimitOf, Or, Floor, client
    <3>. QED BY <1>2, <1>6, <3>1
  <2>. QED BY <1>4, <1>6, <2>1 DEF SizeFits, Considered
<1>9. RespondMode.mode # "too-large" => SizeFits("down", RespondMode.mode, Block)
  <2>1. /\ RespondMode.mode \in Inline /\ (RespondMode.mode = "base64" \/ BytePerUnit(Source)) =>
             Block + 2048 <= LimitOf("server")
        /\ RespondMode.mode \in Inline => Block <= 3 * (LimitOf("server") - 2048)
    <3>1. LimitOf("server") \in Nat
      BY <1>1 DEF LimitOf, Or, Floor, server
    <3>2. RespondMode.mode \in Inline => Block = RespondMode.size
      BY DEF Block, Inline
    <3>. QED BY <1>3, <1>7, <3>1, <3>2
  <2>2. ASSUME RespondMode.mode = "ibb"
        PROVE  /\ base64Length(Block) + 510 <= LimitOf("client")
               /\ server # Unset => base64Length(Block) + 510 <= LimitOf("server")
    <3>1. Block = ibbBlockSize(most, sb.chunk)
      BY <1>7, <2>2 DEF Block, sb
    <3>2. Block \in Nat /\ Block <= most
      BY <1>3, <1>4, <3>1 DEF ibbBlockSize, AtLeast, AtMost, Or, MinChunk, Unset
    <3>3. server # Unset => Block <= sb.chunk
      BY <1>3, <1>4, <3>1 DEF ibbBlockSize, AtLeast, AtMost, Or, MinChunk, Unset
    <3>4. base64Length(Block) \in Nat /\ base64Length(most) \in Nat /\ base64Length(Block) <= base64Length(most)
      BY <1>4, <3>2, Base64Lengths
    <3>5. LimitOf("client") \in Nat
      BY <1>1 DEF LimitOf, Or, Floor, client
    <3>6. base64Length(Block) + 510 <= LimitOf("client")
      BY <1>4, <3>4, <3>5
    <3>7. ASSUME server # Unset PROVE base64Length(Block) + 510 <= LimitOf("server")
      <4>1. base64Length(Block) <= base64Length(sb.chunk) /\ base64Length(sb.chunk) \in Nat
        BY <1>3, <3>2, <3>3, <3>7, Base64Lengths
      <4>2. LimitOf("server") = server
        BY <3>7 DEF LimitOf, Or, server
      <4>. QED BY <1>1, <1>3, <3>4, <3>7, <4>1, <4>2
    <3>. QED BY <3>6, <3>7
  <2>3. RespondMode.mode \in {"chunked", "jingle"} => base64Length(Block) + 510 <= LimitOf("client")
    <3>1. RespondMode.mode \in {"chunked", "jingle"} => Block = most
      BY <1>7 DEF Block
    <3>. QED BY <1>4, <3>1
  <2>. QED BY <2>1, <2>2, <2>3 DEF SizeFits, Considered, server
<1>10. \A d \in Dirs : SizeFits(d, "none", 0)
  <2>1. LimitOf("client") >= 2048 /\ LimitOf("server") >= 2048
    BY <1>1 DEF LimitOf, Or, Floor, client, server
  <2>2. LimitOf("client") \in Nat /\ LimitOf("server") \in Nat
    BY <1>1 DEF LimitOf, Or, Floor, client, server
  <2>. QED BY <2>1, <2>2 DEF SizeFits, Inline, Dirs
<1>. QED BY <1>8, <1>9, <1>10

LEMMA RefusedHasNoSize ==
  ASSUME Places, RespondMode.mode = "too-large"
  PROVE  Block = 0
<1>1. ServerBudgets.inline \in Nat /\ ClientBudgets.chunk \in Nat
      /\ (ClientBudgets.chunk = Unset \/ ClientBudgets.chunk \in MinChunk..MaxChunk)
  BY PlanFields, BudgetTypes DEF ClientBudgets, ServerBudgets
<1>2. RespondMode.size = 0
  BY <1>1, PlanFields, SourceIsBody, EncodingFits DEF RespondMode
<1>. QED BY <1>2 DEF Block

LEMMA SizesStay ==
  ASSUME ExchangeInv, Advertised, StanzasFit, ExchangeNext
  PROVE  StanzasFit'
<1>1. /\ InOrder /\ Places /\ chan \in [Dirs -> Channel] /\ Dirs = {"up", "down"}
      /\ chan["up"] \in Channel /\ chan["down"] \in Channel
  BY DEF ExchangeInv, Dirs
<1>2. exchange' = exchange
  BY DEF ExchangeNext, Client, Server, Transfer, Timer, Request, SendRequest, Uploaded, ResultIsHere, OnReq, Allowed,
         HandlerReturns, Respond, SendScheduled, DiscoRefuses, Forbidden, Abort, Close, CallerCancels, Stop,
         AnswerArrives, AnswerLost, RequestExpires, Travels, Accepts, SendPart, SendEnd, SendFails, GivesUp, ReadPart,
         ReadEnd, OpenRefused, IdleTimeout, SourceFails, Stops, ChanStep
<1>3. \A d \in Dirs : \A m, b : SizeFits(d, m, b)' <=> SizeFits(d, m, b)
  BY <1>2, SizesAlike
<1>0. StanzasFit' <=> \A d \in Dirs : SizeFits(d, chan'[d].mech, chan'[d].block)
  BY <1>2, StanzasAreNext
<1> DEFINE Same == \A d \in Dirs : chan'[d].mech = chan[d].mech /\ chan'[d].block = chan[d].block
<1>4. ASSUME Same PROVE StanzasFit'
  <2>1. \A d \in Dirs : SizeFits(d, chan'[d].mech, chan'[d].block)
    BY <1>4, StanzasAre
  <2>. QED BY <1>0, <2>1
<1>5. ASSUME NEW d \in Dirs, NEW how, Receives(d, how) PROVE Same
  BY <1>1, <1>5 DEF Receives, Channel
<1>6. CASE SendRequest
  <2>1. chan["up"] = NoChannel /\ chan["down"] = NoChannel
    BY <1>1, <1>6 DEF SendRequest, InOrder
  <2>2. CASE UNCHANGED chan
    BY <1>4, <2>2
  <2>3. CASE chan' # chan
    <3>1. /\ UploadMode.mode # "too-large" /\ chan'["down"] = chan["down"]
          /\ chan'["up"].mech = UploadMode.mode /\ chan'["up"].block = UploadMode.size
      <4> DEFINE src == IF UploadMode.mode \in Streamed THEN "held" ELSE "none"
                 snd == CASE UploadMode.mode = "ibb"     -> "opening"
                          [] UploadMode.mode = "chunked" -> "sending"
                          [] UploadMode.mode \in Offers  -> "offered"
                          [] OTHER                       -> "sent"
      <4>1. chan' = [chan EXCEPT !["up"].mech = UploadMode.mode, !["up"].block = UploadMode.size,
                                 !["up"].src = src, !["up"].snd = snd]
        BY <1>6, <2>3 DEF SendRequest
      <4>. HIDE DEF src, snd
      <4>2. /\ chan'["down"] = chan["down"]
            /\ chan'["up"].mech = UploadMode.mode /\ chan'["up"].block = UploadMode.size
        BY <1>1, <4>1 DEF Channel
      <4>3. UploadMode.mode # "too-large"
        BY <1>6, <2>3 DEF SendRequest
      <4>. QED BY <4>2, <4>3
    <3>2. SizeFits("up", chan'["up"].mech, chan'["up"].block) /\ SizeFits("down", chan'["down"].mech, chan'["down"].block)
      BY <1>1, <3>1, SizesFit, StanzasAre
    <3>. QED BY <1>0, <1>1, <3>2
  <2>. QED BY <2>2, <2>3
<1>7. CASE Respond
  <2>1. CASE Receives("up", Unused)
    BY <1>1, <1>4, <1>5, <2>1
  <2>2. CASE chan' = [chan EXCEPT !["up"].rcv = Unused, !["down"] = Outgoing]
    <3>1. /\ chan'["up"].mech = chan["up"].mech /\ chan'["up"].block = chan["up"].block
          /\ chan'["down"] = Outgoing
      BY <1>1, <2>2 DEF Channel
    <3>2. Outgoing.mech = (IF RespondMode.mode = "too-large" THEN "none" ELSE RespondMode.mode) /\ Outgoing.block = Block
      BY <1>1 DEF Outgoing, Channel
    <3>3. RespondMode.mode = "too-large" => Block = 0
      BY <1>1, RefusedHasNoSize
    <3>4. SizeFits("down", Outgoing.mech, Outgoing.block)
      BY <1>1, <3>2, <3>3, SizesFit
    <3>5. SizeFits("up", chan["up"].mech, chan["up"].block)
      BY <1>1, StanzasAre
    <3>. QED
      <4>1. SizeFits("up", chan'["up"].mech, chan'["up"].block)
        BY <3>1, <3>5
      <4>2. SizeFits("down", chan'["down"].mech, chan'["down"].block)
        BY <3>1, <3>4
      <4>. QED BY <1>0, <1>1, <4>1, <4>2
  <2>. QED BY <1>7, <2>1, <2>2 DEF Respond
<1>8. CASE \/ Request \/ Uploaded \/ OnReq \/ HandlerReturns \/ DiscoRefuses \/ Forbidden
           \/ AnswerArrives \/ AnswerLost \/ RequestExpires
  <2>1. UNCHANGED chan
    BY <1>8 DEF Request, DiscoRefuses, Uploaded, OnReq, Forbidden, HandlerReturns, AnswerArrives, AnswerLost,
                RequestExpires, Travels
  <2>. QED BY <1>4, <2>1
<1>9. CASE ResultIsHere \/ Allowed \/ Abort \/ CallerCancels
  <2>1. UNCHANGED chan \/ (\E d \in Dirs : \E how : Receives(d, how)) \/ Expect
    BY <1>1, <1>9 DEF ResultIsHere, Allowed, Abort, CallerCancels
  <2>2. Expect => Same
    BY <1>1 DEF Expect, Channel
  <2>. QED BY <1>4, <1>5, <2>1, <2>2
<1>10. CASE SendScheduled \/ Stop \/ Close
  <2>1. CASE SendScheduled
    BY <1>1, <1>4, <2>1 DEF SendScheduled, Channel
  <2>2. CASE Stop \/ Close
    <3>1. \A d \in Dirs : Withdrawn(d).mech = chan[d].mech /\ Withdrawn(d).block = chan[d].block
      BY <1>1 DEF Withdrawn, Channel
    <3>2. PICK r, d \in Dirs : r # d /\ chan' = [chan EXCEPT ![r].rcv = Released(r), ![d] = Withdrawn(d)]
      BY <1>1, <2>2 DEF Stop, Close
    <3>3. Same
      BY <1>1, <3>1, <3>2 DEF Channel
    <3>. QED BY <1>4, <3>3
  <2>. QED BY <1>10, <2>1, <2>2
<1>11. ASSUME NEW d \in Dirs, Transfer(d) \/ Timer(d) \/ SourceFails(d) PROVE StanzasFit'
  <2>0. chan[d] \in Channel
    BY <1>1
  <2>1. CASE Accepts(d) \/ OpenRefused(d) \/ SendFails(d) \/ SourceFails(d) \/ GivesUp(d) \/ IdleTimeout(d)
    <3>1. Same
      BY <1>1, <2>0, <2>1 DEF Accepts, OpenRefused, SendFails, SourceFails, GivesUp, Stops, IdleTimeout, ChanStep, Channel
    <3>. QED BY <1>4, <3>1
  <2>2. CASE SendPart(d) \/ SendEnd(d) \/ ReadPart(d) \/ ReadEnd(d)
    <3>1. Same
      <4>1. CASE SendPart(d)
        <5>1. PICK l : chan' = [chan EXCEPT ![d].src = "reading", ![d].sent = @ + 1, ![d].lost = l]
          BY <4>1 DEF SendPart, ChanStep
        <5>. QED BY <1>1, <2>0, <5>1 DEF Channel
      <4>2. CASE SendEnd(d) \/ ReadPart(d) \/ ReadEnd(d)
        BY <1>1, <2>0, <4>2 DEF SendEnd, ReadPart, ReadEnd, ChanStep, Channel
      <4>. QED BY <2>2, <4>1, <4>2
    <3>. QED BY <1>4, <3>1
  <2>. QED BY <1>11, <2>1, <2>2 DEF Transfer, Timer
<1>. QED BY <1>6, <1>7, <1>8, <1>9, <1>10, <1>11 DEF ExchangeNext, Client, Server, Dirs

(* No stanza of a body exceeds the limits StanzasFit holds it to, whatever *)
(* the bodies, the preferences and what the two sides advertise, and an    *)
(* inlined text of more than a byte per unit exceeds its sender's by three *)
(* times at most; if what is advertised is 3072 bytes or more: below that the least inline budget of               *)
(* stanzaBudgets() does not leave an envelope its 2048 bytes.  RFC 6120    *)
(* makes every server accept 10000.                                        *)
THEOREM EveryStanzaFits ==
  ASSUME \A e \in Exchanges : \A side \in {"client", "server"} : e.limits[side] = Unset \/ e.limits[side] >= 3072
  PROVE  ExchangeSpec => []StanzasFit
<1>1. ExchangeInv => Advertised
  <2>1. ExchangeInv => exchange \in Exchanges
    BY DEF ExchangeInv, Places
  <2>. QED BY <2>1 DEF Advertised
<1>2. ExchangeInit => StanzasFit
  <2> SUFFICES ASSUME ExchangeInit PROVE StanzasFit
    OBVIOUS
  <2>1. \A d \in Dirs : chan[d].mech = "none" /\ chan[d].block = 0
    BY DEF ExchangeInit, NoChannel, Dirs
  <2>2. Places /\ Advertised
    BY <1>1, ExchangeInvStart DEF ExchangeInv
  <2>. QED BY <2>1, <2>2, SizesFit, StanzasAre
<1>3. ASSUME ExchangeInv, StanzasFit, [ExchangeNext]_exchangeVars PROVE StanzasFit'
  <2>1. CASE ExchangeNext
    BY <1>1, <1>3, <2>1, SizesStay
  <2>2. CASE UNCHANGED exchangeVars
    <3>1. exchange' = exchange /\ chan' = chan
      BY <2>2 DEF exchangeVars
    <3>. QED BY <1>3, <3>1, StanzasAre, StanzasAreNext
  <2>. QED BY <1>3, <2>1, <2>2
<1>. QED BY <1>2, <1>3, ExchangeIsSound, PTL DEF ExchangeSpec
=============================================================================
