-------------------------- MODULE ChunkRouter_proofs --------------------------
(***************************************************************************)
(* Safety of the chunk router, and that a chunked body keeps the promise   *)
(* of ByteStream, for any number of bodies and chunks and any budgets.     *)
(***************************************************************************)
EXTENDS ChunkRouter, FiniteSetTheorems, FunctionTheorems, SequenceTheorems, TLAPS

-----------------------------------------------------------------------------
(* Induction, for what the folds and the first hole return. *)

LEMMA SmallestNat ==
  ASSUME NEW S \in SUBSET Nat, S # {}
  PROVE  \E m \in S : \A n \in S : m <= n
<1>1. \E x \in S : \A y \in S : ~(<<y, x>> \in OpToRel(<, Nat))
  BY NatLessThanWellFounded, WFMin
<1>2. \A x, y \in Nat : y < x => <<y, x>> \in OpToRel(<, Nat)
  BY DEF OpToRel
<1>3. \E x \in S : \A y \in S : ~(y < x)
  BY <1>1, <1>2, Zenon
<1>. QED BY <1>3

LEMMA UpToInduction ==
  ASSUME NEW n \in Nat, NEW P, 0 \in P, \A i \in 0..n - 1 : i \in P => i + 1 \in P
  PROVE  \A i \in 0..n : i \in P
<1> SUFFICES ASSUME {i \in 0..n : i \notin P} # {} PROVE FALSE
  OBVIOUS
<1>1. PICK m \in {i \in 0..n : i \notin P} : \A i \in {i \in 0..n : i \notin P} : m <= i
  <2>1. {i \in 0..n : i \notin P} \in SUBSET Nat
    OBVIOUS
  <2>. QED BY <2>1, SmallestNat
<1>2. m # 0 /\ m - 1 \in 0..n - 1 /\ m - 1 \in 0..n
  BY <1>1
<1>3. m - 1 \in P
  BY <1>1, <1>2
<1>. QED BY <1>1, <1>2, <1>3

-----------------------------------------------------------------------------
(* One reassembler. *)

(* An open one has a hole before it, and an ended one has given everything. *)
Sound(r) ==
  /\ r.reader = "open" => r.nextNr < Chunks /\ \A k \in r.pending : k > r.nextNr
  /\ r.reader = "ended" => r.nextNr = Chunks

Has(r, k) == k < r.nextNr \/ k \in r.pending

LEMMA FirstHoleIs ==
  ASSUME NEW r \in Reassemblers
  PROVE  /\ FirstHole(r) \in r.nextNr..Chunks /\ FirstHole(r) \notin r.pending
         /\ \A k \in r.nextNr..FirstHole(r) - 1 : k \in r.pending
<1> USE RouterAssumption DEF RouterAssumption
<1> DEFINE holes == {n \in r.nextNr..Chunks : n \notin r.pending}
<1>1. r.nextNr \in Nat /\ r.nextNr <= Chunks /\ r.pending \subseteq 0..Chunks - 1
  BY DEF Reassemblers, Nrs
<1>2. Chunks \in holes /\ holes \in SUBSET Nat
  BY <1>1
<1> HIDE DEF holes
<1>3. PICK m \in holes : \A n \in holes : m <= n
  BY <1>2, SmallestNat
<1>4. m \in r.nextNr..Chunks /\ m \notin r.pending /\ \A k \in r.nextNr..m - 1 : k \in r.pending
  BY <1>1, <1>3 DEF holes
<1>. QED BY <1>4 DEF FirstHole

LEMMA DrainGives ==
  ASSUME NEW r \in Reassemblers, r.reader = "open", r.nextNr < Chunks,
         \A k \in r.pending : k >= r.nextNr
  PROVE  /\ Drain(r) \in Reassemblers /\ Sound(Drain(r)) /\ Drain(r).reader \in {"open", "ended"}
         /\ Drain(r).nextNr >= r.nextNr
         /\ \A k \in Nrs : Has(r, k) <=> Has(Drain(r), k)
<1> USE RouterAssumption DEF RouterAssumption
<1> DEFINE upTo  == FirstHole(r)
           given == [r EXCEPT !.nextNr = upTo, !.pending = {k \in r.pending : k >= upTo}]
<1>1. /\ r.nextNr \in Nat /\ upTo \in r.nextNr..Chunks /\ upTo \notin r.pending
      /\ \A k \in r.nextNr..upTo - 1 : k \in r.pending
      /\ r.pending \subseteq Nrs
  BY FirstHoleIs DEF Reassemblers
<1>2. /\ given.reader = "open" /\ given.nextNr = upTo /\ given.lastNr = r.lastNr
      /\ given.pending = {k \in r.pending : k >= upTo}
      /\ given \in Reassemblers
  <2>1. {k \in r.pending : k >= upTo} \in SUBSET Nrs /\ upTo \in 0..Chunks
    BY <1>1
  <2> HIDE DEF upTo
  <2>. QED BY <2>1 DEF Reassemblers
<1>3. Drain(r) = IF upTo > r.nextNr /\ IsLast(upTo - 1) THEN Finish(given, "ended") ELSE given
  BY DEF Drain
<1> HIDE DEF upTo, given
<1>4. \A k \in Nrs : Has(r, k) <=> k < upTo \/ k \in given.pending
  BY <1>1, <1>2 DEF Has, Nrs
<1>5. CASE upTo > r.nextNr /\ IsLast(upTo - 1)
  <2>1. upTo = Chunks
    BY <1>1, <1>5 DEF IsLast
  <2>2. Drain(r) = [given EXCEPT !.reader = "ended", !.pending = {}]
    BY <1>3, <1>5 DEF Finish
  <2>3. /\ Drain(r).reader = "ended" /\ Drain(r).nextNr = Chunks /\ Drain(r).pending = {}
        /\ Drain(r) \in Reassemblers
    BY <1>2, <2>1, <2>2 DEF Reassemblers
  <2>4. \A k \in Nrs : k < upTo
    BY <2>1 DEF Nrs
  <2>. QED BY <1>1, <1>4, <2>1, <2>3, <2>4 DEF Sound, Has
<1>6. CASE ~(upTo > r.nextNr /\ IsLast(upTo - 1))
  <2>1. upTo < Chunks
    BY <1>1, <1>6 DEF IsLast
  <2>2. Drain(r) = given
    BY <1>3, <1>6
  <2>3. \A k \in given.pending : k > upTo
    BY <1>1, <1>2 DEF Nrs
  <2>. QED BY <1>1, <1>2, <1>4, <2>1, <2>2, <2>3 DEF Sound, Has
<1>. QED BY <1>5, <1>6

(* What a push does: nothing to a finished reassembler; else it errors it, *)
(* or nothing of what it had and was given is missing.                     *)
PushKeeps(r, got, p) ==
  /\ p \in Reassemblers /\ Sound(p)
  /\ r.reader # "open" => p = r
  /\ r.reader = "open" => p.reader \in {"open", "ended", "errored"}
  /\ p.nextNr >= r.nextNr
  /\ p.reader # "errored" => \A k \in Nrs : Has(r, k) \/ k \in got => Has(p, k) \/ p.reader # "open"
  /\ \A k \in Nrs : Has(p, k) => Has(r, k) \/ k \in got

LEMMA PushGives ==
  ASSUME NEW r \in Reassemblers, NEW nr \in Nrs, Sound(r)
  PROVE  PushKeeps(r, {nr}, Push(r, nr))
<1> USE RouterAssumption DEF RouterAssumption
<1>1. /\ r.nextNr \in Nat /\ r.nextNr <= Chunks /\ r.pending \subseteq Nrs /\ nr \in Nat /\ nr < Chunks
      /\ r.reader \in {"none", "open", "ended", "errored", "cancelled"}
      /\ r.lastNr \in Nrs \cup {NoNr}
  BY DEF Reassemblers, Nrs
<1>2. CASE r.reader # "open"
  <2>1. Push(r, nr) = r
    BY <1>2 DEF Push
  <2>2. r \in Reassemblers /\ r.nextNr >= r.nextNr
    BY <1>1
  <2>. QED BY <1>2, <2>1, <2>2 DEF PushKeeps
<1>3. ASSUME NEW s \in Reassemblers, s.nextNr = r.nextNr, r.reader = "open",
             Push(r, nr) = Finish(s, "errored")
      PROVE  PushKeeps(r, {nr}, Push(r, nr))
  <2>1. /\ Push(r, nr) \in Reassemblers /\ Push(r, nr).reader = "errored"
        /\ Push(r, nr).nextNr = r.nextNr /\ Push(r, nr).pending = {}
    BY <1>3 DEF Finish, Reassemblers
  <2>. QED BY <1>1, <1>3, <2>1 DEF PushKeeps, Sound, Has
<1>4. CASE r.reader = "open"
  <2> DEFINE held == [r EXCEPT !.pending = @ \cup {nr}, !.lastNr = IF IsLast(nr) THEN nr ELSE @]
  <2>1. /\ held \in Reassemblers /\ held.reader = "open" /\ held.nextNr = r.nextNr
        /\ held.pending = r.pending \cup {nr}
    BY <1>1, <1>4 DEF Reassemblers
  <2>2. CASE nr < r.nextNr \/ nr \in r.pending \/ (r.lastNr # NoNr /\ nr > r.lastNr)
    <3>1. Push(r, nr) = Finish(r, "errored")
      BY <1>4, <2>2 DEF Push
    <3>. QED BY <1>3, <1>4, <3>1
  <2>3. CASE ~(nr < r.nextNr \/ nr \in r.pending \/ (r.lastNr # NoNr /\ nr > r.lastNr))
    <3>1. Push(r, nr) = IF Cardinality(held.pending) > MaxBuffered THEN Finish(held, "errored") ELSE Drain(held)
      BY <1>4, <2>3 DEF Push
    <3> HIDE DEF held
    <3>2. CASE Cardinality(held.pending) > MaxBuffered
      BY <1>3, <1>4, <2>1, <3>1, <3>2
    <3>3. CASE ~(Cardinality(held.pending) > MaxBuffered)
      <4>1. Push(r, nr) = Drain(held)
        BY <3>1, <3>3
      <4>2. r.nextNr < Chunks /\ \A k \in held.pending : k >= held.nextNr
        BY <1>1, <1>4, <2>1, <2>3 DEF Sound, Nrs
      <4>3. /\ Drain(held) \in Reassemblers /\ Sound(Drain(held)) /\ Drain(held).reader \in {"open", "ended"}
            /\ Drain(held).nextNr >= held.nextNr
            /\ \A k \in Nrs : Has(held, k) <=> Has(Drain(held), k)
        BY <2>1, <4>2, DrainGives
      <4>4. \A k \in Nrs : Has(held, k) <=> Has(r, k) \/ k = nr
        BY <2>1 DEF Has
      <4>. QED BY <1>4, <2>1, <4>1, <4>3, <4>4 DEF PushKeeps
    <3>. QED BY <3>2, <3>3
  <2>. QED BY <2>2, <2>3
<1>. QED BY <1>2, <1>4

Among(nrs, i) == {nrs[j] : j \in 1..i}

(* Several pushes. *)
LEMMA PushAllGives ==
  ASSUME NEW r \in Reassemblers, Sound(r), NEW nrs \in Seq(Nrs)
  PROVE  PushKeeps(r, Among(nrs, Len(nrs)), PushedAll(r, nrs))
<1> DEFINE n == Len(nrs)
           step(f, i) == IF i = 0 THEN r ELSE Push(f[i - 1], nrs[i])
           runs(m) == {f \in [0..m -> Reassemblers] : \A i \in 0..m : f[i] = step(f, i)}
           P == {m \in Nat : \E f \in runs(m) : \A i \in 0..m : PushKeeps(r, Among(nrs, i), f[i])}
<1>1. n \in Nat /\ \A i \in 1..n : nrs[i] \in Nrs
  BY LenProperties, ElementOfSeq
<1>2. 0 \in P
  <2> DEFINE f == [i \in 0..0 |-> r]
  <2>1. f \in runs(0) /\ f[0] = r
    OBVIOUS
  <2>2. PushKeeps(r, Among(nrs, 0), r)
    <3>1. r.nextNr >= r.nextNr /\ r.reader \in {"none", "open", "ended", "errored", "cancelled"}
      BY RouterAssumption DEF Reassemblers, RouterAssumption
    <3>2. Among(nrs, 0) = {}
      BY DEF Among
    <3>. QED BY <3>1, <3>2 DEF PushKeeps
  <2>. QED BY <2>1, <2>2
<1>3. ASSUME NEW m \in 0..n - 1, m \in P PROVE m + 1 \in P
  <2>1. PICK f \in runs(m) : \A i \in 0..m : PushKeeps(r, Among(nrs, i), f[i])
    BY <1>3
  <2> DEFINE nr == nrs[m + 1]
             p  == Push(f[m], nr)
             g  == [i \in 0..m + 1 |-> IF i = m + 1 THEN p ELSE f[i]]
  <2>2. m \in Nat /\ m \in 0..m /\ f[m] \in Reassemblers /\ Sound(f[m]) /\ nr \in Nrs
    BY <1>1, <2>1 DEF PushKeeps
  <2>3. PushKeeps(f[m], {nr}, p) /\ PushKeeps(r, Among(nrs, m), f[m])
    BY <2>1, <2>2, PushGives
  <2>4. Among(nrs, m + 1) = Among(nrs, m) \cup {nr}
    BY <2>2 DEF Among
  <2>5. PushKeeps(r, Among(nrs, m + 1), p)
    BY <2>2, <2>3, <2>4 DEF PushKeeps, Reassemblers
  <2>6. g \in [0..m + 1 -> Reassemblers] /\ g[m + 1] = p /\ \A i \in 0..m : g[i] = f[i]
    BY <2>2, <2>3 DEF PushKeeps
  <2>7. \A i \in 0..m + 1 : g[i] = step(g, i)
    BY <2>1, <2>2, <2>6
  <2>8. \A i \in 0..m + 1 : PushKeeps(r, Among(nrs, i), g[i])
    BY <2>1, <2>2, <2>5, <2>6
  <2>. QED BY <2>2, <2>6, <2>7, <2>8
<1>4. n \in P
  <2> HIDE DEF P
  <2>1. \A i \in 0..n : i \in P
    BY <1>1, <1>2, <1>3, UpToInduction
  <2>. QED BY <1>1, <2>1
<1>5. PICK f \in runs(n) : \A i \in 0..n : PushKeeps(r, Among(nrs, i), f[i])
  BY <1>4
<1> DEFINE after == CHOOSE g : g = [i \in 0..n |-> IF i = 0 THEN r ELSE Push(g[i - 1], nrs[i])]
<1>6. after = [i \in 0..n |-> IF i = 0 THEN r ELSE Push(after[i - 1], nrs[i])]
  <2>1. f = [i \in 0..n |-> IF i = 0 THEN r ELSE Push(f[i - 1], nrs[i])]
    BY <1>5
  <2>. QED BY <2>1
<1>7. PushedAll(r, nrs) = after[n]
  BY DEF PushedAll
<1> HIDE DEF after
<1>8. after[n] = f[n]
  <2> DEFINE Q == {i \in Nat : after[i] = f[i]}
  <2>1. 0 \in Q
    BY <1>1, <1>5, <1>6
  <2>2. ASSUME NEW i \in 0..n - 1, i \in Q PROVE i + 1 \in Q
    BY <1>1, <1>5, <1>6, <2>2
  <2> HIDE DEF Q
  <2>3. \A i \in 0..n : i \in Q
    BY <1>1, <2>1, <2>2, UpToInduction
  <2>. QED BY <1>1, <2>3 DEF Q
<1>. QED BY <1>1, <1>5, <1>7, <1>8

-----------------------------------------------------------------------------
(* The units of stacks of chunks, len[b] on the one of body b. *)

Units(len) == UNION {{b} \X (1..len[b]) : b \in Bodies}

LEMMA UnitForms ==
  ASSUME NEW len \in [Bodies -> Nat]
  PROVE  /\ \A b \in Bodies, i \in Int : <<b, i>> \in Units(len) <=> i \in 1..len[b]
         /\ \A u \in Units(len) : u = <<u[1], u[2]>> /\ u[1] \in Bodies /\ u[2] \in 1..len[u[1]]
         /\ IsFiniteSet(Units(len)) /\ Cardinality(Units(len)) \in Nat
<1>1. \A b \in Bodies, i \in Int : <<b, i>> \in Units(len) <=> i \in 1..len[b]
  BY DEF Units
<1>2. \A u \in Units(len) : u = <<u[1], u[2]>> /\ u[1] \in Bodies /\ u[2] \in 1..len[u[1]]
  BY DEF Units
<1>3. IsFiniteSet(Units(len))
  <2> DEFINE stack(b) == {b} \X (1..len[b])
  <2>1. ASSUME NEW b \in Bodies PROVE IsFiniteSet(stack(b))
    <3>1. IsFiniteSet(1..len[b])
      BY FS_Interval
    <3>2. IsFiniteSet({b})
      BY FS_Singleton
    <3>. QED BY <3>1, <3>2, FS_Product
  <2> HIDE DEF stack
  <2>2. IsFiniteSet(Bodies)
    BY RouterAssumption DEF RouterAssumption
  <2>3. IsFiniteSet({stack(b) : b \in Bodies})
    <3> DEFINE T == {stack(b) : b \in Bodies}
               g == [b \in Bodies |-> stack(b)]
    <3>1. g \in [Bodies -> T] /\ \A t \in T : \E b \in Bodies : g[b] = t
      OBVIOUS
    <3>2. g \in Surjection(Bodies, T)
      BY <3>1 DEF Surjection
    <3> HIDE DEF g, T
    <3>3. IsFiniteSet(T)
      BY <2>2, <3>2, FS_Surjection
    <3>. QED BY <3>3 DEF T
  <2>4. IsFiniteSet(UNION {stack(b) : b \in Bodies})
    BY <2>1, <2>3, FS_UNION
  <2>. QED BY <2>4 DEF Units, stack
<1>4. Cardinality(Units(len)) \in Nat
  BY <1>3, FS_CardinalityType
<1>. QED BY <1>1, <1>2, <1>3, <1>4

(* Taken off the front, as many units go as there were there. *)
LEMMA UnitsLess ==
  ASSUME NEW len \in [Bodies -> Nat], NEW off \in [Bodies -> Nat], NEW left \in [Bodies -> Nat],
         \A b \in Bodies : off[b] <= len[b] /\ left[b] = len[b] - off[b]
  PROVE  Cardinality(Units(left)) = Cardinality(Units(len)) - Cardinality(Units(off))
<1> DEFINE rest == Units(len) \ Units(off)
           f == [u \in rest |-> <<u[1], u[2] - off[u[1]]>>]
<1>1. Units(off) \subseteq Units(len)
  <2> SUFFICES ASSUME NEW u \in Units(off) PROVE u \in Units(len)
    OBVIOUS
  <2>1. u = <<u[1], u[2]>> /\ u[1] \in Bodies /\ u[2] \in 1..off[u[1]]
    BY UnitForms
  <2>2. u[2] \in 1..len[u[1]] /\ u[2] \in Int
    BY <2>1
  <2>3. <<u[1], u[2]>> \in Units(len)
    BY <2>1, <2>2, UnitForms
  <2>. QED BY <2>1, <2>3
<1>2. \A u \in rest : u = <<u[1], u[2]>> /\ u[1] \in Bodies /\ u[2] \in off[u[1]] + 1..len[u[1]]
  <2> SUFFICES ASSUME NEW u \in rest
               PROVE  u = <<u[1], u[2]>> /\ u[1] \in Bodies /\ u[2] \in off[u[1]] + 1..len[u[1]]
    OBVIOUS
  <2>1. u = <<u[1], u[2]>> /\ u[1] \in Bodies /\ u[2] \in 1..len[u[1]]
    BY UnitForms
  <2>2. u[2] \in Int /\ u[2] \notin 1..off[u[1]]
    BY <2>1, UnitForms
  <2>. QED BY <2>1, <2>2
<1>3. f \in Bijection(rest, Units(left))
  <2>1. \A u \in rest : f[u] \in Units(left)
    <3> SUFFICES ASSUME NEW u \in rest PROVE <<u[1], u[2] - off[u[1]]>> \in Units(left)
      OBVIOUS
    <3>1. u[1] \in Bodies /\ u[2] - off[u[1]] \in 1..left[u[1]] /\ u[2] - off[u[1]] \in Int
      BY <1>2
    <3>. QED BY <3>1, UnitForms
  <2>2. \A u, v \in rest : f[u] = f[v] => u = v
    <3> SUFFICES ASSUME NEW u \in rest, NEW v \in rest,
                        <<u[1], u[2] - off[u[1]]>> = <<v[1], v[2] - off[v[1]]>>
                 PROVE  u = v
      OBVIOUS
    <3>1. u[1] = v[1] /\ u[2] - off[u[1]] = v[2] - off[v[1]]
      OBVIOUS
    <3>2. u[2] \in Int /\ v[2] \in Int /\ off[u[1]] \in Int
      BY <1>2
    <3>3. off[v[1]] = off[u[1]]
      BY <3>1
    <3>4. u[2] - off[u[1]] = v[2] - off[u[1]]
      BY <3>1, <3>3
    <3>5. \A x, y, z \in Int : x - z = y - z => x = y
      OBVIOUS
    <3>6. u[2] = v[2]
      BY <3>2, <3>4, <3>5, Zenon
    <3>. QED BY <1>2, <3>1, <3>6
  <2>3. \A w \in Units(left) : \E u \in rest : f[u] = w
    <3> SUFFICES ASSUME NEW w \in Units(left) PROVE \E u \in rest : f[u] = w
      OBVIOUS
    <3>1. w = <<w[1], w[2]>> /\ w[1] \in Bodies /\ w[2] \in 1..left[w[1]]
      BY UnitForms
    <3> DEFINE i == w[2] + off[w[1]]
    <3>2. i \in Int /\ i \in 1..len[w[1]] /\ i \notin 1..off[w[1]] /\ i - off[w[1]] = w[2]
      BY <3>1
    <3> HIDE DEF i
    <3>3. <<w[1], i>> \in rest
      BY <3>1, <3>2, UnitForms
    <3>4. f[<<w[1], i>>] = w
      BY <3>1, <3>2, <3>3
    <3>. QED BY <3>3, <3>4
  <2>4. f \in [rest -> Units(left)]
    BY <2>1
  <2> HIDE DEF f, rest
  <2>. QED BY <2>2, <2>3, <2>4, Fun_IsBij
<1>4. IsFiniteSet(rest) /\ Cardinality(rest) = Cardinality(Units(len)) - Cardinality(Units(off))
  <2>1. Units(len) \cap Units(off) = Units(off)
    BY <1>1
  <2>2. IsFiniteSet(Units(len))
    BY UnitForms
  <2>3. /\ IsFiniteSet(Units(len) \ Units(off))
        /\ Cardinality(Units(len) \ Units(off)) = Cardinality(Units(len)) - Cardinality(Units(len) \cap Units(off))
    BY <2>2, FS_Difference
  <2>. QED BY <2>1, <2>3
<1>5. ExistsBijection(rest, Units(left))
  BY <1>3 DEF ExistsBijection
<1> HIDE DEF rest, f
<1>. QED BY <1>4, <1>5, FS_Bijection

(* One unit more. *)
LEMMA UnitMore ==
  ASSUME NEW len \in [Bodies -> Nat], NEW b \in Bodies
  PROVE  Cardinality(Units([len EXCEPT ![b] = @ + 1])) = Cardinality(Units(len)) + 1
<1> DEFINE more == [len EXCEPT ![b] = @ + 1]
           u    == <<b, len[b] + 1>>
<1>1. more \in [Bodies -> Nat] /\ more[b] = len[b] + 1 /\ \A c \in Bodies \ {b} : more[c] = len[c]
  OBVIOUS
<1>0. len[b] \in Nat /\ \A c \in Bodies : len[c] \in Nat
  OBVIOUS
<1> HIDE DEF more
<1>2. u \notin Units(len)
  BY <1>0, UnitForms
<1>3. \A v \in Units(more) : v \in Units(len) \cup {u}
  <2> SUFFICES ASSUME NEW v \in Units(more) PROVE v \in Units(len) \cup {u}
    OBVIOUS
  <2>1. v = <<v[1], v[2]>> /\ v[1] \in Bodies /\ v[2] \in 1..more[v[1]]
    BY <1>1, UnitForms
  <2>2. v[2] \in Int /\ (v[2] \in 1..len[v[1]] \/ (v[1] = b /\ v[2] = len[b] + 1))
    BY <1>0, <1>1, <2>1
  <2>. QED BY <2>1, <2>2, UnitForms
<1>4. \A v \in Units(len) \cup {u} : v \in Units(more)
  <2> SUFFICES ASSUME NEW v \in Units(len) \cup {u} PROVE v \in Units(more)
    OBVIOUS
  <2>1. v = <<v[1], v[2]>> /\ v[1] \in Bodies /\ (v[2] \in 1..len[v[1]] \/ (v[1] = b /\ v[2] = len[b] + 1))
    BY UnitForms
  <2>2. v[2] \in Int /\ v[2] \in 1..more[v[1]]
    BY <1>0, <1>1, <2>1
  <2>. QED BY <1>1, <2>1, <2>2, UnitForms
<1>5. Units(more) = Units(len) \cup {u}
  BY <1>3, <1>4
<1>6. Cardinality(Units(len) \cup {u}) = Cardinality(Units(len)) + 1
  BY <1>2, UnitForms, FS_AddElement
<1>. QED BY <1>5, <1>6 DEF more

-----------------------------------------------------------------------------
(* The invariant. *)

Orphaned(b) == {orphans[b][i] : i \in DOMAIN orphans[b]}
Lens == [b \in Bodies |-> Len(orphans[b])]

NetTyped ==
  /\ sent \in [Bodies -> 0..Chunks] /\ aborted \in [Bodies -> BOOLEAN]
  /\ air \subseteq Bodies \X Nrs /\ lost \subseteq Bodies \X Nrs /\ replays \in 0..MaxReplays
  /\ listening \in BOOLEAN

ReaderTyped ==
  /\ expected \subseteq Bodies
  /\ reader \in [Bodies -> {"none", "open", "ended", "errored", "cancelled"}]
  /\ nextNr \in [Bodies -> 0..Chunks] /\ lastNr \in [Bodies -> Nrs \cup {NoNr}]
  /\ pending \in [Bodies -> SUBSET Nrs]

OrphanTyped ==
  /\ orphans \in [Bodies -> Seq(Nrs)] /\ stale \in [Bodies -> Nat] /\ orphanUnits \in Nat

(* Every reassembler is sound, and the open ones are the expected ones. *)
BodyInv ==
  \A b \in Bodies :
    /\ Sound(Reassembler(b))
    /\ reader[b] = "none" => nextNr[b] = 0 /\ lastNr[b] = NoNr /\ pending[b] = {}
    /\ reader[b] = "open" <=> b \in expected

(* Whatever the receiver has or the network carries was sent. *)
SentInv ==
  \A b \in Bodies : \A nr \in Nrs :
    Has(Reassembler(b), nr) \/ nr \in Orphaned(b) \/ <<b, nr>> \in air => nr < sent[b]

(* Of a body not finished, nothing sent is missing. *)
KeptInv ==
  \A b \in Bodies : \A nr \in Nrs : nr < sent[b] /\ reader[b] \in {"none", "open"} =>
    \/ Has(Reassembler(b), nr)
    \/ <<b, nr>> \in air \cup lost
    \/ reader[b] = "none" /\ nr \in Orphaned(b)

(* The orphans are counted, and those past their time are among them. *)
OrphanInv ==
  /\ orphanUnits = Cardinality(Units(Lens)) /\ orphanUnits <= MaxOrphans
  /\ \A b \in Bodies : stale[b] <= Len(orphans[b])

RouterInv ==
  NetTyped /\ ReaderTyped /\ OrphanTyped /\ BodyInv /\ SentInv /\ KeptInv /\ OrphanInv

LEMMA ReassemblerTyped ==
  ASSUME ReaderTyped, NEW b \in Bodies
  PROVE  /\ Reassembler(b) \in Reassemblers
         /\ Reassembler(b).reader = reader[b] /\ Reassembler(b).nextNr = nextNr[b]
         /\ Reassembler(b).lastNr = lastNr[b] /\ Reassembler(b).pending = pending[b]
BY DEF ReaderTyped, Reassembler, Reassemblers

LEMMA LensTyped ==
  ASSUME OrphanTyped
  PROVE  /\ Lens \in [Bodies -> Nat] /\ \A b \in Bodies : Lens[b] = Len(orphans[b])
         /\ \A b \in Bodies : orphans[b] \in Seq(Nrs) /\ DOMAIN orphans[b] = 1..Len(orphans[b])
         /\ \A b \in Bodies : Len(orphans[b]) \in Nat
         /\ \A b \in Bodies : \A i \in 1..Len(orphans[b]) : orphans[b][i] \in Nrs
         /\ \A b \in Bodies : Orphaned(b) \subseteq Nrs
<1>1. \A b \in Bodies : orphans[b] \in Seq(Nrs)
  BY DEF OrphanTyped
<1>2. \A b \in Bodies : /\ Len(orphans[b]) \in Nat /\ DOMAIN orphans[b] = 1..Len(orphans[b])
                        /\ \A i \in 1..Len(orphans[b]) : orphans[b][i] \in Nrs
  BY <1>1, LenProperties, ElementOfSeq
<1>. QED BY <1>1, <1>2 DEF Lens, Orphaned

LEMMA WeightIs ==
  ASSUME OrphanTyped
  PROVE  Weight = Cardinality(Units(Lens))
<1>1. \A b \in Bodies : DOMAIN orphans[b] = 1..Lens[b]
  BY LensTyped
<1>2. {{b} \X DOMAIN orphans[b] : b \in Bodies} = {{b} \X (1..Lens[b]) : b \in Bodies}
  BY <1>1
<1>. QED BY <1>2 DEF Weight, Units

(* A reassembler replaced by another. *)
LEMMA BecomesSound ==
  ASSUME ReaderTyped, BodyInv, NEW b \in Bodies, NEW r \in Reassemblers, Sound(r),
         r.reader # "none", Becomes(b, r)
  PROVE  /\ ReaderTyped' /\ BodyInv' /\ reader'[b] = r.reader /\ nextNr'[b] = r.nextNr
         /\ Reassembler(b)' = r
         /\ \A c \in Bodies \ {b} : Reassembler(c)' = Reassembler(c) /\ reader'[c] = reader[c]
<1>1. /\ r.reader \in {"none", "open", "ended", "errored", "cancelled"} /\ r.nextNr \in 0..Chunks
      /\ r.lastNr \in Nrs \cup {NoNr} /\ r.pending \in SUBSET Nrs
      /\ r = [reader |-> r.reader, nextNr |-> r.nextNr, lastNr |-> r.lastNr, pending |-> r.pending]
  BY DEF Reassemblers
<1>2. /\ reader'[b] = r.reader /\ nextNr'[b] = r.nextNr /\ lastNr'[b] = r.lastNr
      /\ pending'[b] = r.pending
      /\ \A c \in Bodies \ {b} : /\ reader'[c] = reader[c] /\ nextNr'[c] = nextNr[c]
                                 /\ lastNr'[c] = lastNr[c] /\ pending'[c] = pending[c]
  BY DEF Becomes, ReaderTyped
<1>3. ReaderTyped'
  BY <1>1 DEF Becomes, ReaderTyped
<1>4. Reassembler(b)' = r
  BY <1>1, <1>2 DEF Reassembler
<1>5. \A c \in Bodies \ {b} : Reassembler(c)' = Reassembler(c)
  BY <1>2 DEF Reassembler
<1>6. \A c \in Bodies : reader'[c] = "open" <=> c \in expected'
  BY <1>2 DEF Becomes, BodyInv
<1>7. BodyInv'
  BY <1>2, <1>4, <1>5, <1>6 DEF BodyInv
<1>. QED BY <1>2, <1>3, <1>4, <1>5, <1>7

(* An orphan buffered, or given up with those past their time. *)
LEMMA BufferOrphanKeeps ==
  ASSUME NetTyped, OrphanTyped, OrphanInv, NEW b \in Bodies, NEW nr \in Nrs, BufferOrphan(b, nr)
  PROVE  /\ OrphanTyped' /\ OrphanInv' /\ lost \subseteq lost' /\ lost' \subseteq Bodies \X Nrs
         /\ \A c \in Bodies, k \in Nrs :
              k \in Orphaned(c)' => k \in Orphaned(c) \/ (c = b /\ k = nr)
         /\ \A c \in Bodies, k \in Nrs :
              k \in Orphaned(c) \/ (c = b /\ k = nr) => k \in Orphaned(c)' \/ <<c, k>> \in lost'
<1> DEFINE left == orphanUnits - StaleUnits
           room == left + 1 <= MaxOrphans
           kept == [c \in Bodies |-> Len(Fresh(c))]
<1>1. \A c \in Bodies : /\ stale[c] \in Nat /\ stale[c] <= Len(orphans[c])
                        /\ Len(orphans[c]) \in Nat /\ Lens[c] = Len(orphans[c])
                        /\ \A i \in 1..Len(orphans[c]) : orphans[c][i] \in Nrs
  BY LensTyped DEF OrphanTyped, OrphanInv
<1>2. ASSUME NEW c \in Bodies
      PROVE  /\ Fresh(c) \in Seq(Nrs) /\ Len(Fresh(c)) = Len(orphans[c]) - stale[c]
             /\ \A i \in 1..Len(Fresh(c)) : Fresh(c)[i] = orphans[c][stale[c] + i]
             /\ \A i \in 1..Len(Fresh(c)) : stale[c] + i \in 1..Len(orphans[c])
  <2> DEFINE m == stale[c] + 1
             n == Len(orphans[c])
  <2>1. m \in Int /\ n \in Int /\ \A i \in m..n : orphans[c][i] \in Nrs
    BY <1>1
  <2>2. /\ Fresh(c) \in Seq(Nrs) /\ Len(Fresh(c)) = IF m <= n THEN n - m + 1 ELSE 0
        /\ \A i \in 1..n - m + 1 : Fresh(c)[i] = orphans[c][m + i - 1]
    <3> HIDE DEF m, n
    <3>1. Fresh(c) = SubSeq(orphans[c], m, n)
      BY DEF Fresh, m, n
    <3>. QED BY <2>1, <3>1, SubSeqProperties
  <2>3. \A x, y \in Nat : x <= y =>
          /\ (IF x + 1 <= y THEN y - (x + 1) + 1 ELSE 0) = y - x /\ y - (x + 1) + 1 = y - x
          /\ \A i \in 1..y - x : x + 1 + i - 1 = x + i /\ x + i \in 1..y
    OBVIOUS
  <2>4. /\ Len(Fresh(c)) = n - stale[c] /\ n - m + 1 = n - stale[c]
        /\ \A i \in 1..n - stale[c] : m + i - 1 = stale[c] + i /\ stale[c] + i \in 1..n
    BY <1>1, <2>2, <2>3
  <2>5. \A i \in 1..n - stale[c] : Fresh(c)[i] = orphans[c][m + i - 1]
    BY <2>2, <2>4
  <2> HIDE DEF m
  <2>. QED BY <2>2, <2>4, <2>5
<1>3. kept \in [Bodies -> Nat] /\ \A c \in Bodies : kept[c] = Len(Fresh(c)) /\ kept[c] = Lens[c] - stale[c]
  BY <1>1, <1>2
<1>4. left = Cardinality(Units(kept)) /\ left \in Nat
  <2>1. StaleUnits = Cardinality(Units(stale))
    BY DEF StaleUnits, Units
  <2>2. Lens \in [Bodies -> Nat] /\ stale \in [Bodies -> Nat]
    BY LensTyped DEF OrphanTyped
  <2>3. Cardinality(Units(kept)) = Cardinality(Units(Lens)) - Cardinality(Units(stale))
    <3> HIDE DEF kept
    <3>. QED BY <1>1, <1>3, <2>2, UnitsLess
  <2>4. Cardinality(Units(kept)) \in Nat
    <3> HIDE DEF kept
    <3>. QED BY <1>3, UnitForms
  <2>. QED BY <2>1, <2>3, <2>4 DEF OrphanInv
<1>5. /\ orphans' = [c \in Bodies |-> IF c = b /\ room THEN Append(Fresh(c), nr) ELSE Fresh(c)]
      /\ stale' = [c \in Bodies |-> 0]
      /\ orphanUnits' = IF room THEN left + 1 ELSE left
      /\ lost' = lost \cup Swept \cup IF room THEN {} ELSE {<<b, nr>>}
  BY DEF BufferOrphan
<1> HIDE DEF left, kept
<1>6. \A c \in Bodies : \A i \in 1..stale[c] : <<c, orphans[c][i]>> \in Swept
  BY DEF Swept
<1>7. Swept \subseteq Bodies \X Nrs
  <2> SUFFICES ASSUME NEW c \in Bodies, NEW i \in 1..stale[c] PROVE <<c, orphans[c][i]>> \in Bodies \X Nrs
    BY DEF Swept
  <2>1. i \in 1..Len(orphans[c])
    BY <1>1
  <2>. QED BY <1>1, <2>1
<1>8. lost \subseteq lost' /\ lost' \subseteq Bodies \X Nrs /\ Swept \subseteq lost'
  BY <1>5, <1>7 DEF NetTyped
<1>9. \A c \in Bodies : \A i \in 1..Len(orphans[c]) :
        <<c, orphans[c][i]>> \in lost' \/ \E j \in 1..Len(Fresh(c)) : Fresh(c)[j] = orphans[c][i]
  <2> SUFFICES ASSUME NEW c \in Bodies, NEW i \in 1..Len(orphans[c]), i \notin 1..stale[c]
               PROVE  \E j \in 1..Len(Fresh(c)) : Fresh(c)[j] = orphans[c][i]
    BY <1>6, <1>8
  <2>1. i - stale[c] \in 1..Len(Fresh(c)) /\ stale[c] + (i - stale[c]) = i
    BY <1>1, <1>2
  <2>2. Fresh(c)[i - stale[c]] = orphans[c][i]
    BY <1>2, <2>1
  <2>. QED BY <2>1, <2>2
<1>10. \A c \in Bodies : \A j \in 1..Len(Fresh(c)) : \E i \in 1..Len(orphans[c]) : Fresh(c)[j] = orphans[c][i]
  BY <1>2
<1>11. ASSUME NEW c \in Bodies, NEW k
       PROVE  k \in Orphaned(c) <=> \E i \in 1..Len(orphans[c]) : orphans[c][i] = k
  <2>1. DOMAIN orphans[c] = 1..Len(orphans[c])
    BY LensTyped
  <2>. QED BY <2>1 DEF Orphaned
<1>12. ASSUME NEW c \in Bodies, orphans'[c] = Fresh(c)
       PROVE  /\ orphans'[c] \in Seq(Nrs) /\ Len(orphans'[c]) = kept[c]
              /\ \A k \in Nrs : k \in Orphaned(c)' => k \in Orphaned(c)
              /\ \A k \in Nrs : k \in Orphaned(c) => k \in Orphaned(c)' \/ <<c, k>> \in lost'
  <2>1. orphans'[c] \in Seq(Nrs) /\ DOMAIN orphans'[c] = 1..Len(Fresh(c))
    BY <1>2, <1>12, LenProperties
  <2>2. \A k : k \in Orphaned(c)' <=> \E i \in 1..Len(Fresh(c)) : Fresh(c)[i] = k
    BY <1>12, <2>1 DEF Orphaned
  <2>3. \A k \in Nrs : k \in Orphaned(c)' => k \in Orphaned(c)
    BY <1>10, <1>11, <2>2
  <2>4. \A k \in Nrs : k \in Orphaned(c) => k \in Orphaned(c)' \/ <<c, k>> \in lost'
    BY <1>9, <1>11, <2>2
  <2>. QED BY <1>3, <1>12, <2>1, <2>3, <2>4
<1>13. ASSUME orphans'[b] = Append(Fresh(b), nr)
       PROVE  /\ orphans'[b] \in Seq(Nrs) /\ Len(orphans'[b]) = kept[b] + 1
              /\ \A k \in Nrs : k \in Orphaned(b)' => k \in Orphaned(b) \/ k = nr
              /\ \A k \in Nrs : k \in Orphaned(b) \/ k = nr => k \in Orphaned(b)' \/ <<b, k>> \in lost'
  <2> DEFINE n == Len(Fresh(b))
  <2>0. n \in Nat
    BY <1>2, LenProperties
  <2>1. /\ orphans'[b] \in Seq(Nrs) /\ Len(orphans'[b]) = n + 1 /\ orphans'[b][n + 1] = nr
        /\ \A i \in 1..n : orphans'[b][i] = Fresh(b)[i]
    BY <1>2, <1>13, AppendProperties
  <2>2. DOMAIN orphans'[b] = 1..n + 1 /\ n + 1 \in 1..n + 1 /\ \A i \in 1..n + 1 : i \in 1..n \/ i = n + 1
    BY <2>0, <2>1, LenProperties
  <2>3. \A i \in 1..n : i \in DOMAIN orphans'[b]
    BY <2>0, <2>2
  <2>4. \A k \in Nrs : k \in Orphaned(b)' => k \in Orphaned(b) \/ k = nr
    BY <1>10, <1>11, <2>1, <2>2 DEF Orphaned
  <2>5. nr \in Orphaned(b)'
    BY <2>1, <2>2 DEF Orphaned
  <2>6. \A k \in Nrs : k \in Orphaned(b) => k \in Orphaned(b)' \/ <<b, k>> \in lost'
    <3>1. \A i \in 1..n : Fresh(b)[i] \in Orphaned(b)'
      BY <2>1, <2>3 DEF Orphaned
    <3>. QED BY <1>9, <1>11, <3>1
  <2>. QED BY <1>3, <2>1, <2>4, <2>5, <2>6
<1>14. CASE room
  <2>1. orphans'[b] = Append(Fresh(b), nr) /\ \A c \in Bodies \ {b} : orphans'[c] = Fresh(c)
    BY <1>5, <1>14
  <2>2. orphanUnits' = left + 1 /\ stale' = [c \in Bodies |-> 0]
    BY <1>5, <1>14
  <2>3. \A c \in Bodies : orphans'[c] \in Seq(Nrs)
    BY <1>12, <1>13, <2>1
  <2>4. OrphanTyped'
    BY <1>4, <1>5, <2>2, <2>3 DEF OrphanTyped
  <2>5. Lens' = [kept EXCEPT ![b] = @ + 1]
    <3>1. \A c \in Bodies : Len(orphans'[c]) = IF c = b THEN kept[c] + 1 ELSE kept[c]
      BY <1>3, <1>12, <1>13, <2>1
    <3>. QED BY <1>3, <3>1 DEF Lens
  <2>6. Cardinality(Units(Lens')) = left + 1
    BY <1>3, <1>4, <2>5, UnitMore
  <2>7. Cardinality(Units(Lens)') = left + 1
    BY <2>6 DEF Units
  <2>8. \A c \in Bodies : Len(orphans'[c]) \in Nat
    BY <2>3, LenProperties
  <2>9. OrphanInv'
    BY <1>14, <2>2, <2>7, <2>8 DEF OrphanInv
  <2>. QED BY <1>8, <1>12, <1>13, <2>1, <2>4, <2>9
<1>15. CASE ~room
  <2>1. \A c \in Bodies : orphans'[c] = Fresh(c)
    BY <1>5, <1>15
  <2>2. orphanUnits' = left /\ stale' = [c \in Bodies |-> 0] /\ <<b, nr>> \in lost'
    BY <1>5, <1>15
  <2>3. \A c \in Bodies : orphans'[c] \in Seq(Nrs)
    BY <1>12, <2>1
  <2>4. OrphanTyped'
    BY <1>4, <1>5, <2>2, <2>3 DEF OrphanTyped
  <2>5. Lens' = kept
    <3>1. \A c \in Bodies : Len(orphans'[c]) = kept[c]
      BY <1>12, <2>1
    <3>. QED BY <1>3, <3>1 DEF Lens
  <2>6. Cardinality(Units(Lens)') = left
    BY <1>4, <2>5 DEF Units
  <2>7. left <= MaxOrphans
    <3>1. StaleUnits \in Nat
      <4>1. StaleUnits = Cardinality(Units(stale))
        BY DEF StaleUnits, Units
      <4>. QED BY <4>1, UnitForms DEF OrphanTyped
    <3>. QED BY <3>1, RouterAssumption DEF left, OrphanInv, OrphanTyped, RouterAssumption
  <2>8. \A c \in Bodies : Len(orphans'[c]) \in Nat
    BY <2>3, LenProperties
  <2>9. OrphanInv'
    BY <2>2, <2>6, <2>7, <2>8 DEF OrphanInv
  <2>. QED BY <1>8, <1>12, <2>1, <2>2, <2>4, <2>9
<1>. QED BY <1>14, <1>15

-----------------------------------------------------------------------------
(* What a step does at the receiver, got the chunks that arrive with it:   *)
(* nothing of a body not finished goes missing, unless it counts as lost.  *)

NothingForged(got) ==
  \A c \in Bodies, k \in Nrs :
    Has(Reassembler(c), k)' \/ k \in Orphaned(c)'
      => Has(Reassembler(c), k) \/ k \in Orphaned(c) \/ <<c, k>> \in got

NothingMissing(got) ==
  \A c \in Bodies, k \in Nrs : reader'[c] \in {"none", "open"} =>
    /\ reader[c] \in {"none", "open"}
    /\ Has(Reassembler(c), k) \/ (reader[c] = "none" /\ k \in Orphaned(c)) \/ <<c, k>> \in got
         => Has(Reassembler(c), k)' \/ <<c, k>> \in lost' \/ (reader'[c] = "none" /\ k \in Orphaned(c)')

ReadersAdvance ==
  \A c \in Bodies :
    /\ nextNr'[c] >= nextNr[c]
    /\ reader[c] \notin {"none", "open"} => reader'[c] = reader[c] /\ nextNr'[c] = nextNr[c]

Moves(got) ==
  /\ ReaderTyped' /\ BodyInv' /\ OrphanTyped' /\ OrphanInv'
  /\ lost \subseteq lost' /\ lost' \subseteq Bodies \X Nrs
  /\ NothingForged(got) /\ NothingMissing(got) /\ ReadersAdvance

(* The orphans stay as they are. *)
LEMMA OrphansStay ==
  ASSUME OrphanTyped, OrphanInv, UNCHANGED orphanVars
  PROVE  OrphanTyped' /\ OrphanInv' /\ \A c \in Bodies : Orphaned(c)' = Orphaned(c)
<1>1. orphans' = orphans /\ stale' = stale /\ orphanUnits' = orphanUnits
  BY DEF orphanVars
<1>2. Cardinality(Units(Lens)') = Cardinality(Units(Lens))
  BY <1>1 DEF Units, Lens
<1>. QED BY <1>1, <1>2 DEF OrphanTyped, OrphanInv, Orphaned

LEMMA ReadersStay ==
  ASSUME ReaderTyped, BodyInv, UNCHANGED <<expected, readerVars>>
  PROVE  /\ ReaderTyped' /\ BodyInv' /\ ReadersAdvance
         /\ \A c \in Bodies : Reassembler(c)' = Reassembler(c) /\ reader'[c] = reader[c]
<1>1. UNCHANGED <<expected, reader, nextNr, lastNr, pending>>
  BY DEF readerVars
<1>2. \A c \in Bodies : Reassembler(c)' = Reassembler(c) /\ reader'[c] = reader[c]
  BY <1>1 DEF Reassembler
<1>3. \A c \in Bodies : nextNr[c] \in Nat
  BY RouterAssumption DEF ReaderTyped, RouterAssumption
<1>. QED BY <1>1, <1>2, <1>3 DEF ReaderTyped, BodyInv, ReadersAdvance

LEMMA ReceiveMoves ==
  ASSUME RouterInv, NEW b \in Bodies, NEW nr \in Nrs, Receive(b, nr)
  PROVE  Moves({<<b, nr>>})
<1> USE DEF RouterInv
<1>1. CASE ~listening
  <2>1. lost' = lost \cup {<<b, nr>>} /\ UNCHANGED <<expected, readerVars>> /\ UNCHANGED orphanVars
    BY <1>1 DEF Receive
  <2>2. /\ OrphanTyped' /\ OrphanInv' /\ \A c \in Bodies : Orphaned(c)' = Orphaned(c)
    BY <2>1, OrphansStay
  <2>3. /\ ReaderTyped' /\ BodyInv' /\ ReadersAdvance
        /\ \A c \in Bodies : Reassembler(c)' = Reassembler(c) /\ reader'[c] = reader[c]
    BY <2>1, ReadersStay
  <2>4. NothingForged({<<b, nr>>})
    BY <2>2, <2>3 DEF NothingForged, Has
  <2>5. NothingMissing({<<b, nr>>})
    BY <2>1, <2>2, <2>3 DEF NothingMissing, Has
  <2>. QED BY <2>1, <2>2, <2>3, <2>4, <2>5 DEF Moves, NetTyped
<1>2. CASE listening /\ b \in expected
  <2> DEFINE r == Reassembler(b)
             p == Push(r, nr)
  <2>1. Becomes(b, p) /\ UNCHANGED lost /\ UNCHANGED orphanVars
    BY <1>2 DEF Receive
  <2>2. /\ OrphanTyped' /\ OrphanInv' /\ \A c \in Bodies : Orphaned(c)' = Orphaned(c)
    BY <2>1, OrphansStay
  <2>3. r \in Reassemblers /\ r.reader = "open" /\ reader[b] = "open" /\ r.nextNr = nextNr[b] /\ Sound(r)
    BY <1>2, ReassemblerTyped DEF BodyInv
  <2>4. PushKeeps(r, {nr}, p)
    BY <2>3, PushGives
  <2> HIDE DEF p
  <2>5. /\ p \in Reassemblers /\ Sound(p) /\ p.reader \in {"open", "ended", "errored"} /\ p.nextNr >= r.nextNr
        /\ p.reader = "open" => \A k \in Nrs : Has(r, k) \/ k = nr => Has(p, k)
        /\ \A k \in Nrs : Has(p, k) => Has(r, k) \/ k = nr
    BY <2>3, <2>4 DEF PushKeeps
  <2>6. /\ ReaderTyped' /\ BodyInv' /\ reader'[b] = p.reader /\ nextNr'[b] = p.nextNr
        /\ Reassembler(b)' = p
        /\ \A c \in Bodies \ {b} : Reassembler(c)' = Reassembler(c) /\ reader'[c] = reader[c]
    BY <2>1, <2>5, BecomesSound
  <2>7. \A k \in Nrs : Has(Reassembler(b), k)' <=> Has(p, k)
    BY <2>6 DEF Has
  <2>8. \A c \in Bodies \ {b}, k \in Nrs : Has(Reassembler(c), k)' <=> Has(Reassembler(c), k)
    BY <2>6 DEF Has
  <2>9. NothingForged({<<b, nr>>})
    BY <2>2, <2>5, <2>7, <2>8 DEF NothingForged
  <2>10. NothingMissing({<<b, nr>>})
    BY <2>2, <2>3, <2>5, <2>6, <2>7, <2>8 DEF NothingMissing
  <2>11. ReadersAdvance
    <3>1. \A c \in Bodies \ {b} : nextNr'[c] = nextNr[c] /\ nextNr[c] \in Nat
      BY <2>1, RouterAssumption DEF Becomes, ReaderTyped, RouterAssumption
    <3>. QED BY <2>3, <2>5, <2>6, <3>1 DEF ReadersAdvance
  <2>. QED BY <2>1, <2>2, <2>6, <2>9, <2>10, <2>11 DEF Moves, NetTyped
<1>3. CASE listening /\ b \notin expected
  <2>1. BufferOrphan(b, nr) /\ UNCHANGED <<expected, readerVars>>
    BY <1>3 DEF Receive
  <2>2. /\ OrphanTyped' /\ OrphanInv' /\ lost \subseteq lost' /\ lost' \subseteq Bodies \X Nrs
        /\ \A c \in Bodies, k \in Nrs :
             k \in Orphaned(c)' => k \in Orphaned(c) \/ (c = b /\ k = nr)
        /\ \A c \in Bodies, k \in Nrs :
             k \in Orphaned(c) \/ (c = b /\ k = nr) => k \in Orphaned(c)' \/ <<c, k>> \in lost'
    BY <2>1, BufferOrphanKeeps
  <2>3. /\ ReaderTyped' /\ BodyInv' /\ ReadersAdvance
        /\ \A c \in Bodies : Reassembler(c)' = Reassembler(c) /\ reader'[c] = reader[c]
    BY <2>1, ReadersStay
  <2>4. \A c \in Bodies, k \in Nrs : Has(Reassembler(c), k)' <=> Has(Reassembler(c), k)
    BY <2>3 DEF Has
  <2>5. NothingForged({<<b, nr>>})
    BY <2>2, <2>4 DEF NothingForged
  <2>6. reader[b] # "open"
    BY <1>3 DEF BodyInv
  <2>7. NothingMissing({<<b, nr>>})
    BY <2>2, <2>3, <2>4, <2>6 DEF NothingMissing
  <2>. QED BY <2>2, <2>3, <2>5, <2>7 DEF Moves
<1>. QED BY <1>1, <1>2, <1>3

LEMMA ExpectMoves ==
  ASSUME RouterInv, NEW b \in Bodies, Expect(b)
  PROVE  Moves({})
<1> USE DEF RouterInv
<1> DEFINE r   == [Reassembler(b) EXCEPT !.reader = "open"]
           nrs == orphans[b]
           p   == Claimed(b)
           off == [c \in Bodies |-> IF c = b THEN Len(nrs) ELSE 0]
<1>1. /\ reader[b] = "none" /\ Becomes(b, p) /\ lost' = lost /\ orphanUnits' = orphanUnits - Len(nrs)
      /\ orphans' = [orphans EXCEPT ![b] = <<>>] /\ stale' = [stale EXCEPT ![b] = 0]
  BY DEF Expect
<1>2. /\ nrs \in Seq(Nrs) /\ Len(nrs) \in Nat /\ Among(nrs, Len(nrs)) = Orphaned(b)
  <2>1. nrs \in Seq(Nrs) /\ Len(nrs) \in Nat /\ DOMAIN nrs = 1..Len(nrs)
    BY LensTyped
  <2>. QED BY <2>1 DEF Among, Orphaned
<1>3. /\ r \in Reassemblers /\ Sound(r) /\ r.reader = "open" /\ r.nextNr = 0 /\ r.pending = {}
      /\ nextNr[b] = 0 /\ Reassembler(b).nextNr = 0 /\ Reassembler(b).pending = {}
  <2>1. nextNr[b] = 0 /\ pending[b] = {}
    BY <1>1 DEF BodyInv
  <2>2. /\ Reassembler(b) \in Reassemblers
        /\ Reassembler(b).nextNr = nextNr[b] /\ Reassembler(b).pending = pending[b]
    BY ReassemblerTyped
  <2>3. r \in Reassemblers /\ r.reader = "open" /\ r.nextNr = nextNr[b] /\ r.pending = pending[b]
    BY <2>2 DEF Reassemblers
  <2>. QED BY <2>1, <2>2, <2>3, RouterAssumption DEF Sound, RouterAssumption
<1>4. PushKeeps(r, Orphaned(b), p)
  BY <1>2, <1>3, PushAllGives DEF Claimed
<1>5. /\ p \in Reassemblers /\ Sound(p) /\ p.reader \in {"open", "ended", "errored"} /\ p.nextNr >= r.nextNr
      /\ p.reader = "open" => \A k \in Nrs : Has(r, k) \/ k \in Orphaned(b) => Has(p, k)
      /\ \A k \in Nrs : Has(p, k) => Has(r, k) \/ k \in Orphaned(b)
  BY <1>3, <1>4 DEF PushKeeps
<1>6. \A k \in Nrs : Has(r, k) <=> Has(Reassembler(b), k)
  BY <1>3 DEF Has
<1> HIDE DEF p, r
<1>7. /\ ReaderTyped' /\ BodyInv' /\ reader'[b] = p.reader /\ nextNr'[b] = p.nextNr
      /\ Reassembler(b)' = p
      /\ \A c \in Bodies \ {b} : Reassembler(c)' = Reassembler(c) /\ reader'[c] = reader[c]
  BY <1>1, <1>5, BecomesSound
<1>8. /\ orphans'[b] = <<>> /\ \A c \in Bodies \ {b} : orphans'[c] = orphans[c]
      /\ stale'[b] = 0 /\ \A c \in Bodies \ {b} : stale'[c] = stale[c]
  BY <1>1 DEF OrphanTyped
<1>9. /\ orphans' \in [Bodies -> Seq(Nrs)] /\ stale' \in [Bodies -> Nat]
  <2>1. <<>> \in Seq(Nrs)
    OBVIOUS
  <2>. QED BY <1>1, <2>1 DEF OrphanTyped
<1>10. orphanUnits' = Cardinality(Units(Lens)')
  <2>1. /\ Lens \in [Bodies -> Nat] /\ off \in [Bodies -> Nat] /\ Lens' \in [Bodies -> Nat]
        /\ Lens'[b] = 0 /\ \A c \in Bodies \ {b} : Lens'[c] = Lens[c]
        /\ \A c \in Bodies : Lens[c] = Len(orphans[c])
    <3>1. Lens \in [Bodies -> Nat] /\ off \in [Bodies -> Nat] /\ \A c \in Bodies : Lens[c] = Len(orphans[c])
      BY <1>2, LensTyped
    <3>2. \A c \in Bodies : Len(orphans'[c]) = IF c = b THEN 0 ELSE Lens[c]
      BY <1>8, <3>1
    <3>. QED BY <3>1, <3>2 DEF Lens
  <2>2. \A c \in Bodies : off[c] <= Lens[c] /\ Lens'[c] = Lens[c] - off[c]
    BY <1>2, <2>1
  <2>3. Cardinality(Units(off)) = Len(nrs)
    <3>1. Units(off) = {b} \X (1..Len(nrs))
      <4>1. \A c \in Bodies : off[c] = IF c = b THEN Len(nrs) ELSE 0
        OBVIOUS
      <4>2. \A u \in Units(off) : u \in {b} \X (1..Len(nrs))
        BY <2>1, <4>1, <1>2, UnitForms
      <4>3. \A i \in 1..Len(nrs) : <<b, i>> \in Units(off)
        BY <2>1, <4>1, UnitForms
      <4>. QED BY <4>2, <4>3
    <3>2. IsFiniteSet({b}) /\ Cardinality({b}) = 1
      BY FS_Singleton
    <3>3. IsFiniteSet(1..Len(nrs)) /\ Cardinality(1..Len(nrs)) = Len(nrs)
      BY <1>2, FS_Interval
    <3>4. Cardinality({b} \X (1..Len(nrs))) = 1 * Len(nrs)
      BY <3>2, <3>3, FS_Product
    <3>5. 1 * Len(nrs) = Len(nrs)
      BY <1>2
    <3> HIDE DEF off, nrs
    <3>. QED BY <3>1, <3>4, <3>5
  <2>4. Cardinality(Units(Lens')) = Cardinality(Units(Lens)) - Cardinality(Units(off))
    <3> HIDE DEF off
    <3>. QED BY <2>1, <2>2, UnitsLess
  <2>5. Units(Lens)' = Units(Lens')
    BY DEF Units
  <2>. QED BY <1>1, <2>3, <2>4, <2>5 DEF OrphanInv
<1>11. OrphanTyped'
  <2>1. Lens' \in [Bodies -> Nat]
    <3>1. \A c \in Bodies : Len(orphans'[c]) \in Nat
      BY <1>9, LenProperties
    <3>. QED BY <3>1 DEF Lens
  <2>2. Cardinality(Units(Lens')) \in Nat
    BY <2>1, UnitForms
  <2>3. Units(Lens)' = Units(Lens')
    BY DEF Units
  <2>. QED BY <1>9, <1>10, <2>2, <2>3 DEF OrphanTyped
<1>12. OrphanInv'
  <2>1. orphanUnits' <= MaxOrphans
    BY <1>1, <1>2, RouterAssumption DEF OrphanInv, OrphanTyped, RouterAssumption
  <2>2. \A c \in Bodies : stale'[c] <= Len(orphans'[c])
    BY <1>8 DEF OrphanInv
  <2>. QED BY <1>10, <2>1, <2>2 DEF OrphanInv
<1>13. Orphaned(b)' = {} /\ \A c \in Bodies \ {b} : Orphaned(c)' = Orphaned(c)
  BY <1>8 DEF Orphaned
<1>14. /\ \A k \in Nrs : Has(Reassembler(b), k)' <=> Has(p, k)
       /\ \A c \in Bodies \ {b}, k \in Nrs : Has(Reassembler(c), k)' <=> Has(Reassembler(c), k)
  BY <1>7 DEF Has
<1>15. NothingForged({})
  BY <1>5, <1>6, <1>13, <1>14 DEF NothingForged
<1>16. NothingMissing({})
  BY <1>1, <1>5, <1>6, <1>7, <1>13, <1>14 DEF NothingMissing
<1>17. ReadersAdvance
  <2>1. \A c \in Bodies \ {b} : nextNr'[c] = nextNr[c] /\ nextNr[c] \in Nat
    BY <1>1, RouterAssumption DEF Becomes, ReaderTyped, RouterAssumption
  <2>. QED BY <1>1, <1>3, <1>5, <1>7, <2>1 DEF ReadersAdvance
<1>. QED BY <1>1, <1>7, <1>11, <1>12, <1>15, <1>16, <1>17 DEF Moves, NetTyped

LEMMA EndsMoves ==
  ASSUME RouterInv, NEW b \in Bodies, NEW how \in {"errored", "cancelled"}, Ends(b, how)
  PROVE  Moves({})
<1> USE DEF RouterInv
<1> DEFINE p == Finish(Reassembler(b), how)
<1>1. /\ reader[b] = "open" /\ Becomes(b, p) /\ lost' = lost /\ UNCHANGED orphanVars
  BY DEF Ends
<1>2. OrphanTyped' /\ OrphanInv' /\ \A c \in Bodies : Orphaned(c)' = Orphaned(c)
  BY <1>1, OrphansStay
<1>3. /\ p \in Reassemblers /\ p.reader = how /\ p.nextNr = nextNr[b] /\ p.pending = {}
      /\ Reassembler(b).nextNr = nextNr[b]
  BY ReassemblerTyped DEF Finish, Reassemblers
<1> HIDE DEF p
<1>4. Sound(p) /\ p.reader \notin {"none", "open"}
  BY <1>3 DEF Sound
<1>5. /\ ReaderTyped' /\ BodyInv' /\ reader'[b] = how /\ nextNr'[b] = nextNr[b] /\ Reassembler(b)' = p
      /\ \A c \in Bodies \ {b} : Reassembler(c)' = Reassembler(c) /\ reader'[c] = reader[c]
  BY <1>1, <1>3, <1>4, BecomesSound
<1>6. /\ \A k \in Nrs : Has(Reassembler(b), k)' => Has(Reassembler(b), k)
      /\ \A c \in Bodies \ {b}, k \in Nrs : Has(Reassembler(c), k)' <=> Has(Reassembler(c), k)
  BY <1>3, <1>5 DEF Has
<1>7. NothingForged({})
  BY <1>2, <1>6 DEF NothingForged
<1>8. NothingMissing({})
  BY <1>2, <1>5, <1>6 DEF NothingMissing
<1>9. ReadersAdvance
  <2>1. \A c \in Bodies \ {b} : nextNr'[c] = nextNr[c]
    BY <1>1 DEF Becomes, ReaderTyped
  <2>2. \A c \in Bodies : nextNr[c] \in Nat
    BY RouterAssumption DEF ReaderTyped, RouterAssumption
  <2>. QED BY <1>1, <1>5, <2>1, <2>2 DEF ReadersAdvance
<1>. QED BY <1>1, <1>2, <1>5, <1>7, <1>8, <1>9 DEF Moves, NetTyped

LEMMA ReleaseMoves ==
  ASSUME RouterInv, Release
  PROVE  Moves({})
<1> USE DEF RouterInv
<1>1. /\ reader' = [b \in Bodies |-> IF b \in expected THEN "errored" ELSE reader[b]]
      /\ pending' = [b \in Bodies |-> IF b \in expected THEN {} ELSE pending[b]]
      /\ expected' = {} /\ orphans' = [b \in Bodies |-> <<>>] /\ stale' = [b \in Bodies |-> 0]
      /\ orphanUnits' = 0 /\ nextNr' = nextNr /\ lastNr' = lastNr
      /\ lost' = lost \cup UNION {{<<b, orphans[b][i]>> : i \in DOMAIN orphans[b]} : b \in Bodies}
  BY DEF Release
<1>2. \A b \in Bodies : /\ orphans'[b] = <<>> /\ Orphaned(b)' = {} /\ Len(orphans'[b]) = 0
                        /\ \A k \in Orphaned(b) : <<b, k>> \in lost'
  BY <1>1 DEF Orphaned
<1>3. lost \subseteq lost' /\ lost' \subseteq Bodies \X Nrs
  <2>1. \A b \in Bodies : Orphaned(b) \subseteq Nrs
    BY LensTyped
  <2>. QED BY <1>1, <2>1 DEF NetTyped, Orphaned
<1>4. ReaderTyped'
  BY <1>1 DEF ReaderTyped
<1>5. OrphanTyped'
  <2>1. <<>> \in Seq(Nrs)
    OBVIOUS
  <2>. QED BY <1>1, <2>1 DEF OrphanTyped
<1>6. OrphanInv'
  <2>1. Lens' = [b \in Bodies |-> 0]
    BY <1>1 DEF Lens
  <2>2. Units(Lens)' = {}
    BY <2>1 DEF Units
  <2>3. Cardinality(Units(Lens)') = 0
    BY <2>2, FS_EmptySet
  <2>. QED BY <1>1, <1>2, <2>3, RouterAssumption DEF OrphanInv, RouterAssumption
<1>7. \A b \in Bodies :
        /\ b \in expected => reader[b] = "open" /\ reader'[b] = "errored" /\ pending'[b] = {}
        /\ b \notin expected => reader[b] # "open" /\ reader'[b] = reader[b] /\ pending'[b] = pending[b]
  BY <1>1 DEF BodyInv
<1>8. \A b \in Bodies :
        /\ b \in expected => /\ Reassembler(b)'.reader = "errored" /\ Reassembler(b)'.pending = {}
                             /\ Reassembler(b)'.nextNr = Reassembler(b).nextNr
        /\ b \notin expected => Reassembler(b)' = Reassembler(b)
  BY <1>1, <1>7 DEF Reassembler
<1>9. BodyInv'
  <2>1. \A b \in Bodies : Sound(Reassembler(b))'
    BY <1>8 DEF BodyInv, Sound
  <2>. QED BY <1>1, <1>7, <2>1 DEF BodyInv
<1>10. \A b \in Bodies, k \in Nrs :
         /\ Has(Reassembler(b), k)' => Has(Reassembler(b), k)
         /\ b \notin expected => (Has(Reassembler(b), k)' <=> Has(Reassembler(b), k))
  BY <1>8 DEF Has
<1>11. NothingForged({})
  BY <1>2, <1>10 DEF NothingForged
<1>12. NothingMissing({})
  BY <1>2, <1>7, <1>10 DEF NothingMissing
<1>13. ReadersAdvance
  <2>1. \A c \in Bodies : nextNr[c] \in Nat
    BY RouterAssumption DEF ReaderTyped, RouterAssumption
  <2>. QED BY <1>1, <1>7, <2>1 DEF ReadersAdvance
<1>. QED BY <1>3, <1>4, <1>5, <1>6, <1>9, <1>11, <1>12, <1>13 DEF Moves

LEMMA QuietMoves ==
  ASSUME RouterInv, UNCHANGED <<expected, readerVars>>, UNCHANGED <<orphans, orphanUnits>>,
         stale' \in [Bodies -> Nat], \A b \in Bodies : stale'[b] <= Len(orphans[b]),
         lost \subseteq lost', lost' \subseteq Bodies \X Nrs
  PROVE  Moves({})
<1> USE DEF RouterInv
<1>1. /\ ReaderTyped' /\ BodyInv' /\ ReadersAdvance
      /\ \A c \in Bodies : Reassembler(c)' = Reassembler(c) /\ reader'[c] = reader[c]
  BY ReadersStay
<1>2. \A c \in Bodies : Orphaned(c)' = Orphaned(c)
  BY DEF Orphaned
<1>3. OrphanTyped' /\ OrphanInv'
  <2>1. Cardinality(Units(Lens)') = Cardinality(Units(Lens))
    BY DEF Units, Lens
  <2>. QED BY <2>1 DEF OrphanTyped, OrphanInv
<1>4. NothingForged({}) /\ NothingMissing({})
  BY <1>1, <1>2 DEF NothingForged, NothingMissing, Has
<1>. QED BY <1>1, <1>3, <1>4 DEF Moves

(* What arrives was on its way or was sent before; the rest stays.         *)
LEMMA MovesKeep ==
  ASSUME RouterInv, NEW got \in SUBSET (Bodies \X Nrs), Moves(got), UNCHANGED sent, NetTyped',
         \A c \in Bodies, k \in Nrs : <<c, k>> \in got => k < sent[c],
         air' \subseteq air, air \subseteq air' \cup got \cup lost'
  PROVE  RouterInv'
<1> USE DEF RouterInv, Moves
<1>1. SentInv'
  <2> SUFFICES ASSUME NEW b \in Bodies, NEW k \in Nrs,
                      Has(Reassembler(b), k)' \/ k \in Orphaned(b)' \/ <<b, k>> \in air'
               PROVE  k < sent[b]
    BY DEF SentInv
  <2>1. Has(Reassembler(b), k) \/ k \in Orphaned(b) \/ <<b, k>> \in got \/ <<b, k>> \in air
    BY DEF NothingForged
  <2>. QED BY <2>1 DEF SentInv
<1>2. KeptInv'
  <2> SUFFICES ASSUME NEW b \in Bodies, NEW k \in Nrs, k < sent[b], reader'[b] \in {"none", "open"}
               PROVE  \/ Has(Reassembler(b), k)' \/ <<b, k>> \in air' \cup lost'
                      \/ reader'[b] = "none" /\ k \in Orphaned(b)'
    BY DEF KeptInv
  <2>1. reader[b] \in {"none", "open"}
    BY DEF NothingMissing
  <2>2. \/ Has(Reassembler(b), k) \/ <<b, k>> \in air \cup lost
        \/ reader[b] = "none" /\ k \in Orphaned(b)
    BY <2>1 DEF KeptInv
  <2>3. \/ Has(Reassembler(b), k) \/ (reader[b] = "none" /\ k \in Orphaned(b)) \/ <<b, k>> \in got
        \/ <<b, k>> \in air' \cup lost'
    BY <2>2
  <2>. QED BY <2>3 DEF NothingMissing
<1>. QED BY <1>1, <1>2

-----------------------------------------------------------------------------
(* The invariant is kept. *)

LEMMA InitSound == Init => RouterInv
<1> SUFFICES ASSUME Init PROVE RouterInv
  OBVIOUS
<1> USE RouterAssumption DEF Init, RouterAssumption
<1>1. NetTyped /\ ReaderTyped
  BY DEF NetTyped, ReaderTyped
<1>2. OrphanTyped
  <2>1. <<>> \in Seq(Nrs)
    OBVIOUS
  <2>. QED BY <2>1 DEF OrphanTyped
<1>3. \A b \in Bodies : /\ Reassembler(b).reader = "none" /\ Reassembler(b).nextNr = 0
                        /\ Reassembler(b).pending = {} /\ Orphaned(b) = {} /\ Len(orphans[b]) = 0
  BY DEF Reassembler, Orphaned
<1>4. BodyInv
  BY <1>3 DEF BodyInv, Sound
<1>5. SentInv /\ KeptInv
  BY <1>3 DEF SentInv, KeptInv, Has, Nrs
<1>6. OrphanInv
  <2>1. \A b \in Bodies : Lens[b] = 0
    BY <1>3 DEF Lens
  <2>2. Units(Lens) = {}
    BY <2>1 DEF Units
  <2>3. Cardinality(Units(Lens)) = 0
    BY <2>2, FS_EmptySet
  <2>. QED BY <1>3, <2>3 DEF OrphanInv
<1>. QED BY <1>1, <1>2, <1>4, <1>5, <1>6 DEF RouterInv

LEMMA SenderSteps ==
  ASSUME RouterInv, NEW b \in Bodies, SendChunk(b) \/ AbortSend(b)
  PROVE  RouterInv'
<1> USE DEF RouterInv
<1>1. /\ ReaderTyped' /\ BodyInv'
      /\ \A c \in Bodies : Reassembler(c)' = Reassembler(c) /\ reader'[c] = reader[c]
  <2>1. UNCHANGED <<expected, readerVars>>
    BY DEF SendChunk, AbortSend
  <2>. QED BY <2>1, ReadersStay
<1>2. OrphanTyped' /\ OrphanInv' /\ \A c \in Bodies : Orphaned(c)' = Orphaned(c)
  <2>1. UNCHANGED orphanVars
    BY DEF SendChunk, AbortSend
  <2>. QED BY <2>1, OrphansStay
<1>3. CASE SendChunk(b)
  <2>1. /\ sent[b] \in Nrs /\ sent' = [sent EXCEPT ![b] = @ + 1] /\ air' = air \cup {<<b, sent[b]>>}
        /\ lost' = lost /\ aborted' = aborted /\ replays' = replays /\ listening' = listening
    BY <1>3, RouterAssumption DEF SendChunk, NetTyped, Nrs, RouterAssumption
  <2>2. /\ sent'[b] = sent[b] + 1 /\ \A c \in Bodies \ {b} : sent'[c] = sent[c]
        /\ \A c \in Bodies : sent[c] \in Nat
    BY <2>1, RouterAssumption DEF NetTyped, RouterAssumption
  <2>3. NetTyped'
    <3>1. sent[b] + 1 \in 0..Chunks
      BY <2>1, RouterAssumption DEF Nrs, RouterAssumption
    <3>. QED BY <2>1, <3>1 DEF NetTyped
  <2>4. \A k \in Nrs : k \in Int
    BY DEF Nrs
  <2>5. SentInv'
    <3> SUFFICES ASSUME NEW c \in Bodies, NEW k \in Nrs,
                        Has(Reassembler(c), k)' \/ k \in Orphaned(c)' \/ <<c, k>> \in air'
                 PROVE  k < sent'[c]
      BY DEF SentInv
    <3>1. Has(Reassembler(c), k) \/ k \in Orphaned(c) \/ <<c, k>> \in air \/ (c = b /\ k = sent[b])
      BY <1>1, <1>2, <2>1 DEF Has
    <3>2. k < sent[c] \/ (c = b /\ k = sent[b])
      BY <3>1 DEF SentInv
    <3>. QED BY <2>2, <2>4, <3>2
  <2>6. KeptInv'
    <3> SUFFICES ASSUME NEW c \in Bodies, NEW k \in Nrs, k < sent'[c], reader'[c] \in {"none", "open"}
                 PROVE  \/ Has(Reassembler(c), k)' \/ <<c, k>> \in air' \cup lost'
                        \/ reader'[c] = "none" /\ k \in Orphaned(c)'
      BY DEF KeptInv
    <3>1. k < sent[c] \/ <<c, k>> = <<b, sent[b]>>
      BY <2>2, <2>4
    <3>2. \/ Has(Reassembler(c), k) \/ <<c, k>> \in air' \cup lost
          \/ reader[c] = "none" /\ k \in Orphaned(c)
      BY <1>1, <2>1, <3>1 DEF KeptInv
    <3>. QED BY <1>1, <1>2, <2>1, <3>2 DEF Has
  <2>. QED BY <1>1, <1>2, <2>3, <2>5, <2>6
<1>4. CASE AbortSend(b)
  <2>1. /\ sent' = sent /\ air' = air /\ lost' = lost /\ replays' = replays /\ listening' = listening
        /\ aborted' \in [Bodies -> BOOLEAN]
    BY <1>4 DEF AbortSend, NetTyped
  <2>2. NetTyped'
    BY <2>1 DEF NetTyped
  <2>3. SentInv' /\ KeptInv'
    BY <1>1, <1>2, <2>1 DEF SentInv, KeptInv, Has
  <2>. QED BY <1>1, <1>2, <2>2, <2>3
<1>. QED BY <1>3, <1>4

(* A step is the sender's, or the reader only gets on by it. *)
LEMMA ReceiverSteps ==
  ASSUME RouterInv, [Next]_vars, ~\E b \in Bodies : SendChunk(b) \/ AbortSend(b)
  PROVE  RouterInv' /\ ReadersAdvance /\ UNCHANGED senderVars
<1> USE DEF RouterInv
<1>1. ASSUME NEW got \in SUBSET (Bodies \X Nrs), Moves(got), UNCHANGED senderVars,
             replays' \in 0..MaxReplays, listening' \in BOOLEAN,
             \A c \in Bodies, k \in Nrs : <<c, k>> \in got => k < sent[c],
             air' \subseteq air, air \subseteq air' \cup got \cup lost'
      PROVE  RouterInv' /\ ReadersAdvance /\ UNCHANGED senderVars
  <2>1. sent' = sent /\ aborted' = aborted
    BY <1>1 DEF senderVars
  <2>2. NetTyped'
    BY <1>1, <2>1 DEF NetTyped, Moves
  <2>3. RouterInv'
    BY <1>1, <2>1, <2>2, MovesKeep
  <2>. QED BY <1>1, <2>3 DEF Moves
<1>2. ASSUME Moves({}), UNCHANGED <<senderVars, air, replays>>, listening' \in BOOLEAN
      PROVE  RouterInv' /\ ReadersAdvance /\ UNCHANGED senderVars
  <2>1. replays' \in 0..MaxReplays
    BY <1>2 DEF NetTyped
  <2>. QED BY <1>1, <1>2, <2>1
<1>3. CASE Deliver
  <2>1. PICK c \in air : air' = air \ {c} /\ Receive(c[1], c[2])
    BY <1>3 DEF Deliver
  <2>2. UNCHANGED <<senderVars, replays, listening>>
    BY <1>3 DEF Deliver
  <2>3. c = <<c[1], c[2]>> /\ c[1] \in Bodies /\ c[2] \in Nrs
    BY DEF NetTyped
  <2>4. Moves({c})
    BY <2>1, <2>3, ReceiveMoves
  <2>5. \A d \in Bodies, k \in Nrs : <<d, k>> \in {c} => k < sent[d]
    BY DEF SentInv
  <2>6. {c} \in SUBSET (Bodies \X Nrs) /\ replays' \in 0..MaxReplays /\ listening' \in BOOLEAN
    BY <2>2, <2>3 DEF NetTyped
  <2>. QED BY <1>1, <2>1, <2>2, <2>4, <2>5, <2>6
<1>4. CASE Replay
  <2>0. PICK b \in Bodies : \E nr \in 0..sent[b] - 1 : Receive(b, nr)
    BY <1>4 DEF Replay
  <2>1. PICK nr \in 0..sent[b] - 1 : Receive(b, nr)
    BY <2>0
  <2>2. UNCHANGED <<senderVars, air, listening>> /\ replays < MaxReplays /\ replays' = replays + 1
    BY <1>4 DEF Replay
  <2>3. sent[b] \in 0..Chunks
    BY DEF NetTyped
  <2>4. nr \in Nrs /\ nr < sent[b]
    BY <2>3, RouterAssumption DEF Nrs, RouterAssumption
  <2>5. Moves({<<b, nr>>})
    BY <2>1, <2>4, ReceiveMoves
  <2>6. replays' \in 0..MaxReplays /\ listening' \in BOOLEAN
    BY <2>2, RouterAssumption DEF NetTyped, RouterAssumption
  <2>7. {<<b, nr>>} \in SUBSET (Bodies \X Nrs) /\ \A d \in Bodies, k \in Nrs : <<d, k>> \in {<<b, nr>>} => k < sent[d]
    BY <2>4
  <2>. QED BY <1>1, <2>2, <2>5, <2>6, <2>7
<1>5. CASE Lose
  <2>1. PICK c \in air : air' = air \ {c} /\ lost' = lost \cup {c}
    BY <1>5 DEF Lose
  <2>2. UNCHANGED <<senderVars, replays, listening>> /\ UNCHANGED <<expected, readerVars>> /\ UNCHANGED orphanVars
    BY <1>5 DEF Lose
  <2>3. c \in Bodies \X Nrs
    BY DEF NetTyped
  <2>4. Moves({})
    <3>1. UNCHANGED <<orphans, orphanUnits>> /\ stale' \in [Bodies -> Nat] /\ \A b \in Bodies : stale'[b] <= Len(orphans[b])
      BY <2>2 DEF orphanVars, OrphanTyped, OrphanInv
    <3>2. lost \subseteq lost' /\ lost' \subseteq Bodies \X Nrs
      BY <2>1, <2>3 DEF NetTyped
    <3>. QED BY <2>2, <3>1, <3>2, QuietMoves
  <2>5. {} \in SUBSET (Bodies \X Nrs) /\ replays' \in 0..MaxReplays /\ listening' \in BOOLEAN
    BY <2>2 DEF NetTyped
  <2>6. air' \subseteq air /\ air \subseteq air' \cup {} \cup lost'
    BY <2>1
  <2>. QED BY <1>1, <2>2, <2>4, <2>5, <2>6
<1>6. ASSUME GoStale \/ Acquire \/ UNCHANGED vars
      PROVE  RouterInv' /\ ReadersAdvance /\ UNCHANGED senderVars
  <2>1. /\ UNCHANGED <<senderVars, air, replays, lost>> /\ UNCHANGED <<expected, readerVars>>
        /\ UNCHANGED <<orphans, orphanUnits>> /\ listening' \in BOOLEAN
    BY <1>6 DEF GoStale, Acquire, vars, orphanVars, NetTyped
  <2>2. \A b \in Bodies : Len(orphans[b]) \in Nat
    BY LensTyped
  <2>3. stale' \in [Bodies -> Nat] /\ \A b \in Bodies : stale'[b] <= Len(orphans[b])
    <3>1. CASE GoStale
      BY <2>2, <3>1 DEF GoStale
    <3>2. CASE Acquire \/ UNCHANGED vars
      BY <3>2 DEF Acquire, vars, orphanVars, OrphanTyped, OrphanInv
    <3>. QED BY <1>6, <3>1, <3>2
  <2>4. Moves({})
    <3>1. lost \subseteq lost' /\ lost' \subseteq Bodies \X Nrs
      BY <2>1 DEF NetTyped
    <3>. QED BY <2>1, <2>3, <3>1, QuietMoves
  <2>. QED BY <1>2, <2>1, <2>4
<1>7. CASE Release
  <2>1. UNCHANGED <<senderVars, air, replays>> /\ listening' \in BOOLEAN
    BY <1>7 DEF Release
  <2>. QED BY <1>2, <1>7, <2>1, ReleaseMoves
<1>8. ASSUME NEW b \in Bodies, Expect(b) \/ Cancel(b) \/ IdleTimeout(b)
      PROVE  RouterInv' /\ ReadersAdvance /\ UNCHANGED senderVars
  <2>1. Moves({})
    <3>1. CASE Expect(b)
      BY <3>1, ExpectMoves
    <3>2. CASE Cancel(b) \/ IdleTimeout(b)
      BY <3>2, EndsMoves DEF Cancel, IdleTimeout
    <3>. QED BY <1>8, <3>1, <3>2
  <2>2. UNCHANGED <<senderVars, air, replays>> /\ listening' \in BOOLEAN
    BY <1>8 DEF Expect, Cancel, IdleTimeout, Ends, NetTyped
  <2>. QED BY <1>2, <2>1, <2>2
<1>. QED BY <1>3, <1>4, <1>5, <1>6, <1>7, <1>8 DEF Next

(* The invariant holds in every state. *)
THEOREM RouterIsSound == Spec => []RouterInv
<1>1. RouterInv /\ [Next]_vars => RouterInv'
  BY SenderSteps, ReceiverSteps
<1>. QED BY <1>1, InitSound, PTL DEF Spec

-----------------------------------------------------------------------------
(* Every variable keeps its type: the counter of the orphans' units never  *)
(* goes below zero, however they are buffered, swept and handed over.      *)
THEOREM TypeCorrect == Spec => []TypeOK
<1>1. RouterInv => TypeOK
  BY DEF RouterInv, NetTyped, ReaderTyped, OrphanTyped, TypeOK
<1>. QED BY <1>1, RouterIsSound, PTL

(* #orphanBytes is always what the orphans of all bodies weigh together,   *)
(* and never above their common budget.                                    *)
THEOREM OrphansAreConserved == Spec => []OrphansConserved
<1>1. RouterInv => OrphansConserved
  BY WeightIs DEF RouterInv, OrphanInv, OrphansConserved
<1>. QED BY <1>1, RouterIsSound, PTL

(* Of a body being read no chunk sent is forgotten: it is on its way, was  *)
(* given to the reader, waits for its turn, or was lost or given up.       *)
THEOREM NothingIsForgotten == Spec => []NoChunkForgotten
<1>1. RouterInv => NoChunkForgotten
  <2> SUFFICES ASSUME RouterInv, NEW b \in expected, NEW nr \in 0..sent[b] - 1
               PROVE  nr < nextNr[b] \/ nr \in pending[b] \/ <<b, nr>> \in air \cup lost
    BY DEF NoChunkForgotten
  <2>1. b \in Bodies /\ reader[b] = "open" /\ sent[b] \in 0..Chunks
    BY DEF RouterInv, ReaderTyped, BodyInv, NetTyped
  <2>2. nr \in Nrs /\ nr < sent[b]
    BY <2>1, RouterAssumption DEF Nrs, RouterAssumption
  <2>3. Has(Reassembler(b), nr) \/ <<b, nr>> \in air \cup lost
    BY <2>1, <2>2 DEF RouterInv, KeptInv
  <2>. QED BY <2>3 DEF Has, Reassembler
<1>. QED BY <1>1, RouterIsSound, PTL

-----------------------------------------------------------------------------
(* A chunked body keeps the promise of a bytestream: its reader is given   *)
(* the chunks in order, each once, and a clean end only after the last,    *)
(* whatever the network does.                                              *)

Writer == IF aborted[Told] THEN "failed" ELSE IF sent[Told] = Chunks THEN "closing" ELSE "open"
Ending == IF reader[Told] = "ended" THEN "ended"
          ELSE IF reader[Told] \in {"errored", "cancelled"} THEN "broken" ELSE "open"

LEMMA AdvanceIsPromised ==
  ASSUME RouterInv, RouterInv', ReadersAdvance, UNCHANGED senderVars
  PROVE  [Promise!Next]_(Promise!vars)
<1> DEFINE n == nextNr[Told]
<1>1. /\ Told \in Bodies /\ Chunks \in Nat \ {0}
  BY RouterAssumption DEF RouterAssumption
<1>2. sent' = sent /\ aborted' = aborted
  BY DEF senderVars
<1>3. /\ n \in Nat /\ n' \in Nat /\ n' <= Chunks /\ sent[Told] \in Nat /\ sent[Told] <= Chunks
      /\ aborted[Told] \in BOOLEAN
      /\ reader[Told] \in {"none", "open", "ended", "errored", "cancelled"}
      /\ reader'[Told] \in {"none", "open", "ended", "errored", "cancelled"}
  BY <1>1 DEF RouterInv, ReaderTyped, NetTyped
<1>4. n' <= sent[Told]
  <2>1. CASE n' = 0
    BY <1>3, <2>1
  <2>2. CASE n' # 0
    <3>1. n' - 1 \in Nrs /\ n' - 1 < n'
      BY <1>1, <1>3, <2>2 DEF Nrs
    <3>2. n' - 1 < sent'[Told]
      <4> DEFINE k == n' - 1
      <4>1. k \in Nrs /\ Has(Reassembler(Told)', k)
        BY <3>1 DEF Has, Reassembler
      <4> HIDE DEF k
      <4>2. \A j \in Nrs : Has(Reassembler(Told)', j) => j < sent'[Told]
        BY <1>1 DEF RouterInv, SentInv, Has
      <4>3. k < sent'[Told]
        BY <4>1, <4>2
      <4>. QED BY <4>3 DEF k
    <3>. QED BY <1>2, <1>3, <3>2
  <2>. QED BY <2>1, <2>2
<1>5. /\ n' >= n
      /\ reader[Told] \notin {"none", "open"} => reader'[Told] = reader[Told] /\ n' = n
  BY <1>1 DEF ReadersAdvance
<1>6. reader[Told] \in {"none", "open"} => n < Chunks
  <2>1. Reassembler(Told).reader = reader[Told] /\ Reassembler(Told).nextNr = n
    BY DEF Reassembler
  <2>. QED BY <1>1, <2>1 DEF RouterInv, BodyInv, Sound
<1>7. reader'[Told] = "ended" => n' = Chunks
  <2>1. Reassembler(Told)'.reader = reader'[Told] /\ Reassembler(Told)'.nextNr = n'
    BY DEF Reassembler
  <2>2. Sound(Reassembler(Told))'
    BY <1>1 DEF RouterInv, BodyInv
  <2>. QED BY <2>1, <2>2 DEF Sound
<1>8. Writer' = Writer
  BY <1>2 DEF Writer
<1>9. CASE reader[Told] \notin {"none", "open"}
  <2>1. Ending' = Ending
    BY <1>5, <1>9 DEF Ending
  <2>. QED BY <1>2, <1>5, <1>8, <1>9, <2>1 DEF Promise!vars, Writer, Ending
<1>10. CASE reader[Told] \in {"none", "open"} /\ n' = n
  <2>1. Ending = "open" /\ Ending' \in {"open", "broken"}
    BY <1>3, <1>6, <1>7, <1>10 DEF Ending
  <2>2. CASE Ending' = "open"
    BY <1>2, <1>8, <1>10, <2>1, <2>2 DEF Promise!vars, Writer, Ending
  <2>3. CASE Ending' = "broken"
    <3>1. Promise!Break
      BY <1>2, <1>8, <1>10, <2>1, <2>3 DEF Promise!Break, Writer, Ending
    <3>. QED BY <3>1 DEF Promise!Next
  <2>. QED BY <2>1, <2>2, <2>3
<1>11. CASE reader[Told] \in {"none", "open"} /\ n' # n
  <2>1. n' \in n + 1..sent[Told]
    BY <1>3, <1>4, <1>5, <1>11
  <2>2. Ending = "open" /\ Ending' \in {"open", "broken", "ended"}
    BY <1>3, <1>11 DEF Ending
  <2>3. Ending' = "ended" => Promise!EndReached(n')
    <3> SUFFICES ASSUME Ending' = "ended" PROVE Promise!EndReached(n')
      OBVIOUS
    <3>1. n' = Chunks /\ sent[Told] = Chunks
      BY <1>3, <1>4, <1>7 DEF Ending
    <3>2. Writer \in {"closing", "failed"}
      BY <1>3, <3>1 DEF Writer
    <3>. QED BY <3>1, <3>2 DEF Promise!EndReached, Writer
  <2>4. Promise!Take
    BY <1>2, <1>8, <2>1, <2>2, <2>3 DEF Promise!Take, Writer, Ending
  <2>. QED BY <2>4 DEF Promise!Next
<1>. QED BY <1>5, <1>9, <1>10, <1>11

(* A chunked body implements ByteStream: what ChunkReassembler.push()      *)
(* enqueues is what was sent, in order and each once, and a body ends      *)
(* cleanly before its last chunk only if its sender gave up.               *)
THEOREM BodyKeepsThePromise == Spec => KeepsThePromise
<1>1. Init => Promise!Init
  BY RouterAssumption DEF Init, Promise!Init, RouterAssumption
<1>2. RouterInv /\ RouterInv' /\ [Next]_vars => [Promise!Next]_(Promise!vars)
  <2> SUFFICES ASSUME RouterInv, RouterInv', [Next]_vars PROVE [Promise!Next]_(Promise!vars)
    OBVIOUS
  <2>1. CASE ~\E b \in Bodies : SendChunk(b) \/ AbortSend(b)
    BY <2>1, ReceiverSteps, AdvanceIsPromised
  <2>2. ASSUME NEW b \in Bodies, SendChunk(b) PROVE [Promise!Next]_(Promise!vars)
    <3>1. /\ sent[b] < Chunks /\ ~aborted[b] /\ sent' = [sent EXCEPT ![b] = @ + 1]
          /\ aborted' = aborted /\ nextNr' = nextNr /\ reader' = reader
      BY <2>2 DEF SendChunk, readerVars
    <3>2. Told \in Bodies /\ sent[Told] \in Nat
      BY RouterAssumption DEF RouterInv, NetTyped, RouterAssumption
    <3>3. Ending' = Ending
      BY <3>1 DEF Ending
    <3>4. CASE b # Told
      <4>1. sent'[Told] = sent[Told] /\ Writer' = Writer
        BY <3>1, <3>2, <3>4 DEF RouterInv, NetTyped, Writer
      <4>. QED BY <3>1, <3>3, <4>1 DEF Promise!vars, Writer, Ending
    <3>5. CASE b = Told
      <4>1. sent'[Told] = sent[Told] + 1 /\ sent[Told] < Chunks /\ ~aborted[Told]
        BY <3>1, <3>2, <3>5 DEF RouterInv, NetTyped
      <4>2. Writer = "open" /\ Writer' \in {"open", "closing"}
        BY <3>1, <3>2, <4>1, RouterAssumption DEF Writer, RouterAssumption
      <4>3. Promise!Write
        BY <3>1, <3>3, <4>1, <4>2 DEF Promise!Write, Writer, Ending
      <4>. QED BY <4>3 DEF Promise!Next
    <3>. QED BY <3>4, <3>5
  <2>3. ASSUME NEW b \in Bodies, AbortSend(b) PROVE [Promise!Next]_(Promise!vars)
    <3>1. /\ sent[b] < Chunks /\ ~aborted[b] /\ aborted' = [aborted EXCEPT ![b] = TRUE]
          /\ sent' = sent /\ nextNr' = nextNr /\ reader' = reader
      BY <2>3 DEF AbortSend, readerVars
    <3>2. Told \in Bodies
      BY RouterAssumption DEF RouterAssumption
    <3>3. Ending' = Ending
      BY <3>1 DEF Ending
    <3>4. CASE b # Told
      <4>1. Writer' = Writer
        BY <3>1, <3>2, <3>4 DEF RouterInv, NetTyped, Writer
      <4>. QED BY <3>1, <3>3, <4>1 DEF Promise!vars, Writer, Ending
    <3>5. CASE b = Told
      <4>1. Writer = "open" /\ Writer' = "failed"
        BY <3>1, <3>2, <3>5 DEF RouterInv, NetTyped, Writer
      <4>2. Promise!Fail
        BY <3>1, <3>3, <4>1 DEF Promise!Fail, Writer, Ending
      <4>. QED BY <4>2 DEF Promise!Next
    <3>. QED BY <3>4, <3>5
  <2>. QED BY <2>1, <2>2, <2>3
<1>. QED BY <1>1, <1>2, RouterIsSound, PTL DEF Spec, KeepsThePromise, Promise!Spec
=============================================================================
