----------------------------- MODULE ChunkRouter -----------------------------
(***************************************************************************)
(* Bodies sent as <chunk> messages (src/transport/chunked.ts): their       *)
(* senders (ChunkedSender), and at the receiving session the one shared    *)
(* ChunkRouter with a ChunkReassembler per expected body.                  *)
(*                                                                         *)
(* Chunks are numbered from 0 and count as one unit of payload each.  They *)
(* carry no ack; they may arrive in any order, be lost with a session, or  *)
(* be replayed by a resumed one.                                           *)
(* A definition whose comment starts with "Mutant" is no part of the       *)
(* specification: it is the definition that follows it, with a bug the     *)
(* properties must catch.                                                  *)
(***************************************************************************)
EXTENDS Integers, Sequences, FiniteSets

CONSTANTS
  Told,           \* the body whose stream KeepsThePromise is about
  Bodies,         \* the streams of one pair of sessions, by (peer, streamId)
  Chunks,         \* bound: chunks of each body, the last one included
  MaxBuffered,    \* #maxBufferedBytes of a reassembler, in chunks
  MaxOrphans,     \* ORPHAN_MAX_TOTAL_PAYLOAD, in chunks
  MaxReplays,     \* bound: chunks replayed
  Faults          \* which of FaultKinds happen

FaultKinds == {"abort", "cancel", "idle", "loss", "stale", "release"}

ASSUME RouterAssumption ==
  /\ IsFiniteSet(Bodies) /\ Told \in Bodies
  /\ Chunks \in Nat \ {0} /\ MaxBuffered \in Nat /\ MaxOrphans \in Nat /\ MaxReplays \in Nat
  /\ Faults \subseteq FaultKinds

VARIABLES
  sent,         \* per body, chunks sent
  aborted,      \* per body, the sender's signal fired: it stops without a word
  air,          \* chunks on their way, <<body, nr>>
  replays,      \* replays so far
  lost,         \* chunks the network lost or the router gave up (no part of the code)
  listening,    \* the router's stanza listener is installed
  expected,     \* bodies in #expected
  reader,       \* per body: "none", "open", "ended", "errored" or "cancelled"
  nextNr,       \* per body: #nextNr, the chunks the reader was given
  lastNr,       \* per body: #lastNr, or NoNr
  pending,      \* per body: chunks received ahead of #nextNr
  orphans,      \* per body: chunks that nobody expected yet, in order of arrival
  stale,        \* per body: how many of them are past ORPHAN_TTL_MS
  orphanUnits   \* #orphanBytes

senderVars   == <<sent, aborted>>
readerVars   == <<reader, nextNr, lastNr, pending>>
orphanVars   == <<orphans, stale, orphanUnits>>
vars         == <<senderVars, air, replays, lost, listening, expected, readerVars, orphanVars>>

NoNr == -1
Nrs  == 0..Chunks - 1
IsLast(nr) == nr = Chunks - 1

Init ==
  /\ sent = [b \in Bodies |-> 0] /\ aborted = [b \in Bodies |-> FALSE]
  /\ air = {} /\ replays = 0 /\ lost = {} /\ listening = TRUE /\ expected = {}
  /\ reader = [b \in Bodies |-> "none"]
  /\ nextNr = [b \in Bodies |-> 0] /\ lastNr = [b \in Bodies |-> NoNr]
  /\ pending = [b \in Bodies |-> {}]
  /\ orphans = [b \in Bodies |-> <<>>] /\ stale = [b \in Bodies |-> 0] /\ orphanUnits = 0

-----------------------------------------------------------------------------
(* The sender. *)

SendChunk(b) ==
  /\ sent[b] < Chunks /\ ~aborted[b]
  /\ air' = air \cup {<<b, sent[b]>>}
  /\ sent' = [sent EXCEPT ![b] = @ + 1]
  /\ UNCHANGED <<aborted, replays, lost, listening, expected, readerVars, orphanVars>>

AbortSend(b) ==
  /\ "abort" \in Faults /\ sent[b] < Chunks /\ ~aborted[b]
  /\ aborted' = [aborted EXCEPT ![b] = TRUE]
  /\ UNCHANGED <<sent, air, replays, lost, listening, expected, readerVars, orphanVars>>

-----------------------------------------------------------------------------
(* One reassembler: r is its state as a record. *)

Reassembler(b) ==
  [reader |-> reader[b], nextNr |-> nextNr[b], lastNr |-> lastNr[b],
   pending |-> pending[b]]

Finish(r, how) == [r EXCEPT !.reader = how, !.pending = {}]

FirstHole(r) ==
  CHOOSE n \in r.nextNr..Chunks : (\A k \in r.nextNr..n - 1 : k \in r.pending) /\ n \notin r.pending

(* #drain(): everything in order up to the first hole, or to the last. *)
Drain(r) ==
  LET upTo  == FirstHole(r)
      given == [r EXCEPT !.nextNr = upTo, !.pending = {k \in @ : k >= upTo}]
  IN  IF upTo > r.nextNr /\ IsLast(upTo - 1) THEN Finish(given, "ended") ELSE given

(* Mutant: the stream closes as soon as the last chunk is there. *)
PushEndsAtLast(r, nr) ==
  IF r.reader # "open" THEN r
  ELSE IF nr < r.nextNr \/ nr \in r.pending THEN Finish(r, "errored")
  ELSE IF Cardinality(r.pending) + 1 > MaxBuffered THEN Finish(r, "errored")
  ELSE IF IsLast(nr) THEN Finish(r, "ended")
  ELSE Drain([r EXCEPT !.pending = @ \cup {nr}])

(* push(): ignored once finished; a duplicate or an overflow errors it. *)
Push(r, nr) ==
  IF r.reader # "open" THEN r
  ELSE IF nr < r.nextNr \/ nr \in r.pending THEN Finish(r, "errored")
  ELSE IF r.lastNr # NoNr /\ nr > r.lastNr THEN Finish(r, "errored")
  ELSE LET held == [r EXCEPT !.pending = @ \cup {nr}, !.lastNr = IF IsLast(nr) THEN nr ELSE @]
       IN  IF Cardinality(held.pending) > MaxBuffered THEN Finish(held, "errored") ELSE Drain(held)

Reassemblers ==
  [reader : {"none", "open", "ended", "errored", "cancelled"}, nextNr : 0..Chunks,
   lastNr : Nrs \cup {NoNr}, pending : SUBSET Nrs]

(* The reassembler of body b is r now; a finished one is unregistered.     *)
Becomes(b, r) ==
  /\ reader' = [reader EXCEPT ![b] = r.reader]
  /\ nextNr' = [nextNr EXCEPT ![b] = r.nextNr]
  /\ lastNr' = [lastNr EXCEPT ![b] = r.lastNr]
  /\ pending' = [pending EXCEPT ![b] = r.pending]
  /\ expected' = IF r.reader = "open" THEN expected \cup {b} ELSE expected \ {b}

-----------------------------------------------------------------------------
(* The router. *)

PushedAll(r, nrs) ==
  LET after[i \in 0..Len(nrs)] == IF i = 0 THEN r ELSE Push(after[i - 1], nrs[i])
  IN  after[Len(nrs)]

(* Its first chunks are the orphans of the body. *)
Claimed(b) == PushedAll([Reassembler(b) EXCEPT !.reader = "open"], orphans[b])

(* Mutant: the units of the orphans handed over stay counted. *)
ExpectUncounted(b) ==
  /\ listening /\ reader[b] = "none"
  /\ Becomes(b, Claimed(b))
  /\ orphans' = [orphans EXCEPT ![b] = <<>>] /\ stale' = [stale EXCEPT ![b] = 0]
  /\ UNCHANGED <<senderVars, air, replays, lost, listening, orphanUnits>>

(* Mutant: the orphans are forgotten. *)
ExpectAfresh(b) ==
  /\ listening /\ reader[b] = "none"
  /\ Becomes(b, [Reassembler(b) EXCEPT !.reader = "open"])
  /\ orphans' = [orphans EXCEPT ![b] = <<>>] /\ stale' = [stale EXCEPT ![b] = 0]
  /\ orphanUnits' = orphanUnits - Len(orphans[b])
  /\ UNCHANGED <<senderVars, air, replays, lost, listening>>

(* expect(). *)
Expect(b) ==
  /\ listening /\ reader[b] = "none"
  /\ Becomes(b, Claimed(b))
  /\ orphans' = [orphans EXCEPT ![b] = <<>>] /\ stale' = [stale EXCEPT ![b] = 0]
  /\ orphanUnits' = orphanUnits - Len(orphans[b])
  /\ UNCHANGED <<senderVars, air, replays, lost, listening>>

Fresh(b)   == SubSeq(orphans[b], stale[b] + 1, Len(orphans[b]))
StaleUnits == Cardinality(UNION {{b} \X (1..stale[b]) : b \in Bodies})
Swept      == UNION {{<<b, orphans[b][i]>> : i \in 1..stale[b]} : b \in Bodies}

(* #bufferOrphan(): what is past its time goes, and there must be room.    *)
BufferOrphan(b, nr) ==
  LET left == orphanUnits - StaleUnits
      room == left + 1 <= MaxOrphans
  IN
  /\ orphans' = [c \in Bodies |-> IF c = b /\ room THEN Append(Fresh(c), nr) ELSE Fresh(c)]
  /\ stale' = [c \in Bodies |-> 0]
  /\ orphanUnits' = IF room THEN left + 1 ELSE left
  /\ lost' = lost \cup Swept \cup IF room THEN {} ELSE {<<b, nr>>}

Receive(b, nr) ==
  IF ~listening THEN lost' = lost \cup {<<b, nr>>} /\ UNCHANGED <<expected, readerVars, orphanVars>>
  ELSE IF b \in expected THEN Becomes(b, Push(Reassembler(b), nr)) /\ UNCHANGED <<lost, orphanVars>>
  ELSE BufferOrphan(b, nr) /\ UNCHANGED <<expected, readerVars>>

(* A chunk arrives, in whatever order. *)
Deliver ==
  /\ \E c \in air : air' = air \ {c} /\ Receive(c[1], c[2])
  /\ UNCHANGED <<senderVars, replays, listening>>

(* A resumed session replays a chunk that had arrived. *)
Replay ==
  /\ replays < MaxReplays /\ replays' = replays + 1
  /\ \E b \in Bodies : \E nr \in 0..sent[b] - 1 : <<b, nr>> \notin air /\ Receive(b, nr)
  /\ UNCHANGED <<senderVars, air, listening>>

Lose ==
  /\ "loss" \in Faults
  /\ \E c \in air : air' = air \ {c} /\ lost' = lost \cup {c}
  /\ UNCHANGED <<senderVars, replays, listening, expected, readerVars, orphanVars>>

(* ORPHAN_TTL_MS goes by. *)
GoStale ==
  /\ "stale" \in Faults
  /\ stale' = [b \in Bodies |-> Len(orphans[b])]
  /\ UNCHANGED <<senderVars, air, replays, lost, listening, expected, readerVars, orphans, orphanUnits>>

Ends(b, how) ==
  /\ reader[b] = "open"
  /\ Becomes(b, Finish(Reassembler(b), how))
  /\ UNCHANGED <<senderVars, air, replays, lost, listening, orphanVars>>

Cancel(b)      == "cancel" \in Faults /\ Ends(b, "cancelled")
IdleTimeout(b) == "idle" \in Faults /\ Ends(b, "errored")

(* release() by the router's last user. *)
Release ==
  /\ "release" \in Faults /\ listening
  /\ listening' = FALSE
  /\ reader' = [b \in Bodies |-> IF b \in expected THEN "errored" ELSE reader[b]]
  /\ pending' = [b \in Bodies |-> IF b \in expected THEN {} ELSE pending[b]]
  /\ expected' = {}
  /\ orphans' = [b \in Bodies |-> <<>>] /\ stale' = [b \in Bodies |-> 0] /\ orphanUnits' = 0
  /\ lost' = lost \cup UNION {{<<b, orphans[b][i]>> : i \in DOMAIN orphans[b]} : b \in Bodies}
  /\ UNCHANGED <<senderVars, air, replays, nextNr, lastNr>>

(* acquire() by the next user of the session. *)
Acquire ==
  /\ ~listening /\ listening' = TRUE
  /\ UNCHANGED <<senderVars, air, replays, lost, expected, readerVars, orphanVars>>

-----------------------------------------------------------------------------
Next ==
  \/ \E b \in Bodies : SendChunk(b) \/ AbortSend(b) \/ Expect(b) \/ Cancel(b) \/ IdleTimeout(b)
  \/ Deliver \/ Replay \/ Lose \/ GoStale \/ Release \/ Acquire

Spec == Init /\ [][Next]_vars

-----------------------------------------------------------------------------
TypeOK ==
  /\ sent \in [Bodies -> 0..Chunks] /\ aborted \in [Bodies -> BOOLEAN]
  /\ air \subseteq Bodies \X Nrs /\ lost \subseteq Bodies \X Nrs /\ replays \in 0..MaxReplays
  /\ listening \in BOOLEAN /\ expected \subseteq Bodies
  /\ reader \in [Bodies -> {"none", "open", "ended", "errored", "cancelled"}]
  /\ nextNr \in [Bodies -> 0..Chunks] /\ lastNr \in [Bodies -> Nrs \cup {NoNr}]
  /\ pending \in [Bodies -> SUBSET Nrs]
  /\ orphans \in [Bodies -> Seq(Nrs)] /\ stale \in [Bodies -> Nat]
  /\ orphanUnits \in Nat

(* #orphanBytes is what the orphans weigh, through buffering, sweeping,    *)
(* handing over and release, and streams nobody claims weigh no more than  *)
(* their common budget.                                                    *)
Weight == Cardinality(UNION {{b} \X DOMAIN orphans[b] : b \in Bodies})
OrphansConserved == orphanUnits = Weight /\ Weight <= MaxOrphans

(* No chunk of an open body is forgotten: each one sent is on its way, was *)
(* given to the reader or waits for its turn, unless the network lost it   *)
(* or the router gave it up for want of room or time.                      *)
NoChunkForgotten ==
  \A b \in expected : \A nr \in 0..sent[b] - 1 :
    nr < nextNr[b] \/ nr \in pending[b] \/ <<b, nr>> \in air \cup lost

(* A clean end comes after every chunk, and chunks come in order, each     *)
(* once, whatever the network does and however few of them arrive: what a  *)
(* bytestream promises, for the body told.                                 *)
Promise == INSTANCE ByteStream WITH
  MaxBlocks <- Chunks,
  written <- sent[Told],
  taken   <- nextNr[Told],
  writer  <- IF aborted[Told] THEN "failed" ELSE IF sent[Told] = Chunks THEN "closing" ELSE "open",
  reader  <- IF reader[Told] = "ended" THEN "ended"
             ELSE IF reader[Told] \in {"errored", "cancelled"} THEN "broken" ELSE "open"
KeepsThePromise == Promise!Spec

=============================================================================
