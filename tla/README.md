# A verification development for xmpp-httpx

xmpp-httpx carries HTTP over XMPP (XEP-0332). A body travels in the stanza
itself or over one of several transports: chunked messages, in-band bytestreams
(IBB, XEP-0047), SI publishing (XEP-0137), Jingle file transfer over SOCKS5 or
IBB (XEP-0260, XEP-0261); CONNECT tunnels travel over IBB duplexes. The hard
part of the program is what those transports do on one shared XMPP session:
flow control, teardown, timeouts, negotiation between two peers, resumed or lost
sessions, and what a request makes of all that when it is aborted, refused or
answered early. That is what is modelled here, in TLA+; TLC checks small
instances of all of it, and for each of its eleven state machines TLAPS
proves the safety properties, and both refinements, for every value of the constants.

Paths below are relative to the repository (`src/` is its `src/` directory;
PROJECT.json writes it `src/src/`).

## 1. The system

| Component | Code | State it keeps | Operations | What makes it correct |
|---|---|---|---|---|
| IBB scheduler | `ibb/ibb.ts` (`#acquireSendSlot` to `#grantSendSlots`, the pumps of `#createOutStream`) | `#sendInFlight`, `#sendQueue`, the slots and grants, ack latency, the reclaim timer | write, close, abort, an answer, a reclaim, a grant | slots are conserved, budget and windows hold, nobody is forgotten or jumps the queue, every writer returns |
| IBB bytestream | `ibb/ibb.ts` (`openOutgoing`, `expectIncoming`, `#onOpen`, `#onData`, `#onClose`) | `#inStreams`, `#expectations`, `#parkedOpens`; per stream: seq, failure, buffer, withheld acks | open, write, close, abort, read, cancel, timers, release | order, exactly once, close() means delivered, honest acks, flow control |
| IBB duplex | `ibb/ibb.ts` (`openDuplex`, `expectDuplex`, `#createDuplex`) | two halves per end, tombstones, who told whom | open, accept, write, close, abort, cancel, teardown by failure | both ends end, clean closes resolve, a resolved close has delivered |
| Chunked bodies | `transport/chunked.ts` | `#expected`, orphans and their budget; per body `#nextNr`, `#pending` | send, expect, push, cancel, idle timer, release | order, no false end, no chunk of an open body forgotten, bounded memory |
| Jingle | `jingle/jingle.ts`, `jingle/s5b-negotiation.ts`, `socks5/jingle-s5b.ts` | `#sessions`; per session an `S5bNegotiation`, the sockets dialled | offer, accept, candidates, report, decide, activate, replace, terminate, release | both choose the same connection, losers are let go, nobody waits for ever |
| SI publishing | `sipub/sipub.ts` | publications with TTL, the offers parked, retrievals under way | publish, retrieve, SI offer, S5B then IBB, cancel, release | a body is delivered whole, by one of two racing transports |
| SOCKS5 adapter | `node/socks5.ts`, `socks5/protocol.ts` | listener, `pendingDirect`, the proxy's address; per socket a reader, then a stream | gather, register, accept, dial, handshake, open the chosen one, release | no byte of a body is lost between handshake and stream, a direct connection is claimed once |
| Client | `client/*.ts` | requests under way, the managers acquired | request, connect, abort, close | every request settles, every body is released |
| Server | `server/server.ts` | started or not, bodies and tunnels scheduled behind their answers | start, stop, request, CONNECT | one answer, unread bodies are dropped, a tunnel is handed over once |
| Sizes and limits | `transport/select.ts`, `transport/limits.ts`, parts of client and server | budgets | choose a body's form, chunk and block sizes | every stanza fits the limits it passes |
| Tunnels | `node/bridge.ts`, `node/connect-proxy.ts` | a socket and a duplex at each end | relay, end, error | either side's end ends the other, what was sent in order arrives, memory is bounded |
| Discovery | `discovery.ts`, `caps.ts` | caches by JID and by `ver` | lookup, presence, invalidate | no verdict that is not true |
| Admission | `server/policy.ts`, `server/rate-limit.ts` | open prompts and decisions; token buckets | authorize, consume, evict | one prompt at a time; the rate is kept, and so is the promise of `Retry-After` |
| Codec, names, proxies, CLI | `codec/`, `urls.ts`, `node/*-proxy.ts`, `node/destination.ts`, `cli/` | none, or configuration | pure functions and wiring | not modelled, see 7 |

**How they interact.** `IbbManager`, `JingleManager`, the SI manager and
`ChunkRouter` are one object per XMPP session each, acquired and released by
reference count. Jingle and SI hand an IBB sid to `IbbManager` (the sender with
`openOutgoing`, the receiver with `expectIncoming`); tunnels use its duplexes.
All outgoing streams of a session, whoever opened them, share the scheduler's
budget. Client and server put a body's description into the request's or the
answer's stanza and start its transport: the client before its answer comes, the
server a macrotask after the answer has left. Everything else is messages
between two sessions: IQs whose answer is awaited, and chunk messages with no
answer.

**What is hard.** JavaScript interleaves only at `await`s and callbacks, but
there are many: several `write()`s pump one stream; an `#onData` handler waits
for a read before it answers and decides then; teardown is deferred to a
macrotask; timers race answers; both peers close, dial or report at once; a
socket delivers whatever it likes in one segment; a resumed session (XEP-0198)
replays stanzas, and a session that could not be resumed has lost some.

The hazards, each at its line with the properties that cover it, are listed in
PROJECT.json.

## 2. The modules

| Module | Models | Composes |
|---|---|---|
| `ByteStream` | the promise of a body stream to the two programs that use it | abstract specification |
| `IbbScheduler` | all outgoing streams of a session and their shared budget | |
| `IbbScheduler_proofs` | its theorems, and those of `IbbPatience` | extends both, TLAPS |
| `IbbStream` | one bytestream end to end, over an XMPP stream that resumes or loses | implements `ByteStream` |
| `IbbStream_proofs` | its theorems, the refinement among them | extends `IbbStream`, TLAPS |
| `IbbPatience` | its two deadlines, in time | |
| `IbbDuplex` | both ends of a duplex | |
| `IbbDuplex_proofs` | its theorems | extends `IbbDuplex`, TLAPS |
| `ChunkRouter` | chunked bodies of a pair of sessions | implements `ByteStream` |
| `ChunkRouter_proofs` | its theorems, the refinement among them | extends `ChunkRouter`, TLAPS |
| `JingleSession` | both parties of a Jingle session | abstracts the IBB stream and the SOCKS5 adapter |
| `JingleSession_proofs` | its theorems | extends `JingleSession`, TLAPS |
| `SipubTransfer` | one publication and its retrieval, both sides | abstracts the IBB stream to a carrier; has its own view of the adapters |
| `Socks5Adapter` | both adapters and the proxy of one negotiation, byte by byte | what the two modules above abstract |
| `Socks5Adapter_proofs` | its theorems, and those of `SipubTransfer` | extends both, TLAPS |
| `BodySizes` | which form a body takes, and how large its stanzas are | pure operators |
| `HttpExchange` | one request and its response, both bodies | extends `BodySizes`; abstracts every transport to a channel |
| `TunnelExchange` | one CONNECT tunnel, from application to destination | abstracts `IbbDuplex` to what its users see |
| `TunnelExchange_proofs` | its theorems | extends `TunnelExchange`, TLAPS |
| `Peers` | what is remembered of peers: features, decisions, rate | |
| `Peers_proofs` | its theorems, and those of `HttpExchange` and `BodySizes` | extends all three, TLAPS |

`MC*` modules give TLC their constants. A definition introduced by "Mutant" is
not part of a specification: it is the definition that follows it with a
plausible bug, used to see that a property can fail. `IbbPatience`,
`SipubTransfer` and `HttpExchange` have names of their own for what is `Init`,
`Next` and `Spec` elsewhere, because a theorem module extends each of them next
to another one.

### Correspondence with the code

*Atomicity.* One action is one synchronous stretch of JavaScript at one party:
from the point where an event, timer or resolved promise starts it to the next
`await` or return. In `IbbScheduler`, where a stretch loops, the turns of its
loop are separate steps and `granting` or a running pump keeps other stretches
out (`Idle`). A promise that is resolved in one stretch lets its awaiter go on
in a later one ("ready", `asked = "ok"`, "answered"), with anything in between.

*IbbScheduler.* `buffered`, `closed`, `dead` are a stream's buffer and flags;
`slot` holds the promises (grants) and blocks of `SendSlot` with their age in
ticks; `pump` is where each concurrent `write()`/`close()` is. `PumpAsks` to
`AcquireLater` is `#acquireSendSlot`, which first grants what is due; `Settle`
is the answer of a block, `ReclaimParked` runs when the code calls it, never by
itself. The threshold after which a block counts as parked is a number of ticks;
that it follows measured latency is left out, except that nothing is reclaimed
before a first sample.

*IbbStream.* Blocks are ordinals, and `seq` wraps at a small modulus. The
network is one list `wire` of what the sender sent, a position `next` in it, and
resumptions that step the position back by at most `ReplayDepth`, or forward, which
loses stanzas. `#onData` is one action with its outcomes (redelivery, gap,
taken and acked, taken and withheld) as disjuncts. Any armed timer may fire at
any time; `IbbPatience` asks whether they fire when they should not.

*IbbDuplex.* An end's state is a record and one stretch is a function of it,
composed from helpers with the names of the code (`RetireInbound`,
`FinishInStream`, `AbortDuplex`, ...), because one stretch calls several of
them in order and each may put stanzas on the wire. The handlers that withhold an
ack are a sequence: they wake in the order their blocks came. A refusal leaves in a
stretch of its own (`SendRefusal`), behind whatever the application sends when its
reader errors; `Overtaken` is when a `<close/>` of the application's got ahead of it.
The answers of handlers woken by a teardown leave with their stretch, behind the
`<close/>` it sends. That an application may put a `<close/>` ahead of these acks too,
in a microtask between, is left out: their sender has closed or is told of an end
either way, and it only turns a rejected close() into a resolved one of a tunnel its
peer closed.

*ChunkRouter.* A chunk is its number; it may arrive in any order. A
reassembler's `push` is a function of its state; `PushedAll` applies it to the
orphans one by one when a body is expected. `lost` records what the network lost or the router gave up for
want of room or time; no action looks at it. `GoStale` ages all orphans at once, so a sweep takes all or none;
one that takes only the older of them is left out.

*JingleSession.* A party is a coroutine `pc` that asks and waits; its peer's
IQs are handled whenever they arrive (`Deliver`, `Dispatch`), in the order sent.
An `S5bNegotiation` is a record, and each of its methods an operator on it
(`OfferLocal`, `SetRemoteUsed`, `WaitOutcome`, ...). All sets of candidates
either side can gather, and all outcomes of dialling, are explored, with and
without a SOCKS5 adapter on either side. `held` is who has which socket.

*SipubTransfer.* Publisher (`pp`) and retriever (`rp`) are coroutines with a
FIFO queue of stanzas in each direction. A carrier (direct connection, proxied
connection, IBB stream) is the list of units written to it and how it ended; the
retriever reads the one its race settled on. A proxy may give up a connection,
activated or not (`ProxyHangsUp`): the publisher's writes fail, and the retriever
reads what got through and then an ordinary end (`cut`). A publisher whose process
dies without a word is not modelled.

*Socks5Adapter.* Four connections (the dialler's, a stranger's, the one to the
proxy, the host's own one to it), each with two ends. An end is a queue of bytes
in TCP's hands, a buffer in Node's, and a mode: a handshake reader
(`createSocketReader`), paused between the two, or a stream. TCP cuts segments
anywhere. The frames are the code's, byte by byte, and the hashed domain is one
byte. Which connection carries the body is as its writer sees it (`Used`): the
host goes by whether it has dialled the proxy, the dialler by whether its stream
to the proxy is there. `last` is how much of the body gets through: all of it, or
less if the writer aborts (`outStreamFromSocket`'s `abort()` destroys the socket) or
the proxy hangs up on both ends (`CutShort`). Each of them reaches the reader as a FIN.
While its handshake lasts a proxied connection can only break (`Reset`), and a proxy
that hangs up because nobody activates it is `SipubTransfer`'s.

*HttpExchange.* `pc` is where `request()` is, `sp` where `#onReq` is, `iq` the
request between them. A body is a record `chan[d]` ("up", "down"): who holds the
program's stream, where sender and receiver are, and the parts sent and read.
`BodySizes` computes the form a body takes from the options, limits and the
content, with the code's own numbers. A size is what the code computes, which for
text counts UTF-16 units (`escaped`), next to the bytes on the wire (`wire`), which
the limits are about; what the bytes say is left out. `close()` withdraws the
client's own offers, as `stop()` does the server's (`Withdrawn`). A mechanism differs from another by what the code tells apart: IBB has
flow control and an answered open, chunks are fire and forget, Jingle and SI are
fetched by the receiver.

*TunnelExchange.* The IBB session is a FIFO of opens, blocks and closes in each
direction. `bridgeTunnel()` at each end is a record with its promise chain
(`pending`) and flags; a socket counts what the application said and heard, and
what Node buffers between (`wrote - heard`). A handler dials before its answer is
looked at (`Dialled`); "left" is one whose answer was refused without calling it back.

*Peers.* A lookup's answer arrives (`Replied`), the code behind the `await` looks at
it (`Answered`), and a digest, if any, ends (`Hashed`): presences may come between any
two of them. A `ver` is identified with the features it is the hash of, so
verifying it is comparing the two; a liar announces one and answers another. The
clock ticks in half seconds and tokens are counted in integers, so the limiter's
fractions are exact.

*Scenarios and plans.* In most modules a variable chosen in Init and never
changed (`faults`, `setup`, `exchange` or `plan`) says what the program does and what may go
wrong in one behaviour. One run so covers healthy behaviours, for which more is
promised, and several troubled ones, and a property can say which it is about.
Its value decides only whether a fault *may* happen, never when.

## 3. Runs

| Run | Expect | What it shows |
|---|---|---|
| `Scheduler` | pass | two streams of two callers each, one block of budget, slow answers, aborts and refusals: slots are conserved, the budget is respected, no slot is idle while a stream waits, nobody jumps the queue, and every `write()` and `close()` returns in a life in which no pump parks on a grant of its own |
| `SchedWedge` | violation | a stream can park on its own grant (section 6) |
| `Stream` | pass | every fault of one bytestream, and a healthy session that is resumed, across the wrap of seq: an ack is honest, the buffer is bounded until the first replay, the failure kept is the earliest block's, `close()` returns, a healthy stream is read whole however often it is replayed, and the promise of `ByteStream` is kept |
| `PatienceSteady` | pass | with equal windows a slow but steady consumer loses neither end of its stream |
| `DuplexFaults` | pass | clean, torn down, damaged and timed-out tunnels: clean closes resolve, resolved means delivered (unless an application overtook a refusal), both ends end and leave no tombstone, `close()` returns |
| `ChunkFaults` | pass | two bodies with loss, reordering, replay, early chunks, stale orphans, cancels, release: the orphan budget, no chunk of an open body forgotten, the promise of `ByteStream` |
| `JingleFaults` | pass | agreement, losers let go, armed before opened; healthy negotiations need no timeout, and everyone finishes |
| `Sipub` | pass | what is read to its end is whole, whichever of the two carriers wins, unless a write, the body or a proxy failed; SOCKS5 that comes to nothing falls back; both parties finish |
| `Socks5` | pass | no byte of a body is lost or repeated wherever segments are cut and however late the stream attaches; who is told of success has the connection that was claimed; every call settles |
| `Http` | pass | bodies that end are whole, stanzas fit (inlined text only as far as a unit is a byte), a healthy exchange leaves nothing behind, and `request()` and both transfers settle whatever is aborted, closed, stopped or lost |
| `Tunnel` | pass | a tunnel that ended in order has delivered, memory is bounded from end to end, and whoever hangs up, both sockets go, but for that of a handler whose answer had a body beside the tunnel |
| `Peers` | pass | verdicts are true but for the three exceptions named in the property, prompts are shared, the limiter keeps its rate and its word |

Each property of a passing run has a mutant in PROJECT.json: a definition
replaced by one with a plausible bug, under which TLC finds the property
violated in the same run.

Every state machine but the small clock of `IbbPatience` also has a `TypeOK`,
which documents the shapes of its state (`SipubTypeOK` in `SipubTransfer`,
`ExchangeTypeOK` in `HttpExchange`). All of them are proved; none is listed there,
because a model that broke one would break another property.

### Bounds, and why they are enough

- `Scheduler`: two streams contend, two callers of one stream contend with each
  other, and one slot of budget makes every one of them wait; five slot
  identities cover the windows of two and one and a grant, so none is ever
  wanting. One stream flushes remainders (as duplexes do), the other sends full
  blocks only; two bytes with blocks of two give a full block or remainders.
- `Stream`: seq modulo 5 with five blocks wraps; a window of two has a block
  before and a block after any failure; a high-water mark of two makes a reader
  lag at once; two resumptions replay up to two stanzas, so a block, an
  `<open/>` and a `<close/>` are all replayed. Resumptions replay no further back
  than the modulus and the redelivery window (`StreamAssumption`; see 6). With
  faults, three blocks and one
  resumption; without, five and two.
- `PatienceSteady`: window 4, timeout 5, a reader that takes up to 4 ticks.
- `DuplexFaults`: one block each way and a window of one: every teardown can
  meet a block sent, withheld, refused or crossing. The scenarios are no fault,
  pairs of teardowns, and each timeout with one companion.
- `ChunkFaults`: three chunks leave a hole in the middle; two of a buffer, two
  orphans shared by two bodies and one replay reach every limit.
- `JingleFaults`: unbounded but finite: one direct and one proxy candidate per
  side. The scenarios are healthy, broken connections with timeouts, and
  everything.
- `Sipub`: two units, so that a carrier can break between them, and a
  connection that holds one, so that a writer waits for its reader. The faults
  are combined where they meet: withdrawal with writing, cancel and hang-ups with
  activation and with each other, release and lost answers with timeouts.
- `Socks5`: a body of two bytes can be split anywhere around the end of a
  handshake. All four connections; the faults in fifteen combinations.
- `Http`: two parts and a window of one make a sender wait for its reader. The
  sizes are the code's own, on both sides of every boundary: a chunk of 3072
  bytes under a limit of 10240, 768 under the smallest, limits unset, small,
  typical and large on either side, and one (3074) where base64 rounds up. Texts of
  one and of three bytes per unit.
- `Tunnel`: one part, one block and one part of buffers, so that six parts
  exceed everything on the way; and five against an end that aborts, which are
  then acknowledged and discarded.
- `Peers`: two versions, two lookups at once, three users for two buckets; seven
  ticks of half a second against a decision that lives for three, and a rate of
  2/3 per second, whose waits are no whole seconds.

`CHECK_DEADLOCK FALSE`: in every module a finished stream, session or body is a
legitimate end of the behaviour. `PatienceSteady`, where time never stops, does
check it.

### Fairness

- Code that can run runs: a resumed promise, the next turn of a loop, a deferred
  macrotask (the event loop).
- Stanzas in a live session are delivered and IQs answered, or their deadlines
  pass (`#request`, `#sendJingle` and the IQ caller give each a timeout). TCP
  delivers what was written while a connection stands. No fairness is assumed of
  faults.
- In `IbbStream`, `IbbDuplex`, `HttpExchange` and `TunnelExchange` consumers read
  on; a program that stops reading for ever stops its stream, which is what
  backpressure is for.
- Where a timer guards a wait, its expiry is fair in the scenarios with
  "timeout", where a peer may be gone; in the others it cannot happen. That is
  how `NoTimeoutNeeded`, `FallbackDelivers` and `HealthyExchange` show that
  nothing depends on one. Handlers are never assumed to return (a handler that
  "hangs" does not), nor applications to hang up.
- `Socks5Adapter` assumes that a peer goes on with its handshake or hangs up:
  nothing in the code bounds it (see 6).

## 4. What the properties do not say

- `EndedMeansWhole` and `WholeUnlessFailed` exclude a sender that gave up:
  IBB's `<close/>` and TCP's FIN end a body that was cut like one that was not.
  `EndedMeansWhole` of `SipubTransfer` and `WholeAtTheEnd` exclude a proxy that hangs
  up for the same reason.
- `AckedMeansTaken` and `KeepsThePromise` of `IbbStream` count a block as taken once it
  is queued for the reader. They would not notice an acknowledgement of a withheld block
  whose stream died (`ibb.ts:1288`), which the code and `Finish` refuse.
- `ResolvedMeansDelivered` excludes a refused block whose refusal was overtaken by a
  `<close/>` of the receiver's application (`Overtaken`).
- `StanzasFit` counts bytes. It lets inlined text that takes more than a byte per
  UTF-16 unit be three times as large as what is allowed; and it holds
  chunks and Jingle's blocks to the client's limit, not to the server's own, as the
  code does.
- `EveryoneHangsUp` excludes the socket of a handler that answered with a tunnel and a
  body.
- `LosersLetGo` is about the losers of the decision, not about the winner's own socket
  when the transfer behind it fails (`jingle.ts:506`).
- `HealthyExchange` is stated for handlers that have read the request before
  they answer or whose request is not streamed over IBB: a handler that streams
  its answer while the request still streams makes the client's receiver wait
  for the upload, see 6.
- `BytesKept` excludes a connection that was reset, and nothing else: what was
  written goes with a reset.
- `EveryoneFinishes` of `SipubTransfer` excludes a publisher that writes to a
  connection its retriever made after it had given up; nobody closes it.
- `VerdictsAreTrue` excludes two resources of one bare JID, which share one
  `ver`; an answer overtaken by a presence before the code that awaits it ran; and one
  overtaken during its digest.
- `SlowReaderSlowsSender` counts parts, not bytes, and holds until the bridge has
  noticed that its tunnel is over: an end that aborted answers blocks with an ack
  and drops them until its `<close/>` is heard (`ibb.ts:1046-1053`, `1231-1233`),
  so that meanwhile the other bridge takes as much as its application says.

## 5. Proofs

Each theorem holds for every value of the constants that the module's assumption
allows. The assumptions say that bounds are naturals and sets of the right kind;
the few that say more are `SeqMod > Window + RedeliveryWindow` and `SeqMod >
ReplayDepth` (`StreamAssumption`: 65536 against a redelivery window of 64,
`ibb.ts:119-128`, as long as windows and replays are no larger, see 6) and that
the entities of a plan belong to its users (`PeersAssumption`).

| Module | Proved | From |
|---|---|---|
| `IbbScheduler_proofs` | `SlotsConserved`, `BudgetRespected`, `NoSlotIdleWhileWaiting`, the action property `NobodyJumpsTheQueue`; `WindowRespected`; types | `BudgetInv` |
| `IbbScheduler_proofs` | `SlowConsumerIsKept` of `IbbPatience`, for `MaxGap < IdleTimeout` and `SenderWindow <= ReceiveWindow + 1` | `PatienceInv` |
| `IbbStream_proofs` | `AckedMeansTaken`, `InOrder`, the action property `EarliestFailure`, `BoundedUntilReplay`, the refinement `KeepsThePromise`; types | `StreamInv`, `PressureInv` |
| `IbbDuplex_proofs` | `ResolvedMeansDelivered`, `CleanCloseResolves`; types | `DuplexInv`, `CleanInv`, `MeasureInv` |
| `ChunkRouter_proofs` | `OrphansConserved`, `NoChunkForgotten`, the refinement `KeepsThePromise`; types | `RouterInv` |
| `JingleSession_proofs` | `Agreement`, `ArmedBeforeOpen`, `LosersLetGo`; types | `SessionInv` |
| `Socks5Adapter_proofs` | `ToldMeansClaimed`, `BytesKept`, `WholeAtTheEnd` (a reader that is told the end has read all that got through: the whole body, unless its writer aborted or the proxy hung up); types | `Inv` |
| `Socks5Adapter_proofs` | `EndedMeansWhole` of `SipubTransfer`; types | `TransferInv` |
| `TunnelExchange_proofs` | `SlowReaderSlowsSender`, `WholeUnlessFailed`; types | `TunnelInv` |
| `Peers_proofs` | `VerdictsAreTrue`, `OnePromptAtATime`, `LimiterKeepsItsWord`; types | `DiscoInv`, `PromptInv`, `BucketInv` |
| `Peers_proofs` | `EndedMeansWhole` of `HttpExchange`; types | `ExchangeInv` |
| `Peers_proofs` | `StanzasFit` of `HttpExchange`, with the exceptions of section 4, for advertised limits of 3072 bytes or more | `ExchangeInv`, `LimitsKept`, `EncodingFits` |

### The arguments

*IbbScheduler.* That `#sendInFlight` equals the number of counted blocks and
unconsumed grants is inductive once two things are added: it never exceeds the
budget, and outside the grant loop a waiting stream means a full budget. The
latter is what makes `NobodyJumps` true: a pump that finds a slot free after the
grant loop knows that the loop ended with no one waiting. The step cases are by
action; what each does to the set of held slots (grows by one, shrinks by one,
loses the overdue ones) is a lemma about cardinalities (`HeldGrows`,
`HeldShrinks`, `HeldReclaimed`), from the library's theorems on finite sets.
The window needs its own count, as parked blocks still belong to it but not to the
budget (`DispatchAdds`, `SettleRemoves`).

*IbbPatience.* What is unacknowledged is what does not fit the queue
(`AsFarAsItFits`), and time passes only while the window is full. So the age of
a block and of the watchdog are bounded by the reads that the full window has
waited for, at `MaxGap` each, and the time since the last (`TimeIsReading`,
`Waited`): at most one window of reads. The two hypotheses are what makes that
less than both deadlines; they are not part of the module's assumption, since a
program may break either. The first says what a steady consumer is. The
second is where the two ends scale their deadlines by different windows, and
`ibb.ts:1401` in section 6 is what happens beyond it.

*IbbStream.* `AckedMeansTaken` is not inductive: it takes that no answer under way
says more than is true (`Honest`), which takes that `expectedSeq` is the number of
blocks taken modulo `SeqMod` and that the wire is `<open/>`, the blocks in order
and perhaps `<close/>` (`WireInv`). The crux is the wrap: the stanza at hand is at
most `ReplayDepth` behind the furthest that arrived, and at most a window of
blocks is unanswered, so that equal remainders mean equal blocks and a block
taken for a redelivery is one. `KeepsThePromise` maps each step to one of
`ByteStream` or to a stutter (`SenderPromised`, `AnswersPromised`,
`DeliverPromised`, `ReceiverPromised`). `BoundedUntilReplay` adds that until a
resumption nothing arrives twice and no withheld block is acked, so what the
buffer cannot hold is in the sender's window.

*IbbDuplex.* `DuplexInv` is about one direction at a time: every block not yet
taken is on its way (`Carried`), a block answered is nowhere else (`Answered`),
who sent no `<close/>` has none answered (`Closed`). `Honest` carries the theorem:
as long as a sender has neither failed nor closed nor heard a close, a block that
is not awaited was taken, and an ack that no `<close/>` precedes is true. A refused
block is awaited, and nowhere under way, until its refusal has left (`Due`). `Heard`
says that unless the application's `<close/>` was ahead of it (`Late`) a refusal reaches
its sender before any `<close/>`: the teardown's own comes a macrotask later. Every
stretch that sends a `<close/>` is one of a few shapes (`Departure`, `Burial`), with the
acks of the handlers it woke behind it. For tunnels without faults `CleanInv` adds
that a half is gone only if its peer closed or both did (`Smooth`), so that
`not-found` always comes behind the peer's own `<close/>`; then no close() has a
reason to reject. `MeasureInv` counts the `<close/>`s of an end: `tellPeer()` asks
whether the peer knows, `sendClose()` runs once, and the `discard()` of an overdue
`<open>`, which does not ask, can only add a second.

*ChunkRouter.* `RouterInv` says of each body where a chunk that was sent can be
(`KeptInv`) and that what the receiver has was sent (`SentInv`); of the orphans
that their count is the cardinality of the set of their units. A push, and a
sequence of pushes of any length, keeps a reassembler `Sound` and loses nothing
(`PushKeeps`): that is an induction over the orphans, and `DrainGives` one over
the consecutive chunks that a push sets free. One push may hand over many
chunks, but `ByteStream` allows a reader to be given any number at once.

*JingleSession.* `Agreement` is about requests that cross: whatever a side has
heard, and whatever report is still on its way to it, is what the other side
reported (`ChannelInv`, `ReportInv`), and a side reports once. `Growing` names
what every step keeps of a negotiation; from it, each request that was true when
it left is true when it arrives. With equal knowledge both sides compute the same
winner, whatever the candidates.

*Socks5Adapter.* Neither property is inductive, because both hang on the
handshake: a byte of the body is kept only if every byte before it was counted. `InStep`
says of each connection how far its two ends are and, for each pair of places, which bytes are
under way: no end has begun (`Unborn`), the greeting (`Greeted`), the request
(`Asked`), the answer with the body already behind it (`Answered`), the body
alone (`Joined`), a refusal (`Turned`), or one has given up (`Lost`). How many
bytes `readExact()` asks for follows from the frame it has seen, so a reader never
takes a byte of the next frame, and what `release()` hands over is the head of the
body. `HostOK` says that an entry that can still be claimed has an open promise, so
the timer and `release()` cannot overtake a claim: hence `ToldMeansClaimed`.
`OrderOK` is the order of the candidates and of `openChosen()`, and `SentBySource`
that the writer's connection changes only while nothing is written, so that what
the target `Holds` is what was written. The proof goes by action over one
connection at a time; the others are untouched (`CarriedStays`, `OrderStays`, `SourceStays`). That cutting a
sequence anywhere and joining it again changes nothing is stated once, as laws of
`++`, `Before` and `After`.

*SipubTransfer.* A proxy's hang-up counts as something that broke, like a failed write:
`EndedMeansWhole` speaks of the rest. It needs to know of carriers nobody reads, too: a
retriever that settled on one carrier must not find an end on it that belongs to
another transfer. As long as nothing broke, the publisher wrote to one carrier
at most, the one it uses now, exactly the units it has taken from the body, and the others are as
new (`OneCarrier`). This is where a fallback matters: SOCKS5 that fails before
its first unit leaves every carrier untouched, so IBB starts from the first
unit, whether the body is opened afresh or goes on. That a body is opened twice at most,
and a publication consumed once, comes with the types. What was read is how the
settled carrier begins (`ReadIsWritten`), as carriers only grow (`CarriersKept`)
and the race settles once.

*TunnelExchange.* On each wire the blocks in flight come behind at most one
message of the handshake and before every `<close/>` (`Shaped`), so that whoever
takes a `<close/>` has taken every block; what an application said is on its
socket, in its bridge, in the window, in a buffer or heard (`FlowOf`); and a side
that ended nothing, did not fail and was not released finds that its peer's end
of the tunnel ended in order (`OrderOf`). `Phase` says what cannot have happened
before the handshake is over.

*Peers.* Three invariants that share nothing but the clock: a `ver` is only ever
known as what it is the hash of, and an answer nobody has written down yet is true
unless a presence overtook it; two prompts of one user are a decision's life apart;
tokens held and granted never exceed a burst and the refill since, and a bucket
holds a token when its owner comes back as told (`CeilIsEnough`, for every rate).

*HttpExchange.* That a body which ended is whole is about both bodies at once,
since the response may be piped from the request: what is sent of it is bounded by what
was read of the other, and its source is drained only when the other has ended
(`Carries`). `InOrder` says who comes first: nobody sends, receives or answers
before the IQ is there, so that the requests and answers start with channels nothing
was sent on (`Fresh`). Most steps only turn a channel (`Turns`): nothing more is
carried, no reader is told an end, a sender that is not done is not done
afterwards. That covers every abort, cancel, close(), stop(), refusal and
timer in one lemma (`CarriedStays`), and leaves the parts, the two ends of a
transfer and the two places where a body starts.

*BodySizes.* A body's mechanism and block size are decided once, so `StanzasFit`
is a fact about `selectEncoding()` and the budgets (`SizesFit`): for every body,
preference and limit, what is inlined keeps the sender's limit in the units the code
counts, which are bytes of base64 and at most three bytes each of text, and a chunk of
three quarters of what a limit leaves, rounded up to whole groups of base64,
keeps the limit (`LimitsKept`). The hypothesis on the limits is not in the
module's assumption, since the code takes any: below 3072 bytes the least inline
budget, 1024, leaves an envelope less than the 2048 bytes the code counts for it. RFC 6120
has every server accept 10000.

### What the provers can and cannot do here

Recursion is written as recursive functions. The library's induction theorems
take an operator and cannot be used, but induction over a set can: that a set of
naturals has a least element follows from `NatLessThanWellFounded` and `WFMin`
(`SmallestNat`, `UpToInduction` in `ChunkRouter_proofs`), and with it what
`PushedAll` and `FirstHole` return is proved for inputs of every length.

Each invariant was first checked by TLC on the instance of its run. Four
statements changed on the way, because the proof showed that they were not right:
`SlowReaderSlowsSender` (section 4), which the smaller talks had not refuted;
`StreamAssumption`, without which a replay from a whole modulus back passes for
new data; and `BytesKept`, which had looked at one connection for both sides:
when `openChosen()` is early, a reset of the direct connection makes the dialler
fall back to the proxy while the host still holds the direct one. It is now about
the connection its writer uses, says more (that nothing but a reset loses a
byte), and the scenario is one of the run's. `StanzasFit` had counted all of
the 512 bytes of `CHUNK_ENVELOPE` (`select.ts:106`) for the envelope; base64 ends with a
whole group, and takes up to two of them (a limit of 3074, now one of the run's).

*Only model-checked* are the liveness properties of section 3: liveness under
fairness, and ENABLED, are out of this prover's reach. Every safety invariant the
runs check is stated by a theorem.

## 6. Findings

**A stream can park on its own grant** (`SchedWedge`, `ibb.ts:705`).
`#acquireSendSlot` reclaims and grants before it looks for room. The run gives
each stream one writer. A pump of `s1` parks with its stream's entry in the queue;
the ack of an earlier block of `s1` that had been reclaimed frees no slot but wakes
the pump, which asks again; the ask reclaims the overdue block of `s2`, and the slot
goes to the pump's own entry, still in the queue. The budget is full and the pump
parks on the grant it already has. When the block of `s2` is answered (reclaimed,
it frees nothing either) nothing is left that would wake it. It takes a reclaimed
block, hence the condition of `WritersReturn`.

The models also reach the next four, which the properties therefore except (section 4):
stated without the exception, TLC refutes each of them.

**An application overtakes a refusal** (`ResolvedMeansDelivered`, `ibb.ts:1438`).
A damaged block errors the reader at once; the refusal leaves when `#onData`'s handler has been awaited,
and the tunnel's teardown is deferred to a macrotask so that its `<close/>` does not
come first (1445-1448: the sender "would take its refused block for an ordinary
post-close discard"). But an application that aborts or closes the tunnel when its read
rejects, as the bridge does (`bridge.ts:126-127`), sends its `<close/>` before the
refusal leaves, and a peer that was draining resolves its close() with the block lost.

**A proxy that hangs up ends a body** (`EndedMeansWhole` of `SipubTransfer`,
`node/socks5.ts:175`).
`readableFromSocket()` closes its stream at any "end" of the socket. A proxy that
closes a connection that nobody activated, or one in the middle of the body, so gives
the retriever an empty or a short body that ends in order; `docs/ROADMAP.md:101` says
that bodies are never silently truncated. The same holds of a writer's `abort()`
(218-221), which is a FIN.

**Inlined text exceeds its budget** (`StanzasFit`, `transport/select.ts:138`).
`selectEncoding()` compares the number of UTF-16 units of a text, and of a serialized
element, with the inline budget, which `constants.ts:63` gives in "encoded bytes". So
4096 characters of three bytes are inlined under a limit of 10000 bytes.

**A handler is not called back** (`EveryoneHangsUp`, `server/server.ts:515`).
A 2xx answer with a tunnel and a body becomes a 500, and the handler's `tunnel` is never called,
against "exactly once for a 2xx response" (98): the socket it dialled is nobody's.

Other things were seen while modelling. These have no run of their own; a property
that one of them would break says in its statement, or in section 4, that it leaves
the case out.

*Scheduler and bytestreams*
- `ibb.ts:785`: the reclaim timer is not armed while grants alone hold the
  budget, nor by the dispatch that consumes one, so a stream may wait for another
  receiver's IQ deadline, which reclaiming is there to prevent.
- `ibb.ts:1237`: a block delivered again while its first copy is withheld is
  acknowledged at once, so after a replay the sender goes past a reader that
  reads nothing (1266-1281 withhold acks for its sake).
- `ibb.ts:128`: `REDELIVERY_WINDOW` is 64; with a window larger than that a
  replay from further back fails a healthy stream as a gap.
- `ibb.ts:946`: a replayed `<open/>` is refused while the first is parked.
- `ibb.ts:1301`: an `openDuplex()` that timed out sends a `<close/>` so that an
  acceptor does not keep its half for the session (393-395), but `#onClose`
  answers `item-not-found` without looking at the parked opens: an acceptor that
  claims the open after it keeps the half all the same.
- `ibb.ts:1401`: the stretched watchdog is scaled by the receiver's own window,
  the sender's deadline by the sender's; with a larger sender's window a steady
  consumer may be reaped.
- `ibb.ts:306-327`, `917-956`: the handlers of a released manager stay
  registered and do not look at `#started`, so a tunnel asked for before
  `close()` can still come to life.
- `chunked.ts:139`: a replayed chunk errors its body, where IBB ignores replays.

*Jingle, SI, SOCKS5*
- `jingle.ts:506`: when the transfer fails after a proxy won, its socket is let
  go by nobody; `node/socks5.ts:436-449` leaks the socket of a failed
  activation, and `470-475` drops, and does not destroy, one whose handshake failed.
- `sipub.ts:286-288` says that the retriever has an expectation armed for the
  fallback; once SOCKS5 has settled its race (`606-607`) it has not, so a
  connection that breaks half way fails the read and the fallback is refused.
- `node/socks5.ts:237`: the connection's timer is cleared when TCP connects, so a
  streamhost that never answers parks `connect()`, and `#dialPeerCandidates`
  above it (`jingle.ts:449`, `548`), for ever; `s5b-negotiation.ts:19` says that
  every waiter is bounded.
- `node/socks5.ts:115`: between a handshake and the stream nobody listens for
  "error"; a reset there is an uncaught exception. `309`: a failed lookup of the
  proxy stays cached.
- Comments behind the code: `jingle.ts:393-397` and `748-750` (both sides dial and
  offer), `jingle.ts:51` and `docs/architecture.md:379` (SOCKS5 is there),
  `docs/protocol-notes.md` on sipub ("Only the IBB stream method").

*Requests*
- A server that answers without reading a body sent over IBB (403, 413, 404, or
  200) makes the upload fail, and `client.ts:382-388` throws that error in place of
  the answer; `docs/architecture.md:437` says that an HTTP-level error is never an
  exception.
- A body whose source fails is closed like any other (`server.ts:955-959`,
  `client.ts:574-581`) and reads as whole; `docs/ROADMAP.md:101` says that bodies are
  never silently truncated.
- A handler that returns `req.body` itself has it cancelled (`server.ts:421-426`).
  One that streams its answer while the request streams, both over IBB, stalls:
  the response's `<open/>` is parked for five seconds while the client uploads.
- A limit exceeded in a streamed body is a 500, not a 413. The IQ's timeout does
  not bound the upload (`client.ts:45`). An abort is not noticed while the caller's
  own stream stalls.
- `#scheduleIbbSend` reads the manager when it is scheduled: after `stop()` an
  ordinary body is still sent, or dropped without a word (`server.ts:942-947`).
- `server.ts:562-568` applies the server's own block limit to IBB only, not to
  chunks or Jingle.

*Tunnels*
- A peer's orderly close while a write is parked rejects that write, and the
  bridge destroys the socket before what was written to it has left
  (`bridge.ts:65`, against the comment at 120). A part that arrives after the
  destination's FIN fails the bridge.

*Peers*
- `discovery.ts:189`: a lookup whose answer or digest is overtaken by a presence writes a
  verdict that is no longer true and stays; `jidVer` is kept per bare JID. Two lookups at once ask
  twice.
- `policy.ts:56`: the unavailable presence of one resource removes a user who is
  still there with another. `policy.ts:85`: a prompt that is open for longer than
  the decision would live is asked again.
- `cli/gateway.ts:251-252`: an "offline" between `start()` and `setStreamUp(true)`
  is overwritten.

## 7. Not modelled

- `<data/>` in messages (`#handleMessageData`): no part of this code sends it.
  Larger redelivery distances than the window; several bytestreams of one peer
  under one `IbbStream` (they share only the scheduler).
- In Jingle: malformed or declined offers, echoed sids, block-size negotiation,
  session-info, `<proxy-error/>` (never sent), `negotiation.fail` (by then nobody
  waits). The IBB stream of a session appears as armed, met or over.
- In the adapter: errors of a socket in the windows in which nobody listens for
  them (they end the process, or are swallowed by a listener of the connection
  that is left over); the failed lookup that stays cached, which takes a second
  negotiation.
- In client and server: the choice of a content coding, headers, the parsing of
  stanzas. `presencePolicy` and the lists of `policy.ts` (a set, and no decision
  that outlives a stanza).
- The codec, names and errors, the fetch adapter: functions without state. The
  proxies and the destination policy: handlers around Node's own http client. The
  command line: configuration, files and wiring. Examples and scripts are users of
  the library.
