---------------------------- MODULE HttpExchange ----------------------------
(***************************************************************************)
(* One request and its response: HttpxClient.request() (src/client/        *)
(* client.ts), HttpxServer.#onReq (src/server/server.ts), and the two      *)
(* bodies, each over the mechanism BodySizes chooses for it.               *)
(*                                                                         *)
(* A body transport is abstracted to a channel of Parts parts: who holds   *)
(* the program's stream, where the sender and the receiver are, how much   *)
(* was sent and read.  IbbStream, ChunkRouter, SipubTransfer and           *)
(* JingleSession model the inside of one.                                  *)
(*                                                                         *)
(* A definition whose comment starts with "Mutant" is no part of the       *)
(* specification: it is the definition that follows it, with a bug the     *)
(* properties must catch.                                                  *)
(***************************************************************************)
EXTENDS BodySizes

CONSTANTS
  Parts,     \* bound: parts a streamed body is sent in
  Window,    \* parts sent and not read, where there is flow control
  Exchanges  \* the exchanges examined

FaultKinds == {"timeout", "refuse", "loss", "source", "cancel", "abort", "close", "stop"}
Handlers   == {"reads", "ignores", "pipes", "throws", "hangs"}

(* What an exchange is about: what may go wrong in it, both bodies and the *)
(* size the second is compressed to, what the handler does, the mechanisms *)
(* both sides prefer and the client accepts, the limits advertised to each *)
(* side, and whether the request is within the server's maximum.           *)
Plan ==
  [faults : SUBSET FaultKinds, upload : Bodies, download : Bodies, packed : Nat,
   handler : Handlers, preferred : Seq(Mechanisms), accept : SUBSET Mechanisms,
   limits : [client : Nat, server : Nat], fits : BOOLEAN]

ASSUME ExchangeAssumption ==
  Parts \in Nat \ {0} /\ Window \in Nat \ {0} /\ Exchanges \subseteq Plan

VARIABLES
  exchange,  \* one of Exchanges
  pc,        \* where request() is
  outcome,   \* how it settled
  aborted,   \* the caller's signal
  closed,    \* the client's #closed
  iq,        \* the request IQ and its answer, between the two
  answer,    \* what the server answered: [status, body]
  sp,        \* where #onReq is
  running,   \* the server's #started
  chan       \* per body ("up", "down"): the channel it travels on

clientVars == <<pc, outcome>>
serverVars == <<sp, answer>>
flags      == <<aborted, closed, running>>
exchangeVars == <<exchange, clientVars, flags, iq, serverVars, chan>>

Faulty(kind) == kind \in exchange.faults

NoChannel ==
  [mech |-> "none", block |-> 0, src |-> "none", snd |-> "off", rcv |-> "off",
   sent |-> 0, read |-> 0, lost |-> FALSE]

NoAnswer == [status |-> 0, fault |-> "none"]

ExchangeInit ==
  /\ exchange \in Exchanges
  /\ pc = "idle" /\ outcome = "none" /\ aborted = FALSE /\ closed = FALSE
  /\ iq = "unsent" /\ answer = NoAnswer /\ sp = "idle" /\ running = TRUE
  /\ chan = [d \in {"up", "down"} |-> NoChannel]

Offers   == {"sipub", "jingle"}
Acked    == {"ibb"} \cup Offers     \* with flow control and an answer to each block
Streamed == Acked \cup {"chunked"}

Receives(d, how) == chan' = [chan EXCEPT ![d].rcv = how]

(* What a receiver is after its stream was cancelled: one that still waits *)
(* for the peer accepts it and closes it then.                             *)
Cancelled(d) ==
  CASE chan[d].rcv = "armed" /\ chan[d].mech \in Acked -> "cancelling"
    [] chan[d].rcv \in {"open", "closing"} \/ (chan[d].rcv = "armed" /\ chan[d].mech = "chunked") -> "cancelled"
    [] OTHER -> chan[d].rcv

(* A receiver whose manager was released. *)
Released(d) == IF chan[d].rcv \in {"armed", "open", "cancelling"} THEN "failed" ELSE chan[d].rcv

(* A sender whose registry was: an offer nobody took up is forgotten.      *)
Withdrawn(d) ==
  IF chan[d].snd = "offered" THEN [chan[d] EXCEPT !.snd = "failed", !.src = "dropped"] ELSE chan[d]

ClientBudgets == stanzaBudgets(exchange.limits.client)
ServerBudgets == stanzaBudgets(exchange.limits.server)

-----------------------------------------------------------------------------
(* The client. *)

Settle(how) == pc' = "settled" /\ outcome' = how

Request ==
  /\ pc = "idle"
  /\ IF closed \/ aborted THEN Settle("aborted") ELSE pc' = "disco" /\ UNCHANGED outcome
  /\ UNCHANGED <<exchange, flags, iq, serverVars, chan>>

(* Only an explicit "no" refuses. *)
DiscoRefuses ==
  /\ pc = "disco" /\ Faulty("refuse")
  /\ Settle("unsupported")
  /\ UNCHANGED <<exchange, flags, iq, serverVars, chan>>

(* Nobody can know what a responder accepts: all of them, but for IBB if   *)
(* the client does not take it itself.                                     *)
Uploads == {m \in Mechanisms : m = "ibb" => m \in exchange.accept}

UploadMode ==
  selectEncoding(exchange.upload, ClientBudgets.inline, exchange.preferred, Uploads, ClientBudgets.chunk)

(* The IQ leaves, then the body, whatever happened to the client during    *)
(* the query.                                                              *)
SendRequest ==
  /\ pc = "disco"
  /\ CASE UploadMode.mode = "too-large" -> Settle("too large") /\ UNCHANGED <<iq, chan>>
       [] UploadMode.mode \in Offers /\ closed -> Settle("crashed") /\ UNCHANGED <<iq, chan>>
       [] OTHER ->
            /\ iq' = "asked"
            /\ pc' = IF UploadMode.mode \in {"ibb", "chunked"} THEN "uploading" ELSE "waiting"
            /\ chan' = [chan EXCEPT
                 !["up"].mech = UploadMode.mode, !["up"].block = UploadMode.size,
                 !["up"].src = IF UploadMode.mode \in Streamed THEN "held" ELSE "none",
                 !["up"].snd = CASE UploadMode.mode = "ibb"     -> "opening"
                                 [] UploadMode.mode = "chunked" -> "sending"
                                 [] UploadMode.mode \in Offers  -> "offered"
                                 [] OTHER                       -> "sent"]
            /\ UNCHANGED outcome
  /\ UNCHANGED <<exchange, flags, serverVars>>

(* The result is looked at only once the body is sent. *)
Uploaded ==
  /\ pc = "uploading" /\ chan["up"].snd \in {"sent", "failed"}
  /\ \/ chan["up"].snd = "sent" /\ pc' = "waiting" /\ UNCHANGED outcome
     \/ chan["up"].snd = "failed" /\ Settle(IF aborted THEN "aborted" ELSE "upload failed")
  /\ UNCHANGED <<exchange, flags, iq, serverVars, chan>>

(* #openResponseBody(): a router that was released routes nothing.         *)
Expect ==
  chan' = [chan EXCEPT
    !["down"].rcv = IF chan["down"].mech \in Streamed THEN "armed" ELSE "ended",
    !["down"].lost = @ \/ (closed /\ chan["down"].mech = "chunked")]

ResultIsHere ==
  /\ pc = "waiting" /\ iq \in {"received", "expired"}
  /\ CASE iq = "expired" -> Settle("timeout") /\ UNCHANGED chan
       [] iq = "received" /\ answer.fault # "none" -> Settle("refused") /\ UNCHANGED chan
       [] iq = "received" /\ answer.fault = "none" /\ closed /\ chan["down"].mech \in Offers ->
            Settle("crashed") /\ UNCHANGED chan
       [] OTHER -> Settle("response") /\ Expect
  /\ UNCHANGED <<exchange, flags, iq, serverVars>>

(* withAbort() ends a wait; an upload notices before its next part.  After *)
(* the response a chunked body fails; another is cancelled, unless it is   *)
(* being read.                                                             *)
Abort ==
  /\ Faulty("abort") /\ ~aborted
  /\ aborted' = TRUE
  /\ IF pc \in {"disco", "waiting"} THEN Settle("aborted") ELSE UNCHANGED clientVars
  /\ \E locked \in BOOLEAN :
       /\ chan["down"].read > 0 => locked
       /\ IF outcome # "response" THEN UNCHANGED chan
          ELSE Receives("down",
                 IF chan["down"].mech = "chunked" /\ chan["down"].rcv = "armed" THEN "failed"
                 ELSE IF locked THEN chan["down"].rcv ELSE Cancelled("down"))
  /\ UNCHANGED <<exchange, closed, running, iq, serverVars>>

(* close(): what is expected fails, an upload that is only offered is      *)
(* withdrawn, and what is being sent goes on.                              *)
Close ==
  /\ Faulty("close") /\ ~closed
  /\ closed' = TRUE
  /\ chan' = [chan EXCEPT !["down"].rcv = Released("down"), !["up"] = Withdrawn("up")]
  /\ UNCHANGED <<exchange, clientVars, aborted, running, iq, serverVars>>

(* The caller loses interest in a body. *)
CallerCancels ==
  /\ Faulty("cancel") /\ outcome = "response" /\ Cancelled("down") # chan["down"].rcv
  /\ Receives("down", Cancelled("down"))
  /\ UNCHANGED <<exchange, clientVars, flags, iq, serverVars>>

-----------------------------------------------------------------------------
(* The server.  Its answer leaves in the microtasks that follow, before    *)
(* any macrotask.                                                          *)

Answer(status, fault) ==
  /\ answer' = [status |-> status, fault |-> fault]
  /\ sp' = "done"
  /\ iq' = IF iq = "asked" THEN "answered" ELSE iq

OnReq ==
  /\ iq = "asked" /\ sp = "idle"
  /\ IF running THEN sp' = "authorizing" /\ UNCHANGED <<answer, iq>> ELSE Answer(0, "unavailable")
  /\ UNCHANGED <<exchange, clientVars, flags, chan>>

Forbidden ==
  /\ sp = "authorizing" /\ Faulty("refuse")
  /\ Answer(0, "forbidden")
  /\ UNCHANGED <<exchange, clientVars, flags, chan>>

(* #openRequestBody(), when authorize() allowed it.  A deferred stream is  *)
(* pulled at once; a server stopped meanwhile has no manager left to ask.  *)
Allowed ==
  LET mech == chan["up"].mech IN
  /\ sp = "authorizing"
  /\ CASE mech \notin Streamed /\ ~exchange.fits -> Answer(413, "none") /\ UNCHANGED chan
       [] mech \in {"chunked"} \cup Offers /\ ~running -> Answer(0, "internal") /\ UNCHANGED chan
       [] OTHER ->
            /\ sp' = "handling"
            /\ Receives("up", CASE mech \notin Streamed -> "ended"
                                [] mech \in Streamed /\ running -> "armed"
                                [] OTHER -> "failed")
            /\ UNCHANGED <<answer, iq>>
  /\ UNCHANGED <<exchange, clientVars, flags>>

(* The handler awaits the whole body, or it does not look at it, or it     *)
(* answers with a stream made of it.                                       *)
HandlerReturns ==
  /\ sp = "handling" /\ exchange.handler # "hangs"
  /\ exchange.handler = "reads" => chan["up"].rcv \in {"ended", "failed"}
  /\ sp' = IF exchange.handler = "throws" \/ (exchange.handler = "reads" /\ chan["up"].rcv = "failed")
           THEN "throwing" ELSE "normalizing"
  /\ UNCHANGED <<exchange, clientVars, flags, answer, iq, chan>>

(* Mutant: an unread request body is left alone. *)
UnusedLeft == chan["up"].rcv

(* "Drop an unconsumed request body so its transport doesn't linger."      *)
Unused == IF exchange.handler = "pipes" THEN chan["up"].rcv ELSE Cancelled("up")

Accepted == exchange.accept \cup {"chunked"}

(* The response's body as #respond() sees it, and how it will travel.      *)
Source ==
  maybeCompress(streamSource(exchange.download, ServerBudgets.inline, exchange.preferred, Accepted), exchange.packed)

(* Mutant: the chunk size the requester asked for is not looked at.        *)
RespondModeUnasked == selectEncoding(Source, ServerBudgets.inline, exchange.preferred, Accepted, ServerBudgets.chunk)

RespondMode == selectEncoding(Source, ServerBudgets.inline, exchange.preferred, Accepted, ClientBudgets.chunk)

(* Only what this server opens itself is lowered to its own block size.    *)
Block == IF RespondMode.mode = "ibb" THEN ibbBlockSize(RespondMode.size, ServerBudgets.chunk)
         ELSE RespondMode.size

(* The channel of a response that travels so. *)
Outgoing ==
  LET mode == RespondMode.mode
      dead == mode = "ibb" /\ ~running IN
  [chan["down"] EXCEPT
     !.mech  = IF mode = "too-large" THEN "none" ELSE mode,
     !.block = Block,
     !.src   = CASE mode = "too-large"        -> "cancelled"
                 [] dead                      -> "dropped"
                 [] mode \in Streamed /\ ~dead -> "held"
                 [] OTHER                     -> "none",
     !.snd   = CASE dead                                    -> "failed"
                 [] mode \in {"ibb", "chunked"} /\ ~dead     -> "due"
                 [] mode \in Offers                         -> "offered"
                 [] OTHER                                   -> "sent"]

(* The end of #onReq: the unread body is cancelled, the answer made, its   *)
(* body scheduled or offered.                                              *)
Respond ==
  /\ \/ /\ sp = "throwing"
        /\ Answer(500, "none")
        /\ Receives("up", Unused)
     \/ /\ sp = "normalizing" /\ RespondMode.mode \in Offers /\ ~running
        /\ Answer(0, "internal")
        /\ Receives("up", Unused)
     \/ /\ sp = "normalizing" /\ (RespondMode.mode \in Offers => running)
        /\ Answer(IF RespondMode.mode = "too-large" THEN 413 ELSE 200, "none")
        /\ chan' = [chan EXCEPT !["up"].rcv = Unused, !["down"] = Outgoing]
  /\ UNCHANGED <<exchange, clientVars, flags>>

(* The macrotask of #scheduleChunkedSend() and #scheduleIbbSend(), which   *)
(* asks nobody whether the server still runs.                              *)
SendScheduled ==
  /\ chan["down"].snd = "due"
  /\ chan' = [chan EXCEPT !["down"].snd = IF chan["down"].mech = "ibb" THEN "opening" ELSE "sending"]
  /\ UNCHANGED <<exchange, clientVars, flags, iq, serverVars>>

(* stop(): bodies that are received fail, offers are withdrawn.            *)
Stop ==
  /\ Faulty("stop") /\ running
  /\ running' = FALSE
  /\ chan' = [chan EXCEPT !["up"].rcv = Released("up"), !["down"] = Withdrawn("down")]
  /\ UNCHANGED <<exchange, clientVars, aborted, closed, iq, serverVars>>

-----------------------------------------------------------------------------
(* The IQ's answer. *)

Travels(from, to) ==
  /\ iq \in from /\ iq' = to
  /\ UNCHANGED <<exchange, clientVars, flags, serverVars, chan>>

AnswerArrives  == Travels({"answered"}, "received")
AnswerLost     == Faulty("loss") /\ Travels({"answered"}, "lost")
RequestExpires == Faulty("timeout") /\ Travels({"asked", "answered", "lost"}, "expired")

-----------------------------------------------------------------------------
(* The channels.  An <open/> follows the request, or its answer, on the    *)
(* same connection; it is parked until somebody expects it.                *)

(* A step of a transport, at one of its ends or both. *)
ChanStep(new) ==
  /\ chan' = new
  /\ UNCHANGED <<exchange, clientVars, flags, iq, serverVars>>

Announced(d) == IF d = "up" THEN sp # "idle" ELSE iq \notin {"asked", "answered"}

Accepts(d) ==
  /\ chan[d].snd \in {"opening", "offered"} /\ Announced(d)
  /\ chan[d].rcv \in {"armed", "cancelling"}
  /\ ChanStep([chan EXCEPT ![d].snd = "sending",
                           ![d].rcv = IF chan[d].rcv = "armed" THEN "open" ELSE "cancelled"])

OpenRefused(d) ==
  /\ Faulty("timeout") /\ chan[d].snd \in {"opening", "offered"}
  /\ chan[d].rcv \notin {"armed", "cancelling"}
  /\ ChanStep([chan EXCEPT ![d].snd = "failed", ![d].src = "dropped"])

(* A body that is piped through has what the handler read, and ends with   *)
(* it.                                                                     *)
Piped(d)   == d = "down" /\ exchange.handler = "pipes" /\ chan["up"].mech \in Streamed

Yields(d)  == IF Piped(d) THEN chan["down"].sent < chan["up"].read ELSE chan[d].sent < Parts
Drained(d) == ~Yields(d) /\ (Piped(d) => chan["up"].rcv = "ended")

Sending(d) == chan[d].snd = "sending"
Room(d)    == chan[d].mech \in Acked => chan[d].rcv = "open" /\ chan[d].sent - chan[d].read < Window

SendPart(d) ==
  /\ Sending(d) /\ Yields(d) /\ Room(d)
  /\ d = "up" => ~aborted \/ chan[d].mech \in Offers
  /\ \E l \in {chan[d].lost} \cup (IF Faulty("loss") /\ chan[d].mech = "chunked" THEN {TRUE} ELSE {}) :
       ChanStep([chan EXCEPT ![d].src = "reading", ![d].sent = @ + 1, ![d].lost = l])

Ending(d) == IF chan[d].rcv = "open" THEN "closing" ELSE chan[d].rcv

(* close(); a receiver that has cancelled may still answer it.             *)
SendEnd(d) ==
  /\ Sending(d) /\ Drained(d)
  /\ chan[d].mech \in Acked => chan[d].rcv \in {"open", "cancelled"}
  /\ ChanStep([chan EXCEPT ![d].src = "drained", ![d].snd = "sent", ![d].rcv = Ending(d)])

(* A block is refused, or nobody takes it until its deadline.  The         *)
(* program's stream is let go of, not cancelled.                           *)
SendFails(d) ==
  /\ Sending(d) /\ chan[d].mech \in Acked
  /\ \/ chan[d].rcv \in {"cancelled", "failed"}
     \/ Faulty("timeout") /\ ~Room(d)
  /\ ChanStep([chan EXCEPT ![d].snd = "failed", ![d].src = IF Drained(d) THEN "drained" ELSE "dropped"])

(* abort() sends a <close/> like any other, and the chunks just stop.      *)
Stops(d) ==
  /\ Sending(d)
  /\ ChanStep([chan EXCEPT ![d].snd = "failed", ![d].src = "dropped", ![d].rcv = Ending(d)])

(* The program's stream failed. *)
SourceFails(d) == Faulty("source") /\ ~Drained(d) /\ Stops(d)

(* So did the one it was made of, or the signal is seen at the next part.  *)
GivesUp(d) ==
  /\ \/ Piped(d) /\ chan["up"].rcv = "failed"
     \/ d = "up" /\ aborted /\ chan[d].mech \notin Offers /\ Yields(d)
  /\ Stops(d)

(* Who reads: the handler that wants the body, one part ahead of the       *)
(* response if it pipes it, and the caller.                                *)
Reads(d) ==
  IF d = "down" THEN outcome = "response"
  ELSE \/ exchange.handler = "reads" /\ sp = "handling"
       \/ exchange.handler = "pipes" /\ sp # "authorizing" /\ chan["up"].read <= chan["down"].sent

Readable(d) == IF chan[d].mech = "chunked" THEN {"armed"} ELSE {"open", "closing"}

(* limitStream() errors the body once it exceeds the server's maximum.     *)
Exceeds(d) == d = "up" /\ ~exchange.fits /\ chan[d].read = Parts - 1

(* Mutant: a body over the limit is ended, not failed. *)
ReadPartCutting(d) ==
  /\ Reads(d) /\ chan[d].rcv \in Readable(d) /\ chan[d].read < chan[d].sent /\ ~chan[d].lost
  /\ IF Exceeds(d) THEN ChanStep([chan EXCEPT ![d].rcv = "ended"])
     ELSE ChanStep([chan EXCEPT ![d].read = @ + 1])

ReadPart(d) ==
  /\ Reads(d) /\ chan[d].rcv \in Readable(d) /\ chan[d].read < chan[d].sent /\ ~chan[d].lost
  /\ IF Exceeds(d) THEN ChanStep([chan EXCEPT ![d].rcv = "failed"])
     ELSE ChanStep([chan EXCEPT ![d].read = @ + 1])

ReadEnd(d) ==
  /\ Reads(d) /\ chan[d].read = chan[d].sent
  /\ \/ chan[d].rcv = "closing"
     \/ chan[d].mech = "chunked" /\ chan[d].rcv = "armed" /\ chan[d].snd = "sent" /\ ~chan[d].lost
  /\ ChanStep([chan EXCEPT ![d].rcv = "ended"])

(* Mutant: nobody watches for a body that never starts. *)
IdleTimeoutOpened(d) ==
  /\ Faulty("timeout") /\ chan[d].rcv \in {"open", "cancelling"}
  /\ ChanStep([chan EXCEPT ![d].rcv = "failed"])

(* The watchdogs of receivers. *)
IdleTimeout(d) ==
  /\ Faulty("timeout") /\ chan[d].rcv \in {"armed", "open", "cancelling"}
  /\ ChanStep([chan EXCEPT ![d].rcv = "failed"])

-----------------------------------------------------------------------------
Client == Request \/ SendRequest \/ Uploaded \/ ResultIsHere
Server == OnReq \/ Allowed \/ HandlerReturns \/ Respond \/ SendScheduled
Transfer(d) == Accepts(d) \/ SendPart(d) \/ SendEnd(d) \/ SendFails(d) \/ GivesUp(d) \/ ReadPart(d) \/ ReadEnd(d)
Timer(d)    == OpenRefused(d) \/ IdleTimeout(d)

ExchangeNext ==
  \/ Client \/ Server
  \/ DiscoRefuses \/ Forbidden \/ Abort \/ Close \/ CallerCancels \/ Stop
  \/ AnswerArrives \/ AnswerLost \/ RequestExpires
  \/ \E d \in {"up", "down"} : Transfer(d) \/ Timer(d) \/ SourceFails(d)

(* Code runs on, stanzas arrive, programs read what they want, and what    *)
(* has a deadline meets it.                                                *)
Fairness ==
  /\ WF_exchangeVars(Client) /\ WF_exchangeVars(Server)
  /\ WF_exchangeVars(AnswerArrives) /\ WF_exchangeVars(RequestExpires)
  /\ \A d \in {"up", "down"} : WF_exchangeVars(Transfer(d)) /\ WF_exchangeVars(Timer(d))

ExchangeSpec == ExchangeInit /\ [][ExchangeNext]_exchangeVars
FairSpec == ExchangeSpec /\ Fairness

-----------------------------------------------------------------------------
(* Where everybody can be. *)
ExchangeTypeOK ==
  /\ exchange \in Plan
  /\ pc \in {"idle", "disco", "uploading", "waiting", "settled"}
  /\ outcome \in {"none", "response", "refused", "unsupported", "too large", "upload failed",
                  "timeout", "aborted", "crashed"}
  /\ iq \in {"unsent", "asked", "answered", "received", "lost", "expired"}
  /\ sp \in {"idle", "authorizing", "handling", "normalizing", "throwing", "done"}
  /\ \A d \in {"up", "down"} :
       /\ chan[d].src \in {"none", "held", "reading", "drained", "cancelled", "dropped"}
       /\ chan[d].snd \in {"off", "due", "opening", "offered", "sending", "sent", "failed"}
       /\ chan[d].rcv \in {"off", "armed", "open", "closing", "ended", "failed", "cancelling", "cancelled"}
       /\ chan[d].read \in 0..chan[d].sent /\ chan[d].sent \in 0..Parts

(* A body that ends cleanly is whole, on both sides, whatever the caller,  *)
(* the network, stop() and close() do: limits, lost chunks and released    *)
(* managers fail it.  The exception is a sender that gave up: its close    *)
(* looks like any other.  A body that is piped through has all of what it  *)
(* is made of.                                                             *)
EndedMeansWhole ==
  \A d \in {"up", "down"} :
    chan[d].rcv = "ended" /\ chan[d].mech \in Streamed /\ chan[d].snd = "sent" =>
      chan[d].read = IF Piped(d) THEN chan["up"].read ELSE Parts

LimitOf(side) == Or(exchange.limits[side], Floor)

(* The body that is inlined or not, as selectEncoding() sees it.           *)
Considered(d) == IF d = "up" THEN exchange.upload ELSE Source

(* No stanza of a body is larger, in bytes, than the limits it has to      *)
(* pass, as far as the two sides know them.  As chunks or blocks the       *)
(* client's, and for the blocks of its own streams also the server's;      *)
(* chunks and Jingle's blocks are not held to the server's own.  Inline    *)
(* the sender's: as base64, and as text or XML if it has one byte per      *)
(* UTF-16 unit; other text is measured in units, and may take three times  *)
(* what it is allowed, less its envelope.  Rounding to whole groups of     *)
(* base64 takes up to two of the 512 bytes a chunk leaves for its own.     *)
StanzasFit ==
  \A d \in {"up", "down"} :
    LET c == chan[d]
        sender == IF d = "up" THEN "client" ELSE "server"
        stanza == base64Length(c.block) + 510 IN
    /\ c.mech \in Inline /\ (c.mech = "base64" \/ BytePerUnit(Considered(d))) =>
         c.block + 2048 <= LimitOf(sender)
    /\ c.mech \in Inline => c.block <= 3 * (LimitOf(sender) - 2048)
    /\ c.mech \in {"ibb", "chunked", "jingle"} => stanza <= LimitOf("client")
    /\ c.mech = "ibb" /\ exchange.limits[sender] # Unset => stanza <= LimitOf(sender)

Settled == pc = "settled"

(* The transport of d holds nothing any more; what it delivered may still  *)
(* wait for its reader.                                                    *)
Over(d) == chan[d].snd \in {"off", "sent", "failed"} /\ chan[d].rcv \notin {"armed", "open", "cancelling"}

(* A handler that has read the request's body when it answers, or a body   *)
(* the client need not send before it looks at the answer. *)
InStep == exchange.handler = "reads" \/ UploadMode.mode # "ibb"

(* Without faults, both bodies arrive and nothing is left behind, with no  *)
(* timer's help.                                                           *)
HealthyExchange ==
  exchange.faults = {} /\ exchange.handler # "hangs" /\ InStep /\ exchange.fits /\ pc = "disco"
    ~> /\ Settled /\ outcome \in {"response", "too large"}
       /\ Over("up") /\ Over("down") /\ chan["up"].rcv # "closing"
       /\ chan["down"].mech \in Streamed => chan["down"].rcv = "ended"

(* Where everything has a deadline, request() settles and both transfers   *)
(* end on both sides, whatever is aborted, closed, stopped, lost or never  *)
(* answered.                                                               *)
EveryoneSettles ==
  Faulty("timeout") /\ pc # "idle" ~> Settled /\ Over("up") /\ Over("down")
=============================================================================
