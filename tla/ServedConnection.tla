-------------------------- MODULE ServedConnection --------------------------
(***************************************************************************)
(* One live connection as the API edge serves it (api/internal/live and    *)
(* api/play): a reader hands each message to its type's lane, the lanes    *)
(* answer, the Runtime's streams are sent, and a closer ends the           *)
(* connection once the Runtime did, all at once on one socket.  serve      *)
(* takes the first end a loop reports, stops the others and disconnects.   *)
(***************************************************************************)
EXTENDS Integers, Sequences, FiniteSets

CONSTANTS
  Kinds,       \* of {"player", "admin", "preview"}
  Lanes,
  Excess,      \* by kind, what its lanes do with a message beyond their limits
  Capacity,    \* messages waiting in a lane
  Actors,      \* participants of a preview
  MaxProduced, \* by kind, messages to each lane and updates of each feed
  MaxEnds      \* by kind, how many of the things that end a connection race

ASSUME ServedAssumption ==
  /\ Kinds \subseteq {"player", "admin", "preview"}
  /\ Excess \in [Kinds -> SUBSET {"answer", "drop", "close"}]
  /\ Capacity \in Nat \ {0}

VARIABLES
  kind,
  pc,        \* where each loop is
  out,       \* what each loop is about to handle or write
  phase,     \* the stream the session loop sends
  acting,    \* the participant a preview's client was told it acts as
  pending,   \* each lane's messages and each feed's updates
  signal,    \* whether each lane's wake is signalled
  published, \* how many of each the client or the Runtime produced
  game,      \* the Runtime's side: started, and how it ended the connection
  socket, client, dropped, \* dropped: the end recorded before a close
  sent,      \* what reached the client, in order
  results,   \* ends the loops reported, not taken yet
  stage, cause, cancelled,
  ends       \* of MaxEnds, how many happened

servedVars == <<kind, pc, out, phase, acting, pending, signal, published, game, socket, client,
                dropped, sent, results, stage, cause, cancelled, ends>>
servingVars == <<stage, cause, cancelled, ends>>
socketVars == <<socket, dropped>>
feedVars == <<pending, signal, published>>

Feeds == {"lobby", "views", "roster"}
Queues == Lanes \cup Feeds
Loops == Lanes \cup {"reader", "session", "roster", "closer"}

(* sendSession, sendRoster, sendViews: the streams closeOnRuntimeEnd waits for. *)
Streams == {"session"} \cup (IF kind = "player" THEN {"roster"} ELSE {})
Starting(k) ==
  [l \in Loops |-> CASE l = "reader" -> "read"
                     [] l = "closer" -> "serving"
                     [] l = "roster" -> IF k = "player" THEN "held" ELSE "done"
                     [] OTHER -> "next"]

Source(l) == IF l = "session" THEN phase ELSE l
StartSent == \E i \in 1 .. Len(sent) : sent[i].what = "start"
Ended == game.ended # "none"

Idle(l) == out' = [out EXCEPT ![l] = <<>>]

(* A loop that stopped tells serve how it ended the connection, or "none". *)
Stop(l, end) ==
  /\ pc' = [pc EXCEPT ![l] = "done"]
  /\ results' = IF stage = "serving" THEN Append(results, end) ELSE results

AnotherEnd == stage = "serving" /\ ends < MaxEnds[kind] /\ ends' = ends + 1 /\ UNCHANGED <<stage, cause, cancelled>>

Goes(l, where) == pc' = [pc EXCEPT ![l] = where] /\ UNCHANGED results

(* answering: read-held by who answers, write-held or waited for by the closer. *)
Answering == {l \in Lanes \cup {"reader"} : pc[l] \in {"handling", "writing", "closed"}}
MayAnswer == pc["closer"] \notin {"locking", "writing", "closing", "closed"}

(* Mutant: the close is not recorded. *)
RecordedNothing(end) == dropped

(* closeAs: recorded first, over whatever was, so the reader, failing on the
   closed socket, reports an end recorded. *)
Recorded(end) == end

(* The first close is the one that counts. *)
Closed(by) == socket' = IF socket = "open" THEN by ELSE socket

(* A close by loop l that it then reports as end. *)
CloseAs(l, end) ==
  /\ dropped' = Recorded(end)
  /\ Closed("recorded")
  /\ out' = [out EXCEPT ![l] = <<[what |-> end, n |-> 0]>>]
  /\ Goes(l, "closed")

(* CloseServerFailure and the closer's own close record nothing. *)
CloseUnrecorded(l, end) ==
  /\ Closed("unrecorded")
  /\ out' = [out EXCEPT ![l] = <<[what |-> end, n |-> 0]>>]
  /\ Goes(l, "closed")
  /\ UNCHANGED dropped

ReportClose(l) ==
  /\ pc[l] = "closed"
  /\ Stop(l, Head(out[l]).what) /\ Idle(l)
  /\ UNCHANGED <<kind, phase, acting, feedVars, game, socketVars, client, sent, servingVars>>

-----------------------------------------------------------------------------
(* ReadMessage: the client's next message, for a lane. *)
ReadMessage(l) ==
  /\ pc["reader"] = "read" /\ socket = "open" /\ client.there /\ ~cancelled
  /\ published[l] < MaxProduced[kind][l]
  /\ published' = [published EXCEPT ![l] = @ + 1]
  /\ out' = [out EXCEPT !["reader"] = <<[what |-> l, n |-> published[l] + 1]>>]
  /\ Goes("reader", "offer")
  /\ UNCHANGED <<kind, phase, acting, pending, signal, game, socketVars, client, sent, servingVars>>

(* Dispatch: no message the connection takes, or more than it takes. *)
ReadRefused ==
  /\ pc["reader"] = "read" /\ socket = "open" /\ client.there /\ ~cancelled
  /\ \E end \in {"malformed_message", "unknown_message_type", "rate_limited"} : CloseAs("reader", end)
  /\ AnotherEnd
  /\ UNCHANGED <<kind, phase, acting, feedVars, game, client, sent>>

(* Read fails: stopped, dropped by the server, or the client is gone. *)
ReadFails ==
  /\ pc["reader"] = "read"
  /\ cancelled \/ socket # "open" \/ ~client.there
  /\ Stop("reader", IF cancelled THEN "none" ELSE IF dropped # "none" THEN dropped ELSE "client_closed")
  /\ UNCHANGED <<kind, out, phase, acting, feedVars, game, socketVars, client, sent, servingVars>>

(* Mutant: the lane is not woken. *)
NotWoken(l) == signal

Woken(l) == [signal EXCEPT ![l] = TRUE]

(* offer: within the lane's limits, the message joins it, and the lane is woken. *)
Offer ==
  LET l == Head(out["reader"]).what
  IN /\ pc["reader"] = "offer"
     /\ Len(pending[l]) < Capacity
     /\ pending' = [pending EXCEPT ![l] = Append(@, Head(out["reader"]))]
     /\ Goes("reader", "wake")
     /\ UNCHANGED <<kind, out, phase, acting, signal, published, game, socketVars, client, sent, servingVars>>

WakeLane ==
  /\ pc["reader"] = "wake"
  /\ signal' = Woken(Head(out["reader"]).what)
  /\ Goes("reader", "read") /\ Idle("reader")
  /\ UNCHANGED <<kind, phase, acting, pending, published, game, socketVars, client, sent, servingVars>>

(* commandRateLimited: answered without handing it to the Runtime. *)
RateLimitedAnswer(message) == [what |-> "rate_limited", n |-> message.n]

(* refuse: beyond the type's rate, which may be at any time, or its queue;
   what answers or closes does so from the reader, holding the connection. *)
Refuse ==
  /\ pc["reader"] = "offer"
  /\ \/ "drop" \in Excess[kind] /\ Goes("reader", "read") /\ Idle("reader") /\ UNCHANGED <<socketVars, servingVars>>
     \/ "answer" \in Excess[kind] /\ MayAnswer /\ Goes("reader", "writing") /\ UNCHANGED <<socketVars, servingVars>>
        /\ out' = [out EXCEPT !["reader"] = <<RateLimitedAnswer(Head(@))>>]
     \/ "close" \in Excess[kind] /\ MayAnswer /\ CloseAs("reader", "rate_limited") /\ UNCHANGED servingVars
  /\ UNCHANGED <<kind, phase, acting, feedVars, game, client, sent>>

-----------------------------------------------------------------------------
(* What a lane does with a message; what a stream sends of an update: a
   preview's client is told who it acts as before the first view of them. *)
Writes(l, item) ==
  IF l = "session" /\ phase = "views" /\ kind = "preview" /\ item.actor # acting
  THEN <<[what |-> "acting", n |-> item.n, actor |-> item.actor], item>> ELSE <<item>>

TakeFrom(l) ==
  LET item == Head(pending[Source(l)])
  IN /\ pending[Source(l)] # <<>>
     /\ pending' = [pending EXCEPT ![Source(l)] = Tail(@)]
     /\ out' = [out EXCEPT ![l] = Writes(l, item)]
     /\ acting' = IF l = "session" /\ phase = "views" THEN item.actor ELSE acting
     /\ Goes(l, IF l \in Lanes THEN "handle" ELSE "writing")

(* latestFeed.next, viewFeed.next: what is published, also just before the
   end, until the feed is finished or the connection ended. *)
NextUpdate(l) ==
  /\ pc[l] = "next"
  /\ \/ TakeFrom(l)
     \/ /\ pending[Source(l)] = <<>>
        /\ IF l = "session" /\ phase = "lobby" THEN (game.started \/ Ended) /\ Goes(l, "start") ELSE Ended /\ Stop(l, "none")
        /\ UNCHANGED <<out, acting, pending>>
  /\ UNCHANGED <<kind, phase, signal, published, game, socketVars, client, sent, servingVars>>

(* Lane.next: the first message, or a wait for the lane's wake. *)
NextMessage(l) ==
  /\ pc[l] = "next"
  /\ \/ TakeFrom(l)
     \/ pending[l] = <<>> /\ Goes(l, "asleep") /\ UNCHANGED <<out, acting, pending>>
  /\ UNCHANGED <<kind, phase, signal, published, game, socketVars, client, sent, servingVars>>

WakesUp(l) ==
  /\ pc[l] = "asleep" /\ signal[l]
  /\ signal' = [signal EXCEPT ![l] = FALSE]
  /\ Goes(l, "next")
  /\ UNCHANGED <<kind, out, phase, acting, pending, published, game, socketVars, client, sent, servingVars>>

WokenByCancel(l) ==
  /\ cancelled
  /\ pc[l] \in IF l \in Lanes THEN {"asleep"} ELSE {"next", "start", "held"}
  /\ Stop(l, "none")
  /\ UNCHANGED <<kind, out, phase, acting, feedVars, game, socketVars, client, sent, servingVars>>

(* Run: the message is handled while the connection is held open. *)
Hold(l) ==
  /\ pc[l] = "handle" /\ MayAnswer
  /\ Goes(l, "handling")
  /\ UNCHANGED <<kind, out, phase, acting, feedVars, game, socketVars, client, sent, servingVars>>

AfterHandling(l) == IF cancelled THEN Stop(l, "none") ELSE Goes(l, "next")

(* What the handlers have in common: the Runtime failing drops the client. *)
Answers(l) == Goes(l, "writing") /\ UNCHANGED <<out, socketVars, servingVars>>
SaysNothing(l) == AfterHandling(l) /\ Idle(l) /\ UNCHANGED <<socketVars, servingVars>>
Closes(l, end) == CloseAs(l, end) /\ AnotherEnd
Fails(l) == CloseUnrecorded(l, "server_failure") /\ AnotherEnd

(* A player's COMMAND and leave are answered, its SAMPLE, resync and game
   fault are not; data its game does not declare closes. *)
PlayerHandles(l) == Answers(l) \/ SaysNothing(l) \/ Fails(l) \/ Closes(l, "invalid_game_data")

(* An admin's requests are answered, but its resync. *)
AdminHandles(l) == Answers(l) \/ SaysNothing(l) \/ Fails(l) \/ Closes(l, "malformed_message")

(* A preview is told its mistakes and goes on. *)
PreviewHandles(l) == Answers(l) \/ SaysNothing(l) \/ Fails(l) \/ Closes(l, "malformed_message")

Handle(l) ==
  /\ pc[l] = "handling"
  /\ CASE kind = "player" -> PlayerHandles(l) [] kind = "admin" -> AdminHandles(l) [] kind = "preview" -> PreviewHandles(l)
  /\ UNCHANGED <<kind, phase, acting, feedVars, game, client, sent>>

-----------------------------------------------------------------------------
(* sendSession: the start, between the lobby and the views; none when the
   connection ended before the game started. *)
SendStart ==
  /\ pc["session"] = "start" /\ (game.started \/ Ended)
  /\ IF game.started
     THEN Goes("session", "writing") /\ out' = [out EXCEPT !["session"] = <<[what |-> "start", n |-> 0]>>]
     ELSE Stop("session", "none") /\ UNCHANGED out
  /\ UNCHANGED <<kind, phase, acting, feedVars, game, socketVars, client, sent, servingVars>>

(* Mutant: the roster follows the Runtime's start, not the one sent. *)
RosterMayFollowRuntime == game.started

RosterMayFollow == StartSent

(* sendRoster: only after the start the client was sent. *)
SendRoster ==
  /\ pc["roster"] = "held"
  /\ \/ RosterMayFollow /\ Goes("roster", "next")
     \/ pc["session"] = "done" /\ ~RosterMayFollow /\ Stop("roster", "none")
  /\ UNCHANGED <<kind, out, phase, acting, feedVars, game, socketVars, client, sent, servingVars>>

(* What a loop does once its message was written. *)
AfterWrite(l, message) ==
  IF l \in Lanes THEN AfterHandling(l) ELSE
  CASE l = "reader" -> Goes(l, "read")
    [] l = "closer" -> Goes(l, "closing")
    [] OTHER -> Goes(l, "next")

(* WriteMessage: the client takes it, or the socket swallows it once the
   client is gone. *)
Write(l) ==
  LET message == Head(out[l])
  IN /\ pc[l] = "writing" /\ socket = "open" /\ ~cancelled
     /\ client.there => client.takes
     /\ sent' = IF client.there THEN Append(sent, message) ELSE sent
     /\ phase' = IF message.what = "start" THEN "views" ELSE phase
     /\ out' = [out EXCEPT ![l] = Tail(@)]
     /\ IF Len(out[l]) > 1 THEN Goes(l, "writing") ELSE AfterWrite(l, message)
     /\ UNCHANGED <<kind, acting, feedVars, game, socketVars, client, servingVars>>

(* WriteMessage: the deadline drops a client that does not take it, after
   recording why. *)
WriteTooSlow(l) ==
  /\ pc[l] = "writing" /\ socket = "open" /\ ~cancelled /\ ~client.takes
  /\ dropped' = Recorded("slow_consumer")
  /\ Closed("recorded")
  /\ Stop(l, "slow_consumer") /\ Idle(l)
  /\ UNCHANGED <<kind, phase, acting, feedVars, game, client, sent, servingVars>>

(* A write stopped by serve is no end; the closer, which checks only the
   end, then closes. *)
WriteFails(l) ==
  /\ pc[l] = "writing" /\ (cancelled \/ socket # "open" \/ ~client.there)
  /\ IF ~cancelled THEN Stop(l, "write_failed")
     ELSE IF l = "closer" THEN Goes(l, "closing") ELSE Stop(l, "none")
  /\ Idle(l)
  /\ UNCHANGED <<kind, phase, acting, feedVars, game, socketVars, client, sent, servingVars>>

-----------------------------------------------------------------------------
(* Mutant: the roster is not counted among the streams. *)
DeliveredSession == pc["session"] = "done"

Delivered == \A s \in Streams : pc[s] = "done"

(* closeOnRuntimeEnd, closeOnPreviewEnd: the streams first, then the answers
   in progress, then how it ended. *)
AwaitEnd ==
  /\ pc["closer"] = "serving"
  /\ \/ cancelled /\ Stop("closer", "none")
     \/ Ended /\ Goes("closer", "delivering")
  /\ UNCHANGED <<kind, out, phase, acting, feedVars, game, socketVars, client, sent, servingVars>>

AwaitStreams ==
  /\ pc["closer"] = "delivering"
  /\ \/ Delivered /\ Goes("closer", "locking")
     \/ cancelled /\ Stop("closer", "none")
  /\ UNCHANGED <<kind, out, phase, acting, feedVars, game, socketVars, client, sent, servingVars>>

Tells == IF kind = "preview" THEN "preview_ended" ELSE IF StartSent THEN "session_ended" ELSE "lobby_closed"

LockAndTell ==
  /\ pc["closer"] = "locking" /\ Answering = {}
  /\ IF game.ended = "session_ended"
     THEN Goes("closer", "writing") /\ out' = [out EXCEPT !["closer"] = <<[what |-> Tells, n |-> 0]>>]
     ELSE Goes("closer", "closing") /\ UNCHANGED out
  /\ UNCHANGED <<kind, phase, acting, feedVars, game, socketVars, client, sent, servingVars>>

CloseEnded ==
  /\ pc["closer"] = "closing"
  /\ CloseUnrecorded("closer", "ended_by_owner")
  /\ UNCHANGED <<kind, phase, acting, feedVars, game, client, sent, servingVars>>

-----------------------------------------------------------------------------
(* The Runtime: the lobby until the start, then the views and the roster;
   a newer lobby or roster replaces the one not taken. *)
Publishes(feed, item) ==
  /\ published' = [published EXCEPT ![feed] = @ + 1]
  /\ pending' = [pending EXCEPT ![feed] = IF feed = "views" THEN Append(@, item) ELSE <<item>>]

Publish(feed) ==
  /\ ~Ended /\ stage = "serving"
  /\ published[feed] < MaxProduced[kind][feed]
  /\ feed = "lobby" <=> ~game.started
  /\ feed = "roster" => kind = "player"
  /\ \E actor \in IF kind = "preview" /\ feed = "views" THEN Actors ELSE {"none"} :
       Publishes(feed, [what |-> feed, n |-> published[feed] + 1, actor |-> actor])
  /\ UNCHANGED <<kind, pc, out, phase, acting, signal, game, socketVars, client, sent, results, servingVars>>

(* markStarted finishes the lobby's feed. *)
RuntimeStarts ==
  /\ ~game.started /\ ~Ended /\ stage = "serving"
  /\ game' = [game EXCEPT !.started = TRUE]
  /\ UNCHANGED <<kind, pc, out, phase, acting, feedVars, socketVars, client, sent, results, servingVars>>

RuntimeEnds ==
  /\ ~Ended /\ AnotherEnd
  /\ \E reason \in {"session_ended", "owner_changed"} : game' = [game EXCEPT !.ended = reason]
  /\ UNCHANGED <<kind, pc, out, phase, acting, feedVars, socketVars, client, sent, results>>

(* The client closes, or stops taking what it is sent. *)
ClientCloses ==
  /\ client.there /\ socket = "open"
  /\ AnotherEnd
  /\ client' = [client EXCEPT !.there = FALSE]
  /\ UNCHANGED <<kind, pc, out, phase, acting, feedVars, game, socketVars, sent, results>>

ClientStalls ==
  /\ client.there /\ client.takes /\ socket = "open"
  /\ AnotherEnd
  /\ client' = [client EXCEPT !.takes = FALSE]
  /\ UNCHANGED <<kind, pc, out, phase, acting, feedVars, game, socketVars, sent, results>>

-----------------------------------------------------------------------------
Decide(end) == stage' = "decided" /\ cause' = end /\ results' = <<>> /\ UNCHANGED cancelled

(* serve takes results in the order they were reported, until one is an end. *)
TakeResult ==
  /\ stage = "serving" /\ results # <<>>
  /\ IF Head(results) # "none" THEN Decide(Head(results))
     ELSE results' = Tail(results) /\ UNCHANGED <<stage, cause, cancelled>>
  /\ UNCHANGED <<kind, pc, out, phase, acting, feedVars, game, socketVars, client, sent, ends>>

(* keepalive: no pong came back; serve closes the socket. *)
Unresponsive ==
  /\ stage = "serving" /\ client.there /\ ~client.takes /\ socket = "open"
  /\ Decide("unresponsive")
  /\ UNCHANGED <<kind, pc, out, phase, acting, feedVars, game, socketVars, client, sent, ends>>

ShutDown ==
  /\ stage = "serving" /\ ends < MaxEnds[kind]
  /\ ends' = ends + 1
  /\ Closed("released")
  /\ Decide("server_shutdown")
  /\ UNCHANGED <<kind, pc, out, phase, acting, feedVars, game, dropped, client, sent>>

(* serve cancels the loops, disconnects, and releases the socket: no loop
   tells these apart ... *)
Disconnect ==
  /\ stage = "decided"
  /\ stage' = "draining" /\ cancelled' = TRUE /\ Closed("released")
  /\ game' = [game EXCEPT !.ended = IF Ended THEN @ ELSE "disconnected"]
  /\ UNCHANGED <<kind, pc, out, phase, acting, feedVars, dropped, client, sent, results, cause, ends>>

(* ... and logs the end once every loop stopped. *)
LogEnd ==
  /\ stage = "draining" /\ \A l \in Loops : pc[l] = "done"
  /\ stage' = "over"
  /\ UNCHANGED <<kind, pc, out, phase, acting, feedVars, game, socketVars, client, sent, results, cause, cancelled, ends>>

Over == stage = "over" /\ UNCHANGED servedVars

-----------------------------------------------------------------------------
(* A preview's client is told who it acts as before it is served. *)
ServedInit ==
  /\ kind \in Kinds
  /\ pc = Starting(kind)
  /\ out = [l \in Loops |-> <<>>]
  /\ phase = IF kind = "preview" THEN "views" ELSE "lobby"
  /\ acting \in IF kind = "preview" THEN Actors ELSE {"none"}
  /\ pending = [q \in Queues |-> <<>>] /\ signal = [l \in Lanes |-> FALSE]
  /\ published = [q \in Queues |-> 0]
  /\ game = [started |-> kind = "preview", ended |-> "none"]
  /\ socket = "open" /\ client = [there |-> TRUE, takes |-> TRUE] /\ dropped = "none"
  /\ sent = IF kind = "preview" THEN <<[what |-> "acting", n |-> 0, actor |-> acting]>> ELSE <<>>
  /\ results = <<>>
  /\ stage = "serving" /\ cause = "none" /\ cancelled = FALSE /\ ends = 0

Reader == (\E l \in Lanes : ReadMessage(l)) \/ ReadRefused \/ ReadFails \/ Offer \/ WakeLane \/ Refuse
Lane(l) == NextMessage(l) \/ WakesUp(l) \/ WokenByCancel(l) \/ Hold(l) \/ Handle(l)
Stream(l) == NextUpdate(l) \/ WokenByCancel(l)
Closer == AwaitEnd \/ AwaitStreams \/ LockAndTell \/ CloseEnded
Socket(l) == Write(l) \/ WriteTooSlow(l) \/ WriteFails(l) \/ ReportClose(l)
Serve == TakeResult \/ Disconnect \/ LogEnd
Environment == (\E f \in Feeds : Publish(f)) \/ RuntimeStarts \/ RuntimeEnds \/ ClientCloses \/ ClientStalls

ServedNext ==
  \/ Reader \/ SendStart \/ SendRoster \/ Closer \/ Serve \/ Unresponsive \/ ShutDown \/ Environment \/ Over
  \/ \E l \in Lanes : Lane(l)
  \/ \E l \in Streams : Stream(l)
  \/ \E l \in Loops : Socket(l)

(* Every goroutine goes on: a handler's call of the Runtime returns, a write
   ends by its deadline, and what a select waits for is taken.  Nothing is
   assumed of the client or the Runtime's end. *)
ServedFairness ==
  /\ WF_servedVars(ReadFails \/ Offer \/ WakeLane \/ Refuse)
  /\ WF_servedVars(SendStart) /\ WF_servedVars(SendRoster)
  /\ WF_servedVars(Closer) /\ WF_servedVars(Serve)
  /\ \A l \in Lanes : WF_servedVars(Lane(l))
  /\ WF_servedVars(Stream("session")) /\ WF_servedVars("roster" \in Streams /\ Stream("roster"))
  /\ \A l \in Loops : WF_servedVars(Socket(l))

ServedSpec == ServedInit /\ [][ServedNext]_servedVars
ServedFairSpec == ServedSpec /\ ServedFairness

-----------------------------------------------------------------------------
Sent(what) == {i \in 1 .. Len(sent) : sent[i].what = what}
Before(a, b) == \A i \in Sent(a), j \in Sent(b) : i < j
Numbered(what) == \A i, j \in Sent(what) : i < j => sent[i].n < sent[j].n
EndMessages == {"lobby_closed", "session_ended", "preview_ended"}

(* A lane is named for the message it takes, and apart from all else. *)
ASSUME NamesAssumption ==
  Lanes \cap (Feeds \cup EndMessages \cup
    {"reader", "session", "closer", "acting", "start", "malformed_message", "unknown_message_type",
     "rate_limited", "invalid_game_data", "slow_consumer", "server_failure", "ended_by_owner"}) = {}

(* sendSession's and sendRoster's promise to the client: the lobby, then the
   start, then views and roster, each in the order produced, a preview's view
   under the participant told last, and nothing after the end. *)
SentInOrder ==
  /\ Before("lobby", "start")
  /\ kind # "preview" => \A what \in {"views", "roster"} : Sent(what) # {} => Sent("start") # {} /\ Before("start", what)
  /\ \A what \in Feeds \cup Lanes : Numbered(what)
  /\ kind = "preview" => \A i \in Sent("views") : \E j \in Sent("acting") :
       j < i /\ sent[j].actor = sent[i].actor /\ \A k \in Sent("acting") : k <= j \/ k > i
  /\ \A e \in EndMessages : \A i \in Sent(e) : i = Len(sent)

(* closeOnRuntimeEnd: when the connection is closed for its owner, the client
   has all that was produced for it before, no answer is cut, and it is told
   lobby_closed only if it was never sent a start. *)
NothingIsCutShort ==
  (pc["closer"] = "closing" /\ socket = "open" /\ client.there /\ ~cancelled) =>
    /\ Cardinality(Sent("views")) = published["views"]
    /\ \A feed \in {"lobby", "roster"} :
         published[feed] > 0 => \E i \in Sent(feed) : sent[i].n = published[feed]
    /\ kind # "preview" => (game.started <=> Sent("start") # {})
    /\ Sent("session_ended") # {} => Sent("start") # {}
    /\ Sent("lobby_closed") # {} => ~game.started
    /\ Answering = {}

(* closeAs: an end the server recorded is never logged as the client's, as
   only a close that recorded nothing may be. *)
RecordedEndsAreReported ==
  (stage = "over" /\ cause = "client_closed" /\ client.there) => socket = "unrecorded"

(* A message a lane took in is handled, unless the connection ends, and a
   connection the Runtime ended, the client left or a loop closed is over. *)
ServedToTheEnd ==
  /\ \A l \in Lanes : (pending[l] # <<>>) ~> (pending[l] = <<>> \/ stage # "serving")
  /\ (Ended \/ ~client.there \/ socket # "open" \/ stage # "serving") ~> (stage = "over")
=============================================================================
