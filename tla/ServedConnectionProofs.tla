----------------------- MODULE ServedConnectionProofs -----------------------
(***************************************************************************)
(* ServedConnection for any lanes, participants, capacities and amounts:   *)
(* what reaches the client is in order, an end the Runtime gave comes      *)
(* after everything produced before it, and an end the server recorded is  *)
(* not logged as the client's.                                             *)
(***************************************************************************)
EXTENDS ServedConnection, SequenceTheorems, FiniteSetTheorems, TLAPS

(***************************************************************************)
(* The loops: where each is, and what it holds there.                      *)
(***************************************************************************)
\* The ends closeAs records, those a close reports, and those serve logs.
RecordedEnds == {"malformed_message", "unknown_message_type", "rate_limited",
                 "invalid_game_data", "slow_consumer"}
Closings == RecordedEnds \cup {"server_failure", "ended_by_owner"}
LoggedEnds == Closings \cup {"none", "write_failed", "client_closed", "unresponsive", "server_shutdown"}

Said == Queues \cup EndMessages \cup Closings \cup {"acting", "start"}
Message == [what : Said, n : Nat] \cup [what : Said, n : Nat, actor : Actors \cup {"none"}]

\* What waits in a queue is of that queue; an update says whose it is.
Of(q) == IF q \in Feeds THEN [what : {q}, n : Nat, actor : Actors \cup {"none"}] ELSE {m \in Message : m.what = q}

Places == {"read", "offer", "wake", "next", "asleep", "handle", "handling", "start", "held", "serving",
           "delivering", "locking", "closing", "writing", "closed", "done"}

Only(o, said) == Len(o) = 1 /\ o[1].what \in said

LaneMayHold(l, at, o) ==
  \/ at \in {"next", "asleep", "done"} /\ o = <<>>
  \/ at \in {"handle", "handling", "writing"} /\ Only(o, {l})
  \/ at = "closed" /\ Only(o, Closings)

ReaderMayHold(at, o) ==
  \/ at \in {"read", "done"} /\ o = <<>>
  \/ at \in {"offer", "wake"} /\ Only(o, Lanes)
  \/ at = "writing" /\ Only(o, {"rate_limited"})
  \/ at = "closed" /\ Only(o, Closings)

CloserMayHold(at, o) ==
  \/ at \in {"serving", "delivering", "locking", "closing", "done"} /\ o = <<>>
  \/ at = "writing" /\ Only(o, EndMessages)
  \/ at = "closed" /\ Only(o, Closings)

RosterMayHold(at, o) ==
  \/ at = "done" /\ o = <<>>
  \/ at \in {"held", "next"} /\ o = <<>> /\ kind = "player"
  \/ at = "writing" /\ Only(o, {"roster"}) /\ kind = "player"

\* A preview's session may hold who the client acts as and the view of them.
SessionMayHold(at, o) ==
  \/ at \in {"next", "start", "done"} /\ o = <<>>
  \/ at = "writing" /\ Only(o, {"lobby", "start", "views"})
  \/ /\ at = "writing" /\ kind = "preview" /\ Len(o) = 2
     /\ o[1].what = "acting" /\ o[2].what = "views"

MayHold(l, at, o) ==
  /\ l \in Lanes => LaneMayHold(l, at, o)
  /\ l = "reader" => ReaderMayHold(at, o)
  /\ l = "closer" => CloserMayHold(at, o)
  /\ l = "roster" => RosterMayHold(at, o)
  /\ l = "session" => SessionMayHold(at, o)

LoopsHold == \A l \in Loops : MayHold(l, pc[l], out[l])

ServedTypes ==
  /\ kind \in Kinds
  /\ pc \in [Loops -> Places]
  /\ out \in [Loops -> Seq(Message)]
  /\ phase \in {"lobby", "views"} /\ acting \in Actors \cup {"none"}
  /\ pending \in [Queues -> Seq(Message)] /\ (\A q \in Queues : pending[q] \in Seq(Of(q)))
  /\ signal \in [Lanes -> BOOLEAN]
  /\ published \in [Queues -> Nat]
  /\ game \in [started : BOOLEAN, ended : {"none", "session_ended", "owner_changed", "disconnected"}]
  /\ socket \in {"open", "recorded", "unrecorded", "released"}
  /\ client \in [there : BOOLEAN, takes : BOOLEAN]
  /\ dropped \in RecordedEnds \cup {"none"}
  /\ sent \in Seq(Message) /\ results \in Seq(LoggedEnds)
  /\ stage \in {"serving", "decided", "draining", "over"} /\ cause \in LoggedEnds
  /\ cancelled \in BOOLEAN

(***************************************************************************)
(* The end of the connection.                                              *)
(***************************************************************************)
\* What closed the socket was recorded, or the client is told closed it only
\* when it is gone or nothing was recorded.
Reported == cause = "client_closed" \/ \E i \in 1 .. Len(results) : results[i] = "client_closed"

EndsAreKnown ==
  /\ socket = "recorded" => dropped # "none"
  /\ socket = "released" => stage # "serving"
  /\ \A l \in Loops : pc[l] = "closed" => socket # "open"
  /\ cancelled => socket # "open"
  /\ Reported /\ client.there => socket = "unrecorded"

(***************************************************************************)
(* The session and the start.                                              *)
(***************************************************************************)
\* A preview has no lobby.
PreviewIsStarted ==
  kind = "preview" => phase = "views" /\ game.started /\ Sent("lobby") = {} /\ Sent("start") = {}

\* The start is what takes the client from the lobby to the views and the roster.
StartOpensViews ==
  kind # "preview" =>
    /\ StartSent => phase = "views"
    /\ phase = "views" /\ client.there => StartSent
    /\ Sent("views") # {} \/ Sent("roster") # {} => StartSent
    /\ Before("start", "views") /\ Before("start", "roster")

\* The lobby was taken to its end before.
LobbyIsDone ==
  /\ phase = "views" => game.started /\ pending["lobby"] = <<>>
  /\ pc["session"] = "start" => /\ phase = "lobby" /\ (game.started \/ Ended)
                                /\ pending["lobby"] = <<>>

SessionSays ==
  \A i \in 1 .. Len(out["session"]) :
    /\ out["session"][i].what = "lobby" => phase = "lobby"
    /\ out["session"][i].what = "start" => phase = "lobby" /\ game.started /\ pending["lobby"] = <<>>
    /\ out["session"][i].what = "views" => phase = "views"

RosterFollows == pc["roster"] \in {"next", "writing"} => StartSent

PublishedOnceStarted ==
  /\ ~game.started => published["views"] = 0 /\ published["roster"] = 0
  /\ published["roster"] > 0 => kind = "player"

StartDivides ==
  /\ PreviewIsStarted /\ StartOpensViews /\ LobbyIsDone /\ SessionSays /\ RosterFollows
  /\ PublishedOnceStarted /\ Before("lobby", "start")

(***************************************************************************)
(* The numbers: everything produced goes through in order.                 *)
(***************************************************************************)
\* The loop that takes from a queue.
Taker(q) == IF q \in Lanes THEN q ELSE IF q = "roster" THEN "roster" ELSE "session"

\* The last of a queue that is past the reader.
Past(q) == IF pc["reader"] = "offer" /\ out["reader"][1].what = q THEN published[q] - 1 ELSE published[q]

\* Of a queue's numbers, those sent come before the one held, and that before
\* those that wait, each in order and none beyond top.
WaitInLine(waiting, top) ==
  \A i \in 1 .. Len(waiting) :
    /\ waiting[i].n \in 1 .. top
    /\ \A j \in 1 .. Len(waiting) : i < j => waiting[i].n < waiting[j].n

HeldInLine(q, held, waiting, top) ==
  \A i \in 1 .. Len(held) : held[i].what = q =>
    /\ held[i].n \in 1 .. top
    /\ \A j \in 1 .. Len(waiting) : held[i].n < waiting[j].n

SentInLine(q, said, held, waiting, top) ==
  \A i \in 1 .. Len(said) : said[i].what = q =>
    /\ said[i].n \in 1 .. top
    /\ \A j \in 1 .. Len(held) : held[j].what = q => said[i].n < held[j].n
    /\ \A j \in 1 .. Len(waiting) : said[i].n < waiting[j].n
    /\ \A j \in 1 .. Len(said) : said[j].what = q /\ i < j => said[i].n < said[j].n

InLine(q, said, held, waiting, top) ==
  /\ WaitInLine(waiting, top) /\ HeldInLine(q, held, waiting, top)
  /\ SentInLine(q, said, held, waiting, top)

Ordered(q) == InLine(q, sent, out[Taker(q)], pending[q], Past(q))

OfferIsNext == pc["reader"] = "offer" => /\ out["reader"][1].n = published[out["reader"][1].what]
                                         /\ out["reader"][1].n > 0

NumbersAgree == OfferIsNext /\ \A q \in Queues : Ordered(q)

(***************************************************************************)
(* A preview's participant.                                                *)
(***************************************************************************)
\* Of what was said before i, the participant told last.
ToldUpTo(said, actor, i) ==
  \E j \in 1 .. Len(said) :
    /\ said[j].what = "acting" /\ j < i /\ said[j].actor = actor
    /\ \A k \in 1 .. Len(said) : said[k].what = "acting" => k <= j \/ k > i

ActsAsTold ==
  kind = "preview" =>
    /\ \A i \in 1 .. Len(sent) : sent[i].what = "views" => ToldUpTo(sent, sent[i].actor, i)
    /\ \A i \in 1 .. Len(out["session"]) : out["session"][i].actor = acting
    /\ (client.there /\ pc["session"] # "done" /\ Len(out["session"]) < 2) =>
         ToldUpTo(sent, acting, Len(sent) + 1)

(***************************************************************************)
(* The closer.                                                             *)
(***************************************************************************)
Quiet ==
  /\ pc["session"] = "done" /\ pc["roster"] = "done"
  /\ \A l \in Lanes \cup {"reader"} : pc[l] \notin {"handling", "writing"}

EndSent == \E e \in EndMessages : Sent(e) # {}

EndComesLast ==
  /\ pc["closer"] \in {"delivering", "locking", "writing", "closing"} => Ended
  /\ pc["closer"] = "locking" => pc["session"] = "done" /\ pc["roster"] = "done"
  /\ pc["closer"] \in {"writing", "closing"} => Quiet
  /\ EndSent => socket # "open" \/ pc["closer"] = "closing"
  /\ \A e \in EndMessages : \A i \in Sent(e) : i = Len(sent)

(***************************************************************************)
(* Everything produced is delivered.                                       *)
(***************************************************************************)
\* Nothing cut the connection short.
Intact == socket = "open" /\ client.there /\ ~cancelled

Latest(q) ==
  \/ \E i \in 1 .. Len(sent) : sent[i].what = q /\ sent[i].n = published[q]
  \/ \E i \in 1 .. Len(out[Taker(q)]) : out[Taker(q)][i].what = q /\ out[Taker(q)][i].n = published[q]
  \/ \E i \in 1 .. Len(pending[q]) : pending[q][i].n = published[q]

\* The views the session took and has not sent.
ViewsTaken == IF pc["session"] = "writing" /\ phase = "views" THEN 1 ELSE 0

ViewsCounted ==
  Intact => Cardinality(Sent("views")) + ViewsTaken + Len(pending["views"]) = published["views"]

LatestKept == Intact => \A q \in {"lobby", "roster"} : published[q] > 0 => Latest(q)

\* A stream ends once all was taken from its feed.
StreamsDeliver ==
  Intact =>
    /\ pc["session"] = "done" => /\ Ended
                                 /\ pending["views"] = <<>> /\ pending["lobby"] = <<>>
                                 /\ phase = "lobby" => ~game.started
    /\ kind = "player" /\ pc["roster"] = "done" => Ended /\ pending["roster"] = <<>>

\* The closer says, or said.
EndsWith(what) == Only(out["closer"], {what}) \/ Sent(what) # {}

EndIsTold ==
  Intact => /\ EndsWith("session_ended") => StartSent
            /\ EndsWith("lobby_closed") => ~game.started

AllDelivered == ViewsCounted /\ LatestKept /\ StreamsDeliver /\ EndIsTold

ServedInv ==
  ServedTypes /\ LoopsHold /\ EndsAreKnown /\ StartDivides /\ NumbersAgree /\ ActsAsTold
  /\ EndComesLast /\ AllDelivered

(***************************************************************************)
(* Types, and what each loop holds.                                        *)
(***************************************************************************)
\* The step is loop l's: the others stay where they are, with what they hold.
Touches(l) ==
  /\ pc' \in [Loops -> Places] /\ out' \in [Loops -> Seq(Message)]
  /\ \A k \in Loops \ {l} : pc'[k] = pc[k] /\ out'[k] = out[k]

OtherTypes ==
  /\ kind \in Kinds
  /\ phase \in {"lobby", "views"} /\ acting \in Actors \cup {"none"}
  /\ pending \in [Queues -> Seq(Message)] /\ (\A q \in Queues : pending[q] \in Seq(Of(q)))
  /\ signal \in [Lanes -> BOOLEAN]
  /\ published \in [Queues -> Nat]
  /\ game \in [started : BOOLEAN, ended : {"none", "session_ended", "owner_changed", "disconnected"}]
  /\ socket \in {"open", "recorded", "unrecorded", "released"}
  /\ client \in [there : BOOLEAN, takes : BOOLEAN]
  /\ dropped \in RecordedEnds \cup {"none"}
  /\ sent \in Seq(Message) /\ results \in Seq(LoggedEnds)
  /\ stage \in {"serving", "decided", "draining", "over"} /\ cause \in LoggedEnds
  /\ cancelled \in BOOLEAN

\* A lane is none of the other loops, queues and messages.
LEMMA NamesApart ==
  /\ Lanes \cap {"reader", "session", "roster", "closer", "lobby", "views", "acting", "start"} = {}
  /\ Lanes \cap EndMessages = {} /\ Lanes \cap Closings = {}
  BY NamesAssumption DEF Feeds, EndMessages, Closings, RecordedEnds

\* What a message is made of.
LEMMA MessageType ==
  /\ \A what \in Said, n \in Nat : [what |-> what, n |-> n] \in Message
  /\ \A what \in Said, n \in Nat, actor \in Actors \cup {"none"} :
       [what |-> what, n |-> n, actor |-> actor] \in Message
  /\ \A m \in Message : m.what \in Said /\ m.n \in Nat
  /\ Lanes \subseteq Said /\ Feeds \subseteq Said /\ EndMessages \subseteq Said
  /\ Closings \subseteq Said /\ {"acting", "start"} \subseteq Said
  BY DEF Message, Said, Queues

\* What a queue gives its loop is a message, and what a view is preceded by.
LEMMA MessageSeqs ==
  /\ \A m \in Message : <<m>> \in Seq(Message) /\ Len(<<m>>) = 1 /\ <<m>>[1] = m /\ Head(<<m>>) = m
  /\ \A a \in Message, m \in Message :
       /\ <<a, m>> \in Seq(Message) /\ Len(<<a, m>>) = 2
       /\ <<a, m>>[1] = a /\ <<a, m>>[2] = m
  /\ <<>> \in Seq(Message) /\ Len(<<>>) = 0
  OBVIOUS

\* A close says which end it reports.
LEMMA ClosingSeqs ==
  /\ \A end \in Closings :
       <<[what |-> end, n |-> 0]>> \in Seq(Message) /\ Only(<<[what |-> end, n |-> 0]>>, Closings)
  /\ RecordedEnds \subseteq Closings /\ {"server_failure", "ended_by_owner"} \subseteq Closings
  /\ Closings \subseteq LoggedEnds
  /\ {"none", "write_failed", "client_closed", "unresponsive", "server_shutdown"} \subseteq LoggedEnds
  <1>1. ASSUME NEW end \in Closings
        PROVE  <<[what |-> end, n |-> 0]>> \in Seq(Message) /\ Only(<<[what |-> end, n |-> 0]>>, Closings)
    <2> DEFINE m == [what |-> end, n |-> 0]
    <2>1. m \in Message /\ m.what = end
      BY MessageType
    <2> HIDE DEF m
    <2>2. <<m>> \in Seq(Message) /\ Only(<<m>>, Closings)
      BY <2>1 DEF Only
    <2> QED
      BY <2>2 DEF m
  <1> QED
    BY <1>1 DEF Closings, LoggedEnds

\* What waits is a message of its queue.
LEMMA WaitingType ==
  ASSUME OtherTypes, NEW q \in Queues
  PROVE  /\ \A m \in Of(q) : /\ m \in Message /\ m.what = q /\ m.n \in Nat
                             /\ q \in Feeds => m.actor \in Actors \cup {"none"}
         /\ pending[q] # <<>> =>
              /\ Head(pending[q]) \in Of(q) /\ Head(pending[q]) = pending[q][1]
              /\ Tail(pending[q]) \in Seq(Of(q)) /\ Tail(pending[q]) \in Seq(Message)
  <1>1. \A m \in Of(q) : /\ m \in Message /\ m.what = q /\ m.n \in Nat
                         /\ q \in Feeds => m.actor \in Actors \cup {"none"}
    BY DEF Of, Message, Said
  <1>2. pending[q] \in Seq(Of(q)) /\ pending[q] \in Seq(Message)
    BY DEF OtherTypes
  <1> QED
    BY <1>1, <1>2

\* What a loop that stops, or goes on, reports.
LEMMA ReportsType ==
  ASSUME results \in Seq(LoggedEnds)
  PROVE  /\ \A l, end : end \in LoggedEnds /\ Stop(l, end) => results' \in Seq(LoggedEnds)
         /\ \A l, where : Goes(l, where) => results' \in Seq(LoggedEnds)
         /\ UNCHANGED results => results' \in Seq(LoggedEnds)
  BY DEF Stop, Goes

\* Other loops keep what they hold.
LEMMA LoopGoes ==
  ASSUME LoopsHold, NEW l \in Loops, Touches(l), kind' = kind, MayHold(l, pc[l], out[l])'
  PROVE  LoopsHold'
  <1> SUFFICES ASSUME NEW k \in Loops, k # l
               PROVE  MayHold(k, pc[k], out[k])'
    BY DEF LoopsHold
  <1>1. pc'[k] = pc[k] /\ out'[k] = out[k]
    BY DEF Touches
  <1>2. MayHold(k, pc[k], out[k])
    BY DEF LoopsHold
  <1> QED
    BY <1>1, <1>2 DEF MayHold, LaneMayHold, ReaderMayHold, CloserMayHold, RosterMayHold, SessionMayHold

\* The types of the loops, and the others.
LEMMA TypesSplit ==
  /\ ServedTypes <=> pc \in [Loops -> Places] /\ out \in [Loops -> Seq(Message)] /\ OtherTypes
  /\ ServedTypes' <=> pc' \in [Loops -> Places] /\ out' \in [Loops -> Seq(Message)] /\ OtherTypes'
  BY DEF ServedTypes, OtherTypes

\* Nothing a loop holds changes.
LEMMA LoopsStay ==
  ASSUME LoopsHold, pc' = pc, out' = out, kind' = kind
  PROVE  LoopsHold'
  BY DEF LoopsHold, MayHold, LaneMayHold, ReaderMayHold, CloserMayHold, RosterMayHold, SessionMayHold

\* What a closed loop reports, and what a writing one writes.
LEMMA HeldType ==
  ASSUME LoopsHold, NEW l \in Loops, out[l] \in Seq(Message)
  PROVE  /\ pc[l] = "closed" => out[l] # <<>> /\ Head(out[l]) = out[l][1] /\ out[l][1].what \in Closings
         /\ pc[l] = "writing" => /\ out[l] # <<>> /\ Head(out[l]) = out[l][1] /\ out[l][1] \in Message
                                 /\ Tail(out[l]) \in Seq(Message)
  <1>1. MayHold(l, pc[l], out[l])
    BY DEF LoopsHold
  <1>2. pc[l] \in {"closed", "writing"} => Len(out[l]) \in 1 .. 2
    BY <1>1 DEF MayHold, LaneMayHold, ReaderMayHold, CloserMayHold, RosterMayHold, SessionMayHold, Only, Loops
  <1>3. pc[l] = "closed" => out[l][1].what \in Closings
    BY <1>1 DEF MayHold, LaneMayHold, ReaderMayHold, CloserMayHold, RosterMayHold, SessionMayHold, Only, Loops
  <1>4. Len(out[l]) \in 1 .. 2 => /\ out[l] # <<>> /\ Head(out[l]) = out[l][1] /\ out[l][1] \in Message
                                  /\ Tail(out[l]) \in Seq(Message)
    OBVIOUS
  <1> QED
    BY <1>2, <1>3, <1>4

\* What a lane's handler may do.
HandlesSo(l) ==
  /\ pc[l] = "handling"
  /\ UNCHANGED <<kind, phase, acting, feedVars, game, client, sent>>
  /\ \/ Answers(l) \/ SaysNothing(l) \/ Fails(l)
     \/ Closes(l, "invalid_game_data") \/ Closes(l, "malformed_message")

\* Whatever the connection's kind, its lanes handle in one of these ways.
LEMMA HandleCases ==
  ASSUME kind \in Kinds, NEW l \in Lanes, Handle(l)
  PROVE  HandlesSo(l)
  BY ServedAssumption DEF HandlesSo, ServedAssumption, Handle, PlayerHandles, AdminHandles, PreviewHandles


\* Every step keeps the types and what the loops hold.
LEMMA TypeStep ==
  ServedTypes /\ LoopsHold /\ [ServedNext]_servedVars => ServedTypes' /\ LoopsHold'
  <1> SUFFICES ASSUME ServedTypes, LoopsHold, [ServedNext]_servedVars
               PROVE  ServedTypes' /\ LoopsHold'
    OBVIOUS
  <1>a. pc \in [Loops -> Places] /\ out \in [Loops -> Seq(Message)] /\ OtherTypes
    BY TypesSplit
  <1>1. ASSUME NEW l \in Lanes, ReadMessage(l)
        PROVE  ServedTypes' /\ LoopsHold'
    <2>1. "reader" \in Loops /\ MayHold("reader", pc["reader"], out["reader"])
      BY DEF LoopsHold, Loops, Streams
    <2>k. l \in Said /\ published[l] + 1 \in Nat
      BY <1>a, MessageType DEF OtherTypes, Queues
    <2> DEFINE said == [what |-> l, n |-> published[l] + 1]
    <2>n. said \in Message /\ said.what = l
      BY <1>a, MessageType, <2>k
    <2>m. <<said>> \in Seq(Message) /\ Len(<<said>>) = 1 /\ <<said>>[1].what = l
      <3> HIDE DEF said
      <3> QED
        BY <2>n
    <2>2. Touches("reader")
      <3>1. out' \in [Loops -> Seq(Message)]
        BY <1>1, <1>a, <2>1, <2>m DEF ReadMessage, Goes, Stop, Idle, CloseAs, CloseUnrecorded, Closed, Recorded, AnotherEnd,
            servingVars, socketVars, feedVars
      <3>2. pc' \in [Loops -> Places]
        BY <1>1, <1>a, <2>1 DEF Places, ReadMessage, Goes, Stop, Idle, CloseAs, CloseUnrecorded, Closed, Recorded, AnotherEnd,
            servingVars, socketVars, feedVars
      <3> QED
        BY <1>1, <1>a, <2>1, <3>1, <3>2 DEF Touches, ReadMessage, Goes, Stop, Idle, CloseAs, CloseUnrecorded, Closed, Recorded, AnotherEnd,
            servingVars, socketVars, feedVars
    <2>3. MayHold("reader", pc["reader"], out["reader"])' /\ kind' = kind
      BY <1>1, <1>a, <2>1, NamesApart, <2>m
      DEF MayHold, ReaderMayHold, Only, ReadMessage, Goes, Stop, Idle, CloseAs, CloseUnrecorded, Closed, Recorded, AnotherEnd,
          servingVars, socketVars, feedVars
    <2>4. OtherTypes'
      <3>u. UNCHANGED <<kind, phase, acting, pending, signal, game, socket, client, dropped, sent,
                        results, stage, cause, cancelled>>
        BY <1>1 DEF ReadMessage, Goes, Stop, Idle, CloseAs, CloseUnrecorded, Closed, Recorded, AnotherEnd,
            servingVars, socketVars, feedVars
      <3>1. published' \in [Queues -> Nat]
        BY <1>1, <1>a, <2>1 DEF OtherTypes, ReadMessage, Goes, Stop, Idle, CloseAs, CloseUnrecorded, Closed, Recorded, AnotherEnd,
            servingVars, socketVars, feedVars, Queues, Feeds, Loops, Streams
      <3> QED
        BY <1>a, <3>u, <3>1 DEF OtherTypes
    <2> QED
      BY <1>a, <2>1, <2>2, <2>3, <2>4, LoopGoes, TypesSplit DEF Touches
  <1>2. ASSUME ReadRefused
        PROVE  ServedTypes' /\ LoopsHold'
    <2>1. "reader" \in Loops /\ MayHold("reader", pc["reader"], out["reader"])
      BY DEF LoopsHold, Loops, Streams
    <2>e. PICK end \in Closings : CloseAs("reader", end)
      BY <1>2 DEF ReadRefused, Closings, RecordedEnds
    <2>2. Touches("reader")
      <3>1. out' \in [Loops -> Seq(Message)]
        BY <1>2, <1>a, <2>1, <2>e, ClosingSeqs DEF ReadRefused, Goes, Stop, Idle, CloseAs, CloseUnrecorded, Closed, Recorded, AnotherEnd,
            servingVars, socketVars, feedVars
      <3>2. pc' \in [Loops -> Places]
        BY <1>2, <1>a, <2>1 DEF Places, ReadRefused, Goes, Stop, Idle, CloseAs, CloseUnrecorded, Closed, Recorded, AnotherEnd,
            servingVars, socketVars, feedVars
      <3> QED
        BY <1>2, <1>a, <2>1, <3>1, <3>2 DEF Touches, ReadRefused, Goes, Stop, Idle, CloseAs, CloseUnrecorded, Closed, Recorded, AnotherEnd,
            servingVars, socketVars, feedVars
    <2>3. MayHold("reader", pc["reader"], out["reader"])' /\ kind' = kind
      BY <1>2, <1>a, <2>1, NamesApart, <2>e, ClosingSeqs
      DEF MayHold, ReaderMayHold, Only, ReadRefused, Goes, Stop, Idle, CloseAs, CloseUnrecorded, Closed, Recorded, AnotherEnd,
          servingVars, socketVars, feedVars
    <2>4. OtherTypes'
      <3>u. UNCHANGED <<kind, phase, acting, pending, signal, published, game, client, sent,
                        results, stage, cause, cancelled>>
        BY <1>2 DEF ReadRefused, Goes, Stop, Idle, CloseAs, CloseUnrecorded, Closed, Recorded, AnotherEnd,
            servingVars, socketVars, feedVars
      <3>1. socket' \in {"open", "recorded", "unrecorded", "released"}
        BY <1>2, <1>a, <2>1 DEF OtherTypes, ReadRefused, Goes, Stop, Idle, CloseAs, CloseUnrecorded, Closed, Recorded, AnotherEnd,
            servingVars, socketVars, feedVars
      <3>2. dropped' \in RecordedEnds \cup {"none"}
        BY <1>2, <1>a, <2>1 DEF OtherTypes, ReadRefused, Goes, Stop, Idle, CloseAs, CloseUnrecorded, Closed, Recorded, AnotherEnd,
            servingVars, socketVars, feedVars, LoggedEnds, Closings, RecordedEnds
      <3> QED
        BY <1>a, <3>u, <3>1, <3>2 DEF OtherTypes
    <2> QED
      BY <1>a, <2>1, <2>2, <2>3, <2>4, LoopGoes, TypesSplit DEF Touches
  <1>3. ASSUME ReadFails
        PROVE  ServedTypes' /\ LoopsHold'
    <2>1. "reader" \in Loops /\ MayHold("reader", pc["reader"], out["reader"])
      BY DEF LoopsHold, Loops, Streams
    <2>2. Touches("reader")
      <3>1. out' \in [Loops -> Seq(Message)]
        BY <1>3, <1>a, <2>1 DEF ReadFails, Goes, Stop, Idle, CloseAs, CloseUnrecorded, Closed, Recorded, AnotherEnd,
            servingVars, socketVars, feedVars
      <3>2. pc' \in [Loops -> Places]
        BY <1>3, <1>a, <2>1 DEF Places, ReadFails, Goes, Stop, Idle, CloseAs, CloseUnrecorded, Closed, Recorded, AnotherEnd,
            servingVars, socketVars, feedVars
      <3> QED
        BY <1>3, <1>a, <2>1, <3>1, <3>2 DEF Touches, ReadFails, Goes, Stop, Idle, CloseAs, CloseUnrecorded, Closed, Recorded, AnotherEnd,
            servingVars, socketVars, feedVars
    <2>3. MayHold("reader", pc["reader"], out["reader"])' /\ kind' = kind
      BY <1>3, <1>a, <2>1, NamesApart
      DEF MayHold, ReaderMayHold, Only, ReadFails, Goes, Stop, Idle, CloseAs, CloseUnrecorded, Closed, Recorded, AnotherEnd,
          servingVars, socketVars, feedVars
    <2>4. OtherTypes'
      <3>u. UNCHANGED <<kind, phase, acting, pending, signal, published, game, socket, client,
                        dropped, sent, stage, cause, cancelled>>
        BY <1>3 DEF ReadFails, Goes, Stop, Idle, CloseAs, CloseUnrecorded, Closed, Recorded, AnotherEnd,
            servingVars, socketVars, feedVars
      <3>1. results' \in Seq(LoggedEnds)
        BY <1>3, <1>a, <2>1, ReportsType, ClosingSeqs DEF OtherTypes, ReadFails, Idle, CloseAs, CloseUnrecorded, Closed, Recorded, AnotherEnd, servingVars,
            socketVars, feedVars
      <3> QED
        BY <1>a, <3>u, <3>1 DEF OtherTypes
    <2> QED
      BY <1>a, <2>1, <2>2, <2>3, <2>4, LoopGoes, TypesSplit DEF Touches
  <1>4. ASSUME Offer
        PROVE  ServedTypes' /\ LoopsHold'
    <2>1. "reader" \in Loops /\ MayHold("reader", pc["reader"], out["reader"])
      BY DEF LoopsHold, Loops, Streams
    <2>p. Head(out["reader"]) \in Of(Head(out["reader"]).what) /\ Head(out["reader"]) \in Message
      BY <1>a, <2>1, <1>4, NamesApart DEF Offer, MayHold, ReaderMayHold, Only, Of, Feeds
    <2>r. PICK lane \in Lanes : Head(out["reader"]).what = lane
      BY <1>4, <2>1 DEF Offer, MayHold, ReaderMayHold, Only
    <2>s. Append(pending[lane], Head(out["reader"])) \in Seq(Of(lane)) /\ Append(pending[lane], Head(out["reader"])) \in Seq(Message)
      <3>1. pending[lane] \in Seq(Of(lane)) /\ pending[lane] \in Seq(Message)
        BY <1>a DEF OtherTypes, Queues
      <3> QED
        BY <2>p, <2>r, <3>1
    <2>v. pending' = [pending EXCEPT ![lane] = Append(@, Head(out["reader"]))]
      BY <1>4, <2>r DEF Offer
    <2>2. Touches("reader")
      <3>1. out' \in [Loops -> Seq(Message)]
        BY <1>4, <1>a, <2>1 DEF Offer, Goes, Stop, Idle, CloseAs, CloseUnrecorded, Closed, Recorded, AnotherEnd,
            servingVars, socketVars, feedVars
      <3>2. pc' \in [Loops -> Places]
        BY <1>4, <1>a, <2>1 DEF Places, Offer, Goes, Stop, Idle, CloseAs, CloseUnrecorded, Closed, Recorded, AnotherEnd,
            servingVars, socketVars, feedVars
      <3> QED
        BY <1>4, <1>a, <2>1, <3>1, <3>2 DEF Touches, Offer, Goes, Stop, Idle, CloseAs, CloseUnrecorded, Closed, Recorded, AnotherEnd,
            servingVars, socketVars, feedVars
    <2>3. MayHold("reader", pc["reader"], out["reader"])' /\ kind' = kind
      BY <1>4, <1>a, <2>1, NamesApart
      DEF MayHold, ReaderMayHold, Only, Offer, Goes, Stop, Idle, CloseAs, CloseUnrecorded, Closed, Recorded, AnotherEnd,
          servingVars, socketVars, feedVars
    <2>4. OtherTypes'
      <3>u. UNCHANGED <<kind, phase, acting, signal, published, game, socket, client, dropped,
                        sent, results, stage, cause, cancelled>>
        BY <1>4 DEF Offer, Goes, Stop, Idle, CloseAs, CloseUnrecorded, Closed, Recorded, AnotherEnd,
            servingVars, socketVars, feedVars
      <3>1. pending' \in [Queues -> Seq(Message)] /\ (\A q \in Queues : pending'[q] \in Seq(Of(q)))
        BY <2>s, <1>a, <2>v DEF OtherTypes, Queues
      <3> QED
        BY <1>a, <3>u, <3>1 DEF OtherTypes
    <2> QED
      BY <1>a, <2>1, <2>2, <2>3, <2>4, LoopGoes, TypesSplit DEF Touches
  <1>5. ASSUME WakeLane
        PROVE  ServedTypes' /\ LoopsHold'
    <2>1. "reader" \in Loops /\ MayHold("reader", pc["reader"], out["reader"])
      BY DEF LoopsHold, Loops, Streams
    <2>2. Touches("reader")
      <3>1. out' \in [Loops -> Seq(Message)]
        BY <1>5, <1>a, <2>1 DEF WakeLane, Woken, Goes, Stop, Idle, CloseAs, CloseUnrecorded, Closed, Recorded,
            AnotherEnd, servingVars, socketVars, feedVars
      <3>2. pc' \in [Loops -> Places]
        BY <1>5, <1>a, <2>1 DEF Places, WakeLane, Woken, Goes, Stop, Idle, CloseAs, CloseUnrecorded, Closed, Recorded,
            AnotherEnd, servingVars, socketVars, feedVars
      <3> QED
        BY <1>5, <1>a, <2>1, <3>1, <3>2 DEF Touches, WakeLane, Woken, Goes, Stop, Idle, CloseAs, CloseUnrecorded, Closed, Recorded,
            AnotherEnd, servingVars, socketVars, feedVars
    <2>3. MayHold("reader", pc["reader"], out["reader"])' /\ kind' = kind
      BY <1>5, <1>a, <2>1, NamesApart
      DEF MayHold, ReaderMayHold, Only, WakeLane, Woken, Goes, Stop, Idle, CloseAs, CloseUnrecorded, Closed, Recorded,
          AnotherEnd, servingVars, socketVars, feedVars
    <2>4. OtherTypes'
      <3>u. UNCHANGED <<kind, phase, acting, pending, published, game, socket, client, dropped,
                        sent, results, stage, cause, cancelled>>
        BY <1>5 DEF WakeLane, Woken, Goes, Stop, Idle, CloseAs, CloseUnrecorded, Closed, Recorded,
            AnotherEnd, servingVars, socketVars, feedVars
      <3>1. signal' \in [Lanes -> BOOLEAN]
        BY <1>5, <1>a, <2>1 DEF OtherTypes, WakeLane, Woken, Goes, Stop, Idle, CloseAs, CloseUnrecorded, Closed, Recorded,
            AnotherEnd, servingVars, socketVars, feedVars
      <3> QED
        BY <1>a, <3>u, <3>1 DEF OtherTypes
    <2> QED
      BY <1>a, <2>1, <2>2, <2>3, <2>4, LoopGoes, TypesSplit DEF Touches
  <1>6. ASSUME Refuse
        PROVE  ServedTypes' /\ LoopsHold'
    <2>1. "reader" \in Loops /\ MayHold("reader", pc["reader"], out["reader"])
      BY DEF LoopsHold, Loops, Streams
    <2> DEFINE said == RateLimitedAnswer(Head(out["reader"]))
    <2>n. said \in Message /\ said.what = "rate_limited"
      BY <1>a, MessageType, <1>6, <2>1 DEF MayHold, ReaderMayHold, Only, Refuse, RateLimitedAnswer, Closings, RecordedEnds
    <2>m. <<said>> \in Seq(Message) /\ Len(<<said>>) = 1 /\ <<said>>[1].what = "rate_limited"
      <3> HIDE DEF said
      <3> QED
        BY <2>n
    <2>2. Touches("reader") /\ MayHold("reader", pc["reader"], out["reader"])' /\ results' \in Seq(LoggedEnds)
      <3>1. CASE pc' = [pc EXCEPT !["reader"] = "read"] /\ Idle("reader") /\ UNCHANGED results
        <4>1. out' \in [Loops -> Seq(Message)] /\ pc' \in [Loops -> Places]
          BY <1>6, <1>a, <2>1, <3>1, MessageSeqs DEF Refuse, Goes, Stop, Idle, CloseAs, CloseUnrecorded, Closed, Recorded, AnotherEnd,
              servingVars, socketVars, feedVars, Places
        <4>3. results' \in Seq(LoggedEnds)
          BY <1>6, <1>a, <3>1, ReportsType, ClosingSeqs DEF OtherTypes, Refuse, Idle, CloseAs, CloseUnrecorded, Closed, Recorded, AnotherEnd, servingVars,
              socketVars, feedVars
        <4>2. /\ \A k \in Loops \ {"reader"} : pc'[k] = pc[k] /\ out'[k] = out[k]
              /\ MayHold("reader", pc["reader"], out["reader"])'
          BY <1>6, <1>a, <2>1, <3>1, NamesApart, MessageSeqs DEF MayHold, ReaderMayHold, Only, Refuse, Goes, Stop, Idle, CloseAs, CloseUnrecorded, Closed, Recorded, AnotherEnd,
              servingVars, socketVars, feedVars
        <4> QED
          BY <4>1, <4>2, <4>3 DEF Touches
      <3>2. CASE pc' = [pc EXCEPT !["reader"] = "writing"] /\ out' = [out EXCEPT !["reader"] = <<said>>] /\ UNCHANGED results
        <4>1. out' \in [Loops -> Seq(Message)] /\ pc' \in [Loops -> Places]
          BY <1>6, <1>a, <2>1, <3>2, <2>m DEF Refuse, Goes, Stop, Idle, CloseAs, CloseUnrecorded, Closed, Recorded, AnotherEnd,
              servingVars, socketVars, feedVars, Places
        <4>3. results' \in Seq(LoggedEnds)
          BY <1>6, <1>a, <3>2, ReportsType, ClosingSeqs DEF OtherTypes, Refuse, Idle, CloseAs, CloseUnrecorded, Closed, Recorded, AnotherEnd, servingVars,
              socketVars, feedVars
        <4>2. /\ \A k \in Loops \ {"reader"} : pc'[k] = pc[k] /\ out'[k] = out[k]
              /\ MayHold("reader", pc["reader"], out["reader"])'
          BY <1>6, <1>a, <2>1, <3>2, NamesApart, <2>m DEF MayHold, ReaderMayHold, Only, Refuse, Goes, Stop, Idle, CloseAs, CloseUnrecorded, Closed, Recorded, AnotherEnd,
              servingVars, socketVars, feedVars
        <4> QED
          BY <4>1, <4>2, <4>3 DEF Touches
      <3>3. CASE CloseAs("reader", "rate_limited")
        <4>1. out' \in [Loops -> Seq(Message)] /\ pc' \in [Loops -> Places]
          BY <1>6, <1>a, <2>1, <3>3, ClosingSeqs DEF Refuse, RecordedEnds, Goes, Stop, Idle, CloseAs, CloseUnrecorded, Closed, Recorded,
              AnotherEnd, servingVars, socketVars, feedVars, Places
        <4>3. results' \in Seq(LoggedEnds)
          BY <1>6, <1>a, <3>3, ReportsType, ClosingSeqs DEF OtherTypes, Refuse, RecordedEnds, Idle, CloseAs, CloseUnrecorded, Closed, Recorded, AnotherEnd,
              servingVars, socketVars, feedVars
        <4>2. /\ \A k \in Loops \ {"reader"} : pc'[k] = pc[k] /\ out'[k] = out[k]
              /\ MayHold("reader", pc["reader"], out["reader"])'
          BY <1>6, <1>a, <2>1, <3>3, NamesApart, ClosingSeqs DEF MayHold, ReaderMayHold, Only, Refuse, RecordedEnds, Goes, Stop, Idle, CloseAs, CloseUnrecorded, Closed, Recorded,
              AnotherEnd, servingVars, socketVars, feedVars
        <4> QED
          BY <4>1, <4>2, <4>3 DEF Touches
      <3> QED
        BY <1>6, <3>1, <3>2, <3>3 DEF Refuse, Goes, RateLimitedAnswer
    <2>3. kind' = kind
      BY <1>6 DEF Refuse
    <2>4. OtherTypes'
      <3>u. UNCHANGED <<kind, phase, acting, pending, signal, published, game, client, sent,
                        results, stage, cause, cancelled>>
        BY <1>6 DEF Refuse, RateLimitedAnswer, Goes, Stop, Idle, CloseAs, CloseUnrecorded, Closed,
            Recorded, AnotherEnd, servingVars, socketVars, feedVars
      <3>1. socket' \in {"open", "recorded", "unrecorded", "released"}
        BY <1>6, <1>a, <2>1 DEF OtherTypes, Refuse, RateLimitedAnswer, Goes, Stop, Idle, CloseAs, CloseUnrecorded, Closed,
            Recorded, AnotherEnd, servingVars, socketVars, feedVars
      <3>2. dropped' \in RecordedEnds \cup {"none"}
        BY <1>6, <1>a, <2>1 DEF OtherTypes, Refuse, RateLimitedAnswer, Goes, Stop, Idle, CloseAs, CloseUnrecorded, Closed,
            Recorded, AnotherEnd, servingVars, socketVars, feedVars, LoggedEnds, Closings,
            RecordedEnds
      <3> QED
        BY <1>a, <3>u, <3>1, <3>2 DEF OtherTypes
    <2> QED
      BY <1>a, <2>1, <2>2, <2>3, <2>4, LoopGoes, TypesSplit DEF Touches
  <1>7. ASSUME NEW l \in Lanes, NextMessage(l)
        PROVE  ServedTypes' /\ LoopsHold'
    <2>1. l \in Loops /\ MayHold(l, pc[l], out[l])
      BY DEF LoopsHold, Loops, Streams
    <2>q. Source(l) \in Queues /\ (l \in Lanes => Source(l) = l /\ l # "session")
      BY <1>a, NamesApart DEF Source, OtherTypes, Queues, Feeds, Streams
    <2>h. pending[Source(l)] # <<>> =>
            /\ Head(pending[Source(l)]) \in Message /\ Head(pending[Source(l)]).what = Source(l)
            /\ Head(pending[Source(l)]).n \in Nat
            /\ Source(l) \in Feeds => Head(pending[Source(l)]).actor \in Actors \cup {"none"}
            /\ Tail(pending[Source(l)]) \in Seq(Of(Source(l))) /\ Tail(pending[Source(l)]) \in Seq(Message)
      BY <1>a, <2>q, WaitingType
    <2>w. pending[Source(l)] # <<>> =>
            /\ Writes(l, Head(pending[Source(l)])) \in Seq(Message)
            /\ \/ Only(Writes(l, Head(pending[Source(l)])), {Source(l)})
               \/ /\ l = "session" /\ kind = "preview" /\ phase = "views"
                  /\ Len(Writes(l, Head(pending[Source(l)]))) = 2
                  /\ Writes(l, Head(pending[Source(l)]))[1].what = "acting"
                  /\ Writes(l, Head(pending[Source(l)]))[2].what = "views"
      <3> SUFFICES ASSUME pending[Source(l)] # <<>>
                   PROVE  /\ Writes(l, Head(pending[Source(l)])) \in Seq(Message)
                          /\ \/ Only(Writes(l, Head(pending[Source(l)])), {Source(l)})
                             \/ /\ l = "session" /\ kind = "preview" /\ phase = "views"
                                /\ Len(Writes(l, Head(pending[Source(l)]))) = 2
                                /\ Writes(l, Head(pending[Source(l)]))[1].what = "acting"
                                /\ Writes(l, Head(pending[Source(l)]))[2].what = "views"
        OBVIOUS
      <3> DEFINE item == Head(pending[Source(l)])
                 told == [what |-> "acting", n |-> item.n, actor |-> item.actor]
      <3>1. item \in Message /\ item.what = Source(l) /\ item.n \in Nat
            /\ (Source(l) \in Feeds => item.actor \in Actors \cup {"none"})
        BY <2>h
      <3>2. Source(l) = "views" => told \in Message /\ told.what = "acting"
        BY <3>1, MessageType DEF Feeds
      <3>3. l = "session" /\ phase = "views" => Source(l) = "views"
        BY DEF Source
      <3>4. Writes(l, item) = IF l = "session" /\ phase = "views" /\ kind = "preview" /\ item.actor # acting
                              THEN <<told, item>> ELSE <<item>>
        BY DEF Writes
      <3> HIDE DEF item, told
      <3>5. CASE l = "session" /\ phase = "views" /\ kind = "preview" /\ item.actor # acting
        <4>1. Writes(l, item) = <<told, item>>
          BY <3>4, <3>5
        <4>2. told \in Message /\ told.what = "acting" /\ item \in Message /\ item.what = "views"
          BY <3>1, <3>2, <3>3, <3>5
        <4>3. /\ <<told, item>> \in Seq(Message) /\ Len(<<told, item>>) = 2
              /\ <<told, item>>[1].what = "acting" /\ <<told, item>>[2].what = "views"
          BY <4>2
        <4> QED
          BY <3>5, <4>1, <4>3 DEF item
      <3>6. CASE ~(l = "session" /\ phase = "views" /\ kind = "preview" /\ item.actor # acting)
        <4>1. Writes(l, item) = <<item>>
          BY <3>4, <3>6
        <4>2. <<item>> \in Seq(Message) /\ Only(<<item>>, {Source(l)})
          BY <3>1 DEF Only
        <4> QED
          BY <4>1, <4>2 DEF item
      <3> QED
        BY <3>5, <3>6
    <2>t. /\ pending' \in [Queues -> Seq(Message)]
          /\ \A q \in Queues : pending'[q] \in Seq(Of(q))
          /\ acting' \in Actors \cup {"none"}
      <3>1. CASE TakeFrom(l)
        <4>1. pending' = [pending EXCEPT ![Source(l)] = Tail(@)] /\ pending[Source(l)] # <<>>
          BY <3>1 DEF TakeFrom
        <4>2. acting' = IF l = "session" /\ phase = "views" THEN Head(pending[Source(l)]).actor ELSE acting
          BY <3>1 DEF TakeFrom
        <4>3. l = "session" /\ phase = "views" => Source(l) \in Feeds
          BY DEF Source, Feeds
        <4>4. pending' \in [Queues -> Seq(Message)] /\ \A q \in Queues : pending'[q] \in Seq(Of(q))
          BY <1>a, <2>q, <2>h, <4>1 DEF OtherTypes
        <4>5. acting' \in Actors \cup {"none"}
          BY <1>a, <2>h, <4>1, <4>2, <4>3 DEF OtherTypes
        <4> QED
          BY <4>4, <4>5
      <3>2. CASE UNCHANGED <<out, acting, pending>>
        BY <1>a, <3>2 DEF OtherTypes
      <3> QED
        BY <1>7, <3>1, <3>2 DEF NextMessage
    <2>2. Touches(l)
      <3>1. CASE TakeFrom(l)
        BY <1>a, <2>1, <2>w, <3>1 DEF Touches, TakeFrom, Goes, Places
      <3>2. CASE UNCHANGED <<out, acting, pending>> /\ ~TakeFrom(l)
        BY <1>7, <1>a, <2>1, <3>2 DEF Touches, NextMessage, Goes, Stop, Places, TakeFrom
      <3> QED
        BY <1>7, <3>1, <3>2 DEF NextMessage
    <2>3. MayHold(l, pc[l], out[l])' /\ kind' = kind
      <3>0. kind' = kind
        BY <1>7 DEF NextMessage
      <3>1. CASE TakeFrom(l)
        <4>1. pc'[l] = (IF l \in Lanes THEN "handle" ELSE "writing") /\ pending[Source(l)] # <<>>
              /\ out'[l] = Writes(l, Head(pending[Source(l)]))
          BY <1>a, <2>1, <3>1 DEF TakeFrom, Goes
        <4>2. /\ l \in Streams => Source(l) \in {"lobby", "views", "roster"}
              /\ l = "session" => Source(l) \in {"lobby", "views"}
              /\ l = "roster" => Source(l) = "roster"
          BY <1>a DEF Source, Streams, OtherTypes
        <4>3. l = "roster" /\ pc[l] = "next" => kind = "player"
          BY <2>1 DEF MayHold, RosterMayHold
        <4>4. pc[l] = "next"
          BY <1>7 DEF NextMessage
        <4> QED
          BY <2>q, <2>w, <3>0, <4>1, <4>2, <4>3, <4>4, NamesApart
          DEF MayHold, LaneMayHold, ReaderMayHold, CloserMayHold, RosterMayHold, SessionMayHold, Only, Streams
      <3>2. CASE UNCHANGED <<out, acting, pending>> /\ ~TakeFrom(l)
        <4>1. pc'[l] \in (IF l \in Lanes THEN {"asleep"} ELSE IF l = "session" THEN {"start", "done"} ELSE {"done"})
          BY <1>7, <1>a, <2>1, <3>2, NamesApart DEF NextMessage, Goes, Stop, Streams
        <4>2. out'[l] = <<>>
          BY <1>7, <2>1, <3>2, NamesApart DEF NextMessage, MayHold, LaneMayHold, RosterMayHold, SessionMayHold, Streams
        <4> QED
          BY <3>0, <4>1, <4>2, NamesApart
          DEF MayHold, LaneMayHold, ReaderMayHold, CloserMayHold, RosterMayHold, SessionMayHold, Streams
      <3> QED
        BY <1>7, <3>1, <3>2 DEF NextMessage
    <2>4. OtherTypes'
      <3>u. UNCHANGED <<kind, phase, acting, signal, published, game, socket, client, dropped,
                        sent, results, stage, cause, cancelled>>
        BY <1>7, NamesApart DEF NextMessage, TakeFrom, Writes, Source, Goes, Stop, Idle, CloseAs, CloseUnrecorded,
            Closed, Recorded, AnotherEnd, servingVars, socketVars, feedVars
      <3>1. pending' \in [Queues -> Seq(Message)] /\ (\A q \in Queues : pending'[q] \in Seq(Of(q)))
        BY <2>t, <1>a DEF OtherTypes
      <3> QED
        BY <1>a, <3>u, <3>1 DEF OtherTypes
    <2> QED
      BY <1>a, <2>1, <2>2, <2>3, <2>4, LoopGoes, TypesSplit DEF Touches
  <1>8. ASSUME NEW l \in Lanes, WakesUp(l)
        PROVE  ServedTypes' /\ LoopsHold'
    <2>1. l \in Loops /\ MayHold(l, pc[l], out[l])
      BY DEF LoopsHold, Loops, Streams
    <2>2. Touches(l)
      <3>1. out' \in [Loops -> Seq(Message)]
        BY <1>8, <1>a, <2>1 DEF WakesUp, Goes, Stop, Idle, CloseAs, CloseUnrecorded, Closed, Recorded, AnotherEnd,
            servingVars, socketVars, feedVars
      <3>2. pc' \in [Loops -> Places]
        BY <1>8, <1>a, <2>1 DEF Places, WakesUp, Goes, Stop, Idle, CloseAs, CloseUnrecorded, Closed, Recorded, AnotherEnd,
            servingVars, socketVars, feedVars
      <3> QED
        BY <1>8, <1>a, <2>1, <3>1, <3>2 DEF Touches, WakesUp, Goes, Stop, Idle, CloseAs, CloseUnrecorded, Closed, Recorded, AnotherEnd,
            servingVars, socketVars, feedVars
    <2>3. MayHold(l, pc[l], out[l])' /\ kind' = kind
      BY <1>8, <1>a, <2>1, NamesApart
      DEF MayHold, LaneMayHold, ReaderMayHold, CloserMayHold, RosterMayHold, SessionMayHold, Only, WakesUp, Goes, Stop, Idle, CloseAs, CloseUnrecorded, Closed, Recorded, AnotherEnd,
          servingVars, socketVars, feedVars
    <2>4. OtherTypes'
      <3>u. UNCHANGED <<kind, phase, acting, pending, published, game, socket, client, dropped,
                        sent, results, stage, cause, cancelled>>
        BY <1>8 DEF WakesUp, Goes, Stop, Idle, CloseAs, CloseUnrecorded, Closed, Recorded, AnotherEnd,
            servingVars, socketVars, feedVars
      <3>1. signal' \in [Lanes -> BOOLEAN]
        BY <1>8, <1>a, <2>1, NamesApart DEF OtherTypes, WakesUp, Goes, Stop, Idle, CloseAs, CloseUnrecorded, Closed, Recorded, AnotherEnd,
            servingVars, socketVars, feedVars
      <3> QED
        BY <1>a, <3>u, <3>1 DEF OtherTypes
    <2> QED
      BY <1>a, <2>1, <2>2, <2>3, <2>4, LoopGoes, TypesSplit DEF Touches
  <1>9. ASSUME NEW l \in Lanes \cup Streams, WokenByCancel(l)
        PROVE  ServedTypes' /\ LoopsHold'
    <2>1. l \in Loops /\ MayHold(l, pc[l], out[l])
      BY DEF LoopsHold, Loops, Streams
    <2>2. Touches(l)
      <3>1. out' \in [Loops -> Seq(Message)]
        BY <1>9, <1>a, <2>1 DEF WokenByCancel, Goes, Stop, Idle, CloseAs, CloseUnrecorded, Closed, Recorded,
            AnotherEnd, servingVars, socketVars, feedVars
      <3>2. pc' \in [Loops -> Places]
        BY <1>9, <1>a, <2>1 DEF Places, WokenByCancel, Goes, Stop, Idle, CloseAs, CloseUnrecorded, Closed, Recorded,
            AnotherEnd, servingVars, socketVars, feedVars
      <3> QED
        BY <1>9, <1>a, <2>1, <3>1, <3>2 DEF Touches, WokenByCancel, Goes, Stop, Idle, CloseAs, CloseUnrecorded, Closed, Recorded,
            AnotherEnd, servingVars, socketVars, feedVars
    <2>3. MayHold(l, pc[l], out[l])' /\ kind' = kind
      BY <1>9, <1>a, <2>1, NamesApart
      DEF MayHold, LaneMayHold, ReaderMayHold, CloserMayHold, RosterMayHold, SessionMayHold, Only, WokenByCancel, Goes, Stop, Idle, CloseAs, CloseUnrecorded, Closed, Recorded, AnotherEnd,
          servingVars, socketVars, feedVars
    <2>4. OtherTypes'
      <3>u. UNCHANGED <<kind, phase, acting, pending, signal, published, game, socket, client,
                        dropped, sent, stage, cause, cancelled>>
        BY <1>9 DEF WokenByCancel, Goes, Stop, Idle, CloseAs, CloseUnrecorded, Closed, Recorded,
            AnotherEnd, servingVars, socketVars, feedVars
      <3>1. results' \in Seq(LoggedEnds)
        BY <1>9, <1>a, <2>1, NamesApart, ReportsType, ClosingSeqs DEF OtherTypes, WokenByCancel, Idle, CloseAs, CloseUnrecorded, Closed, Recorded, AnotherEnd,
            servingVars, socketVars, feedVars
      <3> QED
        BY <1>a, <3>u, <3>1 DEF OtherTypes
    <2> QED
      BY <1>a, <2>1, <2>2, <2>3, <2>4, LoopGoes, TypesSplit DEF Touches
  <1>10. ASSUME NEW l \in Lanes, Hold(l)
        PROVE  ServedTypes' /\ LoopsHold'
    <2>1. l \in Loops /\ MayHold(l, pc[l], out[l])
      BY DEF LoopsHold, Loops, Streams
    <2>2. Touches(l)
      <3>1. out' \in [Loops -> Seq(Message)]
        BY <1>10, <1>a, <2>1 DEF Hold, Goes, Stop, Idle, CloseAs, CloseUnrecorded, Closed, Recorded, AnotherEnd,
            servingVars, socketVars, feedVars
      <3>2. pc' \in [Loops -> Places]
        BY <1>10, <1>a, <2>1 DEF Places, Hold, Goes, Stop, Idle, CloseAs, CloseUnrecorded, Closed, Recorded, AnotherEnd,
            servingVars, socketVars, feedVars
      <3> QED
        BY <1>10, <1>a, <2>1, <3>1, <3>2 DEF Touches, Hold, Goes, Stop, Idle, CloseAs, CloseUnrecorded, Closed, Recorded, AnotherEnd,
            servingVars, socketVars, feedVars
    <2>3. MayHold(l, pc[l], out[l])' /\ kind' = kind
      BY <1>10, <1>a, <2>1, NamesApart
      DEF MayHold, LaneMayHold, ReaderMayHold, CloserMayHold, RosterMayHold, SessionMayHold, Only, Hold, Goes, Stop, Idle, CloseAs, CloseUnrecorded, Closed, Recorded, AnotherEnd,
          servingVars, socketVars, feedVars
    <2>4. OtherTypes'
      <3>u. UNCHANGED <<kind, phase, acting, pending, signal, published, game, socket, client,
                        dropped, sent, results, stage, cause, cancelled>>
        BY <1>10 DEF Hold, Goes, Stop, Idle, CloseAs, CloseUnrecorded, Closed, Recorded, AnotherEnd,
            servingVars, socketVars, feedVars
      <3> QED
        BY <1>a, <3>u DEF OtherTypes
    <2> QED
      BY <1>a, <2>1, <2>2, <2>3, <2>4, LoopGoes, TypesSplit DEF Touches
  <1>11. ASSUME NEW l \in Lanes, Handle(l)
        PROVE  ServedTypes' /\ LoopsHold'
    <2>1. l \in Loops /\ MayHold(l, pc[l], out[l])
      BY DEF LoopsHold, Loops, Streams
    <2>a. HandlesSo(l)
      BY <1>11, <1>a, HandleCases DEF OtherTypes
    <2>2. Touches(l) /\ MayHold(l, pc[l], out[l])' /\ results' \in Seq(LoggedEnds)
      <3>1. CASE Answers(l)
        <4>1. out' \in [Loops -> Seq(Message)] /\ pc' \in [Loops -> Places]
          BY <2>a, <1>a, <2>1, <3>1 DEF HandlesSo, Answers, Goes, Stop, Idle, CloseAs, CloseUnrecorded, Closed, Recorded,
              AnotherEnd, servingVars, socketVars, feedVars, Places
        <4>3. results' \in Seq(LoggedEnds)
          BY <2>a, <1>a, <3>1, ReportsType, ClosingSeqs DEF OtherTypes, HandlesSo, Answers, Idle, CloseAs, CloseUnrecorded, Closed, Recorded, AnotherEnd,
              servingVars, socketVars, feedVars
        <4>2. /\ \A k \in Loops \ {l} : pc'[k] = pc[k] /\ out'[k] = out[k]
              /\ MayHold(l, pc[l], out[l])'
          BY <2>a, <1>a, <2>1, <3>1, NamesApart DEF MayHold, LaneMayHold, ReaderMayHold, CloserMayHold, RosterMayHold, SessionMayHold, Only, HandlesSo, Answers, Goes, Stop, Idle, CloseAs, CloseUnrecorded, Closed, Recorded,
              AnotherEnd, servingVars, socketVars, feedVars
        <4> QED
          BY <4>1, <4>2, <4>3 DEF Touches
      <3>2. CASE SaysNothing(l)
        <4>1. out' \in [Loops -> Seq(Message)] /\ pc' \in [Loops -> Places]
          BY <2>a, <1>a, <2>1, <3>2, MessageSeqs, ClosingSeqs DEF HandlesSo, SaysNothing, AfterHandling, Goes, Stop, Idle, CloseAs, CloseUnrecorded,
              Closed, Recorded, AnotherEnd, servingVars, socketVars, feedVars, Places
        <4>3. results' \in Seq(LoggedEnds)
          BY <2>a, <1>a, <3>2, ReportsType, ClosingSeqs DEF OtherTypes, HandlesSo, SaysNothing, AfterHandling, Idle, CloseAs, CloseUnrecorded, Closed,
              Recorded, AnotherEnd, servingVars, socketVars, feedVars
        <4>2. /\ \A k \in Loops \ {l} : pc'[k] = pc[k] /\ out'[k] = out[k]
              /\ MayHold(l, pc[l], out[l])'
          BY <2>a, <1>a, <2>1, <3>2, NamesApart, MessageSeqs, ClosingSeqs DEF MayHold, LaneMayHold, ReaderMayHold, CloserMayHold, RosterMayHold, SessionMayHold, Only, HandlesSo, SaysNothing, AfterHandling, Goes, Stop, Idle, CloseAs, CloseUnrecorded,
              Closed, Recorded, AnotherEnd, servingVars, socketVars, feedVars
        <4> QED
          BY <4>1, <4>2, <4>3 DEF Touches
      <3>3. CASE Fails(l)
        <4>1. out' \in [Loops -> Seq(Message)] /\ pc' \in [Loops -> Places]
          BY <2>a, <1>a, <2>1, <3>3, ClosingSeqs DEF HandlesSo, Fails, Goes, Stop, Idle, CloseAs, CloseUnrecorded, Closed, Recorded,
              AnotherEnd, servingVars, socketVars, feedVars, Places
        <4>3. results' \in Seq(LoggedEnds)
          BY <2>a, <1>a, <3>3, ReportsType, ClosingSeqs DEF OtherTypes, HandlesSo, Fails, Idle, CloseAs, CloseUnrecorded, Closed, Recorded, AnotherEnd,
              servingVars, socketVars, feedVars
        <4>2. /\ \A k \in Loops \ {l} : pc'[k] = pc[k] /\ out'[k] = out[k]
              /\ MayHold(l, pc[l], out[l])'
          BY <2>a, <1>a, <2>1, <3>3, NamesApart, ClosingSeqs DEF MayHold, LaneMayHold, ReaderMayHold, CloserMayHold, RosterMayHold, SessionMayHold, Only, HandlesSo, Fails, Goes, Stop, Idle, CloseAs, CloseUnrecorded, Closed, Recorded,
              AnotherEnd, servingVars, socketVars, feedVars
        <4> QED
          BY <4>1, <4>2, <4>3 DEF Touches
      <3>4. CASE Closes(l, "invalid_game_data")
        <4>1. out' \in [Loops -> Seq(Message)] /\ pc' \in [Loops -> Places]
          BY <2>a, <1>a, <2>1, <3>4, ClosingSeqs DEF HandlesSo, Closes, RecordedEnds, Goes, Stop, Idle, CloseAs, CloseUnrecorded, Closed,
              Recorded, AnotherEnd, servingVars, socketVars, feedVars, Places
        <4>3. results' \in Seq(LoggedEnds)
          BY <2>a, <1>a, <3>4, ReportsType, ClosingSeqs DEF OtherTypes, HandlesSo, Closes, RecordedEnds, Idle, CloseAs, CloseUnrecorded, Closed, Recorded,
              AnotherEnd, servingVars, socketVars, feedVars
        <4>2. /\ \A k \in Loops \ {l} : pc'[k] = pc[k] /\ out'[k] = out[k]
              /\ MayHold(l, pc[l], out[l])'
          BY <2>a, <1>a, <2>1, <3>4, NamesApart, ClosingSeqs DEF MayHold, LaneMayHold, ReaderMayHold, CloserMayHold, RosterMayHold, SessionMayHold, Only, HandlesSo, Closes, RecordedEnds, Goes, Stop, Idle, CloseAs, CloseUnrecorded, Closed,
              Recorded, AnotherEnd, servingVars, socketVars, feedVars
        <4> QED
          BY <4>1, <4>2, <4>3 DEF Touches
      <3>5. CASE Closes(l, "malformed_message")
        <4>1. out' \in [Loops -> Seq(Message)] /\ pc' \in [Loops -> Places]
          BY <2>a, <1>a, <2>1, <3>5, ClosingSeqs DEF HandlesSo, Closes, RecordedEnds, Goes, Stop, Idle, CloseAs, CloseUnrecorded, Closed,
              Recorded, AnotherEnd, servingVars, socketVars, feedVars, Places
        <4>3. results' \in Seq(LoggedEnds)
          BY <2>a, <1>a, <3>5, ReportsType, ClosingSeqs DEF OtherTypes, HandlesSo, Closes, RecordedEnds, Idle, CloseAs, CloseUnrecorded, Closed, Recorded,
              AnotherEnd, servingVars, socketVars, feedVars
        <4>2. /\ \A k \in Loops \ {l} : pc'[k] = pc[k] /\ out'[k] = out[k]
              /\ MayHold(l, pc[l], out[l])'
          BY <2>a, <1>a, <2>1, <3>5, NamesApart, ClosingSeqs DEF MayHold, LaneMayHold, ReaderMayHold, CloserMayHold, RosterMayHold, SessionMayHold, Only, HandlesSo, Closes, RecordedEnds, Goes, Stop, Idle, CloseAs, CloseUnrecorded, Closed,
              Recorded, AnotherEnd, servingVars, socketVars, feedVars
        <4> QED
          BY <4>1, <4>2, <4>3 DEF Touches
      <3> QED
        BY <2>a, <3>1, <3>2, <3>3, <3>4, <3>5 DEF HandlesSo
    <2>3. kind' = kind
      BY <2>a DEF HandlesSo
    <2>4. OtherTypes'
      <3>u. UNCHANGED <<kind, phase, acting, pending, signal, published, game, client, sent, stage,
                        cause, cancelled>>
        BY <2>a DEF HandlesSo, Answers, SaysNothing, Closes, Fails, AfterHandling, Goes, Stop, Idle,
            CloseAs, CloseUnrecorded, Closed, Recorded, AnotherEnd, servingVars, socketVars,
            feedVars
      <3>1. socket' \in {"open", "recorded", "unrecorded", "released"}
        BY <2>a, <1>a, <2>1, NamesApart DEF OtherTypes, HandlesSo, Answers, SaysNothing, Closes, Fails, AfterHandling, Goes, Stop, Idle,
            CloseAs, CloseUnrecorded, Closed, Recorded, AnotherEnd, servingVars, socketVars,
            feedVars
      <3>2. dropped' \in RecordedEnds \cup {"none"}
        BY <2>a, <1>a, <2>1, NamesApart DEF OtherTypes, HandlesSo, Answers, SaysNothing, Closes, Fails, AfterHandling, Goes, Stop, Idle,
            CloseAs, CloseUnrecorded, Closed, Recorded, AnotherEnd, servingVars, socketVars,
            feedVars, LoggedEnds, Closings, RecordedEnds
      <3>3. results' \in Seq(LoggedEnds)
        BY <2>2, <1>a DEF OtherTypes
      <3> QED
        BY <1>a, <3>u, <3>1, <3>2, <3>3 DEF OtherTypes
    <2> QED
      BY <1>a, <2>1, <2>2, <2>3, <2>4, LoopGoes, TypesSplit DEF Touches
  <1>12. ASSUME NEW l \in Streams, NextUpdate(l)
        PROVE  ServedTypes' /\ LoopsHold'
    <2>1. l \in Loops /\ MayHold(l, pc[l], out[l])
      BY DEF LoopsHold, Loops, Streams
    <2>q. Source(l) \in Queues /\ (l \in Lanes => Source(l) = l /\ l # "session")
      BY <1>a, NamesApart DEF Source, OtherTypes, Queues, Feeds, Streams
    <2>h. pending[Source(l)] # <<>> =>
            /\ Head(pending[Source(l)]) \in Message /\ Head(pending[Source(l)]).what = Source(l)
            /\ Head(pending[Source(l)]).n \in Nat
            /\ Source(l) \in Feeds => Head(pending[Source(l)]).actor \in Actors \cup {"none"}
            /\ Tail(pending[Source(l)]) \in Seq(Of(Source(l))) /\ Tail(pending[Source(l)]) \in Seq(Message)
      BY <1>a, <2>q, WaitingType
    <2>w. pending[Source(l)] # <<>> =>
            /\ Writes(l, Head(pending[Source(l)])) \in Seq(Message)
            /\ \/ Only(Writes(l, Head(pending[Source(l)])), {Source(l)})
               \/ /\ l = "session" /\ kind = "preview" /\ phase = "views"
                  /\ Len(Writes(l, Head(pending[Source(l)]))) = 2
                  /\ Writes(l, Head(pending[Source(l)]))[1].what = "acting"
                  /\ Writes(l, Head(pending[Source(l)]))[2].what = "views"
      <3> SUFFICES ASSUME pending[Source(l)] # <<>>
                   PROVE  /\ Writes(l, Head(pending[Source(l)])) \in Seq(Message)
                          /\ \/ Only(Writes(l, Head(pending[Source(l)])), {Source(l)})
                             \/ /\ l = "session" /\ kind = "preview" /\ phase = "views"
                                /\ Len(Writes(l, Head(pending[Source(l)]))) = 2
                                /\ Writes(l, Head(pending[Source(l)]))[1].what = "acting"
                                /\ Writes(l, Head(pending[Source(l)]))[2].what = "views"
        OBVIOUS
      <3> DEFINE item == Head(pending[Source(l)])
                 told == [what |-> "acting", n |-> item.n, actor |-> item.actor]
      <3>1. item \in Message /\ item.what = Source(l) /\ item.n \in Nat
            /\ (Source(l) \in Feeds => item.actor \in Actors \cup {"none"})
        BY <2>h
      <3>2. Source(l) = "views" => told \in Message /\ told.what = "acting"
        BY <3>1, MessageType DEF Feeds
      <3>3. l = "session" /\ phase = "views" => Source(l) = "views"
        BY DEF Source
      <3>4. Writes(l, item) = IF l = "session" /\ phase = "views" /\ kind = "preview" /\ item.actor # acting
                              THEN <<told, item>> ELSE <<item>>
        BY DEF Writes
      <3> HIDE DEF item, told
      <3>5. CASE l = "session" /\ phase = "views" /\ kind = "preview" /\ item.actor # acting
        <4>1. Writes(l, item) = <<told, item>>
          BY <3>4, <3>5
        <4>2. told \in Message /\ told.what = "acting" /\ item \in Message /\ item.what = "views"
          BY <3>1, <3>2, <3>3, <3>5
        <4>3. /\ <<told, item>> \in Seq(Message) /\ Len(<<told, item>>) = 2
              /\ <<told, item>>[1].what = "acting" /\ <<told, item>>[2].what = "views"
          BY <4>2
        <4> QED
          BY <3>5, <4>1, <4>3 DEF item
      <3>6. CASE ~(l = "session" /\ phase = "views" /\ kind = "preview" /\ item.actor # acting)
        <4>1. Writes(l, item) = <<item>>
          BY <3>4, <3>6
        <4>2. <<item>> \in Seq(Message) /\ Only(<<item>>, {Source(l)})
          BY <3>1 DEF Only
        <4> QED
          BY <4>1, <4>2 DEF item
      <3> QED
        BY <3>5, <3>6
    <2>t. /\ pending' \in [Queues -> Seq(Message)]
          /\ \A q \in Queues : pending'[q] \in Seq(Of(q))
          /\ acting' \in Actors \cup {"none"}
      <3>1. CASE TakeFrom(l)
        <4>1. pending' = [pending EXCEPT ![Source(l)] = Tail(@)] /\ pending[Source(l)] # <<>>
          BY <3>1 DEF TakeFrom
        <4>2. acting' = IF l = "session" /\ phase = "views" THEN Head(pending[Source(l)]).actor ELSE acting
          BY <3>1 DEF TakeFrom
        <4>3. l = "session" /\ phase = "views" => Source(l) \in Feeds
          BY DEF Source, Feeds
        <4>4. pending' \in [Queues -> Seq(Message)] /\ \A q \in Queues : pending'[q] \in Seq(Of(q))
          BY <1>a, <2>q, <2>h, <4>1 DEF OtherTypes
        <4>5. acting' \in Actors \cup {"none"}
          BY <1>a, <2>h, <4>1, <4>2, <4>3 DEF OtherTypes
        <4> QED
          BY <4>4, <4>5
      <3>2. CASE UNCHANGED <<out, acting, pending>>
        BY <1>a, <3>2 DEF OtherTypes
      <3> QED
        BY <1>12, <3>1, <3>2 DEF NextUpdate
    <2>2. Touches(l)
      <3>1. CASE TakeFrom(l)
        BY <1>a, <2>1, <2>w, <3>1 DEF Touches, TakeFrom, Goes, Places
      <3>2. CASE UNCHANGED <<out, acting, pending>> /\ ~TakeFrom(l)
        BY <1>12, <1>a, <2>1, <3>2 DEF Touches, NextUpdate, Goes, Stop, Places, TakeFrom
      <3> QED
        BY <1>12, <3>1, <3>2 DEF NextUpdate
    <2>3. MayHold(l, pc[l], out[l])' /\ kind' = kind
      <3>0. kind' = kind
        BY <1>12 DEF NextUpdate
      <3>1. CASE TakeFrom(l)
        <4>1. pc'[l] = (IF l \in Lanes THEN "handle" ELSE "writing") /\ pending[Source(l)] # <<>>
              /\ out'[l] = Writes(l, Head(pending[Source(l)]))
          BY <1>a, <2>1, <3>1 DEF TakeFrom, Goes
        <4>2. /\ l \in Streams => Source(l) \in {"lobby", "views", "roster"}
              /\ l = "session" => Source(l) \in {"lobby", "views"}
              /\ l = "roster" => Source(l) = "roster"
          BY <1>a DEF Source, Streams, OtherTypes
        <4>3. l = "roster" /\ pc[l] = "next" => kind = "player"
          BY <2>1 DEF MayHold, RosterMayHold
        <4>4. pc[l] = "next"
          BY <1>12 DEF NextUpdate
        <4> QED
          BY <2>q, <2>w, <3>0, <4>1, <4>2, <4>3, <4>4, NamesApart
          DEF MayHold, LaneMayHold, ReaderMayHold, CloserMayHold, RosterMayHold, SessionMayHold, Only, Streams
      <3>2. CASE UNCHANGED <<out, acting, pending>> /\ ~TakeFrom(l)
        <4>1. pc'[l] \in (IF l \in Lanes THEN {"asleep"} ELSE IF l = "session" THEN {"start", "done"} ELSE {"done"})
          BY <1>12, <1>a, <2>1, <3>2, NamesApart DEF NextUpdate, Goes, Stop, Streams
        <4>2. out'[l] = <<>>
          BY <1>12, <2>1, <3>2, NamesApart DEF NextUpdate, MayHold, LaneMayHold, RosterMayHold, SessionMayHold, Streams
        <4> QED
          BY <3>0, <4>1, <4>2, NamesApart
          DEF MayHold, LaneMayHold, ReaderMayHold, CloserMayHold, RosterMayHold, SessionMayHold, Streams
      <3> QED
        BY <1>12, <3>1, <3>2 DEF NextUpdate
    <2>4. OtherTypes'
      <3>u. UNCHANGED <<kind, phase, signal, published, game, socket, client, dropped, sent, stage,
                        cause, cancelled>>
        BY <1>12 DEF NextUpdate, TakeFrom, Writes, Source, Goes, Stop, Idle, CloseAs, CloseUnrecorded,
            Closed, Recorded, AnotherEnd, servingVars, socketVars, feedVars
      <3>1. pending' \in [Queues -> Seq(Message)] /\ (\A q \in Queues : pending'[q] \in Seq(Of(q)))
        BY <2>t, <1>a DEF OtherTypes
      <3>2. acting' \in Actors \cup {"none"}
        BY <2>t, <1>a DEF OtherTypes
      <3>3. results' \in Seq(LoggedEnds)
        BY <1>12, <1>a, <2>1, NamesApart, ReportsType, ClosingSeqs DEF OtherTypes, NextUpdate, TakeFrom, Writes, Source, Idle, CloseAs, CloseUnrecorded, Closed, Recorded,
            AnotherEnd, servingVars, socketVars, feedVars
      <3> QED
        BY <1>a, <3>u, <3>1, <3>2, <3>3 DEF OtherTypes
    <2> QED
      BY <1>a, <2>1, <2>2, <2>3, <2>4, LoopGoes, TypesSplit DEF Touches
  <1>13. ASSUME SendStart
        PROVE  ServedTypes' /\ LoopsHold'
    <2>1. "session" \in Loops /\ MayHold("session", pc["session"], out["session"])
      BY DEF LoopsHold, Loops, Streams
    <2> DEFINE said == [what |-> "start", n |-> 0]
    <2>n. said \in Message /\ said.what = "start"
      BY <1>a, MessageType
    <2>m. <<said>> \in Seq(Message) /\ Len(<<said>>) = 1 /\ <<said>>[1].what = "start"
      <3> HIDE DEF said
      <3> QED
        BY <2>n
    <2>2. Touches("session")
      <3>1. out' \in [Loops -> Seq(Message)]
        BY <1>13, <1>a, <2>1, <2>m DEF SendStart, Goes, Stop, Idle, CloseAs, CloseUnrecorded, Closed, Recorded, AnotherEnd,
            servingVars, socketVars, feedVars
      <3>2. pc' \in [Loops -> Places]
        BY <1>13, <1>a, <2>1 DEF Places, SendStart, Goes, Stop, Idle, CloseAs, CloseUnrecorded, Closed, Recorded, AnotherEnd,
            servingVars, socketVars, feedVars
      <3> QED
        BY <1>13, <1>a, <2>1, <3>1, <3>2 DEF Touches, SendStart, Goes, Stop, Idle, CloseAs, CloseUnrecorded, Closed, Recorded, AnotherEnd,
            servingVars, socketVars, feedVars
    <2>3. MayHold("session", pc["session"], out["session"])' /\ kind' = kind
      BY <1>13, <1>a, <2>1, NamesApart, <2>m
      DEF MayHold, SessionMayHold, Only, SendStart, Goes, Stop, Idle, CloseAs, CloseUnrecorded, Closed, Recorded, AnotherEnd,
          servingVars, socketVars, feedVars
    <2>4. OtherTypes'
      <3>u. UNCHANGED <<kind, phase, acting, pending, signal, published, game, socket, client,
                        dropped, sent, stage, cause, cancelled>>
        BY <1>13 DEF SendStart, Goes, Stop, Idle, CloseAs, CloseUnrecorded, Closed, Recorded, AnotherEnd,
            servingVars, socketVars, feedVars
      <3>1. results' \in Seq(LoggedEnds)
        BY <1>13, <1>a, <2>1, ReportsType, ClosingSeqs DEF OtherTypes, SendStart, Idle, CloseAs, CloseUnrecorded, Closed, Recorded, AnotherEnd, servingVars,
            socketVars, feedVars
      <3> QED
        BY <1>a, <3>u, <3>1 DEF OtherTypes
    <2> QED
      BY <1>a, <2>1, <2>2, <2>3, <2>4, LoopGoes, TypesSplit DEF Touches
  <1>14. ASSUME SendRoster
        PROVE  ServedTypes' /\ LoopsHold'
    <2>1. "roster" \in Loops /\ MayHold("roster", pc["roster"], out["roster"])
      BY DEF LoopsHold, Loops, Streams
    <2>2. Touches("roster")
      <3>1. out' \in [Loops -> Seq(Message)]
        BY <1>14, <1>a, <2>1 DEF SendRoster, Goes, Stop, Idle, CloseAs, CloseUnrecorded, Closed, Recorded, AnotherEnd,
            servingVars, socketVars, feedVars
      <3>2. pc' \in [Loops -> Places]
        BY <1>14, <1>a, <2>1 DEF Places, SendRoster, Goes, Stop, Idle, CloseAs, CloseUnrecorded, Closed, Recorded, AnotherEnd,
            servingVars, socketVars, feedVars
      <3> QED
        BY <1>14, <1>a, <2>1, <3>1, <3>2 DEF Touches, SendRoster, Goes, Stop, Idle, CloseAs, CloseUnrecorded, Closed, Recorded, AnotherEnd,
            servingVars, socketVars, feedVars
    <2>3. MayHold("roster", pc["roster"], out["roster"])' /\ kind' = kind
      BY <1>14, <1>a, <2>1, NamesApart
      DEF MayHold, RosterMayHold, Only, SendRoster, Goes, Stop, Idle, CloseAs, CloseUnrecorded, Closed, Recorded, AnotherEnd,
          servingVars, socketVars, feedVars
    <2>4. OtherTypes'
      <3>u. UNCHANGED <<kind, phase, acting, pending, signal, published, game, socket, client,
                        dropped, sent, stage, cause, cancelled>>
        BY <1>14 DEF SendRoster, Goes, Stop, Idle, CloseAs, CloseUnrecorded, Closed, Recorded, AnotherEnd,
            servingVars, socketVars, feedVars
      <3>1. results' \in Seq(LoggedEnds)
        BY <1>14, <1>a, <2>1, ReportsType, ClosingSeqs DEF OtherTypes, SendRoster, Idle, CloseAs, CloseUnrecorded, Closed, Recorded, AnotherEnd, servingVars,
            socketVars, feedVars
      <3> QED
        BY <1>a, <3>u, <3>1 DEF OtherTypes
    <2> QED
      BY <1>a, <2>1, <2>2, <2>3, <2>4, LoopGoes, TypesSplit DEF Touches
  <1>15. ASSUME AwaitEnd
        PROVE  ServedTypes' /\ LoopsHold'
    <2>1. "closer" \in Loops /\ MayHold("closer", pc["closer"], out["closer"])
      BY DEF LoopsHold, Loops, Streams
    <2>2. Touches("closer")
      <3>1. out' \in [Loops -> Seq(Message)]
        BY <1>15, <1>a, <2>1 DEF AwaitEnd, Goes, Stop, Idle, CloseAs, CloseUnrecorded, Closed, Recorded, AnotherEnd,
            servingVars, socketVars, feedVars
      <3>2. pc' \in [Loops -> Places]
        BY <1>15, <1>a, <2>1 DEF Places, AwaitEnd, Goes, Stop, Idle, CloseAs, CloseUnrecorded, Closed, Recorded, AnotherEnd,
            servingVars, socketVars, feedVars
      <3> QED
        BY <1>15, <1>a, <2>1, <3>1, <3>2 DEF Touches, AwaitEnd, Goes, Stop, Idle, CloseAs, CloseUnrecorded, Closed, Recorded, AnotherEnd,
            servingVars, socketVars, feedVars
    <2>3. MayHold("closer", pc["closer"], out["closer"])' /\ kind' = kind
      BY <1>15, <1>a, <2>1, NamesApart
      DEF MayHold, CloserMayHold, Only, AwaitEnd, Goes, Stop, Idle, CloseAs, CloseUnrecorded, Closed, Recorded, AnotherEnd,
          servingVars, socketVars, feedVars
    <2>4. OtherTypes'
      <3>u. UNCHANGED <<kind, phase, acting, pending, signal, published, game, socket, client,
                        dropped, sent, stage, cause, cancelled>>
        BY <1>15 DEF AwaitEnd, Goes, Stop, Idle, CloseAs, CloseUnrecorded, Closed, Recorded, AnotherEnd,
            servingVars, socketVars, feedVars
      <3>1. results' \in Seq(LoggedEnds)
        BY <1>15, <1>a, <2>1, ReportsType, ClosingSeqs DEF OtherTypes, AwaitEnd, Idle, CloseAs, CloseUnrecorded, Closed, Recorded, AnotherEnd, servingVars,
            socketVars, feedVars
      <3> QED
        BY <1>a, <3>u, <3>1 DEF OtherTypes
    <2> QED
      BY <1>a, <2>1, <2>2, <2>3, <2>4, LoopGoes, TypesSplit DEF Touches
  <1>16. ASSUME AwaitStreams
        PROVE  ServedTypes' /\ LoopsHold'
    <2>1. "closer" \in Loops /\ MayHold("closer", pc["closer"], out["closer"])
      BY DEF LoopsHold, Loops, Streams
    <2>2. Touches("closer")
      <3>1. out' \in [Loops -> Seq(Message)]
        BY <1>16, <1>a, <2>1 DEF AwaitStreams, Goes, Stop, Idle, CloseAs, CloseUnrecorded, Closed, Recorded, AnotherEnd,
            servingVars, socketVars, feedVars
      <3>2. pc' \in [Loops -> Places]
        BY <1>16, <1>a, <2>1 DEF Places, AwaitStreams, Goes, Stop, Idle, CloseAs, CloseUnrecorded, Closed, Recorded, AnotherEnd,
            servingVars, socketVars, feedVars
      <3> QED
        BY <1>16, <1>a, <2>1, <3>1, <3>2 DEF Touches, AwaitStreams, Goes, Stop, Idle, CloseAs, CloseUnrecorded, Closed, Recorded, AnotherEnd,
            servingVars, socketVars, feedVars
    <2>3. MayHold("closer", pc["closer"], out["closer"])' /\ kind' = kind
      BY <1>16, <1>a, <2>1, NamesApart
      DEF MayHold, CloserMayHold, Only, AwaitStreams, Goes, Stop, Idle, CloseAs, CloseUnrecorded, Closed, Recorded, AnotherEnd,
          servingVars, socketVars, feedVars
    <2>4. OtherTypes'
      <3>u. UNCHANGED <<kind, phase, acting, pending, signal, published, game, socket, client,
                        dropped, sent, stage, cause, cancelled>>
        BY <1>16 DEF AwaitStreams, Goes, Stop, Idle, CloseAs, CloseUnrecorded, Closed, Recorded, AnotherEnd,
            servingVars, socketVars, feedVars
      <3>1. results' \in Seq(LoggedEnds)
        BY <1>16, <1>a, <2>1, ReportsType, ClosingSeqs DEF OtherTypes, AwaitStreams, Idle, CloseAs, CloseUnrecorded, Closed, Recorded, AnotherEnd,
            servingVars, socketVars, feedVars
      <3> QED
        BY <1>a, <3>u, <3>1 DEF OtherTypes
    <2> QED
      BY <1>a, <2>1, <2>2, <2>3, <2>4, LoopGoes, TypesSplit DEF Touches
  <1>17. ASSUME LockAndTell
        PROVE  ServedTypes' /\ LoopsHold'
    <2>1. "closer" \in Loops /\ MayHold("closer", pc["closer"], out["closer"])
      BY DEF LoopsHold, Loops, Streams
    <2> DEFINE said == [what |-> Tells, n |-> 0]
    <2>n. said \in Message /\ said.what = Tells
      BY <1>a, MessageType DEF Tells, EndMessages
    <2>m. <<said>> \in Seq(Message) /\ Len(<<said>>) = 1 /\ <<said>>[1].what = Tells
      <3> HIDE DEF said
      <3> QED
        BY <2>n
    <2>2. Touches("closer")
      <3>1. out' \in [Loops -> Seq(Message)]
        BY <1>17, <1>a, <2>1, <2>m DEF LockAndTell, Goes, Stop, Idle, CloseAs, CloseUnrecorded, Closed, Recorded, AnotherEnd,
            servingVars, socketVars, feedVars, Tells, EndMessages
      <3>2. pc' \in [Loops -> Places]
        BY <1>17, <1>a, <2>1 DEF Places, LockAndTell, Goes, Stop, Idle, CloseAs, CloseUnrecorded, Closed, Recorded, AnotherEnd,
            servingVars, socketVars, feedVars
      <3> QED
        BY <1>17, <1>a, <2>1, <3>1, <3>2 DEF Touches, LockAndTell, Goes, Stop, Idle, CloseAs, CloseUnrecorded, Closed, Recorded, AnotherEnd,
            servingVars, socketVars, feedVars
    <2>3. MayHold("closer", pc["closer"], out["closer"])' /\ kind' = kind
      BY <1>17, <1>a, <2>1, NamesApart, <2>m
      DEF MayHold, CloserMayHold, Only, LockAndTell, Goes, Stop, Idle, CloseAs, CloseUnrecorded, Closed, Recorded, AnotherEnd,
          servingVars, socketVars, feedVars, Tells, EndMessages
    <2>4. OtherTypes'
      <3>u. UNCHANGED <<kind, phase, acting, pending, signal, published, game, socket, client,
                        dropped, sent, results, stage, cause, cancelled>>
        BY <1>17 DEF LockAndTell, Goes, Stop, Idle, CloseAs, CloseUnrecorded, Closed, Recorded, AnotherEnd,
            servingVars, socketVars, feedVars
      <3> QED
        BY <1>a, <3>u DEF OtherTypes
    <2> QED
      BY <1>a, <2>1, <2>2, <2>3, <2>4, LoopGoes, TypesSplit DEF Touches
  <1>18. ASSUME CloseEnded
        PROVE  ServedTypes' /\ LoopsHold'
    <2>1. "closer" \in Loops /\ MayHold("closer", pc["closer"], out["closer"])
      BY DEF LoopsHold, Loops, Streams
    <2>2. Touches("closer")
      <3>1. out' \in [Loops -> Seq(Message)]
        BY <1>18, <1>a, <2>1, ClosingSeqs DEF CloseEnded, Goes, Stop, Idle, CloseAs, CloseUnrecorded, Closed, Recorded, AnotherEnd,
            servingVars, socketVars, feedVars
      <3>2. pc' \in [Loops -> Places]
        BY <1>18, <1>a, <2>1 DEF Places, CloseEnded, Goes, Stop, Idle, CloseAs, CloseUnrecorded, Closed, Recorded, AnotherEnd,
            servingVars, socketVars, feedVars
      <3> QED
        BY <1>18, <1>a, <2>1, <3>1, <3>2 DEF Touches, CloseEnded, Goes, Stop, Idle, CloseAs, CloseUnrecorded, Closed, Recorded, AnotherEnd,
            servingVars, socketVars, feedVars
    <2>3. MayHold("closer", pc["closer"], out["closer"])' /\ kind' = kind
      BY <1>18, <1>a, <2>1, NamesApart, ClosingSeqs
      DEF MayHold, CloserMayHold, Only, CloseEnded, Goes, Stop, Idle, CloseAs, CloseUnrecorded, Closed, Recorded, AnotherEnd,
          servingVars, socketVars, feedVars
    <2>4. OtherTypes'
      <3>u. UNCHANGED <<kind, phase, acting, pending, signal, published, game, client, dropped,
                        sent, results, stage, cause, cancelled>>
        BY <1>18 DEF CloseEnded, Goes, Stop, Idle, CloseAs, CloseUnrecorded, Closed, Recorded, AnotherEnd,
            servingVars, socketVars, feedVars
      <3>1. socket' \in {"open", "recorded", "unrecorded", "released"}
        BY <1>18, <1>a, <2>1 DEF OtherTypes, CloseEnded, Goes, Stop, Idle, CloseAs, CloseUnrecorded, Closed, Recorded, AnotherEnd,
            servingVars, socketVars, feedVars
      <3> QED
        BY <1>a, <3>u, <3>1 DEF OtherTypes
    <2> QED
      BY <1>a, <2>1, <2>2, <2>3, <2>4, LoopGoes, TypesSplit DEF Touches
  <1>19. ASSUME NEW l \in Loops, Write(l)
        PROVE  ServedTypes' /\ LoopsHold'
    <2>1. l \in Loops /\ MayHold(l, pc[l], out[l])
      BY DEF LoopsHold, Loops, Streams
    <2>w. /\ out[l] # <<>> /\ Head(out[l]) = out[l][1] /\ out[l][1] \in Message
          /\ Tail(out[l]) \in Seq(Message)
      BY <1>19, <1>a, HeldType DEF Write
    <2>2. Touches(l)
      <3>1. out' \in [Loops -> Seq(Message)]
        BY <1>19, <1>a, <2>1, <2>w DEF Write, AfterWrite, AfterHandling, Goes, Stop, Idle, CloseAs, CloseUnrecorded, Closed,
            Recorded, AnotherEnd, servingVars, socketVars, feedVars
      <3>2. pc' \in [Loops -> Places]
        BY <1>19, <1>a, <2>1 DEF Places, Write, AfterWrite, AfterHandling, Goes, Stop, Idle, CloseAs, CloseUnrecorded, Closed,
            Recorded, AnotherEnd, servingVars, socketVars, feedVars
      <3> QED
        BY <1>19, <1>a, <2>1, <3>1, <3>2 DEF Touches, Write, AfterWrite, AfterHandling, Goes, Stop, Idle, CloseAs, CloseUnrecorded, Closed,
            Recorded, AnotherEnd, servingVars, socketVars, feedVars
    <2>3. MayHold(l, pc[l], out[l])' /\ kind' = kind
      BY <1>19, <1>a, <2>1, NamesApart, <2>w
      DEF MayHold, LaneMayHold, ReaderMayHold, CloserMayHold, RosterMayHold, SessionMayHold, Only, Write, AfterWrite, AfterHandling, Goes, Stop, Idle, CloseAs, CloseUnrecorded, Closed,
          Recorded, AnotherEnd, servingVars, socketVars, feedVars
    <2>4. OtherTypes'
      <3>u. UNCHANGED <<kind, acting, pending, signal, published, game, socket, client, dropped,
                        stage, cause, cancelled>>
        BY <1>19 DEF Write, AfterWrite, AfterHandling, Goes, Stop, Idle, CloseAs, CloseUnrecorded, Closed,
            Recorded, AnotherEnd, servingVars, socketVars, feedVars
      <3>1. sent' \in Seq(Message)
        BY <1>19, <1>a, <2>1, NamesApart, <2>w DEF OtherTypes, Write, AfterWrite, AfterHandling, Goes, Stop, Idle, CloseAs, CloseUnrecorded, Closed,
            Recorded, AnotherEnd, servingVars, socketVars, feedVars
      <3>2. phase' \in {"lobby", "views"}
        BY <1>19, <1>a, <2>1, NamesApart DEF OtherTypes, Write, AfterWrite, AfterHandling, Goes, Stop, Idle, CloseAs, CloseUnrecorded, Closed,
            Recorded, AnotherEnd, servingVars, socketVars, feedVars
      <3>3. results' \in Seq(LoggedEnds)
        BY <1>19, <1>a, <2>1, NamesApart, ReportsType, ClosingSeqs DEF OtherTypes, Write, AfterWrite, AfterHandling, Idle, CloseAs, CloseUnrecorded, Closed, Recorded,
            AnotherEnd, servingVars, socketVars, feedVars
      <3> QED
        BY <1>a, <3>u, <3>1, <3>2, <3>3 DEF OtherTypes
    <2> QED
      BY <1>a, <2>1, <2>2, <2>3, <2>4, LoopGoes, TypesSplit DEF Touches
  <1>20. ASSUME NEW l \in Loops, WriteTooSlow(l)
        PROVE  ServedTypes' /\ LoopsHold'
    <2>1. l \in Loops /\ MayHold(l, pc[l], out[l])
      BY DEF LoopsHold, Loops, Streams
    <2>2. Touches(l)
      <3>1. out' \in [Loops -> Seq(Message)]
        BY <1>20, <1>a, <2>1 DEF WriteTooSlow, Goes, Stop, Idle, CloseAs, CloseUnrecorded, Closed, Recorded, AnotherEnd,
            servingVars, socketVars, feedVars
      <3>2. pc' \in [Loops -> Places]
        BY <1>20, <1>a, <2>1 DEF Places, WriteTooSlow, Goes, Stop, Idle, CloseAs, CloseUnrecorded, Closed, Recorded, AnotherEnd,
            servingVars, socketVars, feedVars
      <3> QED
        BY <1>20, <1>a, <2>1, <3>1, <3>2 DEF Touches, WriteTooSlow, Goes, Stop, Idle, CloseAs, CloseUnrecorded, Closed, Recorded, AnotherEnd,
            servingVars, socketVars, feedVars
    <2>3. MayHold(l, pc[l], out[l])' /\ kind' = kind
      BY <1>20, <1>a, <2>1, NamesApart
      DEF MayHold, LaneMayHold, ReaderMayHold, CloserMayHold, RosterMayHold, SessionMayHold, Only, WriteTooSlow, Goes, Stop, Idle, CloseAs, CloseUnrecorded, Closed, Recorded, AnotherEnd,
          servingVars, socketVars, feedVars
    <2>4. OtherTypes'
      <3>u. UNCHANGED <<kind, phase, acting, pending, signal, published, game, client, sent, stage,
                        cause, cancelled>>
        BY <1>20 DEF WriteTooSlow, Goes, Stop, Idle, CloseAs, CloseUnrecorded, Closed, Recorded, AnotherEnd,
            servingVars, socketVars, feedVars
      <3>1. dropped' \in RecordedEnds \cup {"none"}
        BY <1>20, <1>a, <2>1, NamesApart DEF OtherTypes, WriteTooSlow, Goes, Stop, Idle, CloseAs, CloseUnrecorded, Closed, Recorded, AnotherEnd,
            servingVars, socketVars, feedVars, LoggedEnds, Closings, RecordedEnds
      <3>2. socket' \in {"open", "recorded", "unrecorded", "released"}
        BY <1>20, <1>a, <2>1, NamesApart DEF OtherTypes, WriteTooSlow, Goes, Stop, Idle, CloseAs, CloseUnrecorded, Closed, Recorded, AnotherEnd,
            servingVars, socketVars, feedVars
      <3>3. results' \in Seq(LoggedEnds)
        BY <1>20, <1>a, <2>1, NamesApart, ReportsType, ClosingSeqs DEF OtherTypes, WriteTooSlow, Idle, CloseAs, CloseUnrecorded, Closed, Recorded, AnotherEnd,
            servingVars, socketVars, feedVars, RecordedEnds
      <3> QED
        BY <1>a, <3>u, <3>1, <3>2, <3>3 DEF OtherTypes
    <2> QED
      BY <1>a, <2>1, <2>2, <2>3, <2>4, LoopGoes, TypesSplit DEF Touches
  <1>21. ASSUME NEW l \in Loops, WriteFails(l)
        PROVE  ServedTypes' /\ LoopsHold'
    <2>1. l \in Loops /\ MayHold(l, pc[l], out[l])
      BY DEF LoopsHold, Loops, Streams
    <2>2. Touches(l)
      <3>1. out' \in [Loops -> Seq(Message)]
        BY <1>21, <1>a, <2>1 DEF WriteFails, Goes, Stop, Idle, CloseAs, CloseUnrecorded, Closed, Recorded, AnotherEnd,
            servingVars, socketVars, feedVars
      <3>2. pc' \in [Loops -> Places]
        BY <1>21, <1>a, <2>1 DEF Places, WriteFails, Goes, Stop, Idle, CloseAs, CloseUnrecorded, Closed, Recorded, AnotherEnd,
            servingVars, socketVars, feedVars
      <3> QED
        BY <1>21, <1>a, <2>1, <3>1, <3>2 DEF Touches, WriteFails, Goes, Stop, Idle, CloseAs, CloseUnrecorded, Closed, Recorded, AnotherEnd,
            servingVars, socketVars, feedVars
    <2>3. MayHold(l, pc[l], out[l])' /\ kind' = kind
      BY <1>21, <1>a, <2>1, NamesApart
      DEF MayHold, LaneMayHold, ReaderMayHold, CloserMayHold, RosterMayHold, SessionMayHold, Only, WriteFails, Goes, Stop, Idle, CloseAs, CloseUnrecorded, Closed, Recorded, AnotherEnd,
          servingVars, socketVars, feedVars
    <2>4. OtherTypes'
      <3>u. UNCHANGED <<kind, phase, acting, pending, signal, published, game, socket, client,
                        dropped, sent, stage, cause, cancelled>>
        BY <1>21 DEF WriteFails, Goes, Stop, Idle, CloseAs, CloseUnrecorded, Closed, Recorded, AnotherEnd,
            servingVars, socketVars, feedVars
      <3>1. results' \in Seq(LoggedEnds)
        BY <1>21, <1>a, <2>1, NamesApart, ReportsType, ClosingSeqs DEF OtherTypes, WriteFails, Idle, CloseAs, CloseUnrecorded, Closed, Recorded, AnotherEnd, servingVars,
            socketVars, feedVars
      <3> QED
        BY <1>a, <3>u, <3>1 DEF OtherTypes
    <2> QED
      BY <1>a, <2>1, <2>2, <2>3, <2>4, LoopGoes, TypesSplit DEF Touches
  <1>22. ASSUME NEW l \in Loops, ReportClose(l)
        PROVE  ServedTypes' /\ LoopsHold'
    <2>1. l \in Loops /\ MayHold(l, pc[l], out[l])
      BY DEF LoopsHold, Loops, Streams
    <2>2. Touches(l)
      <3>1. out' \in [Loops -> Seq(Message)]
        BY <1>22, <1>a, <2>1 DEF ReportClose, Goes, Stop, Idle, CloseAs, CloseUnrecorded, Closed, Recorded, AnotherEnd,
            servingVars, socketVars, feedVars
      <3>2. pc' \in [Loops -> Places]
        BY <1>22, <1>a, <2>1 DEF Places, ReportClose, Goes, Stop, Idle, CloseAs, CloseUnrecorded, Closed, Recorded, AnotherEnd,
            servingVars, socketVars, feedVars
      <3> QED
        BY <1>22, <1>a, <2>1, <3>1, <3>2 DEF Touches, ReportClose, Goes, Stop, Idle, CloseAs, CloseUnrecorded, Closed, Recorded, AnotherEnd,
            servingVars, socketVars, feedVars
    <2>3. MayHold(l, pc[l], out[l])' /\ kind' = kind
      BY <1>22, <1>a, <2>1, NamesApart
      DEF MayHold, LaneMayHold, ReaderMayHold, CloserMayHold, RosterMayHold, SessionMayHold, Only, ReportClose, Goes, Stop, Idle, CloseAs, CloseUnrecorded, Closed, Recorded, AnotherEnd,
          servingVars, socketVars, feedVars
    <2>4. OtherTypes'
      <3>u. UNCHANGED <<kind, phase, acting, pending, signal, published, game, socket, client,
                        dropped, sent, stage, cause, cancelled>>
        BY <1>22 DEF ReportClose, Goes, Stop, Idle, CloseAs, CloseUnrecorded, Closed, Recorded, AnotherEnd,
            servingVars, socketVars, feedVars
      <3>1. results' \in Seq(LoggedEnds)
        BY <1>22, <1>a, <2>1, NamesApart, ReportsType, ClosingSeqs, HeldType DEF OtherTypes, ReportClose, Idle, CloseAs, CloseUnrecorded, Closed, Recorded, AnotherEnd, servingVars,
            socketVars, feedVars
      <3> QED
        BY <1>a, <3>u, <3>1 DEF OtherTypes
    <2> QED
      BY <1>a, <2>1, <2>2, <2>3, <2>4, LoopGoes, TypesSplit DEF Touches
  <1>23. ASSUME TakeResult
        PROVE  ServedTypes' /\ LoopsHold'
    <2>1. pc' = pc /\ out' = out /\ kind' = kind
      BY <1>23 DEF TakeResult, Decide, servingVars, socketVars, feedVars, AnotherEnd
    <2>t. Tail(results) \in Seq(LoggedEnds) /\ <<>> \in Seq(LoggedEnds)
      BY <1>23, <1>a DEF OtherTypes, TakeResult
    <2>4. OtherTypes'
      <3>u. UNCHANGED <<kind, phase, acting, pending, signal, published, game, socket, client,
                        dropped, sent, cancelled>>
        BY <1>23 DEF TakeResult, Decide, Goes, Stop, Idle, CloseAs, CloseUnrecorded, Closed, Recorded,
            AnotherEnd, servingVars, socketVars, feedVars
      <3>1. stage' \in {"serving", "decided", "draining", "over"}
        BY <1>23, <1>a DEF OtherTypes, TakeResult, Decide, Goes, Stop, Idle, CloseAs, CloseUnrecorded, Closed, Recorded,
            AnotherEnd, servingVars, socketVars, feedVars
      <3>2. cause' \in LoggedEnds
        BY <1>23, <1>a DEF OtherTypes, TakeResult, Decide, Goes, Stop, Idle, CloseAs, CloseUnrecorded, Closed, Recorded,
            AnotherEnd, servingVars, socketVars, feedVars, LoggedEnds, Closings, RecordedEnds
      <3>3. results' \in Seq(LoggedEnds)
        BY <1>23, <1>a, <2>t DEF OtherTypes, TakeResult, Decide
      <3> QED
        BY <1>a, <3>u, <3>1, <3>2, <3>3 DEF OtherTypes
    <2> QED
      BY <1>a, <2>1, <2>4, LoopsStay, TypesSplit
  <1>24. ASSUME Disconnect
        PROVE  ServedTypes' /\ LoopsHold'
    <2>1. pc' = pc /\ out' = out /\ kind' = kind
      BY <1>24 DEF Disconnect, servingVars, socketVars, feedVars, AnotherEnd
    <2>4. OtherTypes'
      <3>u. UNCHANGED <<kind, phase, acting, pending, signal, published, client, dropped, sent,
                        results, cause>>
        BY <1>24 DEF Disconnect, Goes, Stop, Idle, CloseAs, CloseUnrecorded, Closed, Recorded, AnotherEnd,
            servingVars, socketVars, feedVars
      <3>1. stage' \in {"serving", "decided", "draining", "over"}
        BY <1>24, <1>a DEF OtherTypes, Disconnect, Goes, Stop, Idle, CloseAs, CloseUnrecorded, Closed, Recorded, AnotherEnd,
            servingVars, socketVars, feedVars
      <3>2. cancelled' \in BOOLEAN
        BY <1>24, <1>a DEF OtherTypes, Disconnect, Goes, Stop, Idle, CloseAs, CloseUnrecorded, Closed, Recorded, AnotherEnd,
            servingVars, socketVars, feedVars
      <3>3. socket' \in {"open", "recorded", "unrecorded", "released"}
        BY <1>24, <1>a DEF OtherTypes, Disconnect, Goes, Stop, Idle, CloseAs, CloseUnrecorded, Closed, Recorded, AnotherEnd,
            servingVars, socketVars, feedVars
      <3>4. game' \in [started : BOOLEAN, ended : {"none", "session_ended", "owner_changed", "disconnected"}]
        BY <1>24, <1>a DEF OtherTypes, Disconnect, Goes, Stop, Idle, CloseAs, CloseUnrecorded, Closed, Recorded, AnotherEnd,
            servingVars, socketVars, feedVars, Ended
      <3> QED
        BY <1>a, <3>u, <3>1, <3>2, <3>3, <3>4 DEF OtherTypes
    <2> QED
      BY <1>a, <2>1, <2>4, LoopsStay, TypesSplit
  <1>25. ASSUME LogEnd
        PROVE  ServedTypes' /\ LoopsHold'
    <2>1. pc' = pc /\ out' = out /\ kind' = kind
      BY <1>25 DEF LogEnd, servingVars, socketVars, feedVars, AnotherEnd
    <2>4. OtherTypes'
      <3>u. UNCHANGED <<kind, phase, acting, pending, signal, published, game, socket, client,
                        dropped, sent, results, cause, cancelled>>
        BY <1>25 DEF LogEnd, Goes, Stop, Idle, CloseAs, CloseUnrecorded, Closed, Recorded, AnotherEnd,
            servingVars, socketVars, feedVars
      <3>1. stage' \in {"serving", "decided", "draining", "over"}
        BY <1>25, <1>a DEF OtherTypes, LogEnd, Goes, Stop, Idle, CloseAs, CloseUnrecorded, Closed, Recorded, AnotherEnd,
            servingVars, socketVars, feedVars
      <3> QED
        BY <1>a, <3>u, <3>1 DEF OtherTypes
    <2> QED
      BY <1>a, <2>1, <2>4, LoopsStay, TypesSplit
  <1>26. ASSUME Unresponsive
        PROVE  ServedTypes' /\ LoopsHold'
    <2>1. pc' = pc /\ out' = out /\ kind' = kind
      BY <1>26 DEF Unresponsive, Decide, servingVars, socketVars, feedVars, AnotherEnd
    <2>4. OtherTypes'
      <3>u. UNCHANGED <<kind, phase, acting, pending, signal, published, game, socket, client,
                        dropped, sent, cancelled>>
        BY <1>26 DEF Unresponsive, Decide, Goes, Stop, Idle, CloseAs, CloseUnrecorded, Closed, Recorded,
            AnotherEnd, servingVars, socketVars, feedVars
      <3>1. stage' \in {"serving", "decided", "draining", "over"}
        BY <1>26, <1>a DEF OtherTypes, Unresponsive, Decide, Goes, Stop, Idle, CloseAs, CloseUnrecorded, Closed, Recorded,
            AnotherEnd, servingVars, socketVars, feedVars
      <3>2. cause' \in LoggedEnds
        BY <1>26, <1>a DEF OtherTypes, Unresponsive, Decide, Goes, Stop, Idle, CloseAs, CloseUnrecorded, Closed, Recorded,
            AnotherEnd, servingVars, socketVars, feedVars, LoggedEnds, Closings, RecordedEnds
      <3>3. results' \in Seq(LoggedEnds)
        BY <1>26, <1>a, ReportsType, ClosingSeqs DEF OtherTypes, Unresponsive, Decide, Idle, CloseAs, CloseUnrecorded, Closed, Recorded, AnotherEnd,
            servingVars, socketVars, feedVars
      <3> QED
        BY <1>a, <3>u, <3>1, <3>2, <3>3 DEF OtherTypes
    <2> QED
      BY <1>a, <2>1, <2>4, LoopsStay, TypesSplit
  <1>27. ASSUME ShutDown
        PROVE  ServedTypes' /\ LoopsHold'
    <2>1. pc' = pc /\ out' = out /\ kind' = kind
      BY <1>27 DEF ShutDown, Decide, servingVars, socketVars, feedVars, AnotherEnd
    <2>4. OtherTypes'
      <3>u. UNCHANGED <<kind, phase, acting, pending, signal, published, game, client, dropped,
                        sent, cancelled>>
        BY <1>27 DEF ShutDown, Decide, Goes, Stop, Idle, CloseAs, CloseUnrecorded, Closed, Recorded,
            AnotherEnd, servingVars, socketVars, feedVars
      <3>1. socket' \in {"open", "recorded", "unrecorded", "released"}
        BY <1>27, <1>a DEF OtherTypes, ShutDown, Decide, Goes, Stop, Idle, CloseAs, CloseUnrecorded, Closed, Recorded,
            AnotherEnd, servingVars, socketVars, feedVars
      <3>2. stage' \in {"serving", "decided", "draining", "over"}
        BY <1>27, <1>a DEF OtherTypes, ShutDown, Decide, Goes, Stop, Idle, CloseAs, CloseUnrecorded, Closed, Recorded,
            AnotherEnd, servingVars, socketVars, feedVars
      <3>3. cause' \in LoggedEnds
        BY <1>27, <1>a DEF OtherTypes, ShutDown, Decide, Goes, Stop, Idle, CloseAs, CloseUnrecorded, Closed, Recorded,
            AnotherEnd, servingVars, socketVars, feedVars, LoggedEnds, Closings, RecordedEnds
      <3>4. results' \in Seq(LoggedEnds)
        BY <1>27, <1>a, ReportsType, ClosingSeqs DEF OtherTypes, ShutDown, Decide, Idle, CloseAs, CloseUnrecorded, Closed, Recorded, AnotherEnd,
            servingVars, socketVars, feedVars
      <3> QED
        BY <1>a, <3>u, <3>1, <3>2, <3>3, <3>4 DEF OtherTypes
    <2> QED
      BY <1>a, <2>1, <2>4, LoopsStay, TypesSplit
  <1>28. ASSUME NEW f \in Feeds, Publish(f)
        PROVE  ServedTypes' /\ LoopsHold'
    <2>1. pc' = pc /\ out' = out /\ kind' = kind
      BY <1>28 DEF Publish, Publishes, servingVars, socketVars, feedVars, AnotherEnd
    <2>p. PICK actor \in Actors \cup {"none"} : Publishes(f, [what |-> f, n |-> published[f] + 1, actor |-> actor])
      BY <1>28 DEF Publish
    <2>n. f \in Said /\ published[f] + 1 \in Nat
      BY <1>a, MessageType DEF OtherTypes, Queues
    <2>q. /\ [what |-> f, n |-> published[f] + 1, actor |-> actor] \in Of(f)
          /\ [what |-> f, n |-> published[f] + 1, actor |-> actor] \in Message
      BY <2>n, MessageType DEF Of
    <2>4. OtherTypes'
      <3>u. UNCHANGED <<kind, phase, acting, signal, game, socket, client, dropped, sent, results,
                        stage, cause, cancelled>>
        BY <1>28 DEF Publish, Publishes, Goes, Stop, Idle, CloseAs, CloseUnrecorded, Closed, Recorded,
            AnotherEnd, servingVars, socketVars, feedVars
      <3>1. published' \in [Queues -> Nat]
        BY <1>28, <1>a, <2>q DEF OtherTypes, Publish, Publishes, Goes, Stop, Idle, CloseAs, CloseUnrecorded, Closed, Recorded,
            AnotherEnd, servingVars, socketVars, feedVars, Queues, Feeds, Loops, Streams
      <3>2. pending' \in [Queues -> Seq(Message)] /\ (\A q \in Queues : pending'[q] \in Seq(Of(q)))
        BY <1>28, <1>a, <2>q, <2>p DEF OtherTypes, Publish, Publishes, Queues
      <3> QED
        BY <1>a, <3>u, <3>1, <3>2 DEF OtherTypes
    <2> QED
      BY <1>a, <2>1, <2>4, LoopsStay, TypesSplit
  <1>29. ASSUME RuntimeStarts
        PROVE  ServedTypes' /\ LoopsHold'
    <2>1. pc' = pc /\ out' = out /\ kind' = kind
      BY <1>29 DEF RuntimeStarts, servingVars, socketVars, feedVars, AnotherEnd
    <2>4. OtherTypes'
      <3>u. UNCHANGED <<kind, phase, acting, pending, signal, published, socket, client, dropped,
                        sent, results, stage, cause, cancelled>>
        BY <1>29 DEF RuntimeStarts, Goes, Stop, Idle, CloseAs, CloseUnrecorded, Closed, Recorded,
            AnotherEnd, servingVars, socketVars, feedVars
      <3>1. game' \in [started : BOOLEAN, ended : {"none", "session_ended", "owner_changed", "disconnected"}]
        BY <1>29, <1>a DEF OtherTypes, RuntimeStarts, Goes, Stop, Idle, CloseAs, CloseUnrecorded, Closed, Recorded,
            AnotherEnd, servingVars, socketVars, feedVars, Ended
      <3> QED
        BY <1>a, <3>u, <3>1 DEF OtherTypes
    <2> QED
      BY <1>a, <2>1, <2>4, LoopsStay, TypesSplit
  <1>30. ASSUME RuntimeEnds
        PROVE  ServedTypes' /\ LoopsHold'
    <2>1. pc' = pc /\ out' = out /\ kind' = kind
      BY <1>30 DEF RuntimeEnds, servingVars, socketVars, feedVars, AnotherEnd
    <2>4. OtherTypes'
      <3>u. UNCHANGED <<kind, phase, acting, pending, signal, published, socket, client, dropped,
                        sent, results, stage, cause, cancelled>>
        BY <1>30 DEF RuntimeEnds, Goes, Stop, Idle, CloseAs, CloseUnrecorded, Closed, Recorded, AnotherEnd,
            servingVars, socketVars, feedVars
      <3>1. game' \in [started : BOOLEAN, ended : {"none", "session_ended", "owner_changed", "disconnected"}]
        BY <1>30, <1>a DEF OtherTypes, RuntimeEnds, Goes, Stop, Idle, CloseAs, CloseUnrecorded, Closed, Recorded, AnotherEnd,
            servingVars, socketVars, feedVars, Ended
      <3> QED
        BY <1>a, <3>u, <3>1 DEF OtherTypes
    <2> QED
      BY <1>a, <2>1, <2>4, LoopsStay, TypesSplit
  <1>31. ASSUME ClientCloses
        PROVE  ServedTypes' /\ LoopsHold'
    <2>1. pc' = pc /\ out' = out /\ kind' = kind
      BY <1>31 DEF ClientCloses, servingVars, socketVars, feedVars, AnotherEnd
    <2>4. OtherTypes'
      <3>u. UNCHANGED <<kind, phase, acting, pending, signal, published, game, socket, dropped,
                        sent, results, stage, cause, cancelled>>
        BY <1>31 DEF ClientCloses, Goes, Stop, Idle, CloseAs, CloseUnrecorded, Closed, Recorded, AnotherEnd,
            servingVars, socketVars, feedVars
      <3>1. client' \in [there : BOOLEAN, takes : BOOLEAN]
        BY <1>31, <1>a DEF OtherTypes, ClientCloses, Goes, Stop, Idle, CloseAs, CloseUnrecorded, Closed, Recorded, AnotherEnd,
            servingVars, socketVars, feedVars
      <3> QED
        BY <1>a, <3>u, <3>1 DEF OtherTypes
    <2> QED
      BY <1>a, <2>1, <2>4, LoopsStay, TypesSplit
  <1>32. ASSUME ClientStalls
        PROVE  ServedTypes' /\ LoopsHold'
    <2>1. pc' = pc /\ out' = out /\ kind' = kind
      BY <1>32 DEF ClientStalls, servingVars, socketVars, feedVars, AnotherEnd
    <2>4. OtherTypes'
      <3>u. UNCHANGED <<kind, phase, acting, pending, signal, published, game, socket, dropped,
                        sent, results, stage, cause, cancelled>>
        BY <1>32 DEF ClientStalls, Goes, Stop, Idle, CloseAs, CloseUnrecorded, Closed, Recorded, AnotherEnd,
            servingVars, socketVars, feedVars
      <3>1. client' \in [there : BOOLEAN, takes : BOOLEAN]
        BY <1>32, <1>a DEF OtherTypes, ClientStalls, Goes, Stop, Idle, CloseAs, CloseUnrecorded, Closed, Recorded, AnotherEnd,
            servingVars, socketVars, feedVars
      <3> QED
        BY <1>a, <3>u, <3>1 DEF OtherTypes
    <2> QED
      BY <1>a, <2>1, <2>4, LoopsStay, TypesSplit
  <1>33. CASE UNCHANGED servedVars
    <2>1. ServedTypes'
      BY <1>33 DEF servedVars, ServedTypes
    <2> QED
      BY <1>33, <2>1, LoopsStay DEF servedVars
  <1> QED
    BY <1>1, <1>2, <1>3, <1>4, <1>5, <1>6, <1>7, <1>8, <1>9, <1>10, <1>11, <1>12, <1>13, <1>14,
       <1>15, <1>16, <1>17, <1>18, <1>19, <1>20, <1>21, <1>22, <1>23, <1>24, <1>25, <1>26, <1>27,
       <1>28, <1>29, <1>30, <1>31, <1>32, <1>33 DEF ServedNext, Reader, Lane, Stream, Closer,
       Socket, Serve, Environment, Over

(***************************************************************************)
(* The end of the connection.                                              *)
(***************************************************************************)
\* What a step may do to the socket: the first close is the one that counts, a
\* close is recorded before it, and a released socket is no longer served.
EndsMove ==
  /\ socket # "open" => socket' = socket
  /\ dropped # "none" => dropped' # "none"
  /\ socket = "open" /\ socket' = "recorded" => dropped' # "none"
  /\ socket = "open" /\ socket' = "released" => stage' # "serving"
  /\ stage # "serving" => stage' # "serving"
  /\ cancelled' => cancelled \/ socket' # "open"
  /\ \A l \in Loops : pc'[l] = "closed" => pc[l] = "closed" \/ socket' # "open"
  /\ client'.there => client.there

\* Such a step keeps what is known of the end, if it reports no more of it.
LEMMA EndsFrame ==
  ASSUME EndsAreKnown, EndsMove,
         Reported' => Reported \/ (client'.there => socket' = "unrecorded")
  PROVE  EndsAreKnown'
  BY DEF EndsAreKnown, EndsMove

\* A loop reports that the client closed only as such.
LEMMA ReportsEnd ==
  ASSUME results \in Seq(LoggedEnds), cause' = cause
  PROVE  /\ \A l : \A end \in LoggedEnds : Stop(l, end) /\ end # "client_closed" => (Reported' => Reported)
         /\ \A l, where : Goes(l, where) => (Reported' => Reported)
         /\ results' = results => (Reported' => Reported)
  <1>1. ASSUME NEW end \in LoggedEnds, results' = Append(results, end), end # "client_closed"
        PROVE  Reported' => Reported
    BY <1>1 DEF Reported
  <1>2. results' = results => (Reported' => Reported)
    BY DEF Reported
  <1> QED
    BY <1>1, <1>2 DEF Stop, Goes

\* Every step keeps what is known of the end.
LEMMA EndsStep ==
  ServedTypes /\ LoopsHold /\ EndsAreKnown /\ [ServedNext]_servedVars => EndsAreKnown'
  <1> SUFFICES ASSUME ServedTypes, LoopsHold, EndsAreKnown, [ServedNext]_servedVars
               PROVE  EndsAreKnown'
    OBVIOUS
  <1>a. pc \in [Loops -> Places] /\ out \in [Loops -> Seq(Message)] /\ OtherTypes /\ LoopsHold
    BY TypesSplit
  <1>t. EndsAreKnown
    OBVIOUS
  <1>1. ASSUME NEW l \in Lanes, ReadMessage(l)
        PROVE  EndsAreKnown'
    <2>1. EndsMove
      BY <1>1, <1>a, <1>t DEF EndsMove, OtherTypes, RecordedEnds, ReadMessage, Goes, Stop, Idle, CloseAs, CloseUnrecorded, Closed, Recorded, AnotherEnd,
          servingVars, socketVars, feedVars
    <2>2. Reported' => Reported
      <3>1. cause' = cause
        BY <1>1 DEF ReadMessage, Goes, Stop, Idle, CloseAs, CloseUnrecorded, Closed, Recorded, AnotherEnd,
            servingVars, socketVars, feedVars
      <3> QED
        BY <1>1, <1>a, <3>1, ReportsEnd, ClosingSeqs DEF OtherTypes, ReadMessage, Idle, CloseAs, CloseUnrecorded, Closed, Recorded, AnotherEnd, servingVars,
            socketVars, feedVars
    <2> QED
      BY <1>t, <2>1, <2>2, EndsFrame
  <1>2. ASSUME ReadRefused
        PROVE  EndsAreKnown'
    <2>1. EndsMove
      BY <1>2, <1>a, <1>t DEF EndsMove, OtherTypes, RecordedEnds, ReadRefused, Goes, Stop, Idle, CloseAs, CloseUnrecorded, Closed, Recorded, AnotherEnd,
          servingVars, socketVars, feedVars
    <2>2. Reported' => Reported
      <3>1. cause' = cause
        BY <1>2 DEF ReadRefused, Goes, Stop, Idle, CloseAs, CloseUnrecorded, Closed, Recorded, AnotherEnd,
            servingVars, socketVars, feedVars
      <3> QED
        BY <1>2, <1>a, <3>1, ReportsEnd, ClosingSeqs DEF OtherTypes, ReadRefused, Idle, CloseAs, CloseUnrecorded, Closed, Recorded, AnotherEnd, servingVars,
            socketVars, feedVars
    <2> QED
      BY <1>t, <2>1, <2>2, EndsFrame
  <1>3. ASSUME ReadFails
        PROVE  EndsAreKnown'
    <2>1. EndsMove
      BY <1>3, <1>a, <1>t DEF EndsMove, OtherTypes, RecordedEnds, ReadFails, Goes, Stop, Idle, CloseAs, CloseUnrecorded, Closed, Recorded, AnotherEnd,
          servingVars, socketVars, feedVars
    <2>2. Reported' => Reported \/ (client'.there => socket' = "unrecorded")
      <3>1. cause' = cause /\ client' = client /\ socket' = socket
        BY <1>3 DEF ReadFails, servingVars, socketVars
      <3>2. CASE cancelled \/ dropped # "none"
        <4>1. \E end \in LoggedEnds : Stop("reader", end) /\ end # "client_closed"
          BY <1>3, <1>a, <3>2, ClosingSeqs DEF ReadFails, OtherTypes, RecordedEnds, Closings
        <4> QED
          BY <1>a, <3>1, <4>1, ReportsEnd DEF OtherTypes
      <3>3. CASE ~cancelled /\ dropped = "none"
        <4>1. client.there => socket = "unrecorded" \/ stage # "serving"
          BY <1>3, <1>a, <3>3 DEF ReadFails, EndsAreKnown, OtherTypes
        <4>2. stage # "serving" => results' = results
          BY <1>3 DEF ReadFails, Stop
        <4>3. stage # "serving" => (Reported' => Reported)
          BY <1>a, <3>1, <4>2, ReportsEnd DEF OtherTypes
        <4> QED
          BY <3>1, <4>1, <4>3
      <3> QED
        BY <3>2, <3>3
    <2> QED
      BY <1>t, <2>1, <2>2, EndsFrame
  <1>4. ASSUME Offer
        PROVE  EndsAreKnown'
    <2>1. EndsMove
      BY <1>4, <1>a, <1>t DEF EndsMove, OtherTypes, RecordedEnds, Offer, Goes, Stop, Idle, CloseAs, CloseUnrecorded, Closed, Recorded, AnotherEnd,
          servingVars, socketVars, feedVars
    <2>2. Reported' => Reported
      <3>1. cause' = cause
        BY <1>4 DEF Offer, Goes, Stop, Idle, CloseAs, CloseUnrecorded, Closed, Recorded, AnotherEnd,
            servingVars, socketVars, feedVars
      <3> QED
        BY <1>4, <1>a, <3>1, ReportsEnd, ClosingSeqs DEF OtherTypes, Offer, Idle, CloseAs, CloseUnrecorded, Closed, Recorded, AnotherEnd, servingVars,
            socketVars, feedVars
    <2> QED
      BY <1>t, <2>1, <2>2, EndsFrame
  <1>5. ASSUME WakeLane
        PROVE  EndsAreKnown'
    <2>1. EndsMove
      BY <1>5, <1>a, <1>t DEF EndsMove, OtherTypes, RecordedEnds, WakeLane, Woken, Goes, Stop, Idle, CloseAs, CloseUnrecorded, Closed, Recorded,
          AnotherEnd, servingVars, socketVars, feedVars
    <2>2. Reported' => Reported
      <3>1. cause' = cause
        BY <1>5 DEF WakeLane, Woken, Goes, Stop, Idle, CloseAs, CloseUnrecorded, Closed, Recorded,
            AnotherEnd, servingVars, socketVars, feedVars
      <3> QED
        BY <1>5, <1>a, <3>1, ReportsEnd, ClosingSeqs DEF OtherTypes, WakeLane, Woken, Idle, CloseAs, CloseUnrecorded, Closed, Recorded, AnotherEnd,
            servingVars, socketVars, feedVars
    <2> QED
      BY <1>t, <2>1, <2>2, EndsFrame
  <1>6. ASSUME Refuse
        PROVE  EndsAreKnown'
    <2>1. EndsMove
      BY <1>6, <1>a, <1>t DEF EndsMove, OtherTypes, RecordedEnds, Refuse, RateLimitedAnswer, Goes, Stop, Idle, CloseAs, CloseUnrecorded, Closed, Recorded,
          AnotherEnd, servingVars, socketVars, feedVars
    <2>2. Reported' => Reported
      <3>1. cause' = cause
        BY <1>6 DEF Refuse, RateLimitedAnswer, Goes, Stop, Idle, CloseAs, CloseUnrecorded, Closed,
            Recorded, AnotherEnd, servingVars, socketVars, feedVars
      <3> QED
        BY <1>6, <1>a, <3>1, ReportsEnd, ClosingSeqs DEF OtherTypes, Refuse, RateLimitedAnswer, Idle, CloseAs, CloseUnrecorded, Closed, Recorded,
            AnotherEnd, servingVars, socketVars, feedVars
    <2> QED
      BY <1>t, <2>1, <2>2, EndsFrame
  <1>7. ASSUME NEW l \in Lanes, NextMessage(l)
        PROVE  EndsAreKnown'
    <2>1. EndsMove
      BY <1>7, <1>a, <1>t DEF EndsMove, OtherTypes, RecordedEnds, NextMessage, TakeFrom, Writes, Source, Goes, Stop, Idle, CloseAs, CloseUnrecorded,
          Closed, Recorded, AnotherEnd, servingVars, socketVars, feedVars
    <2>2. Reported' => Reported
      <3>1. cause' = cause
        BY <1>7 DEF NextMessage, TakeFrom, Writes, Source, Goes, Stop, Idle, CloseAs, CloseUnrecorded,
            Closed, Recorded, AnotherEnd, servingVars, socketVars, feedVars
      <3> QED
        BY <1>7, <1>a, <3>1, ReportsEnd, ClosingSeqs DEF OtherTypes, NextMessage, TakeFrom, Writes, Source, Idle, CloseAs, CloseUnrecorded, Closed,
            Recorded, AnotherEnd, servingVars, socketVars, feedVars
    <2> QED
      BY <1>t, <2>1, <2>2, EndsFrame
  <1>8. ASSUME NEW l \in Lanes, WakesUp(l)
        PROVE  EndsAreKnown'
    <2>1. EndsMove
      BY <1>8, <1>a, <1>t DEF EndsMove, OtherTypes, RecordedEnds, WakesUp, Goes, Stop, Idle, CloseAs, CloseUnrecorded, Closed, Recorded, AnotherEnd,
          servingVars, socketVars, feedVars
    <2>2. Reported' => Reported
      <3>1. cause' = cause
        BY <1>8 DEF WakesUp, Goes, Stop, Idle, CloseAs, CloseUnrecorded, Closed, Recorded, AnotherEnd,
            servingVars, socketVars, feedVars
      <3> QED
        BY <1>8, <1>a, <3>1, ReportsEnd, ClosingSeqs DEF OtherTypes, WakesUp, Idle, CloseAs, CloseUnrecorded, Closed, Recorded, AnotherEnd, servingVars,
            socketVars, feedVars
    <2> QED
      BY <1>t, <2>1, <2>2, EndsFrame
  <1>9. ASSUME NEW l \in Lanes \cup Streams, WokenByCancel(l)
        PROVE  EndsAreKnown'
    <2>1. EndsMove
      BY <1>9, <1>a, <1>t DEF EndsMove, OtherTypes, RecordedEnds, WokenByCancel, Goes, Stop, Idle, CloseAs, CloseUnrecorded, Closed, Recorded, AnotherEnd,
          servingVars, socketVars, feedVars, Streams, Loops
    <2>2. Reported' => Reported
      <3>1. cause' = cause
        BY <1>9 DEF WokenByCancel, Goes, Stop, Idle, CloseAs, CloseUnrecorded, Closed, Recorded,
            AnotherEnd, servingVars, socketVars, feedVars
      <3> QED
        BY <1>9, <1>a, <3>1, ReportsEnd, ClosingSeqs DEF OtherTypes, WokenByCancel, Idle, CloseAs, CloseUnrecorded, Closed, Recorded, AnotherEnd,
            servingVars, socketVars, feedVars
    <2> QED
      BY <1>t, <2>1, <2>2, EndsFrame
  <1>10. ASSUME NEW l \in Lanes, Hold(l)
        PROVE  EndsAreKnown'
    <2>1. EndsMove
      BY <1>10, <1>a, <1>t DEF EndsMove, OtherTypes, RecordedEnds, Hold, Goes, Stop, Idle, CloseAs, CloseUnrecorded, Closed, Recorded, AnotherEnd,
          servingVars, socketVars, feedVars
    <2>2. Reported' => Reported
      <3>1. cause' = cause
        BY <1>10 DEF Hold, Goes, Stop, Idle, CloseAs, CloseUnrecorded, Closed, Recorded, AnotherEnd,
            servingVars, socketVars, feedVars
      <3> QED
        BY <1>10, <1>a, <3>1, ReportsEnd, ClosingSeqs DEF OtherTypes, Hold, Idle, CloseAs, CloseUnrecorded, Closed, Recorded, AnotherEnd, servingVars,
            socketVars, feedVars
    <2> QED
      BY <1>t, <2>1, <2>2, EndsFrame
  <1>11. ASSUME NEW l \in Lanes, Handle(l)
        PROVE  EndsAreKnown'
    <2>a. HandlesSo(l)
      BY <1>11, <1>a, HandleCases DEF OtherTypes
    <2>1. EndsMove
      BY <2>a, <1>a, <1>t DEF EndsMove, OtherTypes, RecordedEnds, HandlesSo, Answers, SaysNothing, Closes, Fails, AfterHandling, Goes, Stop, Idle, CloseAs,
          CloseUnrecorded, Closed, Recorded, AnotherEnd, servingVars, socketVars, feedVars
    <2>2. Reported' => Reported
      <3>1. cause' = cause
        BY <2>a DEF HandlesSo, Answers, SaysNothing, Closes, Fails, AfterHandling, Goes, Stop, Idle,
            CloseAs, CloseUnrecorded, Closed, Recorded, AnotherEnd, servingVars, socketVars,
            feedVars
      <3> QED
        BY <2>a, <1>a, <3>1, ReportsEnd, ClosingSeqs DEF OtherTypes, HandlesSo, Answers, SaysNothing, Closes, Fails, AfterHandling, Idle, CloseAs,
            CloseUnrecorded, Closed, Recorded, AnotherEnd, servingVars, socketVars, feedVars
    <2> QED
      BY <1>t, <2>1, <2>2, EndsFrame
  <1>12. ASSUME NEW l \in Streams, NextUpdate(l)
        PROVE  EndsAreKnown'
    <2>1. EndsMove
      BY <1>12, <1>a, <1>t DEF EndsMove, OtherTypes, RecordedEnds, NextUpdate, TakeFrom, Writes, Source, Goes, Stop, Idle, CloseAs, CloseUnrecorded, Closed,
          Recorded, AnotherEnd, servingVars, socketVars, feedVars
    <2>2. Reported' => Reported
      <3>1. cause' = cause
        BY <1>12 DEF NextUpdate, TakeFrom, Writes, Source, Goes, Stop, Idle, CloseAs, CloseUnrecorded,
            Closed, Recorded, AnotherEnd, servingVars, socketVars, feedVars
      <3> QED
        BY <1>12, <1>a, <3>1, ReportsEnd, ClosingSeqs DEF OtherTypes, NextUpdate, TakeFrom, Writes, Source, Idle, CloseAs, CloseUnrecorded, Closed, Recorded,
            AnotherEnd, servingVars, socketVars, feedVars
    <2> QED
      BY <1>t, <2>1, <2>2, EndsFrame
  <1>13. ASSUME SendStart
        PROVE  EndsAreKnown'
    <2>1. EndsMove
      BY <1>13, <1>a, <1>t DEF EndsMove, OtherTypes, RecordedEnds, SendStart, Goes, Stop, Idle, CloseAs, CloseUnrecorded, Closed, Recorded, AnotherEnd,
          servingVars, socketVars, feedVars
    <2>2. Reported' => Reported
      <3>1. cause' = cause
        BY <1>13 DEF SendStart, Goes, Stop, Idle, CloseAs, CloseUnrecorded, Closed, Recorded, AnotherEnd,
            servingVars, socketVars, feedVars
      <3> QED
        BY <1>13, <1>a, <3>1, ReportsEnd, ClosingSeqs DEF OtherTypes, SendStart, Idle, CloseAs, CloseUnrecorded, Closed, Recorded, AnotherEnd, servingVars,
            socketVars, feedVars
    <2> QED
      BY <1>t, <2>1, <2>2, EndsFrame
  <1>14. ASSUME SendRoster
        PROVE  EndsAreKnown'
    <2>1. EndsMove
      BY <1>14, <1>a, <1>t DEF EndsMove, OtherTypes, RecordedEnds, SendRoster, Goes, Stop, Idle, CloseAs, CloseUnrecorded, Closed, Recorded, AnotherEnd,
          servingVars, socketVars, feedVars
    <2>2. Reported' => Reported
      <3>1. cause' = cause
        BY <1>14 DEF SendRoster, Goes, Stop, Idle, CloseAs, CloseUnrecorded, Closed, Recorded, AnotherEnd,
            servingVars, socketVars, feedVars
      <3> QED
        BY <1>14, <1>a, <3>1, ReportsEnd, ClosingSeqs DEF OtherTypes, SendRoster, Idle, CloseAs, CloseUnrecorded, Closed, Recorded, AnotherEnd, servingVars,
            socketVars, feedVars
    <2> QED
      BY <1>t, <2>1, <2>2, EndsFrame
  <1>15. ASSUME AwaitEnd
        PROVE  EndsAreKnown'
    <2>1. EndsMove
      BY <1>15, <1>a, <1>t DEF EndsMove, OtherTypes, RecordedEnds, AwaitEnd, Goes, Stop, Idle, CloseAs, CloseUnrecorded, Closed, Recorded, AnotherEnd,
          servingVars, socketVars, feedVars
    <2>2. Reported' => Reported
      <3>1. cause' = cause
        BY <1>15 DEF AwaitEnd, Goes, Stop, Idle, CloseAs, CloseUnrecorded, Closed, Recorded, AnotherEnd,
            servingVars, socketVars, feedVars
      <3> QED
        BY <1>15, <1>a, <3>1, ReportsEnd, ClosingSeqs DEF OtherTypes, AwaitEnd, Idle, CloseAs, CloseUnrecorded, Closed, Recorded, AnotherEnd, servingVars,
            socketVars, feedVars
    <2> QED
      BY <1>t, <2>1, <2>2, EndsFrame
  <1>16. ASSUME AwaitStreams
        PROVE  EndsAreKnown'
    <2>1. EndsMove
      BY <1>16, <1>a, <1>t DEF EndsMove, OtherTypes, RecordedEnds, AwaitStreams, Goes, Stop, Idle, CloseAs, CloseUnrecorded, Closed, Recorded, AnotherEnd,
          servingVars, socketVars, feedVars
    <2>2. Reported' => Reported
      <3>1. cause' = cause
        BY <1>16 DEF AwaitStreams, Goes, Stop, Idle, CloseAs, CloseUnrecorded, Closed, Recorded, AnotherEnd,
            servingVars, socketVars, feedVars
      <3> QED
        BY <1>16, <1>a, <3>1, ReportsEnd, ClosingSeqs DEF OtherTypes, AwaitStreams, Idle, CloseAs, CloseUnrecorded, Closed, Recorded, AnotherEnd,
            servingVars, socketVars, feedVars
    <2> QED
      BY <1>t, <2>1, <2>2, EndsFrame
  <1>17. ASSUME LockAndTell
        PROVE  EndsAreKnown'
    <2>1. EndsMove
      BY <1>17, <1>a, <1>t DEF EndsMove, OtherTypes, RecordedEnds, LockAndTell, Goes, Stop, Idle, CloseAs, CloseUnrecorded, Closed, Recorded, AnotherEnd,
          servingVars, socketVars, feedVars
    <2>2. Reported' => Reported
      <3>1. cause' = cause
        BY <1>17 DEF LockAndTell, Goes, Stop, Idle, CloseAs, CloseUnrecorded, Closed, Recorded, AnotherEnd,
            servingVars, socketVars, feedVars
      <3> QED
        BY <1>17, <1>a, <3>1, ReportsEnd, ClosingSeqs DEF OtherTypes, LockAndTell, Idle, CloseAs, CloseUnrecorded, Closed, Recorded, AnotherEnd, servingVars,
            socketVars, feedVars
    <2> QED
      BY <1>t, <2>1, <2>2, EndsFrame
  <1>18. ASSUME CloseEnded
        PROVE  EndsAreKnown'
    <2>1. EndsMove
      BY <1>18, <1>a, <1>t DEF EndsMove, OtherTypes, RecordedEnds, CloseEnded, Goes, Stop, Idle, CloseAs, CloseUnrecorded, Closed, Recorded, AnotherEnd,
          servingVars, socketVars, feedVars
    <2>2. Reported' => Reported
      <3>1. cause' = cause
        BY <1>18 DEF CloseEnded, Goes, Stop, Idle, CloseAs, CloseUnrecorded, Closed, Recorded, AnotherEnd,
            servingVars, socketVars, feedVars
      <3> QED
        BY <1>18, <1>a, <3>1, ReportsEnd, ClosingSeqs DEF OtherTypes, CloseEnded, Idle, CloseAs, CloseUnrecorded, Closed, Recorded, AnotherEnd, servingVars,
            socketVars, feedVars
    <2> QED
      BY <1>t, <2>1, <2>2, EndsFrame
  <1>19. ASSUME NEW l \in Loops, Write(l)
        PROVE  EndsAreKnown'
    <2>1. EndsMove
      BY <1>19, <1>a, <1>t DEF EndsMove, OtherTypes, RecordedEnds, Write, AfterWrite, AfterHandling, Goes, Stop, Idle, CloseAs, CloseUnrecorded, Closed,
          Recorded, AnotherEnd, servingVars, socketVars, feedVars
    <2>2. Reported' => Reported
      <3>1. cause' = cause
        BY <1>19 DEF Write, AfterWrite, AfterHandling, Goes, Stop, Idle, CloseAs, CloseUnrecorded, Closed,
            Recorded, AnotherEnd, servingVars, socketVars, feedVars
      <3> QED
        BY <1>19, <1>a, <3>1, ReportsEnd, ClosingSeqs DEF OtherTypes, Write, AfterWrite, AfterHandling, Idle, CloseAs, CloseUnrecorded, Closed, Recorded,
            AnotherEnd, servingVars, socketVars, feedVars
    <2> QED
      BY <1>t, <2>1, <2>2, EndsFrame
  <1>20. ASSUME NEW l \in Loops, WriteTooSlow(l)
        PROVE  EndsAreKnown'
    <2>1. EndsMove
      BY <1>20, <1>a, <1>t DEF EndsMove, OtherTypes, RecordedEnds, WriteTooSlow, Goes, Stop, Idle, CloseAs, CloseUnrecorded, Closed, Recorded, AnotherEnd,
          servingVars, socketVars, feedVars
    <2>2. Reported' => Reported
      <3>1. cause' = cause
        BY <1>20 DEF WriteTooSlow, Goes, Stop, Idle, CloseAs, CloseUnrecorded, Closed, Recorded, AnotherEnd,
            servingVars, socketVars, feedVars
      <3> QED
        BY <1>20, <1>a, <3>1, ReportsEnd, ClosingSeqs DEF OtherTypes, WriteTooSlow, Idle, CloseAs, CloseUnrecorded, Closed, Recorded, AnotherEnd,
            servingVars, socketVars, feedVars, RecordedEnds
    <2> QED
      BY <1>t, <2>1, <2>2, EndsFrame
  <1>21. ASSUME NEW l \in Loops, WriteFails(l)
        PROVE  EndsAreKnown'
    <2>1. EndsMove
      BY <1>21, <1>a, <1>t DEF EndsMove, OtherTypes, RecordedEnds, WriteFails, Goes, Stop, Idle, CloseAs, CloseUnrecorded, Closed, Recorded, AnotherEnd,
          servingVars, socketVars, feedVars
    <2>2. Reported' => Reported
      <3>1. cause' = cause
        BY <1>21 DEF WriteFails, Goes, Stop, Idle, CloseAs, CloseUnrecorded, Closed, Recorded, AnotherEnd,
            servingVars, socketVars, feedVars
      <3> QED
        BY <1>21, <1>a, <3>1, ReportsEnd, ClosingSeqs DEF OtherTypes, WriteFails, Idle, CloseAs, CloseUnrecorded, Closed, Recorded, AnotherEnd, servingVars,
            socketVars, feedVars
    <2> QED
      BY <1>t, <2>1, <2>2, EndsFrame
  <1>22. ASSUME NEW l \in Loops, ReportClose(l)
        PROVE  EndsAreKnown'
    <2>1. EndsMove
      BY <1>22, <1>a, <1>t DEF EndsMove, OtherTypes, RecordedEnds, ReportClose, Goes, Stop, Idle, CloseAs, CloseUnrecorded, Closed, Recorded, AnotherEnd,
          servingVars, socketVars, feedVars
    <2>h. Head(out[l]).what \in Closings /\ "client_closed" \notin Closings
      BY <1>22, <1>a, HeldType DEF ReportClose, Closings, RecordedEnds
    <2>2. Reported' => Reported
      <3>1. cause' = cause
        BY <1>22 DEF ReportClose, Goes, Stop, Idle, CloseAs, CloseUnrecorded, Closed, Recorded, AnotherEnd,
            servingVars, socketVars, feedVars
      <3> QED
        BY <1>22, <1>a, <3>1, <2>h, ReportsEnd, ClosingSeqs DEF OtherTypes, ReportClose, Idle, CloseAs, CloseUnrecorded, Closed, Recorded, AnotherEnd, servingVars,
            socketVars, feedVars
    <2> QED
      BY <1>t, <2>1, <2>2, EndsFrame
  <1>23. ASSUME TakeResult
        PROVE  EndsAreKnown'
    <2>1. EndsMove
      BY <1>23, <1>a, <1>t DEF EndsMove, OtherTypes, RecordedEnds, TakeResult, Decide, Goes, Stop, Idle, CloseAs, CloseUnrecorded, Closed, Recorded,
          AnotherEnd, servingVars, socketVars, feedVars
    <2>2. Reported' => Reported
      <3>1. /\ results # <<>> /\ Head(results) = results[1] /\ Len(results) \in Nat /\ Len(Tail(results)) = Len(results) - 1
            /\ \A i \in 1 .. Len(Tail(results)) : Tail(results)[i] = results[i + 1]
        BY <1>23, <1>a DEF TakeResult, OtherTypes
      <3>2. CASE cause' = Head(results) /\ results' = <<>>
        BY <3>1, <3>2 DEF Reported
      <3>3. CASE results' = Tail(results) /\ cause' = cause
        BY <3>1, <3>3 DEF Reported
      <3> QED
        BY <1>23, <3>2, <3>3 DEF TakeResult, Decide
    <2> QED
      BY <1>t, <2>1, <2>2, EndsFrame
  <1>24. ASSUME Disconnect
        PROVE  EndsAreKnown'
    <2>1. EndsMove
      BY <1>24, <1>a, <1>t DEF EndsMove, OtherTypes, RecordedEnds, Disconnect, Goes, Stop, Idle, CloseAs, CloseUnrecorded, Closed, Recorded, AnotherEnd,
          servingVars, socketVars, feedVars
    <2>2. Reported' => Reported
      <3>1. cause' = cause
        BY <1>24 DEF Disconnect, Goes, Stop, Idle, CloseAs, CloseUnrecorded, Closed, Recorded, AnotherEnd,
            servingVars, socketVars, feedVars
      <3> QED
        BY <1>24, <1>a, <3>1, ReportsEnd, ClosingSeqs DEF OtherTypes, Disconnect, Idle, CloseAs, CloseUnrecorded, Closed, Recorded, AnotherEnd, servingVars,
            socketVars, feedVars
    <2> QED
      BY <1>t, <2>1, <2>2, EndsFrame
  <1>25. ASSUME LogEnd
        PROVE  EndsAreKnown'
    <2>1. EndsMove
      BY <1>25, <1>a, <1>t DEF EndsMove, OtherTypes, RecordedEnds, LogEnd, Goes, Stop, Idle, CloseAs, CloseUnrecorded, Closed, Recorded, AnotherEnd,
          servingVars, socketVars, feedVars
    <2>2. Reported' => Reported
      <3>1. cause' = cause
        BY <1>25 DEF LogEnd, Goes, Stop, Idle, CloseAs, CloseUnrecorded, Closed, Recorded, AnotherEnd,
            servingVars, socketVars, feedVars
      <3> QED
        BY <1>25, <1>a, <3>1, ReportsEnd, ClosingSeqs DEF OtherTypes, LogEnd, Idle, CloseAs, CloseUnrecorded, Closed, Recorded, AnotherEnd, servingVars,
            socketVars, feedVars
    <2> QED
      BY <1>t, <2>1, <2>2, EndsFrame
  <1>26. ASSUME Unresponsive
        PROVE  EndsAreKnown'
    <2>1. EndsMove
      BY <1>26, <1>a, <1>t DEF EndsMove, OtherTypes, RecordedEnds, Unresponsive, Decide, Goes, Stop, Idle, CloseAs, CloseUnrecorded, Closed, Recorded,
          AnotherEnd, servingVars, socketVars, feedVars
    <2>2. Reported' => Reported
      BY <1>26 DEF Unresponsive, Decide, Reported
    <2> QED
      BY <1>t, <2>1, <2>2, EndsFrame
  <1>27. ASSUME ShutDown
        PROVE  EndsAreKnown'
    <2>1. EndsMove
      BY <1>27, <1>a, <1>t DEF EndsMove, OtherTypes, RecordedEnds, ShutDown, Decide, Goes, Stop, Idle, CloseAs, CloseUnrecorded, Closed, Recorded,
          AnotherEnd, servingVars, socketVars, feedVars
    <2>2. Reported' => Reported
      BY <1>27 DEF ShutDown, Decide, Reported
    <2> QED
      BY <1>t, <2>1, <2>2, EndsFrame
  <1>28. ASSUME NEW f \in Feeds, Publish(f)
        PROVE  EndsAreKnown'
    <2>1. EndsMove
      BY <1>28, <1>a, <1>t DEF EndsMove, OtherTypes, RecordedEnds, Publish, Publishes, Goes, Stop, Idle, CloseAs, CloseUnrecorded, Closed, Recorded,
          AnotherEnd, servingVars, socketVars, feedVars
    <2>2. Reported' => Reported
      <3>1. cause' = cause
        BY <1>28 DEF Publish, Publishes, Goes, Stop, Idle, CloseAs, CloseUnrecorded, Closed, Recorded,
            AnotherEnd, servingVars, socketVars, feedVars
      <3> QED
        BY <1>28, <1>a, <3>1, ReportsEnd, ClosingSeqs DEF OtherTypes, Publish, Publishes, Idle, CloseAs, CloseUnrecorded, Closed, Recorded, AnotherEnd,
            servingVars, socketVars, feedVars
    <2> QED
      BY <1>t, <2>1, <2>2, EndsFrame
  <1>29. ASSUME RuntimeStarts
        PROVE  EndsAreKnown'
    <2>1. EndsMove
      BY <1>29, <1>a, <1>t DEF EndsMove, OtherTypes, RecordedEnds, RuntimeStarts, Goes, Stop, Idle, CloseAs, CloseUnrecorded, Closed, Recorded, AnotherEnd,
          servingVars, socketVars, feedVars
    <2>2. Reported' => Reported
      <3>1. cause' = cause
        BY <1>29 DEF RuntimeStarts, Goes, Stop, Idle, CloseAs, CloseUnrecorded, Closed, Recorded,
            AnotherEnd, servingVars, socketVars, feedVars
      <3> QED
        BY <1>29, <1>a, <3>1, ReportsEnd, ClosingSeqs DEF OtherTypes, RuntimeStarts, Idle, CloseAs, CloseUnrecorded, Closed, Recorded, AnotherEnd,
            servingVars, socketVars, feedVars
    <2> QED
      BY <1>t, <2>1, <2>2, EndsFrame
  <1>30. ASSUME RuntimeEnds
        PROVE  EndsAreKnown'
    <2>1. EndsMove
      BY <1>30, <1>a, <1>t DEF EndsMove, OtherTypes, RecordedEnds, RuntimeEnds, Goes, Stop, Idle, CloseAs, CloseUnrecorded, Closed, Recorded, AnotherEnd,
          servingVars, socketVars, feedVars
    <2>2. Reported' => Reported
      <3>1. cause' = cause
        BY <1>30 DEF RuntimeEnds, Goes, Stop, Idle, CloseAs, CloseUnrecorded, Closed, Recorded, AnotherEnd,
            servingVars, socketVars, feedVars
      <3> QED
        BY <1>30, <1>a, <3>1, ReportsEnd, ClosingSeqs DEF OtherTypes, RuntimeEnds, Idle, CloseAs, CloseUnrecorded, Closed, Recorded, AnotherEnd, servingVars,
            socketVars, feedVars
    <2> QED
      BY <1>t, <2>1, <2>2, EndsFrame
  <1>31. ASSUME ClientCloses
        PROVE  EndsAreKnown'
    <2>1. EndsMove
      BY <1>31, <1>a, <1>t DEF EndsMove, OtherTypes, RecordedEnds, ClientCloses, Goes, Stop, Idle, CloseAs, CloseUnrecorded, Closed, Recorded, AnotherEnd,
          servingVars, socketVars, feedVars
    <2>2. Reported' => Reported
      <3>1. cause' = cause
        BY <1>31 DEF ClientCloses, Goes, Stop, Idle, CloseAs, CloseUnrecorded, Closed, Recorded, AnotherEnd,
            servingVars, socketVars, feedVars
      <3> QED
        BY <1>31, <1>a, <3>1, ReportsEnd, ClosingSeqs DEF OtherTypes, ClientCloses, Idle, CloseAs, CloseUnrecorded, Closed, Recorded, AnotherEnd,
            servingVars, socketVars, feedVars
    <2> QED
      BY <1>t, <2>1, <2>2, EndsFrame
  <1>32. ASSUME ClientStalls
        PROVE  EndsAreKnown'
    <2>1. EndsMove
      BY <1>32, <1>a, <1>t DEF EndsMove, OtherTypes, RecordedEnds, ClientStalls, Goes, Stop, Idle, CloseAs, CloseUnrecorded, Closed, Recorded, AnotherEnd,
          servingVars, socketVars, feedVars
    <2>2. Reported' => Reported
      <3>1. cause' = cause
        BY <1>32 DEF ClientStalls, Goes, Stop, Idle, CloseAs, CloseUnrecorded, Closed, Recorded, AnotherEnd,
            servingVars, socketVars, feedVars
      <3> QED
        BY <1>32, <1>a, <3>1, ReportsEnd, ClosingSeqs DEF OtherTypes, ClientStalls, Idle, CloseAs, CloseUnrecorded, Closed, Recorded, AnotherEnd,
            servingVars, socketVars, feedVars
    <2> QED
      BY <1>t, <2>1, <2>2, EndsFrame
  <1>33. CASE UNCHANGED servedVars
    BY <1>33, <1>t DEF servedVars, EndsAreKnown, Reported
  <1> QED
    BY <1>1, <1>2, <1>3, <1>4, <1>5, <1>6, <1>7, <1>8, <1>9, <1>10, <1>11, <1>12, <1>13, <1>14,
       <1>15, <1>16, <1>17, <1>18, <1>19, <1>20, <1>21, <1>22, <1>23, <1>24, <1>25, <1>26, <1>27,
       <1>28, <1>29, <1>30, <1>31, <1>32, <1>33 DEF ServedNext, Reader, Lane, Stream, Closer,
       Socket, Serve, Environment, Over

(***************************************************************************)
(* What a write does.                                                      *)
(***************************************************************************)
\* What each loop writes.
Writable(l, m) ==
  \/ l \in Lanes /\ m.what = l
  \/ l = "reader" /\ m.what = "rate_limited"
  \/ l = "closer" /\ m.what \in EndMessages
  \/ l = "roster" /\ m.what = "roster"
  \/ l = "session" /\ m.what \in {"lobby", "start", "views"}
  \/ l = "session" /\ m.what = "acting" /\ kind = "preview" /\ phase = "views"

\* What a write leaves to be written, and where its loop goes.
Written(l) ==
  LET m == out[l][1]
  IN /\ m \in Message /\ Writable(l, m)
     /\ pc[l] = "writing" /\ socket = "open" /\ ~cancelled
     /\ IF client.there THEN sent' = Append(sent, m) ELSE sent' = sent
     /\ phase' = (IF m.what = "start" THEN "views" ELSE phase)
     /\ \/ /\ Len(out[l]) = 1 /\ out'[l] = <<>>
           /\ l \in {"session", "roster"} => pc'[l] = "next"
           /\ l = "closer" => pc'[l] = "closing"
           /\ m.what # "acting"
        \/ /\ l = "session" /\ m.what = "acting" /\ Len(out[l]) = 2
           /\ Len(out'[l]) = 1 /\ out'[l][1] = out[l][2] /\ out[l][2].what = "views"
           /\ pc'[l] = "writing"
     /\ \A k \in Loops \ {l} : pc'[k] = pc[k] /\ out'[k] = out[k]
     /\ UNCHANGED <<kind, acting, pending, signal, published, game, socket, client>>
     /\ l \in Lanes \cup {"reader"} => pc'[l] \notin {"handling", "writing", "closed"}

\* A write does this, the start being long sent to a preview.
LEMMA Writing ==
  ASSUME ServedTypes, LoopsHold, NEW l \in Loops, Write(l),
         kind = "preview" => phase = "views"
  PROVE  Written(l)
  <1> DEFINE m == out[l][1]
  <1>1. pc \in [Loops -> Places] /\ out \in [Loops -> Seq(Message)] /\ OtherTypes
    BY TypesSplit
  <1>2. /\ out[l] # <<>> /\ Head(out[l]) = m /\ m \in Message /\ Tail(out[l]) \in Seq(Message)
        /\ pc[l] = "writing" /\ MayHold(l, pc[l], out[l])
    BY <1>1, HeldType DEF Write, LoopsHold
  <1>3. /\ sent' = IF client.there THEN Append(sent, m) ELSE sent
        /\ phase' = (IF m.what = "start" THEN "views" ELSE phase)
        /\ socket = "open" /\ ~cancelled
        /\ UNCHANGED <<kind, acting, pending, signal, published, game, socket, client>>
        /\ out' = [out EXCEPT ![l] = Tail(@)]
    BY <1>2 DEF Write, feedVars, socketVars
  <1>4. /\ out'[l] = Tail(out[l])
        /\ \A k \in Loops \ {l} : out'[k] = out[k]
    BY <1>1, <1>3
  <1>5. \/ Len(out[l]) = 1 /\ Writable(l, m) /\ m.what # "acting"
        \/ /\ l = "session" /\ Len(out[l]) = 2 /\ m.what = "acting" /\ out[l][2].what = "views"
           /\ Writable(l, m)
    <2>1. CASE l \in Lanes
      BY <1>2, <2>1, NamesApart DEF Writable, MayHold, LaneMayHold, Only
    <2>2. CASE l = "reader"
      BY <1>2, <2>2 DEF Writable, MayHold, ReaderMayHold, Only
    <2>3. CASE l = "closer"
      BY <1>2, <2>3 DEF Writable, MayHold, CloserMayHold, Only, EndMessages
    <2>4. CASE l = "roster"
      BY <1>2, <2>4 DEF Writable, MayHold, RosterMayHold, Only
    <2>5. CASE l = "session"
      BY <1>2, <2>5 DEF Writable, MayHold, SessionMayHold, Only
    <2> QED
      BY <2>1, <2>2, <2>3, <2>4, <2>5 DEF Loops
  <1>6. /\ \A k \in Loops \ {l} : pc'[k] = pc[k]
        /\ Len(out[l]) > 1 => pc'[l] = "writing"
        /\ ~(Len(out[l]) > 1) => AfterWrite(l, m)
    BY <1>1, <1>2 DEF Write, Goes, AfterWrite, AfterHandling, Stop
  <1>7. AfterWrite(l, m) => /\ l \in {"session", "roster"} => pc'[l] = "next"
                            /\ l = "closer" => pc'[l] = "closing"
                            /\ l \in Lanes \cup {"reader"} => pc'[l] \notin {"handling", "writing", "closed"}
    BY <1>1, NamesApart DEF AfterWrite, AfterHandling, Goes, Stop, Loops
  <1>8. CASE Len(out[l]) = 1
    <2>1. Tail(out[l]) = <<>>
      <3>1. Tail(out[l]) \in Seq(Message) /\ Len(Tail(out[l])) = Len(out[l]) - 1
        BY <1>1, <1>2, HeadTailProperties
      <3>2. Len(Tail(out[l])) = 0
        BY <1>8, <3>1
      <3> QED
        BY <3>1, <3>2, EmptySeq
    <2> HIDE DEF m
    <2>2. Writable(l, m) /\ m.what # "acting"
      BY <1>5, <1>8 DEF m
    <2>3. /\ l \in {"session", "roster"} => pc'[l] = "next"
          /\ l = "closer" => pc'[l] = "closing"
          /\ l \in Lanes \cup {"reader"} => pc'[l] \notin {"handling", "writing", "closed"}
      BY <1>6, <1>7, <1>8
    <2> QED
      BY <1>2, <1>3, <1>4, <1>6, <1>8, <2>1, <2>2, <2>3 DEF Written, m
  <1>9. CASE l = "session" /\ Len(out[l]) = 2
    <2>1. Len(Tail(out[l])) = 1 /\ Tail(out[l])[1] = out[l][2]
      BY <1>1, <1>9
    <2> HIDE DEF m
    <2>2. Writable(l, m) /\ m.what = "acting" /\ out[l][2].what = "views" /\ pc'[l] = "writing"
      BY <1>5, <1>6, <1>9 DEF m
    <2> QED
      BY <1>2, <1>3, <1>4, <1>6, <1>9, <2>1, <2>2, NamesApart DEF Written, m
  <1> QED
    BY <1>5, <1>8, <1>9

\* What is sent grows by one message.
LEMMA SentGrows ==
  ASSUME sent \in Seq(Message), NEW m \in Message, sent' = Append(sent, m)
  PROVE  /\ Len(sent) \in Nat /\ Len(sent') = Len(sent) + 1
         /\ sent'[Len(sent) + 1] = m
         /\ \A i \in 1 .. Len(sent) : sent'[i] = sent[i]
         /\ \A what : /\ Sent(what) \subseteq 1 .. Len(sent)
                      /\ m.what = what => Sent(what)' = Sent(what) \cup {Len(sent) + 1}
                      /\ m.what # what => Sent(what)' = Sent(what)
  <1>1. /\ Len(sent) \in Nat /\ Len(sent') = Len(sent) + 1
        /\ sent'[Len(sent) + 1] = m
        /\ \A i \in 1 .. Len(sent) : sent'[i] = sent[i]
    OBVIOUS
  <1> QED
    BY <1>1 DEF Sent

\* A start was sent if there is one among what was sent.
LEMMA StartIsSent ==
  /\ StartSent <=> Sent("start") # {}
  /\ StartSent' <=> Sent("start")' # {}
  BY DEF StartSent, Sent

\* The same was sent.
LEMMA SentStays ==
  ASSUME sent' = sent
  PROVE  /\ \A what : Sent(what)' = Sent(what)
         /\ StartSent' <=> StartSent
         /\ \A a, b : Before(a, b)' <=> Before(a, b)
  BY DEF Sent, StartSent, Before

(***************************************************************************)
(* The session and the start.                                              *)
(***************************************************************************)
\* The game goes forward, nothing is sent, and neither stream goes on.
StreamsStay ==
  /\ UNCHANGED <<kind, phase, sent>>
  /\ pending'["lobby"] = pending["lobby"]
  /\ published'["views"] = published["views"] /\ published'["roster"] = published["roster"]
  /\ game.started => game'.started
  /\ Ended => Ended'
  /\ client'.there => client.there
  /\ \/ pc'["session"] = pc["session"] /\ out'["session"] = out["session"]
     \/ pc'["session"] # "start" /\ out'["session"] = <<>>
  /\ pc'["roster"] \in {"next", "writing"} => pc["roster"] \in {"next", "writing"}

\* Such a step keeps the start where it is.
LEMMA StartFrame ==
  ASSUME StartDivides, StreamsStay
  PROVE  StartDivides'
  <1>1. /\ \A what : Sent(what)' = Sent(what)
        /\ StartSent' <=> StartSent
        /\ \A a, b : Before(a, b)' <=> Before(a, b)
    BY SentStays DEF StreamsStay
  <1> QED
    BY <1>1 DEF StreamsStay, StartDivides, PreviewIsStarted, StartOpensViews, LobbyIsDone, SessionSays, RosterFollows, PublishedOnceStarted

\* Every step keeps the start between the lobby and the rest.
LEMMA StartStep ==
  ServedTypes /\ LoopsHold /\ StartDivides /\ [ServedNext]_servedVars => StartDivides'
  <1> SUFFICES ASSUME ServedTypes, LoopsHold, StartDivides, [ServedNext]_servedVars
               PROVE  StartDivides'
    OBVIOUS
  <1>a. pc \in [Loops -> Places] /\ out \in [Loops -> Seq(Message)] /\ OtherTypes /\ LoopsHold
    BY TypesSplit
  <1>t. StartDivides
    OBVIOUS
  <1>1. ASSUME NEW l \in Lanes, ReadMessage(l)
        PROVE  StartDivides'
    <2>1. StreamsStay
      BY <1>1, <1>a, NamesApart
      DEF StreamsStay, OtherTypes, Ended, Queues, Feeds, Loops, Streams, ReadMessage, Goes, Stop, Idle, CloseAs, CloseUnrecorded, Closed, Recorded, AnotherEnd,
          servingVars, socketVars, feedVars
    <2> QED
      BY <1>t, <2>1, StartFrame
  <1>2. ASSUME ReadRefused
        PROVE  StartDivides'
    <2>1. StreamsStay
      BY <1>2, <1>a, NamesApart
      DEF StreamsStay, OtherTypes, Ended, Queues, Feeds, Loops, Streams, ReadRefused, Goes, Stop, Idle, CloseAs, CloseUnrecorded, Closed, Recorded, AnotherEnd,
          servingVars, socketVars, feedVars
    <2> QED
      BY <1>t, <2>1, StartFrame
  <1>3. ASSUME ReadFails
        PROVE  StartDivides'
    <2>1. StreamsStay
      BY <1>3, <1>a, NamesApart
      DEF StreamsStay, OtherTypes, Ended, Queues, Feeds, Loops, Streams, ReadFails, Goes, Stop, Idle, CloseAs, CloseUnrecorded, Closed, Recorded, AnotherEnd,
          servingVars, socketVars, feedVars
    <2> QED
      BY <1>t, <2>1, StartFrame
  <1>4. ASSUME Offer
        PROVE  StartDivides'
    <2>l. Head(out["reader"]).what \in Lanes
      BY <1>4, <1>a DEF Offer, LoopsHold, MayHold, ReaderMayHold, Only, Loops
    <2>1. StreamsStay
      BY <1>4, <2>l, <1>a, NamesApart
      DEF StreamsStay, OtherTypes, Ended, Queues, Feeds, Loops, Streams, Offer, Goes, Stop, Idle, CloseAs, CloseUnrecorded, Closed, Recorded, AnotherEnd,
          servingVars, socketVars, feedVars
    <2> QED
      BY <1>t, <2>1, StartFrame
  <1>5. ASSUME WakeLane
        PROVE  StartDivides'
    <2>1. StreamsStay
      BY <1>5, <1>a, NamesApart
      DEF StreamsStay, OtherTypes, Ended, Queues, Feeds, Loops, Streams, WakeLane, Woken, Goes, Stop, Idle, CloseAs, CloseUnrecorded, Closed, Recorded,
          AnotherEnd, servingVars, socketVars, feedVars
    <2> QED
      BY <1>t, <2>1, StartFrame
  <1>6. ASSUME Refuse
        PROVE  StartDivides'
    <2>1. StreamsStay
      BY <1>6, <1>a, NamesApart
      DEF StreamsStay, OtherTypes, Ended, Queues, Feeds, Loops, Streams, Refuse, RateLimitedAnswer, Goes, Stop, Idle, CloseAs, CloseUnrecorded, Closed, Recorded,
          AnotherEnd, servingVars, socketVars, feedVars
    <2> QED
      BY <1>t, <2>1, StartFrame
  <1>7. ASSUME NEW l \in Lanes, NextMessage(l)
        PROVE  StartDivides'
    <2>1. StreamsStay
      BY <1>7, <1>a, NamesApart
      DEF StreamsStay, OtherTypes, Ended, Queues, Feeds, Loops, Streams, NextMessage, TakeFrom, Writes, Source, Goes, Stop, Idle, CloseAs, CloseUnrecorded,
          Closed, Recorded, AnotherEnd, servingVars, socketVars, feedVars
    <2> QED
      BY <1>t, <2>1, StartFrame
  <1>8. ASSUME NEW l \in Lanes, WakesUp(l)
        PROVE  StartDivides'
    <2>1. StreamsStay
      BY <1>8, <1>a, NamesApart
      DEF StreamsStay, OtherTypes, Ended, Queues, Feeds, Loops, Streams, WakesUp, Goes, Stop, Idle, CloseAs, CloseUnrecorded, Closed, Recorded, AnotherEnd,
          servingVars, socketVars, feedVars
    <2> QED
      BY <1>t, <2>1, StartFrame
  <1>9. ASSUME NEW l \in Lanes \cup Streams, WokenByCancel(l)
        PROVE  StartDivides'
    <2>h. pc["session"] \in {"next", "start", "held"} => out["session"] = <<>>
      BY <1>a DEF LoopsHold, MayHold, SessionMayHold, Loops
    <2>c. l \in Lanes => l \notin {"session", "roster"}
      BY NamesApart
    <2>p. pc' = [pc EXCEPT ![l] = "done"] /\ l \in Loops
      BY <1>9 DEF WokenByCancel, Stop, Streams, Loops
    <2>q. \/ pc'["session"] = pc["session"] /\ out'["session"] = out["session"]
          \/ pc'["session"] # "start" /\ out'["session"] = <<>>
      BY <1>9, <1>a, <2>h, <2>c, <2>p DEF WokenByCancel, Streams, Loops
    <2>r. pc'["roster"] \in {"next", "writing"} => pc["roster"] \in {"next", "writing"}
      BY <1>a, <2>p
    <2>1. StreamsStay
      BY <1>9, <1>a, <2>q, <2>r
      DEF StreamsStay, OtherTypes, Ended, Queues, Feeds, Loops, Streams, WokenByCancel, Idle, CloseAs, CloseUnrecorded, Closed, Recorded, AnotherEnd,
          servingVars, socketVars, feedVars
    <2> QED
      BY <1>t, <2>1, StartFrame
  <1>10. ASSUME NEW l \in Lanes, Hold(l)
        PROVE  StartDivides'
    <2>1. StreamsStay
      BY <1>10, <1>a, NamesApart
      DEF StreamsStay, OtherTypes, Ended, Queues, Feeds, Loops, Streams, Hold, Goes, Stop, Idle, CloseAs, CloseUnrecorded, Closed, Recorded, AnotherEnd,
          servingVars, socketVars, feedVars
    <2> QED
      BY <1>t, <2>1, StartFrame
  <1>11. ASSUME NEW l \in Lanes, Handle(l)
        PROVE  StartDivides'
    <2>a. HandlesSo(l)
      BY <1>11, <1>a, HandleCases DEF OtherTypes
    <2>1. StreamsStay
      BY <2>a, <1>a, NamesApart
      DEF StreamsStay, OtherTypes, Ended, Queues, Feeds, Loops, Streams, HandlesSo, Answers, SaysNothing, Closes, Fails, AfterHandling, Goes, Stop, Idle, CloseAs,
          CloseUnrecorded, Closed, Recorded, AnotherEnd, servingVars, socketVars, feedVars
    <2> QED
      BY <1>t, <2>1, StartFrame
  <1>12. ASSUME NEW l \in Streams, NextUpdate(l)
        PROVE  StartDivides'
    <2>1. CASE l = "roster"
      <3>1. /\ UNCHANGED <<kind, phase, sent, published, game, client>>
            /\ pc["roster"] = "next"
        BY <1>12, <2>1 DEF NextUpdate
      <3>2. /\ pending'["lobby"] = pending["lobby"]
            /\ out'["session"] = out["session"] /\ pc'["session"] = pc["session"]
        <4>1. CASE TakeFrom(l)
          BY <1>a, <2>1, <4>1 DEF TakeFrom, Source, Goes, OtherTypes, Queues, Feeds, Loops
        <4>2. CASE ~TakeFrom(l)
          BY <1>12, <1>a, <2>1, <4>2 DEF NextUpdate, Goes, Stop, Loops
        <4> QED
          BY <4>1, <4>2
      <3>3. StreamsStay
        BY <3>1, <3>2 DEF StreamsStay, Ended
      <3> QED
        BY <1>t, <3>3, StartFrame
    <2>2. CASE l = "session"
      <3>1. /\ UNCHANGED <<kind, phase, sent, published, game, client>> /\ pc["session"] = "next"
            /\ pc'["roster"] = pc["roster"]
        <4>1. UNCHANGED <<kind, phase, sent, published, game, client>> /\ pc["session"] = "next"
          BY <1>12, <2>2 DEF NextUpdate
        <4>2. CASE TakeFrom(l)
          BY <1>a, <2>2, <4>1, <4>2 DEF TakeFrom, Goes, Loops
        <4>3. CASE ~TakeFrom(l)
          BY <1>12, <1>a, <2>2, <4>1, <4>3 DEF NextUpdate, Goes, Stop, Loops
        <4> QED
          BY <4>2, <4>3
      <3>2. /\ \A what : Sent(what)' = Sent(what)
            /\ StartSent' <=> StartSent
            /\ \A a, b : Before(a, b)' <=> Before(a, b)
        BY <3>1, SentStays
      <3>3. CASE TakeFrom("session")
        <4>1. /\ pending[phase] # <<>> /\ phase \in Queues /\ phase \in {"lobby", "views"}
              /\ pc'["session"] = "writing"
              /\ out'["session"] = Writes("session", Head(pending[phase]))
              /\ phase = "views" => pending'["lobby"] = pending["lobby"]
          BY <1>a, <3>3, NamesApart DEF TakeFrom, Source, Goes, OtherTypes, Queues, Feeds, Loops
        <4>2. Head(pending[phase]).what = phase
          BY <1>a, <4>1, WaitingType
        <4>3. \A i \in 1 .. Len(out'["session"]) : out'["session"][i].what \in {"acting", phase}
          <5> DEFINE item == Head(pending[phase])
                     told == [what |-> "acting", n |-> item.n, actor |-> item.actor]
          <5>1. out'["session"] = <<told, item>> \/ out'["session"] = <<item>>
            BY <4>1 DEF Writes
          <5>2. told.what = "acting" /\ item.what = phase
            BY <4>2
          <5> HIDE DEF told, item
          <5> QED
            BY <5>1, <5>2
        <4> QED
          BY <1>t, <3>1, <3>2, <4>1, <4>3 DEF Ended, StartDivides, PreviewIsStarted, StartOpensViews, LobbyIsDone, SessionSays, RosterFollows, PublishedOnceStarted
      <3>4. CASE ~TakeFrom("session")
        <4>1. /\ pending[phase] = <<>> /\ UNCHANGED <<out, pending>>
              /\ IF phase = "lobby" THEN (game.started \/ Ended) /\ pc'["session"] = "start"
                                    ELSE pc'["session"] = "done"
          BY <1>12, <1>a, <2>2, <3>4 DEF NextUpdate, Source, Goes, Stop, OtherTypes, Loops
        <4> QED
          BY <1>t, <3>1, <3>2, <4>1 DEF Ended, StartDivides, PreviewIsStarted, StartOpensViews, LobbyIsDone, SessionSays, RosterFollows, PublishedOnceStarted
      <3> QED
        BY <3>3, <3>4
    <2> QED
      BY <2>1, <2>2 DEF Streams
  <1>13. ASSUME SendStart
        PROVE  StartDivides'
    <2>1. /\ UNCHANGED <<kind, phase, sent, published, game, client, pending>> /\ pc["session"] = "start"
          /\ pc'["roster"] = pc["roster"]
      BY <1>13, <1>a DEF SendStart, Goes, Stop, feedVars, Loops
    <2>2. /\ \A what : Sent(what)' = Sent(what)
          /\ StartSent' <=> StartSent
          /\ \A a, b : Before(a, b)' <=> Before(a, b)
      BY <2>1, SentStays
    <2>3. \/ /\ game.started /\ pc'["session"] = "writing"
             /\ out'["session"] = <<[what |-> "start", n |-> 0]>>
          \/ pc'["session"] = "done" /\ out'["session"] = out["session"]
      BY <1>13, <1>a DEF SendStart, Goes, Stop, Loops
    <2>4. \A i \in 1 .. Len(<<[what |-> "start", n |-> 0]>>) : <<[what |-> "start", n |-> 0]>>[i].what = "start"
      <3> DEFINE m == [what |-> "start", n |-> 0]
      <3>1. m.what = "start"
        OBVIOUS
      <3> HIDE DEF m
      <3>2. \A i \in 1 .. Len(<<m>>) : <<m>>[i].what = "start"
        BY <3>1
      <3> QED
        BY <3>2 DEF m
    <2>5. out["session"] = <<>>
      BY <1>a, <2>1 DEF LoopsHold, MayHold, SessionMayHold, Loops
    <2> QED
      BY <1>t, <2>1, <2>2, <2>3, <2>4, <2>5 DEF Ended, StartDivides, PreviewIsStarted, StartOpensViews, LobbyIsDone, SessionSays, RosterFollows, PublishedOnceStarted
  <1>14. ASSUME SendRoster
        PROVE  StartDivides'
    <2>1. CASE StartSent
      <3>1. /\ UNCHANGED <<kind, phase, sent, published, game, client, pending>>
            /\ pc'["session"] = pc["session"] /\ out' = out
        BY <1>14, <1>a DEF SendRoster, Goes, Stop, feedVars, Loops
      <3>2. /\ \A what : Sent(what)' = Sent(what)
            /\ StartSent' <=> StartSent
            /\ \A a, b : Before(a, b)' <=> Before(a, b)
        BY <3>1, SentStays
      <3> QED
        BY <1>t, <2>1, <3>1, <3>2 DEF Ended, StartDivides, PreviewIsStarted, StartOpensViews, LobbyIsDone, SessionSays, RosterFollows, PublishedOnceStarted
    <2>2. CASE ~StartSent
      <3>1. StreamsStay
        BY <1>14, <1>a, <2>2 DEF StreamsStay, SendRoster, RosterMayFollow, Goes, Stop, OtherTypes, Ended, Loops, feedVars
      <3> QED
        BY <1>t, <3>1, StartFrame
    <2> QED
      BY <2>1, <2>2
  <1>15. ASSUME AwaitEnd
        PROVE  StartDivides'
    <2>1. StreamsStay
      BY <1>15, <1>a, NamesApart
      DEF StreamsStay, OtherTypes, Ended, Queues, Feeds, Loops, Streams, AwaitEnd, Goes, Stop, Idle, CloseAs, CloseUnrecorded, Closed, Recorded, AnotherEnd,
          servingVars, socketVars, feedVars
    <2> QED
      BY <1>t, <2>1, StartFrame
  <1>16. ASSUME AwaitStreams
        PROVE  StartDivides'
    <2>1. StreamsStay
      BY <1>16, <1>a, NamesApart
      DEF StreamsStay, OtherTypes, Ended, Queues, Feeds, Loops, Streams, AwaitStreams, Goes, Stop, Idle, CloseAs, CloseUnrecorded, Closed, Recorded, AnotherEnd,
          servingVars, socketVars, feedVars
    <2> QED
      BY <1>t, <2>1, StartFrame
  <1>17. ASSUME LockAndTell
        PROVE  StartDivides'
    <2>1. StreamsStay
      BY <1>17, <1>a, NamesApart
      DEF StreamsStay, OtherTypes, Ended, Queues, Feeds, Loops, Streams, LockAndTell, Goes, Stop, Idle, CloseAs, CloseUnrecorded, Closed, Recorded, AnotherEnd,
          servingVars, socketVars, feedVars
    <2> QED
      BY <1>t, <2>1, StartFrame
  <1>18. ASSUME CloseEnded
        PROVE  StartDivides'
    <2>1. StreamsStay
      BY <1>18, <1>a, NamesApart
      DEF StreamsStay, OtherTypes, Ended, Queues, Feeds, Loops, Streams, CloseEnded, Goes, Stop, Idle, CloseAs, CloseUnrecorded, Closed, Recorded, AnotherEnd,
          servingVars, socketVars, feedVars
    <2> QED
      BY <1>t, <2>1, StartFrame
  <1>19. ASSUME NEW l \in Loops, Write(l)
        PROVE  StartDivides'
    <2> DEFINE m == out[l][1]
    <2>1. Written(l)
      BY <1>19, <1>t, Writing DEF StartDivides, PreviewIsStarted, StartOpensViews, LobbyIsDone, SessionSays, RosterFollows, PublishedOnceStarted
    <2>2. /\ UNCHANGED <<kind, pending, published, game, client>> /\ m \in Message /\ Writable(l, m)
          /\ phase' = (IF m.what = "start" THEN "views" ELSE phase)
          /\ IF client.there THEN sent' = Append(sent, m) ELSE sent' = sent
      BY <2>1 DEF Written
    <2>3. /\ m.what = "start" => phase = "lobby" /\ game.started /\ pending["lobby"] = <<>>
          /\ m.what = "lobby" => phase = "lobby"
          /\ m.what = "views" => phase = "views"
          /\ m.what = "roster" => StartSent /\ kind # "preview"
      <3>1. CASE l = "session"
        <4>1. Len(out["session"]) >= 1
          BY <2>1, <3>1 DEF Written
        <4>2. m.what # "roster"
          BY <2>2, <3>1, NamesApart DEF Writable, EndMessages
        <4> QED
          BY <1>t, <3>1, <4>1, <4>2 DEF StartDivides, PreviewIsStarted, StartOpensViews, LobbyIsDone, SessionSays, RosterFollows, PublishedOnceStarted
      <3>2. CASE l = "roster"
        <4>1. m.what = "roster" /\ pc["roster"] = "writing"
          BY <2>1, <2>2, <3>2, NamesApart DEF Writable, Written, EndMessages
        <4>2. kind = "player"
          BY <1>a, <4>1 DEF LoopsHold, MayHold, RosterMayHold, Loops
        <4> QED
          BY <1>t, <4>1, <4>2 DEF StartDivides, PreviewIsStarted, StartOpensViews, LobbyIsDone, SessionSays, RosterFollows, PublishedOnceStarted
      <3>3. CASE l \notin {"session", "roster"}
        BY <2>2, <3>3, NamesApart DEF Writable, EndMessages
      <3> QED
        BY <3>1, <3>2, <3>3
    <2>4. /\ pc'["session"] = "start" => pc["session"] = "start"
          /\ pc'["roster"] \in {"next", "writing"} => pc["roster"] \in {"next", "writing"}
          /\ m.what = "start" => pc'["session"] # "start"
      BY <2>1, <2>2, NamesApart DEF Written, Writable, Loops, EndMessages
    <2>5. \A i \in 1 .. Len(out'["session"]) :
            \/ out'["session"][i].what = "views" /\ phase = "views" /\ phase' = "views"
            \/ out'["session"] = out["session"] /\ phase' = phase
      <3>1. CASE l # "session"
        <4>1. m.what # "start"
          BY <2>2, <3>1, NamesApart DEF Writable, EndMessages
        <4> QED
          BY <2>1, <2>2, <3>1, <4>1 DEF Written, Loops
      <3>2. CASE l = "session" /\ out'["session"] = <<>>
        BY <3>2
      <3>3. CASE l = "session" /\ m.what = "acting"
        <4>1. Len(out'["session"]) = 1 /\ out'["session"][1].what = "views" /\ phase = "views" /\ phase' = "views"
          BY <2>1, <2>2, <3>3, NamesApart DEF Written, Writable, EndMessages
        <4> QED
          BY <4>1
      <3> QED
        BY <2>1, <3>1, <3>2, <3>3 DEF Written
    <2>6. kind = "preview" => phase = "views" /\ phase' = "views" /\ m.what \notin {"lobby", "start"}
      BY <1>t, <2>2, <2>3 DEF StartDivides, PreviewIsStarted, StartOpensViews, LobbyIsDone, SessionSays, RosterFollows, PublishedOnceStarted
    <2>7. CASE ~client.there
      <3>1. /\ \A what : Sent(what)' = Sent(what)
            /\ StartSent' <=> StartSent
            /\ \A a, b : Before(a, b)' <=> Before(a, b)
        BY <2>2, <2>7, SentStays
      <3>2. PreviewIsStarted' /\ PublishedOnceStarted'
        BY <1>t, <2>2, <2>6, <3>1 DEF StartDivides, PreviewIsStarted, PublishedOnceStarted
      <3>3. StartOpensViews'
        BY <1>t, <2>2, <2>7, <3>1, <2>3, <2>6 DEF StartDivides, StartOpensViews
      <3>4. LobbyIsDone'
        BY <1>t, <2>2, <2>3, <2>4 DEF StartDivides, LobbyIsDone, Ended
      <3>5. SessionSays'
        BY <1>t, <2>2, <2>5 DEF StartDivides, SessionSays
      <3>6. RosterFollows'
        BY <1>t, <2>4, <3>1 DEF StartDivides, RosterFollows
      <3> QED
        BY <1>t, <3>1, <3>2, <3>3, <3>4, <3>5, <3>6 DEF StartDivides
    <2>8. CASE client.there
      <3>1. /\ Len(sent) \in Nat
            /\ \A what : /\ Sent(what) \subseteq 1 .. Len(sent)
                         /\ m.what = what => Sent(what)' = Sent(what) \cup {Len(sent) + 1}
                         /\ m.what # what => Sent(what)' = Sent(what)
        BY <1>a, <2>2, <2>8, SentGrows DEF OtherTypes
      <3> HIDE DEF m
      <3>2. /\ m.what # "start" => (StartSent' <=> StartSent)
            /\ m.what = "start" => StartSent' /\ ~StartSent
        BY <1>t, <2>3, <2>6, <3>1, StartIsSent DEF StartDivides, PreviewIsStarted, StartOpensViews, LobbyIsDone, SessionSays, RosterFollows, PublishedOnceStarted
      <3>3. Before("lobby", "start")'
        <4>1. CASE kind = "preview"
          BY <1>t, <2>6, <3>1, <4>1 DEF StartDivides, PreviewIsStarted, Before
        <4>2. CASE kind # "preview" /\ phase = "lobby"
          <5>1. Sent("start") = {} /\ (m.what = "start" \/ Sent("start")' = {})
            BY <1>t, <3>1, <4>2, StartIsSent DEF StartDivides, StartOpensViews
          <5> QED
            BY <3>1, <5>1 DEF Before
        <4>3. CASE phase # "lobby"
          <5>1. Sent("lobby")' = Sent("lobby") /\ Sent("start")' = Sent("start")
            BY <2>3, <3>1, <4>3
          <5> QED
            BY <1>t, <3>1, <5>1 DEF StartDivides, Before
        <4> QED
          BY <4>1, <4>2, <4>3
      <3>4. kind # "preview" => /\ Before("start", "views")' /\ Before("start", "roster")'
                               /\ (Sent("views")' # {} \/ Sent("roster")' # {} => StartSent')
                               /\ (StartSent' => phase' = "views")
                               /\ (phase' = "views" => StartSent')
        <4> SUFFICES ASSUME kind # "preview"
                     PROVE  /\ Before("start", "views")' /\ Before("start", "roster")'
                            /\ (Sent("views")' # {} \/ Sent("roster")' # {} => StartSent')
                            /\ (StartSent' => phase' = "views")
                            /\ (phase' = "views" => StartSent')
          OBVIOUS
        <4>1. /\ StartSent => phase = "views"
              /\ phase = "views" => StartSent
              /\ Sent("views") # {} \/ Sent("roster") # {} => StartSent
              /\ Before("start", "views") /\ Before("start", "roster")
          BY <1>t, <2>8 DEF StartDivides, StartOpensViews
        <4>2. CASE m.what = "start"
          BY <2>2, <2>3, <3>1, <3>2, <4>1, <4>2, StartIsSent DEF Before
        <4>3. CASE m.what # "start"
          <5>1. (StartSent' <=> StartSent) /\ phase' = phase /\ Sent("start")' = Sent("start")
            BY <2>2, <3>1, <3>2, <4>3
          <5>2. m.what \in {"views", "roster"} => StartSent
            BY <2>3, <4>1
          <5>3. Before("start", "views")' /\ Before("start", "roster")'
            BY <3>1, <4>1, <5>1 DEF Before
          <5> QED
            BY <3>1, <4>1, <5>1, <5>2, <5>3
        <4> QED
          BY <4>2, <4>3
      <3>5. kind = "preview" => Sent("lobby")' = {} /\ Sent("start")' = {}
        BY <1>t, <2>6, <3>1 DEF StartDivides, PreviewIsStarted, StartOpensViews, LobbyIsDone, SessionSays, RosterFollows, PublishedOnceStarted
      <3>6. StartSent => StartSent'
        BY <3>2
      <3>7. PreviewIsStarted' /\ PublishedOnceStarted'
        BY <1>t, <2>2, <2>6, <3>5 DEF StartDivides, PreviewIsStarted, PublishedOnceStarted
      <3>8. StartOpensViews'
        BY <2>2, <3>4 DEF StartOpensViews
      <3>9. LobbyIsDone'
        BY <1>t, <2>2, <2>3, <2>4 DEF StartDivides, LobbyIsDone, Ended
      <3>10. SessionSays'
        BY <1>t, <2>2, <2>5 DEF StartDivides, SessionSays
      <3>11. RosterFollows'
        BY <1>t, <2>4, <3>6 DEF StartDivides, RosterFollows
      <3> QED
        BY <3>3, <3>7, <3>8, <3>9, <3>10, <3>11 DEF StartDivides
    <2> QED
      BY <2>7, <2>8
  <1>20. ASSUME NEW l \in Loops, WriteTooSlow(l)
        PROVE  StartDivides'
    <2>1. StreamsStay
      BY <1>20, <1>a, NamesApart, HeldType
      DEF StreamsStay, OtherTypes, Ended, Queues, Feeds, Loops, Streams, WriteTooSlow, Goes, Stop, Idle, CloseAs, CloseUnrecorded, Closed, Recorded, AnotherEnd,
          servingVars, socketVars, feedVars
    <2> QED
      BY <1>t, <2>1, StartFrame
  <1>21. ASSUME NEW l \in Loops, WriteFails(l)
        PROVE  StartDivides'
    <2>1. StreamsStay
      BY <1>21, <1>a, NamesApart, HeldType
      DEF StreamsStay, OtherTypes, Ended, Queues, Feeds, Loops, Streams, WriteFails, Goes, Stop, Idle, CloseAs, CloseUnrecorded, Closed, Recorded, AnotherEnd,
          servingVars, socketVars, feedVars
    <2> QED
      BY <1>t, <2>1, StartFrame
  <1>22. ASSUME NEW l \in Loops, ReportClose(l)
        PROVE  StartDivides'
    <2>1. StreamsStay
      BY <1>22, <1>a, NamesApart, HeldType
      DEF StreamsStay, OtherTypes, Ended, Queues, Feeds, Loops, Streams, ReportClose, Goes, Stop, Idle, CloseAs, CloseUnrecorded, Closed, Recorded, AnotherEnd,
          servingVars, socketVars, feedVars
    <2> QED
      BY <1>t, <2>1, StartFrame
  <1>23. ASSUME TakeResult
        PROVE  StartDivides'
    <2>1. StreamsStay
      BY <1>23, <1>a, NamesApart
      DEF StreamsStay, OtherTypes, Ended, Queues, Feeds, Loops, Streams, TakeResult, Decide, Goes, Stop, Idle, CloseAs, CloseUnrecorded, Closed, Recorded,
          AnotherEnd, servingVars, socketVars, feedVars
    <2> QED
      BY <1>t, <2>1, StartFrame
  <1>24. ASSUME Disconnect
        PROVE  StartDivides'
    <2>1. StreamsStay
      BY <1>24, <1>a, NamesApart
      DEF StreamsStay, OtherTypes, Ended, Queues, Feeds, Loops, Streams, Disconnect, Goes, Stop, Idle, CloseAs, CloseUnrecorded, Closed, Recorded, AnotherEnd,
          servingVars, socketVars, feedVars
    <2> QED
      BY <1>t, <2>1, StartFrame
  <1>25. ASSUME LogEnd
        PROVE  StartDivides'
    <2>1. StreamsStay
      BY <1>25, <1>a, NamesApart
      DEF StreamsStay, OtherTypes, Ended, Queues, Feeds, Loops, Streams, LogEnd, Goes, Stop, Idle, CloseAs, CloseUnrecorded, Closed, Recorded, AnotherEnd,
          servingVars, socketVars, feedVars
    <2> QED
      BY <1>t, <2>1, StartFrame
  <1>26. ASSUME Unresponsive
        PROVE  StartDivides'
    <2>1. StreamsStay
      BY <1>26, <1>a, NamesApart
      DEF StreamsStay, OtherTypes, Ended, Queues, Feeds, Loops, Streams, Unresponsive, Decide, Goes, Stop, Idle, CloseAs, CloseUnrecorded, Closed, Recorded,
          AnotherEnd, servingVars, socketVars, feedVars
    <2> QED
      BY <1>t, <2>1, StartFrame
  <1>27. ASSUME ShutDown
        PROVE  StartDivides'
    <2>1. StreamsStay
      BY <1>27, <1>a, NamesApart
      DEF StreamsStay, OtherTypes, Ended, Queues, Feeds, Loops, Streams, ShutDown, Decide, Goes, Stop, Idle, CloseAs, CloseUnrecorded, Closed, Recorded,
          AnotherEnd, servingVars, socketVars, feedVars
    <2> QED
      BY <1>t, <2>1, StartFrame
  <1>28. ASSUME NEW f \in Feeds, Publish(f)
        PROVE  StartDivides'
    <2>1. /\ UNCHANGED <<kind, phase, sent, game, client, pc, out>> /\ ~Ended
          /\ f = "lobby" <=> ~game.started
          /\ f = "roster" => kind = "player"
          /\ f # "lobby" => pending'["lobby"] = pending["lobby"]
          /\ f # "views" => published'["views"] = published["views"]
          /\ f # "roster" => published'["roster"] = published["roster"]
      BY <1>28, <1>a DEF Publish, Publishes, OtherTypes, Queues, Feeds
    <2>2. /\ \A what : Sent(what)' = Sent(what)
          /\ StartSent' <=> StartSent
          /\ \A a, b : Before(a, b)' <=> Before(a, b)
      BY <2>1, SentStays
    <2> QED
      BY <1>t, <2>1, <2>2 DEF Ended, StartDivides, PreviewIsStarted, StartOpensViews, LobbyIsDone, SessionSays, RosterFollows, PublishedOnceStarted, Feeds
  <1>29. ASSUME RuntimeStarts
        PROVE  StartDivides'
    <2>1. StreamsStay
      BY <1>29, <1>a, NamesApart
      DEF StreamsStay, OtherTypes, Ended, Queues, Feeds, Loops, Streams, RuntimeStarts, Goes, Stop, Idle, CloseAs, CloseUnrecorded, Closed, Recorded, AnotherEnd,
          servingVars, socketVars, feedVars
    <2> QED
      BY <1>t, <2>1, StartFrame
  <1>30. ASSUME RuntimeEnds
        PROVE  StartDivides'
    <2>1. StreamsStay
      BY <1>30, <1>a, NamesApart
      DEF StreamsStay, OtherTypes, Ended, Queues, Feeds, Loops, Streams, RuntimeEnds, Goes, Stop, Idle, CloseAs, CloseUnrecorded, Closed, Recorded, AnotherEnd,
          servingVars, socketVars, feedVars
    <2> QED
      BY <1>t, <2>1, StartFrame
  <1>31. ASSUME ClientCloses
        PROVE  StartDivides'
    <2>1. StreamsStay
      BY <1>31, <1>a, NamesApart
      DEF StreamsStay, OtherTypes, Ended, Queues, Feeds, Loops, Streams, ClientCloses, Goes, Stop, Idle, CloseAs, CloseUnrecorded, Closed, Recorded, AnotherEnd,
          servingVars, socketVars, feedVars
    <2> QED
      BY <1>t, <2>1, StartFrame
  <1>32. ASSUME ClientStalls
        PROVE  StartDivides'
    <2>1. StreamsStay
      BY <1>32, <1>a, NamesApart
      DEF StreamsStay, OtherTypes, Ended, Queues, Feeds, Loops, Streams, ClientStalls, Goes, Stop, Idle, CloseAs, CloseUnrecorded, Closed, Recorded, AnotherEnd,
          servingVars, socketVars, feedVars
    <2> QED
      BY <1>t, <2>1, StartFrame
  <1>33. CASE UNCHANGED servedVars
    <2>1. StreamsStay
      BY <1>33 DEF servedVars, StreamsStay, Ended
    <2> QED
      BY <1>t, <2>1, StartFrame
  <1> QED
    BY <1>1, <1>2, <1>3, <1>4, <1>5, <1>6, <1>7, <1>8, <1>9, <1>10, <1>11, <1>12, <1>13, <1>14,
       <1>15, <1>16, <1>17, <1>18, <1>19, <1>20, <1>21, <1>22, <1>23, <1>24, <1>25, <1>26, <1>27,
       <1>28, <1>29, <1>30, <1>31, <1>32, <1>33 DEF ServedNext, Reader, Lane, Stream, Closer,
       Socket, Serve, Environment, Over

(***************************************************************************)
(* The numbers.                                                            *)
(***************************************************************************)
\* Holding less, or allowing more, keeps a line.
LEMMA LineKept ==
  ASSUME NEW q, NEW s \in Seq(Message), NEW h \in Seq(Message), NEW p \in Seq(Message), NEW top \in Nat,
         InLine(q, s, h, p, top), NEW g \in Seq(Message), NEW more \in Nat, top <= more,
         \A i \in 1 .. Len(g) : g[i].what = q => \E j \in 1 .. Len(h) : h[j] = g[i]
  PROVE  InLine(q, s, g, p, more)
  <1>1. WaitInLine(p, more)
    BY DEF InLine, WaitInLine
  <1>2. HeldInLine(q, g, p, more)
    <2> SUFFICES ASSUME NEW i \in 1 .. Len(g), g[i].what = q
                 PROVE  g[i].n \in 1 .. more /\ \A j \in 1 .. Len(p) : g[i].n < p[j].n
      BY DEF HeldInLine
    <2>1. PICK k \in 1 .. Len(h) : h[k] = g[i]
      OBVIOUS
    <2> QED
      BY <2>1 DEF InLine, HeldInLine
  <1>3. SentInLine(q, s, g, p, more)
    <2> SUFFICES ASSUME NEW i \in 1 .. Len(s), s[i].what = q
                 PROVE  /\ s[i].n \in 1 .. more
                        /\ \A j \in 1 .. Len(g) : g[j].what = q => s[i].n < g[j].n
                        /\ \A j \in 1 .. Len(p) : s[i].n < p[j].n
                        /\ \A j \in 1 .. Len(s) : s[j].what = q /\ i < j => s[i].n < s[j].n
      BY DEF SentInLine
    <2>1. /\ s[i].n \in 1 .. top
          /\ \A j \in 1 .. Len(h) : h[j].what = q => s[i].n < h[j].n
          /\ \A j \in 1 .. Len(p) : s[i].n < p[j].n
          /\ \A j \in 1 .. Len(s) : s[j].what = q /\ i < j => s[i].n < s[j].n
      BY DEF InLine, SentInLine
    <2>2. ASSUME NEW j \in 1 .. Len(g), g[j].what = q
          PROVE  s[i].n < g[j].n
      <3>1. PICK k \in 1 .. Len(h) : h[k] = g[j]
        BY <2>2
      <3> QED
        BY <2>1, <2>2, <3>1
    <2> QED
      BY <2>1, <2>2
  <1> QED
    BY <1>1, <1>2, <1>3 DEF InLine

\* What is produced next goes last.
LEMMA LineJoined ==
  ASSUME NEW q, NEW s \in Seq(Message), NEW h \in Seq(Message), NEW p \in Seq(Message), NEW top \in Nat,
         InLine(q, s, h, p, top), NEW m \in Message, m.n > top
  PROVE  InLine(q, s, h, Append(p, m), m.n) /\ InLine(q, s, h, <<m>>, m.n)
  <1>1. \A x \in Message : x.n \in Nat
    BY MessageType
  <1>2. /\ Len(Append(p, m)) = Len(p) + 1 /\ Len(p) \in Nat
        /\ \A i \in 1 .. Len(p) : Append(p, m)[i] = p[i] /\ p[i] \in Message
        /\ Append(p, m)[Len(p) + 1] = m
    OBVIOUS
  <1>3. \A i \in 1 .. Len(Append(p, m)) : i \in 1 .. Len(p) \/ i = Len(p) + 1
    BY <1>2
  <1>4. \A i \in 1 .. Len(s) : s[i] \in Message
    OBVIOUS
  <1>5. \A i \in 1 .. Len(h) : h[i] \in Message
    OBVIOUS
  <1>6. Len(<<m>>) = 1 /\ <<m>>[1] = m
    OBVIOUS
  <1>7. m.n \in Nat
    BY <1>1
  <1> DEFINE w == Append(p, m)
  <1>8. InLine(q, s, h, w, m.n)
    <2> HIDE DEF w
    <2>1. /\ Len(w) = Len(p) + 1 /\ Len(p) \in Nat
          /\ \A i \in 1 .. Len(w) : \/ i \in 1 .. Len(p) /\ w[i] = p[i] /\ p[i] \in Message
                                    \/ i = Len(p) + 1 /\ w[i] = m
      BY <1>2, <1>3 DEF w
    <2>a. \A i \in 1 .. Len(w) : \/ i \in 1 .. Len(p) /\ w[i] = p[i]
                                 \/ i = Len(p) + 1 /\ w[i] = m
      BY <2>1
    <2>b. \A i \in 1 .. Len(p) : p[i].n \in 1 .. top /\ p[i].n \in Nat
      BY DEF InLine, WaitInLine
    <2>2. WaitInLine(w, m.n)
      <3> SUFFICES ASSUME NEW i \in 1 .. Len(w)
                   PROVE  w[i].n \in 1 .. m.n /\ \A j \in 1 .. Len(w) : i < j => w[i].n < w[j].n
        BY DEF WaitInLine
      <3>1. CASE i \in 1 .. Len(p) /\ w[i] = p[i]
        <4>1. ASSUME NEW j \in 1 .. Len(w), i < j
              PROVE  p[i].n < w[j].n
          <5>1. CASE j \in 1 .. Len(p) /\ w[j] = p[j]
            BY <3>1, <4>1, <5>1 DEF InLine, WaitInLine
          <5>2. CASE w[j] = m
            BY <1>7, <2>b, <3>1, <5>2
          <5> QED
            BY <2>a, <5>1, <5>2
        <4> QED
          BY <1>7, <2>b, <3>1, <4>1
      <3>2. CASE i = Len(p) + 1 /\ w[i] = m
        <4>1. \A j \in 1 .. Len(w) : ~(i < j)
          BY <2>1, <3>2
        <4>2. m.n \in 1 .. m.n
          BY <1>7
        <4> QED
          BY <3>2, <4>1, <4>2
      <3> QED
        BY <2>a, <3>1, <3>2
    <2>3. HeldInLine(q, h, w, m.n)
      <3> SUFFICES ASSUME NEW i \in 1 .. Len(h), h[i].what = q
                   PROVE  h[i].n \in 1 .. m.n /\ \A j \in 1 .. Len(w) : h[i].n < w[j].n
        BY DEF HeldInLine
      <3>1. h[i].n \in 1 .. top /\ \A j \in 1 .. Len(p) : h[i].n < p[j].n
        BY DEF InLine, HeldInLine
      <3>2. ASSUME NEW j \in 1 .. Len(w)
            PROVE  h[i].n < w[j].n
        <4>1. CASE j \in 1 .. Len(p) /\ w[j] = p[j]
          BY <3>1, <4>1
        <4>2. CASE w[j] = m
          BY <1>7, <3>1, <4>2
        <4> QED
          BY <2>a, <4>1, <4>2
      <3> QED
        BY <1>7, <3>1, <3>2
    <2>4. SentInLine(q, s, h, w, m.n)
      <3> SUFFICES ASSUME NEW i \in 1 .. Len(s), s[i].what = q
                   PROVE  /\ s[i].n \in 1 .. m.n
                          /\ \A j \in 1 .. Len(h) : h[j].what = q => s[i].n < h[j].n
                          /\ \A j \in 1 .. Len(w) : s[i].n < w[j].n
                          /\ \A j \in 1 .. Len(s) : s[j].what = q /\ i < j => s[i].n < s[j].n
        BY DEF SentInLine
      <3>1. /\ s[i].n \in 1 .. top
            /\ \A j \in 1 .. Len(h) : h[j].what = q => s[i].n < h[j].n
            /\ \A j \in 1 .. Len(p) : s[i].n < p[j].n
            /\ \A j \in 1 .. Len(s) : s[j].what = q /\ i < j => s[i].n < s[j].n
        BY DEF InLine, SentInLine
      <3>2. \A j \in 1 .. Len(w) : s[i].n < w[j].n
        BY <1>7, <2>a, <3>1
      <3> QED
        BY <1>7, <3>1, <3>2
    <2> QED
      BY <2>2, <2>3, <2>4 DEF InLine
  <1>9. InLine(q, s, h, <<m>>, m.n)
    <2> DEFINE v == <<m>>
    <2>1. Len(v) = 1 /\ \A i \in 1 .. Len(v) : i = 1 /\ v[i] = m
      BY <1>6
    <2> HIDE DEF v
    <2>2. WaitInLine(v, m.n)
      BY <1>1, <1>7, <2>1 DEF WaitInLine
    <2>3. HeldInLine(q, h, v, m.n)
      BY <1>1, <1>5, <1>7, <2>1 DEF InLine, HeldInLine
    <2>4. SentInLine(q, s, h, v, m.n)
      BY <1>1, <1>4, <1>7, <2>1 DEF InLine, SentInLine
    <2> QED
      BY <2>2, <2>3, <2>4 DEF InLine, v
  <1> QED
    BY <1>8, <1>9

\* The first that waits is taken once the one held is gone.
LEMMA LineTaken ==
  ASSUME NEW q, NEW s \in Seq(Message), NEW h \in Seq(Message), NEW p \in Seq(Message), NEW top \in Nat,
         InLine(q, s, h, p, top), p # <<>>, NEW g \in Seq(Message),
         \A i \in 1 .. Len(g) : g[i].what = q => g[i] = p[1]
  PROVE  InLine(q, s, g, Tail(p), top)
  <1>1. /\ Len(p) \in Nat /\ Len(p) >= 1 /\ Len(Tail(p)) = Len(p) - 1
        /\ \A i \in 1 .. Len(Tail(p)) : Tail(p)[i] = p[i + 1]
    OBVIOUS
  <1>2. \A i \in 1 .. Len(g), j \in 1 .. Len(g) : g[i].what = q /\ g[j].what = q => g[i] = g[j]
    OBVIOUS
  <1>3. \A i \in 1 .. Len(Tail(p)) : i + 1 \in 1 .. Len(p)
    BY <1>1
  <1> QED
    BY <1>1, <1>2, <1>3 DEF InLine, WaitInLine, HeldInLine, SentInLine

\* What is sent is what was held, or of another queue.
LEMMA LineSent ==
  ASSUME NEW q, NEW s \in Seq(Message), NEW h \in Seq(Message), NEW p \in Seq(Message), NEW top \in Nat,
         InLine(q, s, h, p, top), NEW m \in Message, NEW g \in Seq(Message),
         \/ m.what # q /\ \A i \in 1 .. Len(g) : g[i].what = q => \E j \in 1 .. Len(h) : h[j] = g[i]
         \/ (\E j \in 1 .. Len(h) : h[j] = m) /\ \A i \in 1 .. Len(g) : g[i].what # q
  PROVE  InLine(q, Append(s, m), g, p, top)
  <1> DEFINE t == Append(s, m)
  <1>1. /\ Len(t) = Len(s) + 1 /\ Len(s) \in Nat
        /\ \A i \in 1 .. Len(t) : \/ i \in 1 .. Len(s) /\ t[i] = s[i]
                                  \/ i = Len(s) + 1 /\ t[i] = m
    OBVIOUS
  <1> HIDE DEF t
  <1>2. \A i \in 1 .. Len(g) : g[i].what = q => m.what # q /\ \E j \in 1 .. Len(h) : h[j] = g[i]
    OBVIOUS
  <1>3. m.what = q => \E j \in 1 .. Len(h) : h[j] = m
    OBVIOUS
  <1>4. WaitInLine(p, top)
    BY DEF InLine
  <1>5. HeldInLine(q, g, p, top)
    <2> SUFFICES ASSUME NEW i \in 1 .. Len(g), g[i].what = q
                 PROVE  g[i].n \in 1 .. top /\ \A j \in 1 .. Len(p) : g[i].n < p[j].n
      BY DEF HeldInLine
    <2>1. PICK k \in 1 .. Len(h) : h[k] = g[i]
      BY <1>2
    <2> QED
      BY <2>1 DEF InLine, HeldInLine
  <1>6. m.what = q => /\ m.n \in 1 .. top
                      /\ \A j \in 1 .. Len(p) : m.n < p[j].n
                      /\ \A j \in 1 .. Len(s) : s[j].what = q => s[j].n < m.n
    <2> SUFFICES ASSUME m.what = q
                 PROVE  /\ m.n \in 1 .. top
                        /\ \A j \in 1 .. Len(p) : m.n < p[j].n
                        /\ \A j \in 1 .. Len(s) : s[j].what = q => s[j].n < m.n
      OBVIOUS
    <2>1. PICK k \in 1 .. Len(h) : h[k] = m
      BY <1>3
    <2> QED
      BY <2>1 DEF InLine, HeldInLine, SentInLine
  <1>7. SentInLine(q, t, g, p, top)
    <2> SUFFICES ASSUME NEW i \in 1 .. Len(t), t[i].what = q
                 PROVE  /\ t[i].n \in 1 .. top
                        /\ \A j \in 1 .. Len(g) : g[j].what = q => t[i].n < g[j].n
                        /\ \A j \in 1 .. Len(p) : t[i].n < p[j].n
                        /\ \A j \in 1 .. Len(t) : t[j].what = q /\ i < j => t[i].n < t[j].n
      BY DEF SentInLine
    <2>1. CASE i \in 1 .. Len(s) /\ t[i] = s[i]
      <3>1. /\ s[i].n \in 1 .. top
            /\ \A j \in 1 .. Len(h) : h[j].what = q => s[i].n < h[j].n
            /\ \A j \in 1 .. Len(p) : s[i].n < p[j].n
            /\ \A j \in 1 .. Len(s) : s[j].what = q /\ i < j => s[i].n < s[j].n
        BY <2>1 DEF InLine, SentInLine
      <3>2. ASSUME NEW j \in 1 .. Len(g), g[j].what = q
            PROVE  s[i].n < g[j].n
        <4>1. PICK k \in 1 .. Len(h) : h[k] = g[j]
          BY <1>2, <3>2
        <4> QED
          BY <3>1, <3>2, <4>1
      <3>3. ASSUME NEW j \in 1 .. Len(t), t[j].what = q, i < j
            PROVE  s[i].n < t[j].n
        <4>1. CASE j \in 1 .. Len(s) /\ t[j] = s[j]
          BY <3>1, <3>3, <4>1
        <4>2. CASE t[j] = m
          BY <1>6, <2>1, <3>3, <4>2
        <4> QED
          BY <1>1, <4>1, <4>2
      <3> QED
        BY <2>1, <3>1, <3>2, <3>3
    <2>2. CASE i = Len(s) + 1 /\ t[i] = m
      <3>1. m.what = q /\ \A j \in 1 .. Len(g) : g[j].what # q
        BY <1>2, <2>2
      <3>2. \A j \in 1 .. Len(t) : ~(i < j)
        BY <1>1, <2>2
      <3> QED
        BY <1>6, <2>2, <3>1, <3>2
    <2> QED
      BY <1>1, <2>1, <2>2
  <1> QED
    BY <1>4, <1>5, <1>7 DEF InLine, t

\* A queue has its taker, and nothing beyond what was published of it.
LEMMA LineTypes ==
  ASSUME out \in [Loops -> Seq(Message)], OtherTypes, OfferIsNext, NEW q \in Queues
  PROVE  /\ Taker(q) \in Loops \ {"reader", "closer"} /\ out[Taker(q)] \in Seq(Message)
         /\ pending[q] \in Seq(Message) /\ sent \in Seq(Message)
         /\ Past(q) \in Nat /\ Past(q) <= published[q] /\ published[q] \in Nat
         /\ q \notin Closings \cup EndMessages \cup {"start", "acting", "rate_limited"}
  <1>1. Taker(q) \in Loops \ {"reader", "closer"}
    BY NamesApart DEF Taker, Queues, Feeds, Loops
  <1>2. published[q] \in Nat /\ pending[q] \in Seq(Message) /\ sent \in Seq(Message)
    BY DEF OtherTypes
  <1>3. Past(q) \in Nat /\ Past(q) <= published[q]
    BY <1>2 DEF Past, OfferIsNext
  <1>4. q \notin Closings \cup EndMessages \cup {"start", "acting", "rate_limited"}
    BY NamesApart DEF Queues, Feeds, Closings, EndMessages, RecordedEnds
  <1> QED
    BY <1>1, <1>2, <1>3, <1>4

\* The same after a step.
LEMMA LineTypesNext ==
  ASSUME out' \in [Loops -> Seq(Message)], OtherTypes', OfferIsNext', NEW q \in Queues
  PROVE  /\ Taker(q) \in Loops \ {"reader", "closer"} /\ out'[Taker(q)] \in Seq(Message)
         /\ pending'[q] \in Seq(Message) /\ sent' \in Seq(Message)
         /\ Past(q)' \in Nat /\ Past(q)' <= published'[q] /\ published'[q] \in Nat
  <1>1. Taker(q) \in Loops \ {"reader", "closer"}
    BY NamesApart DEF Taker, Queues, Feeds, Loops
  <1>2. published'[q] \in Nat /\ pending'[q] \in Seq(Message) /\ sent' \in Seq(Message)
    BY DEF OtherTypes
  <1>3. Past(q)' \in Nat /\ Past(q)' <= published'[q]
    BY <1>2 DEF Past, OfferIsNext
  <1> QED
    BY <1>1, <1>2, <1>3

\* Loops keep what they hold of the queues, or let it go.
LinesStay ==
  /\ UNCHANGED <<sent, pending, published>>
  /\ \/ pc'["reader"] = pc["reader"] /\ out'["reader"] = out["reader"]
     \/ pc'["reader"] # "offer"
  /\ \A k \in Loops \ {"reader", "closer"} :
       \/ out'[k] = out[k] \/ out'[k] = <<>>
       \/ Len(out'[k]) = 1 /\ out'[k][1].what \in Closings \cup {"start"}

\* Such a step keeps the numbers in order.
LEMMA LineFrame ==
  ASSUME ServedTypes, ServedTypes', NumbersAgree, LinesStay
  PROVE  NumbersAgree'
  <1>a. /\ pc \in [Loops -> Places] /\ out \in [Loops -> Seq(Message)] /\ OtherTypes
        /\ out' \in [Loops -> Seq(Message)] /\ OtherTypes'
    BY TypesSplit
  <1>1. OfferIsNext'
    BY DEF NumbersAgree, OfferIsNext, LinesStay
  <1>2. ASSUME NEW q \in Queues
        PROVE  Ordered(q)'
    <2>1. /\ Taker(q) \in Loops \ {"reader", "closer"} /\ out[Taker(q)] \in Seq(Message)
          /\ pending[q] \in Seq(Message) /\ sent \in Seq(Message)
          /\ Past(q) \in Nat /\ Past(q) <= published[q] /\ published[q] \in Nat
          /\ q \notin Closings \cup {"start"}
      BY <1>a, LineTypes DEF NumbersAgree
    <2>2. out'[Taker(q)] \in Seq(Message) /\ Past(q)' \in Nat
      BY <1>1, <1>a, LineTypesNext
    <2>3. Past(q) <= Past(q)'
      BY <2>1 DEF Past, LinesStay
    <2>4. \A i \in 1 .. Len(out'[Taker(q)]) :
            out'[Taker(q)][i].what = q => \E j \in 1 .. Len(out[Taker(q)]) : out[Taker(q)][j] = out'[Taker(q)][i]
      <3>1. CASE out'[Taker(q)] = out[Taker(q)]
        BY <3>1
      <3>2. CASE out'[Taker(q)] = <<>>
        BY <3>2
      <3>3. CASE Len(out'[Taker(q)]) = 1 /\ out'[Taker(q)][1].what \in Closings \cup {"start"}
        BY <2>1, <3>3
      <3> QED
        BY <2>1, <3>1, <3>2, <3>3 DEF LinesStay
    <2>5. InLine(q, sent, out[Taker(q)], pending[q], Past(q))
      BY DEF NumbersAgree, Ordered
    <2>6. InLine(q, sent, out'[Taker(q)], pending[q], Past(q)')
      BY <2>1, <2>2, <2>3, <2>4, <2>5, LineKept
    <2> QED
      BY <2>6 DEF Ordered, LinesStay, Taker
  <1> QED
    BY <1>1, <1>2 DEF NumbersAgree

\* What a loop writes of a feed, or of a lane, is its own.
LEMMA WritesOwn ==
  ASSUME NEW l \in Loops, NEW m \in Message, Writable(l, m), NEW q \in Queues, m.what = q
  PROVE  l = Taker(q)
  <1>1. m.what \notin EndMessages \cup {"rate_limited", "acting", "start"}
    BY NamesApart DEF Queues, Feeds, EndMessages, Closings, RecordedEnds
  <1> QED
    BY <1>1, NamesApart DEF Writable, Taker, Queues, Feeds

\* Every step keeps the numbers in order.
LEMMA NumbersStep ==
  ServedTypes /\ LoopsHold /\ StartDivides /\ NumbersAgree /\ [ServedNext]_servedVars => NumbersAgree'
  <1> SUFFICES ASSUME ServedTypes, LoopsHold, StartDivides, NumbersAgree, [ServedNext]_servedVars
               PROVE  NumbersAgree'
    OBVIOUS
  <1>a. pc \in [Loops -> Places] /\ out \in [Loops -> Seq(Message)] /\ OtherTypes /\ LoopsHold
    BY TypesSplit
  <1>b. pc' \in [Loops -> Places] /\ out' \in [Loops -> Seq(Message)] /\ OtherTypes' /\ ServedTypes'
    BY TypeStep, TypesSplit
  <1>s. StartDivides
    OBVIOUS
  <1>t. ServedTypes /\ ServedTypes' /\ NumbersAgree
    BY <1>b
  <1>1. ASSUME NEW l \in Lanes, ReadMessage(l)
        PROVE  NumbersAgree'
    <2> DEFINE m == [what |-> l, n |-> published[l] + 1]
    <2>1. /\ UNCHANGED <<sent, pending>> /\ published' = [published EXCEPT ![l] = @ + 1]
          /\ pc["reader"] = "read" /\ pc'["reader"] = "offer" /\ out'["reader"] = <<m>>
          /\ \A j \in Loops \ {"reader"} : out'[j] = out[j]
      BY <1>1, <1>a DEF ReadMessage, Goes, Loops
    <2>2. out'["reader"][1].what = l /\ out'["reader"][1].n = published[l] + 1
      <3>1. m.what = l /\ m.n = published[l] + 1
        OBVIOUS
      <3> HIDE DEF m
      <3> QED
        BY <2>1, <3>1
    <2>3. l \in Queues /\ published[l] \in Nat /\ published'[l] = published[l] + 1
      BY <1>a, <2>1 DEF Queues, OtherTypes
    <2>4. OfferIsNext'
      BY <2>2, <2>3 DEF OfferIsNext
    <2>5. ASSUME NEW q \in Queues
          PROVE  Ordered(q)'
      <3>1. Taker(q) \in Loops \ {"reader", "closer"}
        BY <1>a, <1>t, LineTypes DEF NumbersAgree
      <3>2. Past(q)' = Past(q)
        BY <1>a, <2>1, <2>2, <2>3 DEF Past, OtherTypes
      <3> QED
        BY <1>t, <2>1, <3>1, <3>2 DEF NumbersAgree, Ordered, Taker
    <2> QED
      BY <2>4, <2>5 DEF NumbersAgree
  <1>2. ASSUME ReadRefused
        PROVE  NumbersAgree'
    <2>1. UNCHANGED <<sent, pending, published>>
      BY <1>2 DEF ReadRefused, Goes, Stop, Idle, CloseAs, CloseUnrecorded, Closed, Recorded, AnotherEnd,
          servingVars, socketVars, feedVars
    <2>2. pc'["reader"] # "offer" /\ \A k \in Loops \ {"reader"} : out'[k] = out[k]
      BY <1>2, <1>a DEF Loops, ReadRefused, Goes, Stop, Idle, CloseAs, CloseUnrecorded, Closed, Recorded, AnotherEnd,
          servingVars, socketVars, feedVars
    <2>3. LinesStay
      BY <2>1, <2>2 DEF LinesStay, Loops
    <2> QED
      BY <1>t, <2>3, LineFrame
  <1>3. ASSUME ReadFails
        PROVE  NumbersAgree'
    <2>1. UNCHANGED <<sent, pending, published>>
      BY <1>3 DEF ReadFails, Goes, Stop, Idle, CloseAs, CloseUnrecorded, Closed, Recorded, AnotherEnd,
          servingVars, socketVars, feedVars
    <2>2. pc'["reader"] # "offer" /\ \A k \in Loops \ {"reader"} : out'[k] = out[k]
      BY <1>3, <1>a DEF Loops, ReadFails, Goes, Stop, Idle, CloseAs, CloseUnrecorded, Closed, Recorded, AnotherEnd,
          servingVars, socketVars, feedVars
    <2>3. LinesStay
      BY <2>1, <2>2 DEF LinesStay, Loops
    <2> QED
      BY <1>t, <2>3, LineFrame
  <1>4. ASSUME Offer
        PROVE  NumbersAgree'
    <2>1. PICK lane \in Lanes : out["reader"][1].what = lane /\ Head(out["reader"]) = out["reader"][1]
      BY <1>4, <1>a DEF Offer, LoopsHold, MayHold, ReaderMayHold, Only, Loops
    <2>2. /\ UNCHANGED <<sent, published, out>> /\ pc["reader"] = "offer" /\ pc'["reader"] = "wake"
          /\ pending' = [pending EXCEPT ![lane] = Append(@, out["reader"][1])]
      BY <1>4, <1>a, <2>1 DEF Offer, Goes, Loops
    <2>3. OfferIsNext'
      BY <2>2 DEF OfferIsNext
    <2>4. out["reader"][1] \in Message /\ out["reader"][1].n = published[lane] /\ lane \in Queues
      BY <1>4, <1>a, <1>t, <2>1, <2>2 DEF NumbersAgree, OfferIsNext, Queues, LoopsHold, MayHold, ReaderMayHold, Only, Loops
    <2>5. ASSUME NEW q \in Queues
          PROVE  Ordered(q)'
      <3>1. /\ Taker(q) \in Loops \ {"reader", "closer"} /\ out[Taker(q)] \in Seq(Message)
            /\ pending[q] \in Seq(Message) /\ sent \in Seq(Message)
            /\ Past(q) \in Nat /\ Past(q) <= published[q] /\ published[q] \in Nat
        BY <1>a, <1>t, LineTypes DEF NumbersAgree
      <3>2. InLine(q, sent, out[Taker(q)], pending[q], Past(q))
        BY <1>t DEF NumbersAgree, Ordered
      <3>3. CASE q = lane
        <4>1. Past(q) = published[q] - 1 /\ Past(q)' = published[q]
          BY <2>1, <2>2, <3>3 DEF Past
        <4>a. out["reader"][1].n > Past(q) /\ out["reader"][1].n = published[q]
          BY <2>4, <3>1, <3>3, <4>1
        <4>2. InLine(q, sent, out[Taker(q)], Append(pending[q], out["reader"][1]), published[q])
          <5> DEFINE x == out["reader"][1]
          <5>1. x \in Message /\ x.n > Past(q)
            BY <2>4, <4>a
          <5> HIDE DEF x
          <5>2. InLine(q, sent, out[Taker(q)], Append(pending[q], x), x.n)
            BY <3>1, <3>2, <5>1, LineJoined
          <5> QED
            BY <4>a, <5>2 DEF x
        <4>3. pending'[q] = Append(pending[q], out["reader"][1])
          BY <1>a, <2>2, <3>3 DEF OtherTypes
        <4> QED
          BY <2>2, <4>1, <4>2, <4>3 DEF Ordered, Taker
      <3>4. CASE q # lane
        <4>1. Past(q)' = Past(q) /\ pending'[q] = pending[q]
          BY <1>a, <2>1, <2>2, <3>4 DEF Past, OtherTypes
        <4> QED
          BY <2>2, <3>2, <4>1 DEF Ordered, Taker
      <3> QED
        BY <3>3, <3>4
    <2> QED
      BY <2>3, <2>5 DEF NumbersAgree
  <1>5. ASSUME WakeLane
        PROVE  NumbersAgree'
    <2>1. UNCHANGED <<sent, pending, published>>
      BY <1>5 DEF WakeLane, Woken, Goes, Stop, Idle, CloseAs, CloseUnrecorded, Closed, Recorded,
          AnotherEnd, servingVars, socketVars, feedVars
    <2>2. pc'["reader"] # "offer" /\ \A k \in Loops \ {"reader"} : out'[k] = out[k]
      BY <1>5, <1>a DEF Loops, WakeLane, Woken, Goes, Stop, Idle, CloseAs, CloseUnrecorded, Closed, Recorded,
          AnotherEnd, servingVars, socketVars, feedVars
    <2>3. LinesStay
      BY <2>1, <2>2 DEF LinesStay, Loops
    <2> QED
      BY <1>t, <2>3, LineFrame
  <1>6. ASSUME Refuse
        PROVE  NumbersAgree'
    <2>1. UNCHANGED <<sent, pending, published>>
      BY <1>6 DEF Refuse, RateLimitedAnswer, Goes, Stop, Idle, CloseAs, CloseUnrecorded, Closed, Recorded,
          AnotherEnd, servingVars, socketVars, feedVars
    <2>2. pc'["reader"] # "offer" /\ \A k \in Loops \ {"reader"} : out'[k] = out[k]
      BY <1>6, <1>a DEF Loops, Refuse, RateLimitedAnswer, Goes, Stop, Idle, CloseAs, CloseUnrecorded, Closed, Recorded,
          AnotherEnd, servingVars, socketVars, feedVars
    <2>3. LinesStay
      BY <2>1, <2>2 DEF LinesStay, Loops
    <2> QED
      BY <1>t, <2>3, LineFrame
  <1>7. ASSUME NEW l \in Lanes, NextMessage(l)
        PROVE  NumbersAgree'
    <2> DEFINE src == Source(l)
    <2>1. /\ UNCHANGED <<sent, published>> /\ pc'["reader"] = pc["reader"] /\ out'["reader"] = out["reader"]
          /\ \A j \in Loops \ {l} : out'[j] = out[j]
      <3>1. UNCHANGED <<sent, published>> /\ pc[l] = "next" /\ l \in Loops /\ l # "reader"
        BY <1>7, NamesApart DEF NextMessage, Loops, Streams
      <3>2. CASE TakeFrom(l)
        BY <1>a, <3>1, <3>2 DEF TakeFrom, Goes, Loops
      <3>3. CASE ~TakeFrom(l)
        BY <1>7, <1>a, <3>1, <3>3 DEF NextMessage, Goes, Stop, Loops
      <3> QED
        BY <3>1, <3>2, <3>3
    <2>2. OfferIsNext' /\ \A q \in Queues : Past(q)' = Past(q)
      BY <1>t, <2>1 DEF NumbersAgree, OfferIsNext, Past
    <2>3. out[l] = <<>> /\ src \in Queues /\ l = Taker(src) /\ l \in Loops
      <3>1. pc[l] = "next" /\ l \in Loops
        BY <1>7 DEF NextMessage, Loops, Streams
      <3>2. out[l] = <<>>
        BY <1>a, <3>1 DEF LoopsHold, MayHold, LaneMayHold, ReaderMayHold, CloserMayHold, RosterMayHold, SessionMayHold, Loops
      <3> QED
        BY <1>a, <3>1, <3>2, NamesApart DEF Source, Taker, OtherTypes, Queues, Feeds, Streams
    <2>4. ASSUME NEW q \in Queues
          PROVE  Ordered(q)'
      <3>1. /\ Taker(q) \in Loops \ {"reader", "closer"} /\ out[Taker(q)] \in Seq(Message)
            /\ pending[q] \in Seq(Message) /\ sent \in Seq(Message)
            /\ Past(q) \in Nat
            /\ q \notin Closings \cup EndMessages \cup {"start", "acting", "rate_limited"}
        BY <1>a, <1>t, LineTypes DEF NumbersAgree
      <3>2. InLine(q, sent, out[Taker(q)], pending[q], Past(q))
        BY <1>t DEF NumbersAgree, Ordered
      <3>3. CASE ~TakeFrom(l)
        <4>1. out' = out /\ pending' = pending
          BY <1>7, <3>3 DEF NextMessage
        <4> QED
          BY <2>1, <2>2, <3>2, <4>1 DEF Ordered, Taker
      <3>4. CASE TakeFrom(l) /\ Taker(q) # l
        <4>1. out'[Taker(q)] = out[Taker(q)]
          BY <2>1, <3>1, <3>4
        <4>2. pending'[q] = pending[q]
          BY <1>a, <2>3, <3>4 DEF TakeFrom, OtherTypes
        <4> QED
          BY <2>1, <2>2, <3>2, <4>1, <4>2 DEF Ordered, Taker
      <3>5. CASE TakeFrom(l) /\ Taker(q) = l
        <4>1. /\ pending[src] # <<>> /\ pending' = [pending EXCEPT ![src] = Tail(@)]
              /\ out'[l] = Writes(l, Head(pending[src]))
          BY <1>a, <2>3, <3>5 DEF TakeFrom
        <4>2. Head(pending[src]) = pending[src][1] /\ Head(pending[src]).what = src
          BY <1>a, <2>3, <4>1, WaitingType
        <4>3. \A i \in 1 .. Len(out'[l]) : out'[l][i].what = "acting" \/ out'[l][i] = pending[src][1]
          <5> DEFINE item == Head(pending[src])
                     told == [what |-> "acting", n |-> item.n, actor |-> item.actor]
          <5>1. out'[l] = <<told, item>> \/ out'[l] = <<item>>
            BY <4>1 DEF Writes
          <5>2. told.what = "acting" /\ item = pending[src][1]
            BY <4>2
          <5> HIDE DEF told, item
          <5> QED
            BY <5>1, <5>2
        <4>4. out'[l] \in Seq(Message)
          BY <1>b, <2>3
        <4>5. CASE q = src
          <5>a. /\ out'[l] \in Seq(Message) /\ pending[q] # <<>>
                /\ \A i \in 1 .. Len(out'[l]) : out'[l][i].what = q => out'[l][i] = pending[q][1]
            BY <3>1, <4>1, <4>3, <4>4, <4>5
          <5>1. InLine(q, sent, out'[l], Tail(pending[q]), Past(q))
            BY <3>1, <3>2, <5>a, LineTaken
          <5>2. pending'[q] = Tail(pending[q])
            BY <1>a, <3>1, <4>1, <4>5 DEF OtherTypes
          <5> QED
            BY <2>1, <2>2, <3>5, <5>1, <5>2 DEF Ordered, Taker
        <4>6. CASE q # src
          <5>1. \A i \in 1 .. Len(out'[l]) : out'[l][i].what # q
            BY <3>1, <4>2, <4>3, <4>6
          <5>2. pending'[q] = pending[q]
            BY <1>a, <4>1, <4>6 DEF OtherTypes
          <5>3. InLine(q, sent, out'[l], pending[q], Past(q))
            <6>1. \A i \in 1 .. Len(out'[l]) : out'[l][i].what = q =>
                    \E j \in 1 .. Len(out[Taker(q)]) : out[Taker(q)][j] = out'[l][i]
              BY <5>1
            <6>2. Past(q) <= Past(q)
              BY <3>1
            <6> QED
              BY <3>1, <3>2, <4>4, <6>1, <6>2, LineKept
          <5> QED
            BY <2>1, <2>2, <3>5, <5>2, <5>3 DEF Ordered, Taker
        <4> QED
          BY <4>5, <4>6
      <3> QED
        BY <3>3, <3>4, <3>5
    <2> QED
      BY <2>2, <2>4 DEF NumbersAgree
  <1>8. ASSUME NEW l \in Lanes, WakesUp(l)
        PROVE  NumbersAgree'
    <2>1. UNCHANGED <<sent, pending, published>>
      BY <1>8 DEF WakesUp, Goes, Stop, Idle, CloseAs, CloseUnrecorded, Closed, Recorded, AnotherEnd,
          servingVars, socketVars, feedVars
    <2>2. /\ pc'["reader"] = pc["reader"] /\ out'["reader"] = out["reader"]
          /\ \A k \in Loops \ {"reader", "closer"} : out'[k] = out[k]
      BY <1>8, <1>a, NamesApart DEF Streams, Loops, WakesUp, Goes, Stop, Idle, CloseAs, CloseUnrecorded, Closed, Recorded, AnotherEnd,
          servingVars, socketVars, feedVars
    <2>3. LinesStay
      BY <2>1, <2>2 DEF LinesStay, Loops
    <2> QED
      BY <1>t, <2>3, LineFrame
  <1>9. ASSUME NEW l \in Lanes \cup Streams, WokenByCancel(l)
        PROVE  NumbersAgree'
    <2>1. UNCHANGED <<sent, pending, published>>
      BY <1>9 DEF WokenByCancel, Goes, Stop, Idle, CloseAs, CloseUnrecorded, Closed, Recorded, AnotherEnd,
          servingVars, socketVars, feedVars
    <2>2. /\ pc'["reader"] = pc["reader"] /\ out'["reader"] = out["reader"]
          /\ \A k \in Loops \ {"reader", "closer"} : out'[k] = out[k]
      BY <1>9, <1>a, NamesApart DEF Streams, Loops, WokenByCancel, Goes, Stop, Idle, CloseAs, CloseUnrecorded, Closed, Recorded, AnotherEnd,
          servingVars, socketVars, feedVars
    <2>3. LinesStay
      BY <2>1, <2>2 DEF LinesStay, Loops
    <2> QED
      BY <1>t, <2>3, LineFrame
  <1>10. ASSUME NEW l \in Lanes, Hold(l)
        PROVE  NumbersAgree'
    <2>1. UNCHANGED <<sent, pending, published>>
      BY <1>10 DEF Hold, Goes, Stop, Idle, CloseAs, CloseUnrecorded, Closed, Recorded, AnotherEnd,
          servingVars, socketVars, feedVars
    <2>2. /\ pc'["reader"] = pc["reader"] /\ out'["reader"] = out["reader"]
          /\ \A k \in Loops \ {"reader", "closer"} : out'[k] = out[k]
      BY <1>10, <1>a, NamesApart DEF Streams, Loops, Hold, Goes, Stop, Idle, CloseAs, CloseUnrecorded, Closed, Recorded, AnotherEnd,
          servingVars, socketVars, feedVars
    <2>3. LinesStay
      BY <2>1, <2>2 DEF LinesStay, Loops
    <2> QED
      BY <1>t, <2>3, LineFrame
  <1>11. ASSUME NEW l \in Lanes, Handle(l)
        PROVE  NumbersAgree'
    <2>a. HandlesSo(l)
      BY <1>11, <1>a, HandleCases DEF OtherTypes
    <2>1. UNCHANGED <<sent, pending, published>>
      BY <2>a DEF HandlesSo, Answers, SaysNothing, Closes, Fails, AfterHandling, Goes, Stop, Idle, CloseAs,
          CloseUnrecorded, Closed, Recorded, AnotherEnd, servingVars, socketVars, feedVars
    <2>b. l \in Loops /\ l # "reader" /\ "reader" \in Loops
      BY NamesApart DEF Loops
    <2>c. \A end : Len(<<[what |-> end, n |-> 0]>>) = 1 /\ <<[what |-> end, n |-> 0]>>[1].what = end
      OBVIOUS
    <2>d. /\ pc'["reader"] = pc["reader"]
          /\ \A k \in Loops \ {l} : out'[k] = out[k]
          /\ \/ out'[l] = out[l]
             \/ out'[l] = <<>>
             \/ Len(out'[l]) = 1 /\ out'[l][1].what \in Closings
      <3>1. CASE Answers(l)
        BY <1>a, <2>b, <2>c, <3>1 DEF Answers, Goes
      <3>2. CASE SaysNothing(l)
        BY <1>a, <2>b, <2>c, <3>2 DEF SaysNothing, AfterHandling, Goes, Stop, Idle
      <3>3. CASE Fails(l)
        BY <1>a, <2>b, <2>c, <3>3 DEF Fails, CloseUnrecorded, Goes, Closings
      <3>4. CASE Closes(l, "invalid_game_data")
        BY <1>a, <2>b, <2>c, <3>4 DEF Closes, CloseAs, Goes, Closings, RecordedEnds
      <3>5. CASE Closes(l, "malformed_message")
        BY <1>a, <2>b, <2>c, <3>5 DEF Closes, CloseAs, Goes, Closings, RecordedEnds
      <3> QED
        BY <2>a, <3>1, <3>2, <3>3, <3>4, <3>5 DEF HandlesSo
    <2>2. /\ pc'["reader"] = pc["reader"] /\ out'["reader"] = out["reader"]
          /\ \A k \in Loops \ {"reader"} :
               \/ out'[k] = out[k]
               \/ out'[k] = <<>>
               \/ Len(out'[k]) = 1 /\ out'[k][1].what \in Closings
      BY <2>b, <2>d
    <2>3. LinesStay
      BY <2>1, <2>2, NamesApart DEF LinesStay, Loops
    <2> QED
      BY <1>t, <2>3, LineFrame
  <1>12. ASSUME NEW l \in Streams, NextUpdate(l)
        PROVE  NumbersAgree'
    <2> DEFINE src == Source(l)
    <2>1. /\ UNCHANGED <<sent, published>> /\ pc'["reader"] = pc["reader"] /\ out'["reader"] = out["reader"]
          /\ \A j \in Loops \ {l} : out'[j] = out[j]
      <3>1. UNCHANGED <<sent, published>> /\ pc[l] = "next" /\ l \in Loops /\ l # "reader"
        BY <1>12, NamesApart DEF NextUpdate, Loops, Streams
      <3>2. CASE TakeFrom(l)
        BY <1>a, <3>1, <3>2 DEF TakeFrom, Goes, Loops
      <3>3. CASE ~TakeFrom(l)
        BY <1>12, <1>a, <3>1, <3>3 DEF NextUpdate, Goes, Stop, Loops
      <3> QED
        BY <3>1, <3>2, <3>3
    <2>2. OfferIsNext' /\ \A q \in Queues : Past(q)' = Past(q)
      BY <1>t, <2>1 DEF NumbersAgree, OfferIsNext, Past
    <2>3. out[l] = <<>> /\ src \in Queues /\ l = Taker(src) /\ l \in Loops
      <3>1. pc[l] = "next" /\ l \in Loops
        BY <1>12 DEF NextUpdate, Loops, Streams
      <3>2. out[l] = <<>>
        BY <1>a, <3>1 DEF LoopsHold, MayHold, LaneMayHold, ReaderMayHold, CloserMayHold, RosterMayHold, SessionMayHold, Loops
      <3> QED
        BY <1>a, <3>1, <3>2, NamesApart DEF Source, Taker, OtherTypes, Queues, Feeds, Streams
    <2>4. ASSUME NEW q \in Queues
          PROVE  Ordered(q)'
      <3>1. /\ Taker(q) \in Loops \ {"reader", "closer"} /\ out[Taker(q)] \in Seq(Message)
            /\ pending[q] \in Seq(Message) /\ sent \in Seq(Message)
            /\ Past(q) \in Nat
            /\ q \notin Closings \cup EndMessages \cup {"start", "acting", "rate_limited"}
        BY <1>a, <1>t, LineTypes DEF NumbersAgree
      <3>2. InLine(q, sent, out[Taker(q)], pending[q], Past(q))
        BY <1>t DEF NumbersAgree, Ordered
      <3>3. CASE ~TakeFrom(l)
        <4>1. out' = out /\ pending' = pending
          BY <1>12, <3>3 DEF NextUpdate
        <4> QED
          BY <2>1, <2>2, <3>2, <4>1 DEF Ordered, Taker
      <3>4. CASE TakeFrom(l) /\ Taker(q) # l
        <4>1. out'[Taker(q)] = out[Taker(q)]
          BY <2>1, <3>1, <3>4
        <4>2. pending'[q] = pending[q]
          BY <1>a, <2>3, <3>4 DEF TakeFrom, OtherTypes
        <4> QED
          BY <2>1, <2>2, <3>2, <4>1, <4>2 DEF Ordered, Taker
      <3>5. CASE TakeFrom(l) /\ Taker(q) = l
        <4>1. /\ pending[src] # <<>> /\ pending' = [pending EXCEPT ![src] = Tail(@)]
              /\ out'[l] = Writes(l, Head(pending[src]))
          BY <1>a, <2>3, <3>5 DEF TakeFrom
        <4>2. Head(pending[src]) = pending[src][1] /\ Head(pending[src]).what = src
          BY <1>a, <2>3, <4>1, WaitingType
        <4>3. \A i \in 1 .. Len(out'[l]) : out'[l][i].what = "acting" \/ out'[l][i] = pending[src][1]
          <5> DEFINE item == Head(pending[src])
                     told == [what |-> "acting", n |-> item.n, actor |-> item.actor]
          <5>1. out'[l] = <<told, item>> \/ out'[l] = <<item>>
            BY <4>1 DEF Writes
          <5>2. told.what = "acting" /\ item = pending[src][1]
            BY <4>2
          <5> HIDE DEF told, item
          <5> QED
            BY <5>1, <5>2
        <4>4. out'[l] \in Seq(Message)
          BY <1>b, <2>3
        <4>5. CASE q = src
          <5>a. /\ out'[l] \in Seq(Message) /\ pending[q] # <<>>
                /\ \A i \in 1 .. Len(out'[l]) : out'[l][i].what = q => out'[l][i] = pending[q][1]
            BY <3>1, <4>1, <4>3, <4>4, <4>5
          <5>1. InLine(q, sent, out'[l], Tail(pending[q]), Past(q))
            BY <3>1, <3>2, <5>a, LineTaken
          <5>2. pending'[q] = Tail(pending[q])
            BY <1>a, <3>1, <4>1, <4>5 DEF OtherTypes
          <5> QED
            BY <2>1, <2>2, <3>5, <5>1, <5>2 DEF Ordered, Taker
        <4>6. CASE q # src
          <5>1. \A i \in 1 .. Len(out'[l]) : out'[l][i].what # q
            BY <3>1, <4>2, <4>3, <4>6
          <5>2. pending'[q] = pending[q]
            BY <1>a, <4>1, <4>6 DEF OtherTypes
          <5>3. InLine(q, sent, out'[l], pending[q], Past(q))
            <6>1. \A i \in 1 .. Len(out'[l]) : out'[l][i].what = q =>
                    \E j \in 1 .. Len(out[Taker(q)]) : out[Taker(q)][j] = out'[l][i]
              BY <5>1
            <6>2. Past(q) <= Past(q)
              BY <3>1
            <6> QED
              BY <3>1, <3>2, <4>4, <6>1, <6>2, LineKept
          <5> QED
            BY <2>1, <2>2, <3>5, <5>2, <5>3 DEF Ordered, Taker
        <4> QED
          BY <4>5, <4>6
      <3> QED
        BY <3>3, <3>4, <3>5
    <2> QED
      BY <2>2, <2>4 DEF NumbersAgree
  <1>13. ASSUME SendStart
        PROVE  NumbersAgree'
    <2>1. UNCHANGED <<sent, pending, published>>
      BY <1>13 DEF SendStart, Goes, Stop, Idle, CloseAs, CloseUnrecorded, Closed, Recorded, AnotherEnd,
          servingVars, socketVars, feedVars
    <2>c. Len(<<[what |-> "start", n |-> 0]>>) = 1 /\ <<[what |-> "start", n |-> 0]>>[1].what = "start"
      OBVIOUS
    <2>2. /\ pc'["reader"] = pc["reader"]
          /\ \A k \in Loops \ {"session"} : out'[k] = out[k]
          /\ \/ out'["session"] = out["session"]
             \/ Len(out'["session"]) = 1 /\ out'["session"][1].what = "start"
      BY <1>13, <1>a, <2>c DEF SendStart, Goes, Stop, Loops
    <2>3. LinesStay
      BY <2>1, <2>2, NamesApart DEF LinesStay, Loops
    <2> QED
      BY <1>t, <2>3, LineFrame
  <1>14. ASSUME SendRoster
        PROVE  NumbersAgree'
    <2>1. UNCHANGED <<sent, pending, published>>
      BY <1>14 DEF SendRoster, Goes, Stop, Idle, CloseAs, CloseUnrecorded, Closed, Recorded, AnotherEnd,
          servingVars, socketVars, feedVars
    <2>2. /\ pc'["reader"] = pc["reader"] /\ out'["reader"] = out["reader"]
          /\ \A k \in Loops \ {"reader", "closer"} : out'[k] = out[k]
      BY <1>14, <1>a DEF Streams, Loops, SendRoster, Goes, Stop, Idle, CloseAs, CloseUnrecorded, Closed, Recorded, AnotherEnd,
          servingVars, socketVars, feedVars
    <2>3. LinesStay
      BY <2>1, <2>2 DEF LinesStay, Loops
    <2> QED
      BY <1>t, <2>3, LineFrame
  <1>15. ASSUME AwaitEnd
        PROVE  NumbersAgree'
    <2>1. UNCHANGED <<sent, pending, published>>
      BY <1>15 DEF AwaitEnd, Goes, Stop, Idle, CloseAs, CloseUnrecorded, Closed, Recorded, AnotherEnd,
          servingVars, socketVars, feedVars
    <2>2. /\ pc'["reader"] = pc["reader"] /\ out'["reader"] = out["reader"]
          /\ \A k \in Loops \ {"reader", "closer"} : out'[k] = out[k]
      BY <1>15, <1>a DEF Streams, Loops, AwaitEnd, Goes, Stop, Idle, CloseAs, CloseUnrecorded, Closed, Recorded, AnotherEnd,
          servingVars, socketVars, feedVars
    <2>3. LinesStay
      BY <2>1, <2>2 DEF LinesStay, Loops
    <2> QED
      BY <1>t, <2>3, LineFrame
  <1>16. ASSUME AwaitStreams
        PROVE  NumbersAgree'
    <2>1. UNCHANGED <<sent, pending, published>>
      BY <1>16 DEF AwaitStreams, Goes, Stop, Idle, CloseAs, CloseUnrecorded, Closed, Recorded, AnotherEnd,
          servingVars, socketVars, feedVars
    <2>2. /\ pc'["reader"] = pc["reader"] /\ out'["reader"] = out["reader"]
          /\ \A k \in Loops \ {"reader", "closer"} : out'[k] = out[k]
      BY <1>16, <1>a DEF Streams, Loops, AwaitStreams, Goes, Stop, Idle, CloseAs, CloseUnrecorded, Closed, Recorded, AnotherEnd,
          servingVars, socketVars, feedVars
    <2>3. LinesStay
      BY <2>1, <2>2 DEF LinesStay, Loops
    <2> QED
      BY <1>t, <2>3, LineFrame
  <1>17. ASSUME LockAndTell
        PROVE  NumbersAgree'
    <2>1. UNCHANGED <<sent, pending, published>>
      BY <1>17 DEF LockAndTell, Goes, Stop, Idle, CloseAs, CloseUnrecorded, Closed, Recorded, AnotherEnd,
          servingVars, socketVars, feedVars
    <2>2. /\ pc'["reader"] = pc["reader"] /\ out'["reader"] = out["reader"]
          /\ \A k \in Loops \ {"reader", "closer"} : out'[k] = out[k]
      BY <1>17, <1>a DEF Streams, Loops, LockAndTell, Goes, Stop, Idle, CloseAs, CloseUnrecorded, Closed, Recorded, AnotherEnd,
          servingVars, socketVars, feedVars
    <2>3. LinesStay
      BY <2>1, <2>2 DEF LinesStay, Loops
    <2> QED
      BY <1>t, <2>3, LineFrame
  <1>18. ASSUME CloseEnded
        PROVE  NumbersAgree'
    <2>1. UNCHANGED <<sent, pending, published>>
      BY <1>18 DEF CloseEnded, Goes, Stop, Idle, CloseAs, CloseUnrecorded, Closed, Recorded, AnotherEnd,
          servingVars, socketVars, feedVars
    <2>2. /\ pc'["reader"] = pc["reader"] /\ out'["reader"] = out["reader"]
          /\ \A k \in Loops \ {"reader", "closer"} : out'[k] = out[k]
      BY <1>18, <1>a DEF Streams, Loops, CloseEnded, Goes, Stop, Idle, CloseAs, CloseUnrecorded, Closed, Recorded, AnotherEnd,
          servingVars, socketVars, feedVars
    <2>3. LinesStay
      BY <2>1, <2>2 DEF LinesStay, Loops
    <2> QED
      BY <1>t, <2>3, LineFrame
  <1>19. ASSUME NEW l \in Loops, Write(l)
        PROVE  NumbersAgree'
    <2> DEFINE m == out[l][1]
    <2>1. Written(l)
      BY <1>19, <1>s, Writing DEF StartDivides, PreviewIsStarted
    <2>2. /\ UNCHANGED <<pending, published>> /\ m \in Message /\ Writable(l, m)
          /\ IF client.there THEN sent' = Append(sent, m) ELSE sent' = sent
          /\ \/ Len(out[l]) = 1 /\ out'[l] = <<>>
             \/ /\ m.what = "acting" /\ Len(out[l]) = 2 /\ Len(out'[l]) = 1 /\ out'[l][1] = out[l][2]
          /\ \A j \in Loops \ {l} : pc'[j] = pc[j] /\ out'[j] = out[j]
      BY <2>1 DEF Written
    <2>3. pc'["reader"] = "offer" => pc'["reader"] = pc["reader"] /\ out'["reader"] = out["reader"] /\ l # "reader"
      <3>1. l = "reader" => pc'["reader"] # "offer"
        BY <1>19, <1>a, NamesApart DEF Write, Goes, AfterWrite, Stop
      <3> QED
        BY <2>2, <3>1 DEF Loops
    <2>4. OfferIsNext'
      BY <1>t, <2>2, <2>3 DEF NumbersAgree, OfferIsNext
    <2>5. ASSUME NEW q \in Queues
          PROVE  Ordered(q)'
      <3>1. /\ Taker(q) \in Loops \ {"reader", "closer"} /\ out[Taker(q)] \in Seq(Message)
            /\ pending[q] \in Seq(Message) /\ sent \in Seq(Message)
            /\ Past(q) \in Nat /\ Past(q) <= published[q] /\ published[q] \in Nat
            /\ q \notin Closings \cup EndMessages \cup {"start", "acting", "rate_limited"}
        BY <1>a, <1>t, LineTypes DEF NumbersAgree
      <3>2. InLine(q, sent, out[Taker(q)], pending[q], Past(q))
        BY <1>t DEF NumbersAgree, Ordered
      <3>3. out'[Taker(q)] \in Seq(Message) /\ Past(q)' \in Nat /\ Past(q) <= Past(q)'
        <4>1. Past(q)' \in Nat
          BY <1>b, <2>4, LineTypesNext
        <4>2. Past(q) <= Past(q)'
          BY <2>2, <2>3, <3>1 DEF Past
        <4> QED
          BY <1>b, <3>1, <4>1, <4>2
      <3>4. \A i \in 1 .. Len(out'[Taker(q)]) : out'[Taker(q)][i].what = q =>
              /\ m.what # q
              /\ \E j \in 1 .. Len(out[Taker(q)]) : out[Taker(q)][j] = out'[Taker(q)][i]
        <4>1. CASE Taker(q) = l
          <5>1. CASE out'[l] = <<>>
            BY <4>1, <5>1
          <5>2. CASE m.what = "acting" /\ Len(out[l]) = 2 /\ Len(out'[l]) = 1 /\ out'[l][1] = out[l][2]
            BY <3>1, <4>1, <5>2
          <5> QED
            BY <2>2, <5>1, <5>2
        <4>2. CASE Taker(q) # l
          <5>1. out'[Taker(q)] = out[Taker(q)]
            BY <2>2, <3>1, <4>2
          <5>2. m.what # q
            BY <2>2, <4>2, WritesOwn
          <5> QED
            BY <5>1, <5>2
        <4> QED
          BY <4>1, <4>2
      <3>5. m.what = q => Taker(q) = l /\ \E j \in 1 .. Len(out[Taker(q)]) : out[Taker(q)][j] = m
        BY <2>2, WritesOwn
      <3> HIDE DEF m
      <3>6. InLine(q, sent', out'[Taker(q)], pending[q], Past(q))
        <4>1. CASE client.there
          <5>1. \/ /\ m.what # q
                   /\ \A i \in 1 .. Len(out'[Taker(q)]) : out'[Taker(q)][i].what = q =>
                        \E j \in 1 .. Len(out[Taker(q)]) : out[Taker(q)][j] = out'[Taker(q)][i]
                \/ /\ \E j \in 1 .. Len(out[Taker(q)]) : out[Taker(q)][j] = m
                   /\ \A i \in 1 .. Len(out'[Taker(q)]) : out'[Taker(q)][i].what # q
            <6>1. CASE m.what # q
              BY <3>4, <6>1
            <6>2. CASE m.what = q
              BY <3>4, <3>5, <6>2
            <6> QED
              BY <6>1, <6>2
          <5>2. sent' = Append(sent, m) /\ m \in Message
            BY <2>2, <4>1
          <5>3. InLine(q, Append(sent, m), out'[Taker(q)], pending[q], Past(q))
            BY <3>1, <3>2, <3>3, <5>1, <5>2, LineSent
          <5> QED
            BY <5>2, <5>3
        <4>2. CASE ~client.there
          <5>1. sent' = sent /\ Past(q) <= Past(q)
            BY <2>2, <3>1, <4>2
          <5>2. \A i \in 1 .. Len(out'[Taker(q)]) : out'[Taker(q)][i].what = q =>
                  \E j \in 1 .. Len(out[Taker(q)]) : out[Taker(q)][j] = out'[Taker(q)][i]
            BY <3>4
          <5>3. InLine(q, sent, out'[Taker(q)], pending[q], Past(q))
            BY <3>1, <3>2, <3>3, <5>1, <5>2, LineKept
          <5> QED
            BY <5>1, <5>3
        <4> QED
          BY <4>1, <4>2
      <3>7. InLine(q, sent', out'[Taker(q)], pending[q], Past(q)')
        <4>1. sent' \in Seq(Message)
          BY <1>b DEF OtherTypes
        <4> QED
          BY <3>1, <3>3, <3>6, <4>1, LineKept
      <3> QED
        BY <2>2, <3>7 DEF Ordered, Taker
    <2> QED
      BY <2>4, <2>5 DEF NumbersAgree
  <1>20. ASSUME NEW l \in Loops, WriteTooSlow(l)
        PROVE  NumbersAgree'
    <2>1. UNCHANGED <<sent, pending, published>>
      BY <1>20 DEF WriteTooSlow, Goes, Stop, Idle, CloseAs, CloseUnrecorded, Closed, Recorded, AnotherEnd,
          servingVars, socketVars, feedVars
    <2>a. /\ \A j \in Loops \ {l} : pc'[j] = pc[j] /\ out'[j] = out[j]
          /\ out'[l] = <<>> /\ pc'[l] # "offer"
      BY <1>20, <1>a DEF WriteTooSlow, Goes, Stop, Idle
    <2>2. /\ pc'["reader"] # "offer" \/ (pc'["reader"] = pc["reader"] /\ out'["reader"] = out["reader"])
          /\ \A k \in Loops : out'[k] = out[k] \/ out'[k] = <<>>
      <3>1. "reader" \in Loops
        BY DEF Loops
      <3> QED
        BY <2>a, <3>1
    <2>3. LinesStay
      BY <2>1, <2>2 DEF LinesStay, Loops
    <2> QED
      BY <1>t, <2>3, LineFrame
  <1>21. ASSUME NEW l \in Loops, WriteFails(l)
        PROVE  NumbersAgree'
    <2>1. UNCHANGED <<sent, pending, published>>
      BY <1>21 DEF WriteFails, Goes, Stop, Idle, CloseAs, CloseUnrecorded, Closed, Recorded, AnotherEnd,
          servingVars, socketVars, feedVars
    <2>a. /\ \A j \in Loops \ {l} : pc'[j] = pc[j] /\ out'[j] = out[j]
          /\ out'[l] = <<>> /\ pc'[l] # "offer"
      BY <1>21, <1>a DEF WriteFails, Goes, Stop, Idle
    <2>2. /\ pc'["reader"] # "offer" \/ (pc'["reader"] = pc["reader"] /\ out'["reader"] = out["reader"])
          /\ \A k \in Loops : out'[k] = out[k] \/ out'[k] = <<>>
      <3>1. "reader" \in Loops
        BY DEF Loops
      <3> QED
        BY <2>a, <3>1
    <2>3. LinesStay
      BY <2>1, <2>2 DEF LinesStay, Loops
    <2> QED
      BY <1>t, <2>3, LineFrame
  <1>22. ASSUME NEW l \in Loops, ReportClose(l)
        PROVE  NumbersAgree'
    <2>1. UNCHANGED <<sent, pending, published>>
      BY <1>22 DEF ReportClose, Goes, Stop, Idle, CloseAs, CloseUnrecorded, Closed, Recorded, AnotherEnd,
          servingVars, socketVars, feedVars
    <2>a. /\ \A j \in Loops \ {l} : pc'[j] = pc[j] /\ out'[j] = out[j]
          /\ out'[l] = <<>> /\ pc'[l] # "offer"
      BY <1>22, <1>a DEF ReportClose, Goes, Stop, Idle
    <2>2. /\ pc'["reader"] # "offer" \/ (pc'["reader"] = pc["reader"] /\ out'["reader"] = out["reader"])
          /\ \A k \in Loops : out'[k] = out[k] \/ out'[k] = <<>>
      <3>1. "reader" \in Loops
        BY DEF Loops
      <3> QED
        BY <2>a, <3>1
    <2>3. LinesStay
      BY <2>1, <2>2 DEF LinesStay, Loops
    <2> QED
      BY <1>t, <2>3, LineFrame
  <1>23. ASSUME TakeResult
        PROVE  NumbersAgree'
    <2>1. LinesStay
      BY <1>23 DEF LinesStay, TakeResult, Decide, AnotherEnd, feedVars, socketVars, servingVars
    <2> QED
      BY <1>t, <2>1, LineFrame
  <1>24. ASSUME Disconnect
        PROVE  NumbersAgree'
    <2>1. LinesStay
      BY <1>24 DEF LinesStay, Disconnect, AnotherEnd, feedVars, socketVars, servingVars
    <2> QED
      BY <1>t, <2>1, LineFrame
  <1>25. ASSUME LogEnd
        PROVE  NumbersAgree'
    <2>1. LinesStay
      BY <1>25 DEF LinesStay, LogEnd, AnotherEnd, feedVars, socketVars, servingVars
    <2> QED
      BY <1>t, <2>1, LineFrame
  <1>26. ASSUME Unresponsive
        PROVE  NumbersAgree'
    <2>1. LinesStay
      BY <1>26 DEF LinesStay, Unresponsive, Decide, AnotherEnd, feedVars, socketVars, servingVars
    <2> QED
      BY <1>t, <2>1, LineFrame
  <1>27. ASSUME ShutDown
        PROVE  NumbersAgree'
    <2>1. LinesStay
      BY <1>27 DEF LinesStay, ShutDown, Decide, AnotherEnd, feedVars, socketVars, servingVars
    <2> QED
      BY <1>t, <2>1, LineFrame
  <1>28. ASSUME NEW f \in Feeds, Publish(f)
        PROVE  NumbersAgree'
    <2>1. PICK actor \in Actors \cup {"none"} : Publishes(f, [what |-> f, n |-> published[f] + 1, actor |-> actor])
      BY <1>28 DEF Publish
    <2> DEFINE m == [what |-> f, n |-> published[f] + 1, actor |-> actor]
    <2>2. UNCHANGED <<pc, out, sent>>
      BY <1>28 DEF Publish
    <2>3. f \in Queues /\ published[f] \in Nat /\ f \notin Lanes
      BY <1>a, NamesApart DEF Queues, Feeds, OtherTypes
    <2>4. m \in Message /\ m.n = published[f] + 1
      BY <2>3, MessageType
    <2>5. /\ published' = [published EXCEPT ![f] = @ + 1]
          /\ pending' = [pending EXCEPT ![f] = IF f = "views" THEN Append(@, m) ELSE <<m>>]
      BY <2>1 DEF Publishes
    <2> HIDE DEF m
    <2>6. pc["reader"] = "offer" => out["reader"][1].what # f
      BY <1>a, <2>3 DEF LoopsHold, MayHold, ReaderMayHold, Only, Loops
    <2>7. OfferIsNext'
      BY <1>a, <1>t, <2>2, <2>3, <2>5, <2>6 DEF NumbersAgree, OfferIsNext, OtherTypes
    <2>8. ASSUME NEW q \in Queues
          PROVE  Ordered(q)'
      <3>1. /\ Taker(q) \in Loops \ {"reader", "closer"} /\ out[Taker(q)] \in Seq(Message)
            /\ pending[q] \in Seq(Message) /\ sent \in Seq(Message)
            /\ Past(q) \in Nat /\ Past(q) <= published[q] /\ published[q] \in Nat
        BY <1>a, <1>t, LineTypes DEF NumbersAgree
      <3>2. InLine(q, sent, out[Taker(q)], pending[q], Past(q))
        BY <1>t DEF NumbersAgree, Ordered
      <3>3. CASE q = f
        <4>1. Past(q)' = m.n /\ m.n > Past(q)
          <5>1. published'[q] = published[q] + 1 /\ m.n = published[q] + 1
            BY <1>a, <2>3, <2>4, <2>5, <3>3 DEF OtherTypes
          <5>2. Past(q)' = published'[q]
            BY <2>2, <2>6, <3>3 DEF Past
          <5>3. Past(q) = published[q]
            BY <2>6, <3>3 DEF Past
          <5>4. QED
            BY <3>1, <5>1, <5>2, <5>3
        <4>2. /\ InLine(q, sent, out[Taker(q)], Append(pending[q], m), m.n)
              /\ InLine(q, sent, out[Taker(q)], <<m>>, m.n)
          BY <2>4, <3>1, <3>2, <4>1, LineJoined
        <4>3. pending'[q] = Append(pending[q], m) \/ pending'[q] = <<m>>
          BY <1>a, <2>5, <3>3 DEF OtherTypes
        <4> QED
          BY <2>2, <4>1, <4>2, <4>3 DEF Ordered, Taker
      <3>4. CASE q # f
        <4>1. Past(q)' = Past(q) /\ pending'[q] = pending[q]
          BY <1>a, <2>2, <2>5, <3>4 DEF Past, OtherTypes
        <4> QED
          BY <2>2, <3>2, <4>1 DEF Ordered, Taker
      <3> QED
        BY <3>3, <3>4
    <2> QED
      BY <2>7, <2>8 DEF NumbersAgree
  <1>29. ASSUME RuntimeStarts
        PROVE  NumbersAgree'
    <2>1. LinesStay
      BY <1>29 DEF LinesStay, RuntimeStarts, AnotherEnd, feedVars, socketVars, servingVars
    <2> QED
      BY <1>t, <2>1, LineFrame
  <1>30. ASSUME RuntimeEnds
        PROVE  NumbersAgree'
    <2>1. LinesStay
      BY <1>30 DEF LinesStay, RuntimeEnds, AnotherEnd, feedVars, socketVars, servingVars
    <2> QED
      BY <1>t, <2>1, LineFrame
  <1>31. ASSUME ClientCloses
        PROVE  NumbersAgree'
    <2>1. LinesStay
      BY <1>31 DEF LinesStay, ClientCloses, AnotherEnd, feedVars, socketVars, servingVars
    <2> QED
      BY <1>t, <2>1, LineFrame
  <1>32. ASSUME ClientStalls
        PROVE  NumbersAgree'
    <2>1. LinesStay
      BY <1>32 DEF LinesStay, ClientStalls, AnotherEnd, feedVars, socketVars, servingVars
    <2> QED
      BY <1>t, <2>1, LineFrame
  <1>33. CASE UNCHANGED servedVars
    <2>1. LinesStay
      BY <1>33 DEF servedVars, LinesStay
    <2> QED
      BY <1>t, <2>1, LineFrame
  <1> QED
    BY <1>1, <1>2, <1>3, <1>4, <1>5, <1>6, <1>7, <1>8, <1>9, <1>10, <1>11, <1>12, <1>13, <1>14,
       <1>15, <1>16, <1>17, <1>18, <1>19, <1>20, <1>21, <1>22, <1>23, <1>24, <1>25, <1>26, <1>27,
       <1>28, <1>29, <1>30, <1>31, <1>32, <1>33 DEF ServedNext, Reader, Lane, Stream, Closer,
       Socket, Serve, Environment, Over

(***************************************************************************)
(* What a step does to the streams, the closer and what was sent.          *)
(***************************************************************************)
\* Of the streams and the closer only l moves; the connection gets no better,
\* and who does not answer starts to only while the closer lets it.
StaysBut(l) ==
  /\ \A k \in {"session", "roster", "closer"} \ {l} : pc'[k] = pc[k] /\ out'[k] = out[k]
  /\ \A k \in Lanes \cup {"reader"} :
       pc'[k] \in {"handling", "writing"} => pc[k] \in {"handling", "writing"} \/ MayAnswer
  /\ kind' = kind
  /\ client'.there => client.there
  /\ socket # "open" => socket' # "open"
  /\ cancelled => cancelled'

FeedsStay == \A q \in Feeds : pending'[q] = pending[q] /\ published'[q] = published[q]

NothingSent == FeedsStay /\ UNCHANGED <<phase, acting, sent, game>>

\* A step of the reader, of a lane, of serve or of the client.
Calm == StaysBut("reader") /\ NothingSent

\* A stream or the closer gives up, the connection being broken.
GivesUp(l) ==
  /\ StaysBut(l) /\ NothingSent /\ l \in {"session", "roster", "closer"}
  /\ ~Intact' /\ out'[l] = <<>> /\ pc[l] \notin {"closing", "done"}
  /\ \/ pc'[l] = "done"
     \/ l = "closer" /\ pc[l] = "writing" /\ pc'[l] = "closing"

GameMoves ==
  /\ StaysBut("reader") /\ FeedsStay /\ UNCHANGED <<phase, acting, sent>>
  /\ \/ ~Ended /\ ~Ended' /\ ~game.started /\ game'.started
     \/ game'.started = game.started /\ Ended' /\ (Ended => game' = game)

Sends(l) ==
  /\ StaysBut(l) /\ FeedsStay /\ Written(l) /\ UNCHANGED <<acting, game>>

\* A stream takes what waits.
Takes(l) ==
  LET q == Source(l)
  IN /\ StaysBut(l) /\ l \in Streams /\ UNCHANGED <<phase, sent, game>>
     /\ pc[l] = "next" /\ pc'[l] = "writing"
     /\ pending[q] # <<>> /\ pending'[q] = Tail(pending[q])
     /\ out'[l] = Writes(l, Head(pending[q]))
     /\ acting' = (IF l = "session" /\ phase = "views" THEN Head(pending[q]).actor ELSE acting)
     /\ \A r \in Feeds : published'[r] = published[r] /\ (r # q => pending'[r] = pending[r])

\* A stream has nothing to take, and no more comes.
RunsDry(l) ==
  /\ StaysBut(l) /\ NothingSent /\ l \in Streams
  /\ pc[l] = "next" /\ out'[l] = out[l] /\ pending[Source(l)] = <<>>
  /\ IF l = "session" /\ phase = "lobby" THEN (game.started \/ Ended) /\ pc'[l] = "start"
                                         ELSE Ended /\ pc'[l] = "done"

Starts ==
  /\ StaysBut("session") /\ NothingSent /\ pc["session"] = "start"
  /\ \/ /\ game.started /\ pc'["session"] = "writing"
        /\ Len(out'["session"]) = 1 /\ out'["session"][1].what = "start"
     \/ ~game.started /\ Ended /\ pc'["session"] = "done" /\ out'["session"] = out["session"]

Follows ==
  /\ StaysBut("roster") /\ NothingSent /\ pc["roster"] = "held" /\ out'["roster"] = out["roster"]
  /\ \/ StartSent /\ pc'["roster"] = "next"
     \/ ~StartSent /\ pc["session"] = "done" /\ pc'["roster"] = "done"

CloserMoves ==
  /\ StaysBut("closer") /\ NothingSent
  /\ \/ pc["closer"] = "serving" /\ Ended /\ pc'["closer"] = "delivering" /\ out'["closer"] = out["closer"]
     \/ /\ pc["closer"] = "delivering" /\ Delivered /\ pc'["closer"] = "locking"
        /\ out'["closer"] = out["closer"]
     \/ /\ pc["closer"] = "locking" /\ Answering = {} /\ pc'["closer"] = "writing"
        /\ Len(out'["closer"]) = 1 /\ out'["closer"][1].what = Tells
     \/ /\ pc["closer"] = "locking" /\ Answering = {} /\ pc'["closer"] = "closing"
        /\ out'["closer"] = out["closer"]
     \/ pc["closer"] = "closing" /\ pc'["closer"] = "closed" /\ socket' # "open"

Produces(f) ==
  /\ StaysBut("reader") /\ UNCHANGED <<phase, acting, sent, game>> /\ f \in Feeds
  /\ ~Ended /\ (f = "lobby" <=> ~game.started) /\ (f = "roster" => kind = "player")
  /\ published'[f] = published[f] + 1
  /\ \E m \in Message :
       /\ m.what = f /\ m.n = published[f] + 1
       /\ pending'[f] = (IF f = "views" THEN Append(pending[f], m) ELSE <<m>>)
  /\ \A q \in Feeds \ {f} : pending'[q] = pending[q] /\ published'[q] = published[q]

Moves ==
  \/ Calm \/ GameMoves \/ Starts \/ Follows \/ CloserMoves
  \/ \E l \in Loops : GivesUp(l) \/ Sends(l) \/ Takes(l) \/ RunsDry(l)
  \/ \E f \in Feeds : Produces(f)

\* The reader and the lanes are calm.
LEMMA CalmFrame ==
  ASSUME NEW l \in Lanes \cup {"reader"},
         \A k \in Loops \ {l} : pc'[k] = pc[k] /\ out'[k] = out[k],
         pc'[l] \in {"handling", "writing"} => pc[l] \in {"handling", "writing"} \/ MayAnswer,
         UNCHANGED <<kind, phase, acting, sent, game, client, cancelled>>, FeedsStay,
         socket # "open" => socket' # "open"
  PROVE  Calm
  <1>1. l \notin {"session", "roster", "closer"} /\ l \in Loops
    BY NamesApart DEF Loops
  <1>2. \A k \in Lanes \cup {"reader"} :
          pc'[k] \in {"handling", "writing"} => pc[k] \in {"handling", "writing"} \/ MayAnswer
    BY DEF Loops
  <1>3. \A k \in {"session", "roster", "closer"} : pc'[k] = pc[k] /\ out'[k] = out[k]
    BY <1>1 DEF Loops
  <1> QED
    BY <1>2, <1>3 DEF Calm, StaysBut, NothingSent

\* A step of a stream or of the closer moves no other.
LEMMA StaysFrame ==
  ASSUME NEW l \in {"session", "roster", "closer"},
         \A k \in Loops \ {l} : pc'[k] = pc[k] /\ out'[k] = out[k],
         kind' = kind, client'.there => client.there,
         socket # "open" => socket' # "open", cancelled => cancelled'
  PROVE  StaysBut(l)
  <1>1. \A k \in Lanes \cup {"reader"} : k # l /\ k \in Loops
    BY NamesApart DEF Loops
  <1>2. \A k \in Lanes \cup {"reader"} :
          pc'[k] \in {"handling", "writing"} => pc[k] \in {"handling", "writing"} \/ MayAnswer
    BY <1>1
  <1>3. \A k \in {"session", "roster", "closer"} \ {l} : pc'[k] = pc[k] /\ out'[k] = out[k]
    BY DEF Loops
  <1> QED
    BY <1>2, <1>3 DEF StaysBut

\* Nothing moves.
LEMMA StillFrame ==
  ASSUME UNCHANGED <<pc, out, kind>>, client'.there => client.there,
         socket # "open" => socket' # "open", cancelled => cancelled'
  PROVE  \A l : StaysBut(l)
  BY DEF StaysBut

\* Every step is one of these.
LEMMA StepMoves ==
  ServedTypes /\ LoopsHold /\ EndsAreKnown /\ StartDivides /\ [ServedNext]_servedVars => Moves
  <1> SUFFICES ASSUME ServedTypes, LoopsHold, EndsAreKnown, StartDivides, [ServedNext]_servedVars
               PROVE  Moves
    OBVIOUS
  <1>a. pc \in [Loops -> Places] /\ out \in [Loops -> Seq(Message)] /\ OtherTypes /\ LoopsHold
    BY TypesSplit
  <1>t. ServedTypes /\ LoopsHold /\ EndsAreKnown /\ StartDivides
    OBVIOUS
  <1>1. ASSUME NEW l \in Lanes, ReadMessage(l)
        PROVE  Moves
    <2>l. "reader" \in Loops
      BY DEF Loops
    <2>f. published \in [Queues -> Nat]
      BY <1>a DEF OtherTypes
    <2>h. published' = [published EXCEPT ![l] = @ + 1]
      BY <1>1 DEF ReadMessage
    <2>i. \A q \in Feeds : q \in Queues /\ q # l
      BY NamesApart DEF Queues, Feeds
    <2>g. \A q \in Feeds : published'[q] = published[q]
      BY <2>f, <2>h, <2>i
    <2>1. \A k \in Loops \ {"reader"} : pc'[k] = pc[k] /\ out'[k] = out[k]
      BY <1>1, <1>a, <2>l DEF ReadMessage, Goes, Stop, Idle, CloseAs, CloseUnrecorded
    <2>2. pc'["reader"] \in {"handling", "writing"} => pc["reader"] \in {"handling", "writing"} \/ MayAnswer
      BY <1>1, <1>a, <2>l DEF ReadMessage, Goes, Stop, CloseAs, CloseUnrecorded
    <2>3. UNCHANGED <<kind, phase, acting, sent, game, client, cancelled>> /\ FeedsStay
      BY <1>1, <1>a, <2>l, <2>g DEF ReadMessage, AnotherEnd, servingVars, feedVars, FeedsStay
    <2>4. socket # "open" => socket' # "open"
      BY <1>1 DEF ReadMessage, CloseAs, CloseUnrecorded, Closed, socketVars
    <2> QED
      BY <2>l, <2>1, <2>2, <2>3, <2>4, CalmFrame DEF Moves
  <1>2. ASSUME ReadRefused
        PROVE  Moves
    <2>l. "reader" \in Loops
      BY DEF Loops
    <2>1. \A k \in Loops \ {"reader"} : pc'[k] = pc[k] /\ out'[k] = out[k]
      BY <1>2, <1>a, <2>l DEF ReadRefused, Goes, Stop, Idle, CloseAs, CloseUnrecorded
    <2>2. pc'["reader"] \in {"handling", "writing"} => pc["reader"] \in {"handling", "writing"} \/ MayAnswer
      BY <1>2, <1>a, <2>l DEF ReadRefused, Goes, Stop, CloseAs, CloseUnrecorded
    <2>3. UNCHANGED <<kind, phase, acting, sent, game, client, cancelled>> /\ FeedsStay
      BY <1>2, <1>a, <2>l DEF ReadRefused, AnotherEnd, servingVars, feedVars, FeedsStay, OtherTypes, Queues
    <2>4. socket # "open" => socket' # "open"
      BY <1>2 DEF ReadRefused, CloseAs, CloseUnrecorded, Closed, socketVars
    <2> QED
      BY <2>l, <2>1, <2>2, <2>3, <2>4, CalmFrame DEF Moves
  <1>3. ASSUME ReadFails
        PROVE  Moves
    <2>l. "reader" \in Loops
      BY DEF Loops
    <2>1. \A k \in Loops \ {"reader"} : pc'[k] = pc[k] /\ out'[k] = out[k]
      BY <1>3, <1>a, <2>l DEF ReadFails, Goes, Stop, Idle, CloseAs, CloseUnrecorded
    <2>2. pc'["reader"] \in {"handling", "writing"} => pc["reader"] \in {"handling", "writing"} \/ MayAnswer
      BY <1>3, <1>a, <2>l DEF ReadFails, Goes, Stop, CloseAs, CloseUnrecorded
    <2>3. UNCHANGED <<kind, phase, acting, sent, game, client, cancelled>> /\ FeedsStay
      BY <1>3, <1>a, <2>l DEF ReadFails, AnotherEnd, servingVars, feedVars, FeedsStay, OtherTypes, Queues
    <2>4. socket # "open" => socket' # "open"
      BY <1>3 DEF ReadFails, CloseAs, CloseUnrecorded, Closed, socketVars
    <2> QED
      BY <2>l, <2>1, <2>2, <2>3, <2>4, CalmFrame DEF Moves
  <1>4. ASSUME Offer
        PROVE  Moves
    <2>l. "reader" \in Loops
      BY DEF Loops
    <2>f. /\ Head(out["reader"]).what \notin Feeds
          /\ pending' = [pending EXCEPT ![Head(out["reader"]).what] = Append(@, Head(out["reader"]))]
      BY <1>4, <1>a, NamesApart DEF Offer, LoopsHold, MayHold, ReaderMayHold, Only, Loops, Feeds
    <2>1. \A k \in Loops \ {"reader"} : pc'[k] = pc[k] /\ out'[k] = out[k]
      BY <1>4, <1>a, <2>l DEF Offer, Goes, Stop, Idle, CloseAs, CloseUnrecorded
    <2>2. pc'["reader"] \in {"handling", "writing"} => pc["reader"] \in {"handling", "writing"} \/ MayAnswer
      BY <1>4, <1>a, <2>l DEF Offer, Goes, Stop, CloseAs, CloseUnrecorded
    <2>3. UNCHANGED <<kind, phase, acting, sent, game, client, cancelled>> /\ FeedsStay
      BY <1>4, <1>a, <2>l, <2>f DEF Offer, AnotherEnd, servingVars, feedVars, FeedsStay, OtherTypes, Queues
    <2>4. socket # "open" => socket' # "open"
      BY <1>4 DEF Offer, CloseAs, CloseUnrecorded, Closed, socketVars
    <2> QED
      BY <2>l, <2>1, <2>2, <2>3, <2>4, CalmFrame DEF Moves
  <1>5. ASSUME WakeLane
        PROVE  Moves
    <2>l. "reader" \in Loops
      BY DEF Loops
    <2>1. \A k \in Loops \ {"reader"} : pc'[k] = pc[k] /\ out'[k] = out[k]
      BY <1>5, <1>a, <2>l DEF WakeLane, Woken, Goes, Stop, Idle, CloseAs, CloseUnrecorded
    <2>2. pc'["reader"] \in {"handling", "writing"} => pc["reader"] \in {"handling", "writing"} \/ MayAnswer
      BY <1>5, <1>a, <2>l DEF WakeLane, Woken, Goes, Stop, CloseAs, CloseUnrecorded
    <2>3. UNCHANGED <<kind, phase, acting, sent, game, client, cancelled>> /\ FeedsStay
      BY <1>5, <1>a, <2>l DEF WakeLane, Woken, AnotherEnd, servingVars, feedVars, FeedsStay, OtherTypes, Queues
    <2>4. socket # "open" => socket' # "open"
      BY <1>5 DEF WakeLane, Woken, CloseAs, CloseUnrecorded, Closed, socketVars
    <2> QED
      BY <2>l, <2>1, <2>2, <2>3, <2>4, CalmFrame DEF Moves
  <1>6. ASSUME Refuse
        PROVE  Moves
    <2>l. "reader" \in Loops
      BY DEF Loops
    <2>1. \A k \in Loops \ {"reader"} : pc'[k] = pc[k] /\ out'[k] = out[k]
      BY <1>6, <1>a, <2>l DEF Refuse, Goes, Stop, Idle, CloseAs
    <2>2. pc'["reader"] \in {"handling", "writing"} => pc["reader"] \in {"handling", "writing"} \/ MayAnswer
      BY <1>6, <1>a, <2>l DEF Refuse, RateLimitedAnswer, Goes, Stop, CloseAs, CloseUnrecorded
    <2>3. UNCHANGED <<kind, phase, acting, sent, game, client, cancelled>> /\ FeedsStay
      BY <1>6, <1>a, <2>l DEF Refuse, RateLimitedAnswer, AnotherEnd, servingVars, feedVars, FeedsStay, OtherTypes,
          Queues
    <2>4. socket # "open" => socket' # "open"
      BY <1>6 DEF Refuse, RateLimitedAnswer, CloseAs, CloseUnrecorded, Closed, socketVars
    <2> QED
      BY <2>l, <2>1, <2>2, <2>3, <2>4, CalmFrame DEF Moves
  <1>7. ASSUME NEW l \in Lanes, NextMessage(l)
        PROVE  Moves
    <2>l. l \in Lanes /\ l \in Loops /\ l \in Lanes \cup {"reader"} /\ l \in Queues /\ l \notin Feeds
      BY NamesApart DEF Loops, Queues, Feeds
    <2>s. Source(l) = l
      BY <2>l, NamesApart DEF Source
    <2>m. /\ \A j : pending'[j] = pending[j] \/ j = l
          /\ acting' = acting
          /\ \/ pc' = [pc EXCEPT ![l] = "handle"] /\ \A k \in Loops \ {l} : out'[k] = out[k]
             \/ pc' = [pc EXCEPT ![l] = "asleep"] /\ out' = out
      <3>1. CASE TakeFrom(l)
        <4>1. l # "session"
          BY NamesApart
        <4> QED
          BY <1>a, <2>l, <2>s, <3>1, <4>1 DEF TakeFrom, Goes, OtherTypes
      <3>2. CASE ~TakeFrom(l)
        BY <1>7, <3>2 DEF NextMessage, Goes
      <3> QED
        BY <3>1, <3>2
    <2>1. \A k \in Loops \ {l} : pc'[k] = pc[k] /\ out'[k] = out[k]
      BY <1>a, <2>l, <2>m
    <2>2. pc'[l] \in {"handling", "writing"} => pc[l] \in {"handling", "writing"} \/ MayAnswer
      BY <1>7, <1>a, <2>l, <2>m DEF Goes
    <2>3. UNCHANGED <<kind, phase, acting, sent, game, client, cancelled>> /\ FeedsStay
      BY <1>7, <2>l, <2>m DEF NextMessage, FeedsStay, servingVars
    <2>4. socket # "open" => socket' # "open"
      BY <1>7 DEF NextMessage, TakeFrom, Writes, Source, CloseAs, CloseUnrecorded, Closed, socketVars
    <2> QED
      BY <2>l, <2>1, <2>2, <2>3, <2>4, CalmFrame DEF Moves
  <1>8. ASSUME NEW l \in Lanes, WakesUp(l)
        PROVE  Moves
    <2>l. l \in Lanes /\ l \in Loops /\ l \in Lanes \cup {"reader"} /\ l \in Queues /\ l \notin Feeds
      BY NamesApart DEF Loops, Queues, Feeds
    <2>1. \A k \in Loops \ {l} : pc'[k] = pc[k] /\ out'[k] = out[k]
      BY <1>8, <1>a, <2>l DEF WakesUp, Goes, Stop, Idle, CloseAs, CloseUnrecorded
    <2>2. pc'[l] \in {"handling", "writing"} => pc[l] \in {"handling", "writing"} \/ MayAnswer
      BY <1>8, <1>a, <2>l DEF WakesUp, Goes, Stop, CloseAs, CloseUnrecorded
    <2>3. UNCHANGED <<kind, phase, acting, sent, game, client, cancelled>> /\ FeedsStay
      BY <1>8, <1>a, <2>l DEF WakesUp, AnotherEnd, servingVars, feedVars, FeedsStay, OtherTypes, Queues
    <2>4. socket # "open" => socket' # "open"
      BY <1>8 DEF WakesUp, CloseAs, CloseUnrecorded, Closed, socketVars
    <2> QED
      BY <2>l, <2>1, <2>2, <2>3, <2>4, CalmFrame DEF Moves
  <1>9. ASSUME NEW l \in Lanes \cup Streams, WokenByCancel(l)
        PROVE  Moves
    <2>l. l \in Loops /\ l # "closer"
      BY NamesApart DEF Loops, Streams
    <2>1. /\ \A k \in Loops \ {l} : pc'[k] = pc[k] /\ out'[k] = out[k]
          /\ pc'[l] = "done" /\ out' = out
      BY <1>9, <1>a, <2>l DEF WokenByCancel, Stop
    <2>2. UNCHANGED <<kind, phase, acting, sent, game, client, cancelled>> /\ FeedsStay
      BY <1>9 DEF WokenByCancel, FeedsStay, feedVars, servingVars
    <2>3. cancelled /\ (socket # "open" => socket' # "open")
      BY <1>9 DEF WokenByCancel, socketVars
    <2>4. CASE l \in Lanes
      BY <2>1, <2>2, <2>3, <2>4, CalmFrame DEF Moves
    <2>5. CASE l \in {"session", "roster"}
      <3>1. StaysBut(l) /\ NothingSent
        BY <2>1, <2>2, <2>3, <2>5, StaysFrame DEF NothingSent
      <3>2. ~Intact'
        BY <2>2, <2>3 DEF Intact
      <3>3. l \notin Lanes
        BY <2>5, NamesApart
      <3>4. pc[l] \in {"next", "start", "held"}
        BY <1>9, <3>3 DEF WokenByCancel
      <3>5. out[l] = <<>>
        BY <1>a, <2>5, <2>l, <3>4 DEF LoopsHold, MayHold, RosterMayHold, SessionMayHold
      <3> QED
        BY <2>l, <2>1, <2>5, <3>1, <3>2, <3>4, <3>5 DEF GivesUp, Moves
    <2> QED
      BY <2>4, <2>5 DEF Streams
  <1>10. ASSUME NEW l \in Lanes, Hold(l)
        PROVE  Moves
    <2>l. l \in Lanes /\ l \in Loops /\ l \in Lanes \cup {"reader"} /\ l \in Queues /\ l \notin Feeds
      BY NamesApart DEF Loops, Queues, Feeds
    <2>1. \A k \in Loops \ {l} : pc'[k] = pc[k] /\ out'[k] = out[k]
      BY <1>10, <1>a, <2>l DEF Hold, Goes, Stop, Idle, CloseAs, CloseUnrecorded
    <2>2. pc'[l] \in {"handling", "writing"} => pc[l] \in {"handling", "writing"} \/ MayAnswer
      BY <1>10, <1>a, <2>l DEF Hold, Goes, Stop, CloseAs, CloseUnrecorded
    <2>3. UNCHANGED <<kind, phase, acting, sent, game, client, cancelled>> /\ FeedsStay
      BY <1>10, <1>a, <2>l DEF Hold, AnotherEnd, servingVars, feedVars, FeedsStay, OtherTypes, Queues
    <2>4. socket # "open" => socket' # "open"
      BY <1>10 DEF Hold, CloseAs, CloseUnrecorded, Closed, socketVars
    <2> QED
      BY <2>l, <2>1, <2>2, <2>3, <2>4, CalmFrame DEF Moves
  <1>11. ASSUME NEW l \in Lanes, Handle(l)
        PROVE  Moves
    <2>l. l \in Lanes /\ l \in Loops /\ l \in Lanes \cup {"reader"} /\ l \in Queues /\ l \notin Feeds
      BY NamesApart DEF Loops, Queues, Feeds
    <2>a. HandlesSo(l)
      BY <1>11, <1>a, HandleCases DEF OtherTypes
    <2>1. \A k \in Loops \ {l} : pc'[k] = pc[k] /\ out'[k] = out[k]
      <3>1. CASE Answers(l)
        BY <1>a, <2>l, <3>1 DEF Answers, Goes
      <3>2. CASE SaysNothing(l)
        BY <1>a, <2>l, <3>2 DEF SaysNothing, AfterHandling, Goes, Stop, Idle
      <3>3. CASE Fails(l)
        BY <1>a, <2>l, <3>3 DEF Fails, CloseUnrecorded, Goes
      <3>4. CASE Closes(l, "invalid_game_data")
        BY <1>a, <2>l, <3>4 DEF Closes, CloseAs, Goes
      <3>5. CASE Closes(l, "malformed_message")
        BY <1>a, <2>l, <3>5 DEF Closes, CloseAs, Goes
      <3> QED
        BY <2>a, <3>1, <3>2, <3>3, <3>4, <3>5 DEF HandlesSo
    <2>2. pc[l] = "handling"
      BY <2>a DEF HandlesSo
    <2>3. UNCHANGED <<kind, phase, acting, sent, game, client, cancelled>> /\ FeedsStay
      BY <2>a DEF HandlesSo, Answers, SaysNothing, Fails, Closes, AnotherEnd, servingVars, feedVars, FeedsStay
    <2>4. socket # "open" => socket' # "open"
      BY <2>a DEF HandlesSo, Answers, SaysNothing, Fails, Closes, CloseAs, CloseUnrecorded, Closed, socketVars
    <2> QED
      BY <2>l, <2>1, <2>2, <2>3, <2>4, CalmFrame DEF Moves
  <1>12. ASSUME NEW l \in Streams, NextUpdate(l)
        PROVE  Moves
    <2> DEFINE q == Source(l)
    <2>l. l \in Loops /\ l \in {"session", "roster"} /\ q \in Feeds /\ q \in Queues /\ l \notin Lanes
      BY <1>a, NamesApart DEF Loops, Streams, Source, Feeds, Queues, OtherTypes
    <2>1. /\ UNCHANGED <<kind, phase, sent, game, client, cancelled, published>> /\ socket' = socket
          /\ pc[l] = "next"
      BY <1>12 DEF NextUpdate, servingVars, socketVars
    <2>2. CASE TakeFrom(l)
      <3>1. /\ pending[q] # <<>> /\ pending' = [pending EXCEPT ![q] = Tail(@)]
            /\ out' = [out EXCEPT ![l] = Writes(l, Head(pending[q]))]
            /\ pc' = [pc EXCEPT ![l] = "writing"]
            /\ acting' = (IF l = "session" /\ phase = "views" THEN Head(pending[q]).actor ELSE acting)
        BY <2>l, <2>2 DEF TakeFrom, Goes
      <3> HIDE DEF q
      <3>2. /\ \A k \in Loops \ {l} : pc'[k] = pc[k] /\ out'[k] = out[k]
            /\ out'[l] = Writes(l, Head(pending[q])) /\ pc'[l] = "writing"
        BY <1>a, <2>l, <3>1
      <3>3. StaysBut(l)
        BY <2>l, <2>1, <3>2, StaysFrame
      <3>4. /\ pending'[q] = Tail(pending[q])
            /\ \A r \in Feeds : published'[r] = published[r] /\ (r # q => pending'[r] = pending[r])
        BY <1>a, <2>l, <2>1, <3>1 DEF OtherTypes
      <3>5. Takes(l)
        BY <2>1, <3>1, <3>2, <3>3, <3>4 DEF Takes, q
      <3> QED
        BY <2>l, <3>5 DEF Moves
    <2>3. CASE ~TakeFrom(l)
      <3>1. /\ pending[q] = <<>> /\ UNCHANGED <<out, acting, pending>>
            /\ IF l = "session" /\ phase = "lobby"
               THEN (game.started \/ Ended) /\ pc' = [pc EXCEPT ![l] = "start"]
               ELSE Ended /\ pc' = [pc EXCEPT ![l] = "done"]
        BY <1>12, <2>3 DEF NextUpdate, Goes, Stop
      <3> HIDE DEF q
      <3>2. /\ \A k \in Loops \ {l} : pc'[k] = pc[k] /\ out'[k] = out[k]
            /\ IF l = "session" /\ phase = "lobby" THEN (game.started \/ Ended) /\ pc'[l] = "start"
                                                  ELSE Ended /\ pc'[l] = "done"
        BY <1>a, <2>l, <3>1
      <3>3. StaysBut(l) /\ NothingSent
        BY <2>l, <2>1, <3>1, <3>2, StaysFrame DEF NothingSent, FeedsStay
      <3>5. RunsDry(l)
        BY <2>1, <3>1, <3>2, <3>3 DEF RunsDry, q
      <3> QED
        BY <2>l, <3>5 DEF Moves
    <2> QED
      BY <2>2, <2>3
  <1>13. ASSUME SendStart
        PROVE  Moves
    <2>l. "session" \in Loops
      BY DEF Loops
    <2>1. \A k \in Loops \ {"session"} : pc'[k] = pc[k] /\ out'[k] = out[k]
      BY <1>13, <1>a, <2>l DEF SendStart, Goes, Stop, Idle, CloseUnrecorded
    <2>2. UNCHANGED <<kind, phase, acting, sent, game, client, cancelled>> /\ FeedsStay
      BY <1>13 DEF SendStart, FeedsStay, feedVars, servingVars
    <2>3. socket # "open" => socket' # "open"
      BY <1>13 DEF SendStart, CloseUnrecorded, Closed, socketVars
    <2>4. StaysBut("session") /\ NothingSent
      BY <2>1, <2>2, <2>3, StaysFrame DEF NothingSent
    <2>5. pc["session"] = "start" /\ out["session"] = <<>>
      BY <1>13, <1>a, <2>l DEF SendStart, LoopsHold, MayHold, SessionMayHold
    <2>6. Len(<<[what |-> "start", n |-> 0]>>) = 1 /\ <<[what |-> "start", n |-> 0]>>[1].what = "start"
      OBVIOUS
    <2>7. \/ /\ game.started /\ pc'["session"] = "writing"
             /\ Len(out'["session"]) = 1 /\ out'["session"][1].what = "start"
          \/ ~game.started /\ Ended /\ pc'["session"] = "done" /\ out'["session"] = out["session"]
      BY <1>13, <1>a, <2>l, <2>6 DEF SendStart, Goes, Stop
    <2> QED
      BY <2>4, <2>5, <2>7 DEF Starts, Moves
  <1>14. ASSUME SendRoster
        PROVE  Moves
    <2>l. "roster" \in Loops
      BY DEF Loops
    <2>1. \A k \in Loops \ {"roster"} : pc'[k] = pc[k] /\ out'[k] = out[k]
      BY <1>14, <1>a, <2>l DEF SendRoster, Goes, Stop, Idle, CloseUnrecorded
    <2>2. UNCHANGED <<kind, phase, acting, sent, game, client, cancelled>> /\ FeedsStay
      BY <1>14 DEF SendRoster, FeedsStay, feedVars, servingVars
    <2>3. socket # "open" => socket' # "open"
      BY <1>14 DEF SendRoster, CloseUnrecorded, Closed, socketVars
    <2>4. StaysBut("roster") /\ NothingSent
      BY <2>1, <2>2, <2>3, StaysFrame DEF NothingSent
    <2>5. /\ pc["roster"] = "held" /\ out'["roster"] = out["roster"]
          /\ \/ StartSent /\ pc'["roster"] = "next"
             \/ ~StartSent /\ pc["session"] = "done" /\ pc'["roster"] = "done"
      BY <1>14, <1>a, <2>l DEF SendRoster, RosterMayFollow, Goes, Stop
    <2> QED
      BY <2>4, <2>5 DEF Follows, Moves
  <1>15. ASSUME AwaitEnd
        PROVE  Moves
    <2>l. "closer" \in Loops
      BY DEF Loops
    <2>1. \A k \in Loops \ {"closer"} : pc'[k] = pc[k] /\ out'[k] = out[k]
      BY <1>15, <1>a, <2>l DEF AwaitEnd, Goes, Stop, Idle, CloseUnrecorded
    <2>2. UNCHANGED <<kind, phase, acting, sent, game, client, cancelled>> /\ FeedsStay
      BY <1>15 DEF AwaitEnd, FeedsStay, feedVars, servingVars
    <2>3. socket # "open" => socket' # "open"
      BY <1>15 DEF AwaitEnd, CloseUnrecorded, Closed, socketVars
    <2>4. StaysBut("closer") /\ NothingSent
      BY <2>1, <2>2, <2>3, StaysFrame DEF NothingSent
    <2>5. pc["closer"] = "serving" /\ out' = out /\ out["closer"] = <<>>
      BY <1>15, <1>a, <2>l DEF AwaitEnd, LoopsHold, MayHold, CloserMayHold
    <2>6. CASE cancelled /\ pc' = [pc EXCEPT !["closer"] = "done"]
      <3>1. ~Intact'
        BY <2>2, <2>6 DEF Intact
      <3> QED
        BY <1>a, <2>l, <2>4, <2>5, <2>6, <3>1 DEF GivesUp, Moves
    <2>7. CASE Ended /\ pc' = [pc EXCEPT !["closer"] = "delivering"]
      BY <1>a, <2>l, <2>4, <2>5, <2>7 DEF CloserMoves, Moves
    <2> QED
      BY <1>15, <2>6, <2>7 DEF AwaitEnd, Goes, Stop
  <1>16. ASSUME AwaitStreams
        PROVE  Moves
    <2>l. "closer" \in Loops
      BY DEF Loops
    <2>1. \A k \in Loops \ {"closer"} : pc'[k] = pc[k] /\ out'[k] = out[k]
      BY <1>16, <1>a, <2>l DEF AwaitStreams, Goes, Stop, Idle, CloseUnrecorded
    <2>2. UNCHANGED <<kind, phase, acting, sent, game, client, cancelled>> /\ FeedsStay
      BY <1>16 DEF AwaitStreams, FeedsStay, feedVars, servingVars
    <2>3. socket # "open" => socket' # "open"
      BY <1>16 DEF AwaitStreams, CloseUnrecorded, Closed, socketVars
    <2>4. StaysBut("closer") /\ NothingSent
      BY <2>1, <2>2, <2>3, StaysFrame DEF NothingSent
    <2>5. pc["closer"] = "delivering" /\ out' = out /\ out["closer"] = <<>>
      BY <1>16, <1>a, <2>l DEF AwaitStreams, LoopsHold, MayHold, CloserMayHold
    <2>6. CASE cancelled /\ pc' = [pc EXCEPT !["closer"] = "done"]
      <3>1. ~Intact'
        BY <2>2, <2>6 DEF Intact
      <3> QED
        BY <1>a, <2>l, <2>4, <2>5, <2>6, <3>1 DEF GivesUp, Moves
    <2>7. CASE Delivered /\ pc' = [pc EXCEPT !["closer"] = "locking"]
      BY <1>a, <2>l, <2>4, <2>5, <2>7 DEF CloserMoves, Moves
    <2> QED
      BY <1>16, <2>6, <2>7 DEF AwaitStreams, Goes, Stop
  <1>17. ASSUME LockAndTell
        PROVE  Moves
    <2>l. "closer" \in Loops
      BY DEF Loops
    <2>1. \A k \in Loops \ {"closer"} : pc'[k] = pc[k] /\ out'[k] = out[k]
      BY <1>17, <1>a, <2>l DEF LockAndTell, Goes, Stop, Idle, CloseUnrecorded
    <2>2. UNCHANGED <<kind, phase, acting, sent, game, client, cancelled>> /\ FeedsStay
      BY <1>17 DEF LockAndTell, FeedsStay, feedVars, servingVars
    <2>3. socket # "open" => socket' # "open"
      BY <1>17 DEF LockAndTell, CloseUnrecorded, Closed, socketVars
    <2>4. StaysBut("closer") /\ NothingSent
      BY <2>1, <2>2, <2>3, StaysFrame DEF NothingSent
    <2>5. pc["closer"] = "locking" /\ Answering = {}
      BY <1>17 DEF LockAndTell
    <2>6. \/ pc'["closer"] = "writing" /\ out' = [out EXCEPT !["closer"] = <<[what |-> Tells, n |-> 0]>>]
          \/ pc'["closer"] = "closing" /\ out' = out
      BY <1>17, <1>a, <2>l DEF LockAndTell, Goes
    <2>7. Len(<<[what |-> Tells, n |-> 0]>>) = 1 /\ <<[what |-> Tells, n |-> 0]>>[1].what = Tells
      <3> DEFINE m == [what |-> Tells, n |-> 0]
      <3>1. m.what = Tells
        OBVIOUS
      <3> HIDE DEF m
      <3>2. Len(<<m>>) = 1 /\ <<m>>[1].what = Tells
        BY <3>1
      <3> QED
        BY <3>2 DEF m
    <2>8. /\ pc'["closer"] = "writing" => /\ Len(out'["closer"]) = 1 /\ out'["closer"][1].what = Tells
          /\ pc'["closer"] # "writing" => pc'["closer"] = "closing" /\ out'["closer"] = out["closer"]
      BY <1>a, <2>l, <2>6, <2>7
    <2> QED
      BY <2>4, <2>5, <2>6, <2>8 DEF CloserMoves, Moves
  <1>18. ASSUME CloseEnded
        PROVE  Moves
    <2>l. "closer" \in Loops
      BY DEF Loops
    <2>1. \A k \in Loops \ {"closer"} : pc'[k] = pc[k] /\ out'[k] = out[k]
      BY <1>18, <1>a, <2>l DEF CloseEnded, Goes, Stop, Idle, CloseUnrecorded
    <2>2. UNCHANGED <<kind, phase, acting, sent, game, client, cancelled>> /\ FeedsStay
      BY <1>18 DEF CloseEnded, FeedsStay, feedVars, servingVars
    <2>3. socket # "open" => socket' # "open"
      BY <1>18 DEF CloseEnded, CloseUnrecorded, Closed, socketVars
    <2>4. StaysBut("closer") /\ NothingSent
      BY <2>1, <2>2, <2>3, StaysFrame DEF NothingSent
    <2>5. pc["closer"] = "closing" /\ pc'["closer"] = "closed" /\ socket' # "open"
      BY <1>18, <1>a, <2>l DEF CloseEnded, CloseUnrecorded, Closed, Goes
    <2> QED
      BY <2>4, <2>5 DEF CloserMoves, Moves
  <1>19. ASSUME NEW l \in Loops, Write(l)
        PROVE  Moves
    <2>1. Written(l)
      BY <1>19, <1>t, Writing DEF StartDivides, PreviewIsStarted
    <2>2. /\ \A k \in Loops \ {l} : pc'[k] = pc[k] /\ out'[k] = out[k]
          /\ UNCHANGED <<kind, acting, pending, published, game, socket, client>>
          /\ l \in Lanes \cup {"reader"} => pc'[l] \notin {"handling", "writing", "closed"}
          /\ cancelled' = cancelled
      <3>1. cancelled' = cancelled
        BY <1>19 DEF Write, servingVars
      <3> QED
        BY <2>1, <3>1 DEF Written
    <2>3. FeedsStay
      BY <2>2 DEF FeedsStay
    <2>4. StaysBut(l)
      <3>1. CASE l \in {"session", "roster", "closer"}
        BY <2>2, <3>1, StaysFrame
      <3>2. CASE l \in Lanes \cup {"reader"}
        <4>1. l \notin {"session", "roster", "closer"}
          BY <3>2, NamesApart
        <4>2. \A k \in {"session", "roster", "closer"} : pc'[k] = pc[k] /\ out'[k] = out[k]
          BY <2>2, <4>1 DEF Loops
        <4>3. \A k \in Lanes \cup {"reader"} :
                pc'[k] \in {"handling", "writing"} => pc[k] \in {"handling", "writing"} \/ MayAnswer
          BY <2>2, <3>2 DEF Loops
        <4> QED
          BY <2>2, <4>2, <4>3 DEF StaysBut
      <3> QED
        BY <3>1, <3>2 DEF Loops
    <2>5. Sends(l)
      BY <2>1, <2>2, <2>3, <2>4 DEF Sends
    <2> QED
      BY <2>5 DEF Moves
  <1>20. ASSUME NEW l \in Loops, WriteTooSlow(l)
        PROVE  Moves
    <2>1. /\ \A k \in Loops \ {l} : pc'[k] = pc[k] /\ out'[k] = out[k]
          /\ pc'[l] \notin {"handling", "writing"}
      BY <1>20, <1>a DEF WriteTooSlow, Goes, Stop, Idle
    <2>2. UNCHANGED <<kind, phase, acting, sent, game, client, cancelled>> /\ FeedsStay
      BY <1>20 DEF WriteTooSlow, FeedsStay, feedVars, servingVars
    <2>3. socket # "open" => socket' # "open"
      BY <1>20 DEF WriteTooSlow, Closed, socketVars
    <2>4. CASE l \in Lanes \cup {"reader"}
      BY <2>1, <2>2, <2>3, <2>4, CalmFrame DEF Moves
    <2>5. CASE l \in {"session", "roster", "closer"}
      <3>1. StaysBut(l) /\ NothingSent
        BY <2>1, <2>2, <2>3, <2>5, StaysFrame DEF NothingSent
      <3>2. ~Intact'
        BY <1>20 DEF WriteTooSlow, Closed, Intact
      <3>3. /\ out'[l] = <<>> /\ pc[l] \notin {"closing", "done"}
            /\ \/ pc'[l] = "done"
               \/ l = "closer" /\ pc[l] = "writing" /\ pc'[l] = "closing"
        BY <1>20, <1>a DEF WriteTooSlow, Goes, Stop, Idle
      <3> QED
        BY <2>5, <3>1, <3>2, <3>3 DEF GivesUp, Moves
    <2> QED
      BY <2>4, <2>5 DEF Loops
  <1>21. ASSUME NEW l \in Loops, WriteFails(l)
        PROVE  Moves
    <2>1. /\ \A k \in Loops \ {l} : pc'[k] = pc[k] /\ out'[k] = out[k]
          /\ pc'[l] \notin {"handling", "writing"}
      BY <1>21, <1>a DEF WriteFails, Goes, Stop, Idle
    <2>2. UNCHANGED <<kind, phase, acting, sent, game, client, cancelled>> /\ FeedsStay
      BY <1>21 DEF WriteFails, FeedsStay, feedVars, servingVars
    <2>3. socket # "open" => socket' # "open"
      BY <1>21 DEF WriteFails, Closed, socketVars
    <2>4. CASE l \in Lanes \cup {"reader"}
      BY <2>1, <2>2, <2>3, <2>4, CalmFrame DEF Moves
    <2>5. CASE l \in {"session", "roster", "closer"}
      <3>1. StaysBut(l) /\ NothingSent
        BY <2>1, <2>2, <2>3, <2>5, StaysFrame DEF NothingSent
      <3>2. ~Intact'
        BY <1>21 DEF WriteFails, Intact, socketVars, servingVars
      <3>3. /\ out'[l] = <<>> /\ pc[l] \notin {"closing", "done"}
            /\ \/ pc'[l] = "done"
               \/ l = "closer" /\ pc[l] = "writing" /\ pc'[l] = "closing"
        BY <1>21, <1>a DEF WriteFails, Goes, Stop, Idle
      <3> QED
        BY <2>5, <3>1, <3>2, <3>3 DEF GivesUp, Moves
    <2> QED
      BY <2>4, <2>5 DEF Loops
  <1>22. ASSUME NEW l \in Loops, ReportClose(l)
        PROVE  Moves
    <2>1. /\ \A k \in Loops \ {l} : pc'[k] = pc[k] /\ out'[k] = out[k]
          /\ pc'[l] \notin {"handling", "writing"}
      BY <1>22, <1>a DEF ReportClose, Goes, Stop, Idle
    <2>2. UNCHANGED <<kind, phase, acting, sent, game, client, cancelled>> /\ FeedsStay
      BY <1>22 DEF ReportClose, FeedsStay, feedVars, servingVars
    <2>3. socket # "open" => socket' # "open"
      BY <1>22 DEF ReportClose, Closed, socketVars
    <2>4. CASE l \in Lanes \cup {"reader"}
      BY <2>1, <2>2, <2>3, <2>4, CalmFrame DEF Moves
    <2>5. CASE l \in {"session", "roster", "closer"}
      <3>1. StaysBut(l) /\ NothingSent
        BY <2>1, <2>2, <2>3, <2>5, StaysFrame DEF NothingSent
      <3>2. ~Intact'
        BY <1>22, <1>t DEF ReportClose, Intact, socketVars, EndsAreKnown
      <3>3. /\ out'[l] = <<>> /\ pc[l] \notin {"closing", "done"}
            /\ \/ pc'[l] = "done"
               \/ l = "closer" /\ pc[l] = "writing" /\ pc'[l] = "closing"
        BY <1>22, <1>a DEF ReportClose, Goes, Stop, Idle
      <3> QED
        BY <2>5, <3>1, <3>2, <3>3 DEF GivesUp, Moves
    <2> QED
      BY <2>4, <2>5 DEF Loops
  <1>23. ASSUME TakeResult
        PROVE  Moves
    <2>1. UNCHANGED <<pc, out, kind>>
      BY <1>23 DEF TakeResult, Decide
    <2>2. /\ client'.there => client.there
          /\ socket # "open" => socket' # "open"
          /\ cancelled => cancelled'
      BY <1>23, <1>a DEF TakeResult, Decide, AnotherEnd, Closed, socketVars, servingVars, OtherTypes
    <2>3. NothingSent
      BY <1>23 DEF TakeResult, Decide, NothingSent, FeedsStay, feedVars
    <2> QED
      BY <2>1, <2>2, <2>3, StillFrame DEF Calm, Moves
  <1>24. ASSUME Disconnect
        PROVE  Moves
    <2>1. UNCHANGED <<pc, out, kind>>
      BY <1>24 DEF Disconnect
    <2>2. /\ client'.there => client.there
          /\ socket # "open" => socket' # "open"
          /\ cancelled => cancelled'
      BY <1>24, <1>a DEF Disconnect, AnotherEnd, Closed, socketVars, servingVars, OtherTypes
    <2>3. FeedsStay /\ UNCHANGED <<phase, acting, sent>>
      BY <1>24 DEF Disconnect, FeedsStay, feedVars
    <2>4. \/ ~Ended /\ ~Ended' /\ ~game.started /\ game'.started
          \/ game'.started = game.started /\ Ended' /\ (Ended => game' = game)
      BY <1>24, <1>a DEF Disconnect, Ended, OtherTypes
    <2> QED
      BY <2>1, <2>2, <2>3, <2>4, StillFrame DEF GameMoves, Moves
  <1>25. ASSUME LogEnd
        PROVE  Moves
    <2>1. UNCHANGED <<pc, out, kind>>
      BY <1>25 DEF LogEnd
    <2>2. /\ client'.there => client.there
          /\ socket # "open" => socket' # "open"
          /\ cancelled => cancelled'
      BY <1>25, <1>a DEF LogEnd, AnotherEnd, Closed, socketVars, servingVars, OtherTypes
    <2>3. NothingSent
      BY <1>25 DEF LogEnd, NothingSent, FeedsStay, feedVars
    <2> QED
      BY <2>1, <2>2, <2>3, StillFrame DEF Calm, Moves
  <1>26. ASSUME Unresponsive
        PROVE  Moves
    <2>1. UNCHANGED <<pc, out, kind>>
      BY <1>26 DEF Unresponsive, Decide
    <2>2. /\ client'.there => client.there
          /\ socket # "open" => socket' # "open"
          /\ cancelled => cancelled'
      BY <1>26, <1>a DEF Unresponsive, Decide, AnotherEnd, Closed, socketVars, servingVars, OtherTypes
    <2>3. NothingSent
      BY <1>26 DEF Unresponsive, Decide, NothingSent, FeedsStay, feedVars
    <2> QED
      BY <2>1, <2>2, <2>3, StillFrame DEF Calm, Moves
  <1>27. ASSUME ShutDown
        PROVE  Moves
    <2>1. UNCHANGED <<pc, out, kind>>
      BY <1>27 DEF ShutDown, Decide
    <2>2. /\ client'.there => client.there
          /\ socket # "open" => socket' # "open"
          /\ cancelled => cancelled'
      BY <1>27, <1>a DEF ShutDown, Decide, AnotherEnd, Closed, socketVars, servingVars, OtherTypes
    <2>3. NothingSent
      BY <1>27 DEF ShutDown, Decide, NothingSent, FeedsStay, feedVars
    <2> QED
      BY <2>1, <2>2, <2>3, StillFrame DEF Calm, Moves
  <1>28. ASSUME NEW f \in Feeds, Publish(f)
        PROVE  Moves
    <2>1. PICK actor \in Actors \cup {"none"} : Publishes(f, [what |-> f, n |-> published[f] + 1, actor |-> actor])
      BY <1>28 DEF Publish
    <2> DEFINE m == [what |-> f, n |-> published[f] + 1, actor |-> actor]
    <2>2. UNCHANGED <<pc, out, kind, phase, acting, sent, game, client, cancelled>> /\ socket' = socket
      BY <1>28 DEF Publish, socketVars, servingVars
    <2>3. f \in Queues /\ published[f] \in Nat
      BY <1>a DEF Queues, OtherTypes
    <2>4. m \in Message /\ m.n = published[f] + 1 /\ m.what = f
      BY <2>3, MessageType
    <2>5. /\ published' = [published EXCEPT ![f] = @ + 1]
          /\ pending' = [pending EXCEPT ![f] = IF f = "views" THEN Append(@, m) ELSE <<m>>]
      BY <2>1 DEF Publishes
    <2> HIDE DEF m
    <2>6. /\ published'[f] = published[f] + 1
          /\ pending'[f] = (IF f = "views" THEN Append(pending[f], m) ELSE <<m>>)
          /\ \A q \in Feeds \ {f} : pending'[q] = pending[q] /\ published'[q] = published[q]
      BY <1>a, <2>3, <2>5 DEF OtherTypes, Queues
    <2>7. ~Ended /\ (f = "lobby" <=> ~game.started) /\ (f = "roster" => kind = "player")
      BY <1>28 DEF Publish
    <2>8. StaysBut("reader")
      BY <2>2, StillFrame
    <2>9. Produces(f)
      BY <2>2, <2>4, <2>6, <2>7, <2>8 DEF Produces
    <2> QED
      BY <2>9 DEF Moves
  <1>29. ASSUME RuntimeStarts
        PROVE  Moves
    <2>1. UNCHANGED <<pc, out, kind>>
      BY <1>29 DEF RuntimeStarts
    <2>2. /\ client'.there => client.there
          /\ socket # "open" => socket' # "open"
          /\ cancelled => cancelled'
      BY <1>29, <1>a DEF RuntimeStarts, AnotherEnd, Closed, socketVars, servingVars, OtherTypes
    <2>3. FeedsStay /\ UNCHANGED <<phase, acting, sent>>
      BY <1>29 DEF RuntimeStarts, FeedsStay, feedVars
    <2>4. \/ ~Ended /\ ~Ended' /\ ~game.started /\ game'.started
          \/ game'.started = game.started /\ Ended' /\ (Ended => game' = game)
      BY <1>29, <1>a DEF RuntimeStarts, Ended, OtherTypes
    <2> QED
      BY <2>1, <2>2, <2>3, <2>4, StillFrame DEF GameMoves, Moves
  <1>30. ASSUME RuntimeEnds
        PROVE  Moves
    <2>1. UNCHANGED <<pc, out, kind>>
      BY <1>30 DEF RuntimeEnds
    <2>2. /\ client'.there => client.there
          /\ socket # "open" => socket' # "open"
          /\ cancelled => cancelled'
      BY <1>30, <1>a DEF RuntimeEnds, AnotherEnd, Closed, socketVars, servingVars, OtherTypes
    <2>3. FeedsStay /\ UNCHANGED <<phase, acting, sent>>
      BY <1>30 DEF RuntimeEnds, FeedsStay, feedVars
    <2>4. \/ ~Ended /\ ~Ended' /\ ~game.started /\ game'.started
          \/ game'.started = game.started /\ Ended' /\ (Ended => game' = game)
      BY <1>30, <1>a DEF RuntimeEnds, Ended, OtherTypes
    <2> QED
      BY <2>1, <2>2, <2>3, <2>4, StillFrame DEF GameMoves, Moves
  <1>31. ASSUME ClientCloses
        PROVE  Moves
    <2>1. UNCHANGED <<pc, out, kind>>
      BY <1>31 DEF ClientCloses
    <2>2. /\ client'.there => client.there
          /\ socket # "open" => socket' # "open"
          /\ cancelled => cancelled'
      BY <1>31, <1>a DEF ClientCloses, AnotherEnd, Closed, socketVars, servingVars, OtherTypes
    <2>3. NothingSent
      BY <1>31 DEF ClientCloses, NothingSent, FeedsStay, feedVars
    <2> QED
      BY <2>1, <2>2, <2>3, StillFrame DEF Calm, Moves
  <1>32. ASSUME ClientStalls
        PROVE  Moves
    <2>1. UNCHANGED <<pc, out, kind>>
      BY <1>32 DEF ClientStalls
    <2>2. /\ client'.there => client.there
          /\ socket # "open" => socket' # "open"
          /\ cancelled => cancelled'
      BY <1>32, <1>a DEF ClientStalls, AnotherEnd, Closed, socketVars, servingVars, OtherTypes
    <2>3. NothingSent
      BY <1>32 DEF ClientStalls, NothingSent, FeedsStay, feedVars
    <2> QED
      BY <2>1, <2>2, <2>3, StillFrame DEF Calm, Moves
  <1>33. CASE UNCHANGED servedVars
    <2>1. UNCHANGED <<pc, out, kind, client, socket, cancelled>> /\ NothingSent
      BY <1>33 DEF servedVars, NothingSent, FeedsStay
    <2> QED
      BY <2>1, StillFrame DEF Calm, Moves
  <1> QED
    BY <1>1, <1>2, <1>3, <1>4, <1>5, <1>6, <1>7, <1>8, <1>9, <1>10, <1>11, <1>12, <1>13, <1>14,
       <1>15, <1>16, <1>17, <1>18, <1>19, <1>20, <1>21, <1>22, <1>23, <1>24, <1>25, <1>26, <1>27,
       <1>28, <1>29, <1>30, <1>31, <1>32, <1>33 DEF ServedNext, Reader, Lane, Stream, Closer,
       Socket, Serve, Environment, Over

(***************************************************************************)
(* A preview's participant.                                                *)
(***************************************************************************)
\* Nothing is said, and the session gives no participant up but at its end.
LEMMA ActsFrame ==
  ASSUME ActsAsTold, UNCHANGED <<kind, sent, acting>>, client'.there => client.there,
         \/ out'["session"] = out["session"] /\ (pc'["session"] # "done" => pc["session"] # "done")
         \/ out'["session"] = <<>> /\ pc'["session"] = "done"
  PROVE  ActsAsTold'
  <1>1. CASE out'["session"] = out["session"] /\ (pc'["session"] # "done" => pc["session"] # "done")
    BY <1>1 DEF ActsAsTold
  <1>2. CASE out'["session"] = <<>> /\ pc'["session"] = "done"
    <2>1. Len(out'["session"]) = 0
      BY <1>2
    <2> QED
      BY <1>2, <2>1 DEF ActsAsTold
  <1> QED
    BY <1>1, <1>2

\* Who was told last stays so, until another is told.
LEMMA ToldStays ==
  ASSUME NEW said \in Seq(Message), NEW m \in Message, NEW actor
  PROVE  /\ \A i \in 1 .. Len(said) :
              ToldUpTo(said, actor, i) => ToldUpTo(Append(said, m), actor, i)
         /\ m.what # "acting" /\ ToldUpTo(said, actor, Len(said) + 1) =>
              /\ ToldUpTo(Append(said, m), actor, Len(said) + 1)
              /\ ToldUpTo(Append(said, m), actor, Len(said) + 2)
         /\ m.what = "acting" /\ m.actor = actor => ToldUpTo(Append(said, m), actor, Len(said) + 2)
  <1> DEFINE t == Append(said, m)
  <1>1. /\ Len(t) = Len(said) + 1 /\ Len(said) \in Nat
        /\ \A j \in 1 .. Len(said) : j \in 1 .. Len(t) /\ t[j] = said[j]
        /\ Len(said) + 1 \in 1 .. Len(t) /\ t[Len(said) + 1] = m
        /\ \A j \in 1 .. Len(t) : j \in 1 .. Len(said) \/ j = Len(said) + 1
    OBVIOUS
  <1> HIDE DEF t
  <1>2. ASSUME NEW i \in Nat, i <= Len(said) + 2, ToldUpTo(said, actor, i), i > Len(said) => m.what # "acting",
               i > Len(said) + 1 => ToldUpTo(said, actor, Len(said) + 1)
        PROVE  ToldUpTo(t, actor, i)
    <2>1. PICK j \in 1 .. Len(said) :
            /\ said[j].what = "acting" /\ j < i /\ said[j].actor = actor
            /\ \A k \in 1 .. Len(said) : said[k].what = "acting" => k <= j \/ k > i
      BY <1>2 DEF ToldUpTo
    <2>2. j \in 1 .. Len(t) /\ t[j].what = "acting" /\ t[j].actor = actor
      BY <1>1, <2>1
    <2>3. ASSUME NEW k \in 1 .. Len(t), t[k].what = "acting"
          PROVE  k <= j \/ k > i
      <3>1. CASE k \in 1 .. Len(said)
        BY <1>1, <2>1, <2>3, <3>1
      <3>2. CASE k = Len(said) + 1
        BY <1>1, <1>2, <2>3, <3>2
      <3> QED
        BY <1>1, <3>1, <3>2
    <2> QED
      BY <2>1, <2>2, <2>3 DEF ToldUpTo
  <1>3. ToldUpTo(said, actor, Len(said) + 1) => ToldUpTo(said, actor, Len(said) + 2)
    BY <1>1 DEF ToldUpTo
  <1>4. \A i \in 1 .. Len(said) : ToldUpTo(said, actor, i) => ToldUpTo(t, actor, i)
    BY <1>1, <1>2
  <1>5. m.what # "acting" /\ ToldUpTo(said, actor, Len(said) + 1) =>
          ToldUpTo(t, actor, Len(said) + 1) /\ ToldUpTo(t, actor, Len(said) + 2)
    <2> SUFFICES ASSUME m.what # "acting", ToldUpTo(said, actor, Len(said) + 1)
                 PROVE  ToldUpTo(t, actor, Len(said) + 1) /\ ToldUpTo(t, actor, Len(said) + 2)
      OBVIOUS
    <2>1. Len(said) + 1 \in Nat /\ Len(said) + 2 \in Nat
      BY <1>1
    <2>2. ToldUpTo(t, actor, Len(said) + 1)
      BY <1>1, <1>2, <2>1
    <2>3. ToldUpTo(t, actor, Len(said) + 2)
      BY <1>1, <1>2, <1>3, <2>1
    <2> QED
      BY <2>2, <2>3
  <1>6. m.what = "acting" /\ m.actor = actor => ToldUpTo(t, actor, Len(said) + 2)
    <2> SUFFICES ASSUME m.what = "acting", m.actor = actor
                 PROVE  ToldUpTo(t, actor, Len(said) + 2)
      OBVIOUS
    <2>1. \A k \in 1 .. Len(t) : k <= Len(said) + 1
      BY <1>1
    <2> QED
      BY <1>1, <2>1 DEF ToldUpTo
  <1> QED
    BY <1>4, <1>5, <1>6 DEF t

\* What the session holds once it took from its feed: all of one participant.
LEMMA TakesAs ==
  ASSUME ServedTypes, kind = "preview", phase = "views", NEW item,
         out'["session"] = Writes("session", item), acting' = item.actor
  PROVE  /\ \A i \in 1 .. Len(out'["session"]) : out'["session"][i].actor = acting'
         /\ Len(out'["session"]) < 2 => acting' = acting
  <1> DEFINE told == [what |-> "acting", n |-> item.n, actor |-> item.actor]
  <1>1. told.actor = item.actor
    OBVIOUS
  <1>2. out'["session"] = (IF item.actor # acting THEN <<told, item>> ELSE <<item>>)
    BY DEF Writes
  <1> HIDE DEF told
  <1>3. Len(<<told, item>>) = 2 /\ <<told, item>>[1] = told /\ <<told, item>>[2] = item
    OBVIOUS
  <1>4. Len(<<item>>) = 1 /\ <<item>>[1] = item
    OBVIOUS
  <1>5. CASE item.actor # acting
    <2>1. out'["session"] = <<told, item>>
      BY <1>2, <1>5
    <2>a. Len(out'["session"]) = 2
      BY <1>3, <2>1
    <2>b. \A i \in 1 .. 2 : i = 1 \/ i = 2
      OBVIOUS
    <2>2. \A i \in 1 .. Len(out'["session"]) : i = 1 \/ i = 2
      BY <2>a, <2>b, Zenon
    <2> QED
      BY <1>1, <1>3, <2>1, <2>2
  <1>6. CASE item.actor = acting
    <2>1. out'["session"] = <<item>>
      BY <1>2, <1>6
    <2>a. Len(out'["session"]) = 1
      BY <1>4, <2>1
    <2>b. \A i \in 1 .. 1 : i = 1
      OBVIOUS
    <2>2. \A i \in 1 .. Len(out'["session"]) : i = 1
      BY <2>a, <2>b, Zenon
    <2> QED
      BY <1>4, <1>6, <2>1, <2>2
  <1> QED
    BY <1>5, <1>6

\* Every step keeps a preview's views under the participant told last.
LEMMA ActsStep ==
  ASSUME ServedTypes, LoopsHold, StartDivides, ActsAsTold, Moves
  PROVE  ActsAsTold'
  <1>a. pc \in [Loops -> Places] /\ out \in [Loops -> Seq(Message)] /\ OtherTypes /\ LoopsHold
    BY TypesSplit
  <1>b. \A l : StaysBut(l) /\ l # "session" =>
          /\ pc'["session"] = pc["session"] /\ out'["session"] = out["session"]
          /\ kind' = kind /\ (client'.there => client.there)
    BY DEF StaysBut
  <1>c. \A l : StaysBut(l) => kind' = kind /\ (client'.there => client.there)
    BY DEF StaysBut
  <1>d. NothingSent => UNCHANGED <<sent, acting>>
    BY DEF NothingSent
  <1>e. kind = "preview" =>
          /\ phase = "views"
          /\ \A i \in 1 .. Len(out["session"]) : out["session"][i].what \notin {"lobby", "start"}
          /\ pc["session"] # "start"
    BY DEF StartDivides, PreviewIsStarted, SessionSays, LobbyIsDone
  <1>1. CASE Calm
    BY <1>1, <1>b, <1>d, ActsFrame DEF Calm
  <1>2. CASE GameMoves
    BY <1>2, <1>b, ActsFrame DEF GameMoves
  <1>3. CASE Starts
    <2>1. kind # "preview" /\ kind' = kind
      BY <1>3, <1>c, <1>e DEF Starts
    <2> QED
      BY <2>1 DEF ActsAsTold
  <1>4. CASE Follows
    BY <1>4, <1>b, <1>d, ActsFrame DEF Follows
  <1>5. CASE CloserMoves
    BY <1>5, <1>b, <1>d, ActsFrame DEF CloserMoves
  <1>6. ASSUME NEW l \in Loops, GivesUp(l)
        PROVE  ActsAsTold'
    <2>1. CASE l = "session"
      BY <1>6, <1>c, <1>d, <2>1, ActsFrame DEF GivesUp
    <2>2. CASE l # "session"
      BY <1>6, <1>b, <1>d, <2>2, ActsFrame DEF GivesUp
    <2> QED
      BY <2>1, <2>2
  <1>7. ASSUME NEW l \in Loops, Sends(l)
        PROVE  ActsAsTold'
    <2> DEFINE m == out[l][1]
    <2>1. /\ m \in Message /\ Writable(l, m) /\ pc[l] = "writing"
          /\ IF client.there THEN sent' = Append(sent, m) ELSE sent' = sent
          /\ \/ /\ Len(out[l]) = 1 /\ out'[l] = <<>>
                /\ m.what # "acting"
             \/ /\ l = "session" /\ m.what = "acting" /\ Len(out[l]) = 2
                /\ Len(out'[l]) = 1 /\ out'[l][1] = out[l][2]
          /\ UNCHANGED <<kind, acting, client>>
          /\ l # "session" => pc'["session"] = pc["session"] /\ out'["session"] = out["session"]
      BY <1>7, <1>b DEF Sends, Written
    <2> SUFFICES ASSUME kind = "preview"
                 PROVE  ActsAsTold'
      BY <2>1 DEF ActsAsTold
    <2>2. /\ \A i \in 1 .. Len(sent) : sent[i].what = "views" => ToldUpTo(sent, sent[i].actor, i)
          /\ \A i \in 1 .. Len(out["session"]) : out["session"][i].actor = acting
          /\ (client.there /\ pc["session"] # "done" /\ Len(out["session"]) < 2) =>
               ToldUpTo(sent, acting, Len(sent) + 1)
      BY DEF ActsAsTold
    <2>3. sent \in Seq(Message)
      BY <1>a DEF OtherTypes
    <2>4. l = "session" => m.what \in {"views", "acting"} /\ m.actor = acting
      <3> SUFFICES ASSUME l = "session"
                   PROVE  m.what \in {"views", "acting"} /\ m.actor = acting
        OBVIOUS
      <3>1. 1 \in 1 .. Len(out["session"])
        BY <2>1
      <3>2. m.what \notin {"lobby", "start"} /\ m.actor = acting
        BY <1>e, <2>2, <3>1
      <3> HIDE DEF m
      <3> QED
        BY <2>1, <3>2, NamesApart DEF Writable
    <2>5. l # "session" => m.what \notin {"views", "acting"}
      <3> HIDE DEF m
      <3> QED
        BY <2>1, NamesApart DEF Writable, EndMessages
    <2> HIDE DEF m
    <2>6. \A i \in 1 .. Len(out'["session"]) : out'["session"][i].actor = acting'
      <3>1. CASE l # "session"
        BY <2>1, <2>2, <3>1
      <3>2. CASE l = "session" /\ out'[l] = <<>>
        <4>1. Len(out'["session"]) = 0
          BY <3>2
        <4> QED
          BY <4>1
      <3>3. CASE l = "session" /\ Len(out[l]) = 2 /\ Len(out'[l]) = 1 /\ out'[l][1] = out[l][2]
        <4>1. out["session"][2].actor = acting
          BY <2>2, <3>3
        <4> QED
          BY <2>1, <3>3, <4>1
      <3> QED
        BY <2>1, <3>1, <3>2, <3>3
    <2>7. CASE ~client.there
      BY <2>1, <2>2, <2>6, <2>7 DEF ActsAsTold
    <2>8. CASE client.there
      <3>1. sent' = Append(sent, m)
        BY <2>1, <2>8
      <3>2. /\ Len(sent') = Len(sent) + 1 /\ Len(sent) \in Nat
            /\ \A i \in 1 .. Len(sent) : sent'[i] = sent[i]
            /\ sent'[Len(sent) + 1] = m
            /\ \A i \in 1 .. Len(sent') : i \in 1 .. Len(sent) \/ i = Len(sent) + 1
        BY <2>1, <2>3, <3>1
      <3>3. /\ \A actor : \A i \in 1 .. Len(sent) : ToldUpTo(sent, actor, i) => ToldUpTo(sent', actor, i)
            /\ \A actor : m.what # "acting" /\ ToldUpTo(sent, actor, Len(sent) + 1) =>
                 /\ ToldUpTo(sent', actor, Len(sent) + 1)
                 /\ ToldUpTo(sent', actor, Len(sent) + 2)
            /\ \A actor : m.what = "acting" /\ m.actor = actor => ToldUpTo(sent', actor, Len(sent) + 2)
        BY <2>1, <2>3, <3>1, ToldStays
      <3>4. Len(sent') + 1 = Len(sent) + 2
        BY <3>2
      <3>5. m.what = "views" => ToldUpTo(sent, acting, Len(sent) + 1) /\ m.actor = acting
        BY <2>1, <2>2, <2>4, <2>5, <2>8
      <3>6. ASSUME NEW i \in 1 .. Len(sent'), sent'[i].what = "views"
            PROVE  ToldUpTo(sent', sent'[i].actor, i)
        <4>1. CASE i \in 1 .. Len(sent)
          <5>1. sent[i].what = "views" /\ sent'[i] = sent[i]
            BY <3>2, <3>6, <4>1
          <5>2. ToldUpTo(sent, sent[i].actor, i)
            BY <2>2, <4>1, <5>1
          <5> QED
            BY <3>3, <4>1, <5>1, <5>2
        <4>2. CASE i = Len(sent) + 1
          <5>1. m.what = "views" /\ sent'[i] = m
            BY <3>2, <3>6, <4>2
          <5> QED
            BY <3>3, <3>5, <4>2, <5>1
        <4> QED
          BY <3>2, <4>1, <4>2
      <3>7. (pc'["session"] # "done" /\ Len(out'["session"]) < 2) => ToldUpTo(sent', acting, Len(sent) + 2)
        <4>1. CASE m.what = "acting"
          BY <2>4, <2>5, <3>3, <4>1
        <4>2. CASE m.what # "acting" /\ l = "session"
          BY <2>1, <2>4, <3>3, <3>5, <4>2
        <4>3. CASE m.what # "acting" /\ l # "session"
          BY <2>1, <2>2, <2>8, <3>3, <4>3
        <4> QED
          BY <4>1, <4>2, <4>3
      <3> QED
        BY <2>1, <2>6, <3>4, <3>6, <3>7 DEF ActsAsTold
    <2> QED
      BY <2>7, <2>8
  <1>8. ASSUME NEW l \in Loops, Takes(l)
        PROVE  ActsAsTold'
    <2>1. CASE l # "session"
      BY <1>8, <1>b, <2>1, ActsFrame DEF Takes
    <2>2. CASE l = "session"
      <3>1. StaysBut("session") /\ sent' = sent /\ pc["session"] = "next"
        BY <1>8, <2>2 DEF Takes
      <3>2. kind' = kind /\ (client'.there => client.there)
        BY <1>c, <3>1
      <3> SUFFICES ASSUME kind = "preview"
                   PROVE  ActsAsTold'
        BY <3>2 DEF ActsAsTold
      <3> DEFINE item == Head(pending["views"])
      <3>3. out'["session"] = Writes("session", item) /\ acting' = item.actor /\ phase = "views"
        BY <1>8, <1>e, <2>2 DEF Takes, Source
      <3> HIDE DEF item
      <3>4. /\ \A i \in 1 .. Len(out'["session"]) : out'["session"][i].actor = acting'
            /\ Len(out'["session"]) < 2 => acting' = acting
        BY <3>3, TakesAs
      <3>5. out["session"] = <<>>
        BY <1>a, <3>1 DEF LoopsHold, MayHold, SessionMayHold, Loops
      <3>6. client.there => ToldUpTo(sent, acting, Len(sent) + 1)
        <4>1. Len(out["session"]) < 2
          BY <3>5
        <4> QED
          BY <3>1, <4>1 DEF ActsAsTold
      <3>7. \A i \in 1 .. Len(sent) : sent[i].what = "views" => ToldUpTo(sent, sent[i].actor, i)
        BY DEF ActsAsTold
      <3>8. client'.there /\ Len(out'["session"]) < 2 => ToldUpTo(sent', acting', Len(sent') + 1)
        BY <3>1, <3>2, <3>4, <3>6
      <3> QED
        BY <3>1, <3>4, <3>7, <3>8 DEF ActsAsTold
    <2> QED
      BY <2>1, <2>2
  <1>9. ASSUME NEW l \in Loops, RunsDry(l)
        PROVE  ActsAsTold'
    <2>1. CASE l = "session"
      <3>1. out'["session"] = out["session"] /\ pc["session"] # "done"
        BY <1>9, <2>1 DEF RunsDry
      <3> QED
        BY <1>9, <1>c, <1>d, <3>1, ActsFrame DEF RunsDry
    <2>2. CASE l # "session"
      BY <1>9, <1>b, <1>d, <2>2, ActsFrame DEF RunsDry
    <2> QED
      BY <2>1, <2>2
  <1>10. ASSUME NEW f \in Feeds, Produces(f)
         PROVE  ActsAsTold'
    BY <1>10, <1>b, ActsFrame DEF Produces
  <1> QED
    BY <1>1, <1>2, <1>3, <1>4, <1>5, <1>6, <1>7, <1>8, <1>9, <1>10 DEF Moves


(***************************************************************************)
(* The closer.                                                             *)
(***************************************************************************)
\* No stream starts again, and nobody answers while the closer does not let it.
LEMMA StaysQuiet ==
  ASSUME NEW l, StaysBut(l), ~MayAnswer, Quiet,
         l \in {"session", "roster"} => pc[l] # "done"
  PROVE  Quiet'
  <1>1. l \notin {"session", "roster"}
    BY DEF Quiet
  <1>2. pc'["session"] = "done" /\ pc'["roster"] = "done"
    BY <1>1 DEF StaysBut, Quiet
  <1>3. \A k \in Lanes \cup {"reader"} : pc'[k] \notin {"handling", "writing"}
    BY DEF StaysBut, Quiet
  <1> QED
    BY <1>2, <1>3 DEF Quiet

\* Where the closer stays, and no message is sent, its end stays the last.
LEMMA EndFrame ==
  ASSUME EndComesLast, NEW l, l # "closer", StaysBut(l), sent' = sent, Ended => Ended',
         l \in {"session", "roster"} => pc[l] # "done"
  PROVE  EndComesLast'
  <1>1. /\ pc'["closer"] = pc["closer"]
        /\ socket # "open" => socket' # "open"
        /\ \A k \in {"session", "roster"} : pc[k] = "done" => pc'[k] = "done"
    BY DEF StaysBut
  <1>2. \A what : Sent(what)' = Sent(what)
    BY SentStays
  <1>3. pc["closer"] \in {"writing", "closing"} => Quiet'
    BY StaysQuiet DEF EndComesLast, MayAnswer
  <1> QED
    BY <1>1, <1>2, <1>3 DEF EndComesLast, EndSent

\* Every step keeps the end the last message.
LEMMA ClosingStep ==
  ASSUME ServedTypes, LoopsHold, EndComesLast, Moves
  PROVE  EndComesLast'
  <1>a. pc \in [Loops -> Places] /\ out \in [Loops -> Seq(Message)] /\ OtherTypes /\ LoopsHold
    BY TypesSplit
  <1>b. NothingSent => sent' = sent /\ (Ended' <=> Ended)
    BY DEF NothingSent, Ended
  <1>1. CASE Calm
    BY <1>1, <1>b, EndFrame DEF Calm
  <1>2. CASE GameMoves
    <2>1. Ended => Ended'
      BY <1>2 DEF GameMoves
    <2> QED
      BY <1>2, <2>1, EndFrame DEF GameMoves
  <1>3. CASE Starts
    BY <1>3, <1>b, EndFrame DEF Starts
  <1>4. CASE Follows
    BY <1>4, <1>b, EndFrame DEF Follows
  <1>5. CASE CloserMoves
    <2>1. /\ StaysBut("closer") /\ sent' = sent /\ (Ended' <=> Ended)
          /\ pc'["session"] = pc["session"] /\ pc'["roster"] = pc["roster"]
          /\ socket # "open" => socket' # "open"
      BY <1>5, <1>b DEF CloserMoves, StaysBut
    <2>2. \A what : Sent(what)' = Sent(what)
      BY <2>1, SentStays
    <2>3. \A e \in EndMessages : \A i \in Sent(e)' : i = Len(sent')
      BY <2>1, <2>2 DEF EndComesLast
    <2>4. EndSent' <=> EndSent
      BY <2>2 DEF EndSent
    <2>5. CASE pc["closer"] = "serving" /\ Ended /\ pc'["closer"] = "delivering"
      BY <2>1, <2>3, <2>4, <2>5 DEF EndComesLast
    <2>6. CASE pc["closer"] = "delivering" /\ Delivered /\ pc'["closer"] = "locking"
      <3>1. pc["session"] = "done" /\ pc["roster"] = "done"
        BY <1>a, <2>6 DEF Delivered, Streams, LoopsHold, MayHold, RosterMayHold, Loops
      <3> QED
        BY <2>1, <2>3, <2>4, <2>6, <3>1 DEF EndComesLast
    <2>7. CASE pc["closer"] = "locking" /\ Answering = {} /\ pc'["closer"] \in {"writing", "closing"}
      <3>1. Quiet
        <4>1. \A k \in Lanes \cup {"reader"} : pc[k] \notin {"handling", "writing"}
          BY <2>7 DEF Answering
        <4> QED
          BY <2>7, <4>1 DEF Quiet, EndComesLast
      <3>2. ~MayAnswer
        BY <2>7 DEF MayAnswer
      <3>3. Quiet'
        BY <2>1, <3>1, <3>2, StaysQuiet
      <3> QED
        BY <2>1, <2>3, <2>4, <2>7, <3>3 DEF EndComesLast
    <2>8. CASE pc["closer"] = "closing" /\ pc'["closer"] = "closed" /\ socket' # "open"
      BY <2>1, <2>3, <2>4, <2>8 DEF EndComesLast
    <2> QED
      BY <1>5, <2>5, <2>6, <2>7, <2>8 DEF CloserMoves
  <1>6. ASSUME NEW l \in Loops, GivesUp(l)
        PROVE  EndComesLast'
    <2>1. CASE l # "closer"
      BY <1>6, <1>b, <2>1, EndFrame DEF GivesUp
    <2>2. CASE l = "closer"
      <3>1. /\ StaysBut("closer") /\ sent' = sent /\ (Ended' <=> Ended)
            /\ pc["closer"] \notin {"closing", "done"}
            /\ socket # "open" => socket' # "open"
            /\ \/ pc'["closer"] = "done"
               \/ pc["closer"] = "writing" /\ pc'["closer"] = "closing"
        BY <1>6, <1>b, <2>2 DEF GivesUp, StaysBut
      <3>2. \A what : Sent(what)' = Sent(what)
        BY <3>1, SentStays
      <3>3. pc["closer"] = "writing" => Quiet'
        BY <3>1, StaysQuiet DEF EndComesLast, MayAnswer
      <3> QED
        BY <3>1, <3>2, <3>3 DEF EndComesLast, EndSent
    <2> QED
      BY <2>1, <2>2
  <1>7. ASSUME NEW l \in Loops, Sends(l)
        PROVE  EndComesLast'
    <2> DEFINE m == out[l][1]
    <2>1. /\ StaysBut(l) /\ m \in Message /\ Writable(l, m) /\ pc[l] = "writing" /\ socket = "open"
          /\ IF client.there THEN sent' = Append(sent, m) ELSE sent' = sent
          /\ l = "closer" => pc'[l] = "closing"
          /\ Ended' <=> Ended
      <3>1. (l = "closer" => pc'[l] = "closing")
        BY <1>7 DEF Sends, Written
      <3> QED
        BY <1>7, <3>1 DEF Sends, Written, Ended
    <2> HIDE DEF m
    <2>2. ~EndSent
      <3> SUFFICES ASSUME EndSent PROVE FALSE
        OBVIOUS
      <3>1. pc["closer"] = "closing" /\ Quiet
        BY <2>1 DEF EndComesLast
      <3> QED
        BY <2>1, <3>1 DEF Quiet, Loops
    <2>3. /\ pc'["closer"] \in {"delivering", "locking", "writing", "closing"} => Ended'
          /\ pc'["closer"] = "locking" => pc'["session"] = "done" /\ pc'["roster"] = "done"
          /\ pc'["closer"] \in {"writing", "closing"} => Quiet'
      <3>1. CASE l = "closer"
        <4>1. Quiet'
          BY <2>1, <3>1, StaysQuiet DEF EndComesLast, MayAnswer
        <4> QED
          BY <2>1, <3>1, <4>1 DEF EndComesLast
      <3>2. CASE l # "closer"
        <4>1. /\ pc'["closer"] = pc["closer"]
              /\ \A k \in {"session", "roster"} : pc[k] = "done" => pc'[k] = "done"
          BY <2>1, <3>2 DEF StaysBut
        <4>2. pc["closer"] \in {"writing", "closing"} => Quiet'
          BY <2>1, StaysQuiet DEF EndComesLast, MayAnswer
        <4> QED
          BY <2>1, <4>1, <4>2 DEF EndComesLast
      <3> QED
        BY <3>1, <3>2
    <2>4. sent \in Seq(Message)
      BY <1>a DEF OtherTypes
    <2>5. CASE ~client.there
      <3>1. \A what : Sent(what)' = Sent(what)
        BY <2>1, <2>5, SentStays
      <3> QED
        BY <2>2, <2>3, <3>1 DEF EndComesLast, EndSent
    <2>6. CASE client.there
      <3>1. sent' = Append(sent, m)
        BY <2>1, <2>6
      <3>2. /\ Len(sent') = Len(sent) + 1
            /\ \A what : /\ m.what = what => Sent(what)' = Sent(what) \cup {Len(sent) + 1}
                         /\ m.what # what => Sent(what)' = Sent(what)
        BY <2>1, <2>4, <3>1, SentGrows
      <3>3. m.what \in EndMessages => l = "closer"
        BY <2>1, NamesApart DEF Writable, EndMessages, Closings, RecordedEnds
      <3>4. \A e \in EndMessages : Sent(e) = {}
        BY <2>2 DEF EndSent
      <3>5. EndSent' => pc'["closer"] = "closing"
        BY <2>1, <3>2, <3>3, <3>4 DEF EndSent
      <3>6. \A e \in EndMessages : \A i \in Sent(e)' : i = Len(sent')
        BY <3>2, <3>4
      <3> QED
        BY <2>3, <3>5, <3>6 DEF EndComesLast
    <2> QED
      BY <2>5, <2>6
  <1>8. ASSUME NEW l \in Loops, Takes(l)
        PROVE  EndComesLast'
    <2>1. l # "closer" /\ StaysBut(l) /\ sent' = sent /\ pc[l] # "done" /\ (Ended => Ended')
      BY <1>8 DEF Takes, Streams, Ended
    <2> QED
      BY <2>1, EndFrame
  <1>9. ASSUME NEW l \in Loops, RunsDry(l)
        PROVE  EndComesLast'
    <2>1. l # "closer" /\ StaysBut(l) /\ pc[l] # "done"
      BY <1>9 DEF RunsDry, Streams
    <2> QED
      BY <1>9, <1>b, <2>1, EndFrame DEF RunsDry
  <1>10. ASSUME NEW f \in Feeds, Produces(f)
         PROVE  EndComesLast'
    BY <1>10, EndFrame DEF Produces, Ended
  <1> QED
    BY <1>1, <1>2, <1>3, <1>4, <1>5, <1>6, <1>7, <1>8, <1>9, <1>10 DEF Moves


(***************************************************************************)
(* Everything produced is delivered.                                       *)
(***************************************************************************)
\* A connection does not get better, and only l's place and hold may change.
LEMMA StaysIntact ==
  ASSUME NEW l, StaysBut(l)
  PROVE  /\ Intact' => Intact
         /\ kind' = kind
         /\ l # "session" => pc'["session"] = pc["session"] /\ out'["session"] = out["session"]
         /\ l # "roster" => pc'["roster"] = pc["roster"] /\ out'["roster"] = out["roster"]
         /\ l # "closer" => pc'["closer"] = pc["closer"] /\ out'["closer"] = out["closer"]
  BY DEF StaysBut, Intact

\* What a write leaves, and what it adds to what was sent.
Adds(l, m) ==
  /\ m = out[l][1] /\ m \in Message /\ Writable(l, m) /\ pc[l] = "writing"
  /\ Intact' => sent' = Append(sent, m)
  /\ phase' = (IF m.what = "start" THEN "views" ELSE phase)
  /\ \/ /\ Len(out[l]) = 1 /\ out'[l] = <<>> /\ m.what # "acting"
        /\ l \in {"session", "roster"} => pc'[l] = "next"
        /\ l = "closer" => pc'[l] = "closing"
     \/ /\ l = "session" /\ m.what = "acting" /\ Len(out[l]) = 2
        /\ Len(out'[l]) = 1 /\ out'[l][1] = out[l][2] /\ pc'[l] = "writing"
  /\ StaysBut(l) /\ FeedsStay /\ game' = game

\* Every write adds so.
LEMMA Adding ==
  ASSUME NEW l \in Loops, Sends(l)
  PROVE  Adds(l, out[l][1])
  <1>1. Intact' => client.there
    BY StaysIntact DEF Sends, Intact
  <1> QED
    BY <1>1 DEF Sends, Written, Adds

(* The views are counted. *)
LEMMA CountFrame ==
  ASSUME ViewsCounted, Intact' => Intact, sent' = sent, ViewsTaken' = ViewsTaken,
         pending'["views"] = pending["views"], published'["views"] = published["views"]
  PROVE  ViewsCounted'
  BY SentStays DEF ViewsCounted

\* How many views were sent, by one more.
LEMMA SentFinite ==
  ASSUME sent \in Seq(Message)
  PROVE  /\ Cardinality(Sent("views")) \in Nat
         /\ \A m \in Message : sent' = Append(sent, m) =>
              Cardinality(Sent("views"))' =
                IF m.what = "views" THEN Cardinality(Sent("views")) + 1 ELSE Cardinality(Sent("views"))
  <1>1. IsFiniteSet(Sent("views")) /\ Len(sent) + 1 \notin Sent("views")
    <2>1. Sent("views") \subseteq 1 .. Len(sent) /\ Len(sent) \in Nat
      BY DEF Sent
    <2>2. IsFiniteSet(1 .. Len(sent))
      BY <2>1, FS_Interval
    <2> QED
      BY <2>1, <2>2, FS_Subset
  <1>2. Cardinality(Sent("views")) \in Nat
    BY <1>1, FS_CardinalityType
  <1>3. ASSUME NEW m \in Message, sent' = Append(sent, m)
        PROVE  Cardinality(Sent("views"))' =
                 IF m.what = "views" THEN Cardinality(Sent("views")) + 1 ELSE Cardinality(Sent("views"))
    <2>1. /\ m.what = "views" => Sent("views")' = Sent("views") \cup {Len(sent) + 1}
          /\ m.what # "views" => Sent("views")' = Sent("views")
      BY <1>3, SentGrows
    <2>2. Cardinality(Sent("views") \cup {Len(sent) + 1}) = Cardinality(Sent("views")) + 1
      BY <1>1, FS_AddElement
    <2>3. CASE m.what = "views"
      BY <2>1, <2>2, <2>3
    <2>4. CASE m.what # "views"
      BY <2>1, <2>4
    <2> QED
      BY <2>3, <2>4
  <1> QED
    BY <1>2, <1>3

\* Every step keeps the views counted.
LEMMA CountStep ==
  ASSUME ServedTypes, LoopsHold, StartDivides, ViewsCounted, Moves
  PROVE  ViewsCounted'
  <1>a. pc \in [Loops -> Places] /\ out \in [Loops -> Seq(Message)] /\ OtherTypes /\ LoopsHold
    BY TypesSplit
  <1>n. NothingSent => FeedsStay /\ UNCHANGED <<sent, phase, game>>
    BY DEF NothingSent
  <1>v. \A l : StaysBut(l) /\ l # "session" /\ phase' = phase => ViewsTaken' = ViewsTaken
    BY StaysIntact DEF ViewsTaken
  <1>f. "views" \in Feeds
    BY DEF Feeds
  <1>g. FeedsStay => pending'["views"] = pending["views"] /\ published'["views"] = published["views"]
    BY <1>f DEF FeedsStay
  <1>1. CASE Calm
    BY <1>1, <1>n, <1>v, <1>g, StaysIntact, CountFrame DEF Calm
  <1>2. CASE GameMoves
    BY <1>2, <1>v, <1>g, StaysIntact, CountFrame DEF GameMoves
  <1>3. CASE Starts
    <2>1. phase = "lobby" /\ phase' = phase /\ StaysBut("session") /\ sent' = sent /\ FeedsStay
      BY <1>3, <1>n DEF Starts, StartDivides, LobbyIsDone
    <2>2. ViewsTaken' = ViewsTaken
      BY <2>1 DEF ViewsTaken
    <2> QED
      BY <1>g, <2>1, <2>2, StaysIntact, CountFrame
  <1>4. CASE Follows
    BY <1>4, <1>n, <1>v, <1>g, StaysIntact, CountFrame DEF Follows
  <1>5. CASE CloserMoves
    BY <1>5, <1>n, <1>v, <1>g, StaysIntact, CountFrame DEF CloserMoves
  <1>6. ASSUME NEW l \in Loops, GivesUp(l)
        PROVE  ViewsCounted'
    BY <1>6 DEF GivesUp, ViewsCounted
  <1>7. ASSUME NEW l \in Loops, Sends(l)
        PROVE  ViewsCounted'
    <2> SUFFICES ASSUME Intact'
                 PROVE  ViewsCounted'
      BY DEF ViewsCounted
    <2> DEFINE m == out[l][1]
    <2>1. Adds(l, m)
      BY <1>7, Adding
    <2> HIDE DEF m
    <2>2. Intact /\ sent' = Append(sent, m) /\ sent \in Seq(Message) /\ m \in Message /\ StaysBut(l) /\ FeedsStay
      BY <1>a, <2>1, StaysIntact DEF Adds, OtherTypes
    <2>3. /\ Cardinality(Sent("views")) \in Nat
          /\ Cardinality(Sent("views"))' =
               IF m.what = "views" THEN Cardinality(Sent("views")) + 1 ELSE Cardinality(Sent("views"))
      BY <2>2, SentFinite
    <2>4. ViewsTaken = (IF m.what = "views" THEN 1 ELSE 0) + ViewsTaken' /\ ViewsTaken' \in Nat
      <3>1. CASE l = "session"
        <4>1. /\ pc["session"] = "writing"
              /\ m.what \in {"lobby", "start", "views", "acting"}
              /\ m.what = "acting" => phase = "views" /\ pc'["session"] = "writing"
              /\ m.what # "acting" => pc'["session"] = "next"
              /\ phase' = (IF m.what = "start" THEN "views" ELSE phase)
          BY <2>1, <3>1, NamesApart DEF Adds, Writable
        <4>2. /\ m.what \in {"lobby", "start"} => phase = "lobby"
              /\ m.what = "views" => phase = "views"
          <5>1. 1 \in 1 .. Len(out["session"]) /\ m = out["session"][1]
            BY <2>1, <3>1 DEF Adds
          <5> QED
            BY <5>1 DEF StartDivides, SessionSays
        <4> QED
          BY <4>1, <4>2 DEF ViewsTaken
      <3>2. CASE l # "session"
        <4>1. m.what \notin {"views", "start"}
          BY <2>1, <3>2, NamesApart DEF Adds, Writable, EndMessages
        <4>2. phase' = phase
          BY <2>1, <4>1 DEF Adds
        <4> QED
          BY <1>v, <2>2, <3>2, <4>1, <4>2 DEF ViewsTaken
      <3> QED
        BY <3>1, <3>2
    <2>5. /\ Cardinality(Sent("views")) + ViewsTaken + Len(pending["views"]) = published["views"]
          /\ Len(pending["views"]) \in Nat
      BY <1>a, <2>2 DEF ViewsCounted, OtherTypes, Queues, Feeds
    <2>6. Cardinality(Sent("views"))' + ViewsTaken' = Cardinality(Sent("views")) + ViewsTaken
      BY <2>3, <2>4
    <2> QED
      BY <1>g, <2>2, <2>5, <2>6 DEF ViewsCounted
  <1>8. ASSUME NEW l \in Loops, Takes(l)
        PROVE  ViewsCounted'
    <2>1. StaysBut(l) /\ l \in {"session", "roster"} /\ UNCHANGED <<phase, sent>> /\ published'["views"] = published["views"]
      BY <1>8, <1>f DEF Takes, Streams
    <2>2. CASE l = "session" /\ phase = "views"
      <3>1. /\ pending["views"] # <<>> /\ pending'["views"] = Tail(pending["views"])
            /\ pc["session"] = "next" /\ pc'["session"] = "writing"
        BY <1>8, <2>2 DEF Takes, Source
      <3>2. pending["views"] \in Seq(Message)
        BY <1>a DEF OtherTypes, Queues, Feeds
      <3>3. Len(pending["views"]) \in Nat /\ Len(pending'["views"]) = Len(pending["views"]) - 1
        BY <3>1, <3>2
      <3>4. ViewsTaken = 0 /\ ViewsTaken' = 1
        BY <2>1, <2>2, <3>1 DEF ViewsTaken
      <3>5. Sent("views")' = Sent("views") /\ Cardinality(Sent("views")) \in Nat
        BY <1>a, <2>1, SentStays, SentFinite DEF OtherTypes
      <3> QED
        BY <2>1, <3>3, <3>4, <3>5, StaysIntact DEF ViewsCounted
    <2>3. CASE ~(l = "session" /\ phase = "views")
      <3>1. pending'["views"] = pending["views"]
        <4>1. Source(l) # "views"
          BY <1>a, <2>1, <2>3 DEF Source
        <4> QED
          BY <1>8, <1>f, <4>1 DEF Takes
      <3>2. ViewsTaken' = ViewsTaken
        <4>1. CASE l = "session"
          BY <2>1, <2>3, <4>1 DEF ViewsTaken
        <4> QED
          BY <1>v, <2>1, <4>1
      <3> QED
        BY <2>1, <3>1, <3>2, StaysIntact, CountFrame
    <2> QED
      BY <2>2, <2>3
  <1>9. ASSUME NEW l \in Loops, RunsDry(l)
        PROVE  ViewsCounted'
    <2>1. StaysBut(l) /\ UNCHANGED <<phase, sent>> /\ FeedsStay
      BY <1>9, <1>n DEF RunsDry
    <2>2. ViewsTaken' = ViewsTaken
      <3>1. CASE l = "session"
        BY <1>9, <2>1, <3>1 DEF RunsDry, ViewsTaken
      <3> QED
        BY <1>v, <2>1, <3>1
    <2> QED
      BY <1>g, <2>1, <2>2, StaysIntact, CountFrame
  <1>10. ASSUME NEW f \in Feeds, Produces(f)
         PROVE  ViewsCounted'
    <2>1. StaysBut("reader") /\ UNCHANGED <<phase, sent>>
      BY <1>10 DEF Produces
    <2>2. ViewsTaken' = ViewsTaken
      BY <1>v, <2>1
    <2>3. CASE f # "views"
      <3>1. pending'["views"] = pending["views"] /\ published'["views"] = published["views"]
        BY <1>10, <1>f, <2>3 DEF Produces
      <3> QED
        BY <2>1, <2>2, <3>1, StaysIntact, CountFrame
    <2>4. CASE f = "views"
      <3>1. PICK m \in Message : pending'["views"] = Append(pending["views"], m)
        BY <1>10, <2>4 DEF Produces
      <3>2. pending["views"] \in Seq(Message) /\ published'["views"] = published["views"] + 1
        BY <1>10, <1>a, <2>4 DEF OtherTypes, Queues, Feeds, Produces
      <3>3. Len(pending["views"]) \in Nat /\ Len(pending'["views"]) = Len(pending["views"]) + 1
        BY <3>1, <3>2
      <3>4. Sent("views")' = Sent("views") /\ Cardinality(Sent("views")) \in Nat
        BY <1>a, <2>1, SentStays, SentFinite DEF OtherTypes
      <3>5. ViewsTaken \in Nat
        BY DEF ViewsTaken
      <3> QED
        BY <2>1, <2>2, <3>2, <3>3, <3>4, <3>5, StaysIntact DEF ViewsCounted
    <2> QED
      BY <2>3, <2>4
  <1> QED
    BY <1>1, <1>2, <1>3, <1>4, <1>5, <1>6, <1>7, <1>8, <1>9, <1>10 DEF Moves

(* The newest lobby and the newest roster are kept. *)
Kept(q, said, held, waiting, top) ==
  \/ \E i \in 1 .. Len(said) : said[i].what = q /\ said[i].n = top
  \/ \E i \in 1 .. Len(held) : held[i].what = q /\ held[i].n = top
  \/ \E i \in 1 .. Len(waiting) : waiting[i].n = top

\* The lobby and the roster have their loops.
LEMMA LatestIs ==
  /\ Latest("lobby") <=> Kept("lobby", sent, out["session"], pending["lobby"], published["lobby"])
  /\ Latest("roster") <=> Kept("roster", sent, out["roster"], pending["roster"], published["roster"])
  /\ Latest("lobby")' <=> Kept("lobby", sent', out'["session"], pending'["lobby"], published'["lobby"])
  /\ Latest("roster")' <=> Kept("roster", sent', out'["roster"], pending'["roster"], published'["roster"])
  BY NamesApart DEF Latest, Kept, Taker

\* Nothing is sent, and nothing held is let go.
LEMMA LatestFrame ==
  ASSUME LatestKept, Intact' => Intact, sent' = sent, FeedsStay,
         out'["session"] = out["session"] \/ out["session"] = <<>>,
         out'["roster"] = out["roster"] \/ out["roster"] = <<>>
  PROVE  LatestKept'
  <1>1. /\ pending'["lobby"] = pending["lobby"] /\ published'["lobby"] = published["lobby"]
        /\ pending'["roster"] = pending["roster"] /\ published'["roster"] = published["roster"]
    BY DEF FeedsStay, Feeds
  <1>2. \A q, said, held, waiting, top : Kept(q, said, <<>>, waiting, top) => Kept(q, said, held, waiting, top)
    BY DEF Kept
  <1> QED
    BY <1>1, <1>2, LatestIs DEF LatestKept

\* What is written goes from what is held to what was said.
LEMMA KeptSent ==
  ASSUME NEW q, NEW s \in Seq(Message), NEW h \in Seq(Message), NEW m \in Message, NEW g \in Seq(Message),
         NEW p, NEW top, Kept(q, s, h, p, top),
         \A i \in 1 .. Len(h) : h[i] = m \/ \E j \in 1 .. Len(g) : g[j] = h[i]
  PROVE  Kept(q, Append(s, m), g, p, top)
  <1> DEFINE t == Append(s, m)
  <1>1. /\ \A i \in 1 .. Len(s) : i \in 1 .. Len(t) /\ t[i] = s[i]
        /\ Len(s) + 1 \in 1 .. Len(t) /\ t[Len(s) + 1] = m
    OBVIOUS
  <1> HIDE DEF t
  <1>2. ASSUME NEW i \in 1 .. Len(h), h[i].what = q, h[i].n = top
        PROVE  Kept(q, t, g, p, top)
    <2>1. CASE h[i] = m
      BY <1>1, <1>2, <2>1 DEF Kept
    <2>2. CASE \E j \in 1 .. Len(g) : g[j] = h[i]
      BY <1>2, <2>2 DEF Kept
    <2> QED
      BY <2>1, <2>2
  <1>3. ASSUME NEW i \in 1 .. Len(s), s[i].what = q, s[i].n = top
        PROVE  Kept(q, t, g, p, top)
    BY <1>1, <1>3 DEF Kept
  <1>4. (\E i \in 1 .. Len(p) : p[i].n = top) => Kept(q, t, g, p, top)
    BY DEF Kept
  <1> QED
    BY <1>2, <1>3, <1>4 DEF Kept, t

\* What is taken goes from what waits to what is held.
LEMMA KeptTaken ==
  ASSUME NEW q, NEW s \in Seq(Message), NEW p \in Seq(Message), NEW top, Kept(q, s, <<>>, p, top),
         p # <<>>, Head(p).what = q
  PROVE  Kept(q, s, <<Head(p)>>, Tail(p), top)
  <1> DEFINE h == <<Head(p)>>
             w == Tail(p)
  <1>1. Len(h) = 1 /\ h[1] = p[1] /\ p[1].what = q
    OBVIOUS
  <1>2. /\ Len(p) \in Nat /\ Len(w) = Len(p) - 1
        /\ \A i \in 1 .. Len(w) : w[i] = p[i + 1]
    OBVIOUS
  <1> HIDE DEF h, w
  <1>3. ASSUME NEW i \in 1 .. Len(p), p[i].n = top
        PROVE  Kept(q, s, h, w, top)
    <2>1. CASE i = 1
      BY <1>1, <1>3, <2>1 DEF Kept
    <2>2. CASE i # 1
      <3>1. i - 1 \in 1 .. Len(w) /\ w[i - 1] = p[i]
        BY <1>2, <2>2
      <3> QED
        BY <1>3, <3>1 DEF Kept
    <2> QED
      BY <2>1, <2>2
  <1>4. (\E i \in 1 .. Len(s) : s[i].what = q /\ s[i].n = top) => Kept(q, s, h, w, top)
    BY DEF Kept
  <1>5. ~ \E i \in 1 .. Len(<<>>) : TRUE
    OBVIOUS
  <1> QED
    BY <1>3, <1>4, <1>5 DEF Kept, h, w


\* Every step keeps the newest, until it is sent.
LEMMA LatestStep ==
  ASSUME ServedTypes, LoopsHold, StartDivides, ServedTypes', LatestKept, Moves
  PROVE  LatestKept'
  <1>b. out' \in [Loops -> Seq(Message)]
    BY TypesSplit
  <1>a. pc \in [Loops -> Places] /\ out \in [Loops -> Seq(Message)] /\ OtherTypes /\ LoopsHold
    BY TypesSplit
  <1>n. NothingSent => FeedsStay /\ UNCHANGED <<sent, phase, game>>
    BY DEF NothingSent
  <1>s. \A l : StaysBut(l) /\ l \notin {"session", "roster"} =>
          out'["session"] = out["session"] /\ out'["roster"] = out["roster"]
    BY StaysIntact
  <1>e. /\ pc["session"] \in {"next", "start"} => out["session"] = <<>>
        /\ pc["roster"] = "next" => out["roster"] = <<>>
    BY <1>a DEF LoopsHold, MayHold, SessionMayHold, RosterMayHold, Loops
  <1>k. /\ "lobby" \in Feeds /\ "roster" \in Feeds
        /\ FeedsStay => /\ pending'["lobby"] = pending["lobby"] /\ published'["lobby"] = published["lobby"]
                        /\ pending'["roster"] = pending["roster"] /\ published'["roster"] = published["roster"]
    BY DEF FeedsStay, Feeds
  <1>t. /\ sent \in Seq(Message) /\ out["session"] \in Seq(Message) /\ out["roster"] \in Seq(Message)
        /\ pending["lobby"] \in Seq(Message) /\ pending["roster"] \in Seq(Message)
    BY <1>a DEF OtherTypes, Queues, Feeds, Loops
  <1>1. CASE Calm
    BY <1>1, <1>n, <1>s, StaysIntact, LatestFrame DEF Calm
  <1>2. CASE GameMoves
    BY <1>2, <1>s, StaysIntact, LatestFrame DEF GameMoves
  <1>3. CASE Starts
    BY <1>3, <1>n, <1>e, StaysIntact, LatestFrame DEF Starts
  <1>4. CASE Follows
    BY <1>4, <1>n, StaysIntact, LatestFrame DEF Follows
  <1>5. CASE CloserMoves
    BY <1>5, <1>n, <1>s, StaysIntact, LatestFrame DEF CloserMoves
  <1>6. ASSUME NEW l \in Loops, GivesUp(l)
        PROVE  LatestKept'
    BY <1>6 DEF GivesUp, LatestKept
  <1>7. ASSUME NEW l \in Loops, Sends(l)
        PROVE  LatestKept'
    <2> SUFFICES ASSUME Intact'
                 PROVE  LatestKept'
      BY DEF LatestKept
    <2> DEFINE m == out[l][1]
    <2>1. Adds(l, m)
      BY <1>7, Adding
    <2> HIDE DEF m
    <2>2. Intact /\ sent' = Append(sent, m) /\ m \in Message /\ StaysBut(l) /\ FeedsStay
      BY <2>1, StaysIntact DEF Adds
    <2>3. \A k \in {"session", "roster"} :
            /\ out'[k] \in Seq(Message)
            /\ \A i \in 1 .. Len(out[k]) : out[k][i] = m \/ \E j \in 1 .. Len(out'[k]) : out'[k][j] = out[k][i]
      <3> SUFFICES ASSUME NEW k \in {"session", "roster"}
                   PROVE  /\ out'[k] \in Seq(Message)
                          /\ \A i \in 1 .. Len(out[k]) :
                               out[k][i] = m \/ \E j \in 1 .. Len(out'[k]) : out'[k][j] = out[k][i]
        OBVIOUS
      <3>0. out[k] \in Seq(Message)
        BY <1>t
      <3>1. CASE k # l
        <4>1. out'[k] = out[k]
          BY <2>2, <3>1, StaysIntact
        <4> QED
          BY <3>0, <4>1
      <3>2. CASE k = l /\ Len(out[l]) = 1 /\ out'[l] = <<>>
        <4>1. out'[k] \in Seq(Message) /\ m = out[k][1]
          BY <2>1, <3>2 DEF Adds
        <4> QED
          BY <3>2, <4>1
      <3>3. CASE k = l /\ Len(out[l]) = 2 /\ Len(out'[l]) = 1 /\ out'[l][1] = out[l][2]
        <4>1. out'[k] \in Seq(Message) /\ m = out[k][1]
          BY <1>b, <2>1, <3>3 DEF Adds, Loops
        <4>2. \A i \in 1 .. Len(out[k]) : i = 1 \/ i = 2
          BY <3>3
        <4>3. 1 \in 1 .. Len(out'[k])
          BY <3>3
        <4> QED
          BY <3>3, <4>1, <4>2, <4>3
      <3> QED
        BY <2>1, <3>1, <3>2, <3>3 DEF Adds
    <2>4. ASSUME published["lobby"] > 0
          PROVE  Latest("lobby")'
      <3>1. Kept("lobby", sent, out["session"], pending["lobby"], published["lobby"])
        BY <2>2, <2>4, LatestIs DEF LatestKept
      <3>2. Kept("lobby", Append(sent, m), out'["session"], pending["lobby"], published["lobby"])
        BY <1>t, <2>2, <2>3, <3>1, KeptSent
      <3> QED
        BY <1>k, <2>2, <3>2, LatestIs
    <2>5. ASSUME published["roster"] > 0
          PROVE  Latest("roster")'
      <3>1. Kept("roster", sent, out["roster"], pending["roster"], published["roster"])
        BY <2>2, <2>5, LatestIs DEF LatestKept
      <3>2. Kept("roster", Append(sent, m), out'["roster"], pending["roster"], published["roster"])
        BY <1>t, <2>2, <2>3, <3>1, KeptSent
      <3> QED
        BY <1>k, <2>2, <3>2, LatestIs
    <2> QED
      BY <1>k, <2>2, <2>4, <2>5 DEF LatestKept
  <1>8. ASSUME NEW l \in Loops, Takes(l)
        PROVE  LatestKept'
    <2> DEFINE q == Source(l)
    <2>1. /\ StaysBut(l) /\ l \in {"session", "roster"} /\ UNCHANGED <<phase, sent>>
          /\ pending[q] # <<>> /\ pending'[q] = Tail(pending[q]) /\ pc[l] = "next"
          /\ out'[l] = Writes(l, Head(pending[q]))
          /\ \A r \in Feeds : published'[r] = published[r] /\ (r # q => pending'[r] = pending[r])
      BY <1>8 DEF Takes, Streams
    <2>2. out[l] = <<>> /\ q \in Feeds /\ q \in Queues
      BY <1>a, <1>e, <2>1 DEF Source, OtherTypes, Queues, Feeds
    <2>3. Head(pending[q]).what = q
      BY <1>a, <2>1, <2>2, WaitingType
    <2>4. published'["lobby"] = published["lobby"] /\ published'["roster"] = published["roster"]
      BY <1>k, <2>1
    <2>5. q # "views" => out'[l] = <<Head(pending[q])>>
      BY <1>a, <2>1 DEF Writes, Source, OtherTypes
    <2>6. /\ q = "lobby" => l = "session"
          /\ q = "roster" => l = "roster"
      BY <1>a, <2>1 DEF Source, OtherTypes
    <2> HIDE DEF q
    <2>7. \A r, said, held, waiting, top : Kept(r, said, <<>>, waiting, top) => Kept(r, said, held, waiting, top)
      BY DEF Kept
    <2>8. ASSUME Intact, published["lobby"] > 0
          PROVE  Latest("lobby")'
      <3>1. Kept("lobby", sent, out["session"], pending["lobby"], published["lobby"])
        BY <2>8, LatestIs DEF LatestKept
      <3>2. CASE q = "lobby"
        <4>1. Kept("lobby", sent, <<Head(pending["lobby"])>>, Tail(pending["lobby"]), published["lobby"])
          BY <1>t, <2>1, <2>2, <2>3, <2>6, <3>1, <3>2, KeptTaken
        <4> QED
          BY <2>1, <2>4, <2>5, <2>6, <3>2, <4>1, LatestIs
      <3>3. CASE q # "lobby"
        <4>1. pending'["lobby"] = pending["lobby"]
          BY <1>k, <2>1, <3>3
        <4>2. out'["session"] = out["session"] \/ out["session"] = <<>>
          BY <2>1, <2>2, StaysIntact
        <4> QED
          BY <2>1, <2>4, <2>7, <3>1, <4>1, <4>2, LatestIs
      <3> QED
        BY <3>2, <3>3
    <2>9. ASSUME Intact, published["roster"] > 0
          PROVE  Latest("roster")'
      <3>1. Kept("roster", sent, out["roster"], pending["roster"], published["roster"])
        BY <2>9, LatestIs DEF LatestKept
      <3>2. CASE q = "roster"
        <4>1. Kept("roster", sent, <<Head(pending["roster"])>>, Tail(pending["roster"]), published["roster"])
          BY <1>t, <2>1, <2>2, <2>3, <2>6, <3>1, <3>2, KeptTaken
        <4> QED
          BY <2>1, <2>4, <2>5, <2>6, <3>2, <4>1, LatestIs
      <3>3. CASE q # "roster"
        <4>1. pending'["roster"] = pending["roster"]
          BY <1>k, <2>1, <3>3
        <4>2. out'["roster"] = out["roster"] \/ out["roster"] = <<>>
          BY <2>1, <2>2, StaysIntact
        <4> QED
          BY <2>1, <2>4, <2>7, <3>1, <4>1, <4>2, LatestIs
      <3> QED
        BY <3>2, <3>3
    <2> QED
      BY <2>1, <2>4, <2>8, <2>9, StaysIntact DEF LatestKept
  <1>9. ASSUME NEW l \in Loops, RunsDry(l)
        PROVE  LatestKept'
    <2>1. StaysBut(l) /\ sent' = sent /\ FeedsStay /\ out'[l] = out[l]
      BY <1>9, <1>n DEF RunsDry
    <2>2. out'["session"] = out["session"] /\ out'["roster"] = out["roster"]
      BY <2>1, StaysIntact
    <2> QED
      BY <2>1, <2>2, StaysIntact, LatestFrame
  <1>10. ASSUME NEW f \in Feeds, Produces(f)
         PROVE  LatestKept'
    <2>1. StaysBut("reader") /\ sent' = sent
      BY <1>10 DEF Produces
    <2>2. out'["session"] = out["session"] /\ out'["roster"] = out["roster"] /\ (Intact' => Intact)
      BY <2>1, StaysIntact
    <2>3. ASSUME NEW q \in {"lobby", "roster"}, Intact', published'[q] > 0
          PROVE  Latest(q)'
      <3>1. CASE f = q
        <4>1. PICK m \in Message : m.n = published'[q] /\ pending'[q] = <<m>>
          BY <1>10, <2>3, <3>1 DEF Produces
        <4>2. Len(<<m>>) = 1 /\ <<m>>[1] = m
          OBVIOUS
        <4>3. 1 \in 1 .. Len(pending'[q]) /\ pending'[q][1].n = published'[q]
          BY <4>1, <4>2
        <4> QED
          BY <4>3 DEF Latest
      <3>2. CASE f # q
        <4>1. pending'[q] = pending[q] /\ published'[q] = published[q]
          BY <1>10, <1>k, <3>2 DEF Produces
        <4>2. Latest(q)
          BY <2>2, <2>3, <4>1 DEF LatestKept
        <4> QED
          BY <2>1, <2>2, <4>1, <4>2, LatestIs
      <3> QED
        BY <3>1, <3>2
    <2> QED
      BY <2>3 DEF LatestKept
  <1> QED
    BY <1>1, <1>2, <1>3, <1>4, <1>5, <1>6, <1>7, <1>8, <1>9, <1>10 DEF Moves

(* The streams end only once all was taken. *)
LEMMA DeliverFrame ==
  ASSUME StreamsDeliver, Intact' => Intact, UNCHANGED <<kind, phase>>, FeedsStay,
         pc'["session"] = "done" => pc["session"] = "done", pc'["roster"] = "done" => pc["roster"] = "done",
         Ended => Ended', Ended /\ ~game.started => ~game'.started
  PROVE  StreamsDeliver'
  <1>1. /\ pending'["lobby"] = pending["lobby"] /\ pending'["views"] = pending["views"]
        /\ pending'["roster"] = pending["roster"]
    BY DEF FeedsStay, Feeds
  <1> QED
    BY <1>1 DEF StreamsDeliver

\* What was not produced does not wait.
LEMMA NoneWaits ==
  ASSUME ServedTypes, NumbersAgree, NEW q \in Queues, published[q] = 0
  PROVE  pending[q] = <<>>
  <1>1. /\ Past(q) \in Nat /\ Past(q) <= 0 /\ pending[q] \in Seq(Message)
    BY TypesSplit, LineTypes DEF NumbersAgree
  <1>2. \A i \in 1 .. Len(pending[q]) : pending[q][i].n \in 1 .. Past(q)
    BY DEF NumbersAgree, Ordered, InLine, WaitInLine
  <1>3. Len(pending[q]) \in Nat /\ ~(1 \in 1 .. Len(pending[q]))
    BY <1>1, <1>2
  <1>4. Len(pending[q]) = 0
    BY <1>3
  <1> QED
    BY <1>1, <1>4, EmptySeq

\* Every step keeps what the end of a stream means.
LEMMA DeliverStep ==
  ASSUME ServedTypes, LoopsHold, StartDivides, NumbersAgree, StreamsDeliver, Moves
  PROVE  StreamsDeliver'
  <1>a. pc \in [Loops -> Places] /\ out \in [Loops -> Seq(Message)] /\ OtherTypes /\ LoopsHold
    BY TypesSplit
  <1>n. NothingSent => FeedsStay /\ UNCHANGED <<sent, phase, game>>
    BY DEF NothingSent
  <1>s. \A l : StaysBut(l) =>
          /\ Intact' => Intact
          /\ kind' = kind
          /\ l # "session" => pc'["session"] = pc["session"]
          /\ l # "roster" => pc'["roster"] = pc["roster"]
    BY StaysIntact
  <1>g. game' = game => (Ended => Ended') /\ (Ended /\ ~game.started => ~game'.started)
    BY DEF Ended
  <1>q. {"lobby", "views", "roster"} \subseteq Feeds /\ {"lobby", "views", "roster"} \subseteq Queues
    BY DEF Queues, Feeds
  <1>1. CASE Calm
    BY <1>1, <1>n, <1>s, <1>g, DeliverFrame DEF Calm
  <1>2. CASE GameMoves
    <2>1. (Ended => Ended') /\ (Ended /\ ~game.started => ~game'.started)
      BY <1>2 DEF GameMoves
    <2> QED
      BY <1>2, <1>s, <2>1, DeliverFrame DEF GameMoves
  <1>3. CASE Starts
    <2>1. /\ StaysBut("session") /\ FeedsStay /\ UNCHANGED <<phase, game>>
          /\ pc["session"] = "start" /\ phase = "lobby" /\ pending["lobby"] = <<>>
      BY <1>3, <1>n DEF Starts, StartDivides, LobbyIsDone
    <2>2. CASE pc'["session"] = "writing"
      BY <1>s, <1>g, <2>1, <2>2, DeliverFrame
    <2>3. CASE ~game.started /\ Ended /\ pc'["session"] = "done"
      <3>1. pending["views"] = <<>>
        BY <1>q, <2>3, NoneWaits DEF StartDivides, PublishedOnceStarted
      <3>2. /\ pending'["lobby"] = pending["lobby"] /\ pending'["views"] = pending["views"]
            /\ pending'["roster"] = pending["roster"]
        BY <1>q, <2>1 DEF FeedsStay
      <3> QED
        BY <1>s, <1>g, <2>1, <2>3, <3>1, <3>2 DEF StreamsDeliver
    <2> QED
      BY <1>3, <2>2, <2>3 DEF Starts
  <1>4. CASE Follows
    <2>1. StaysBut("roster") /\ FeedsStay /\ UNCHANGED <<phase, game>>
      BY <1>4, <1>n DEF Follows
    <2>2. CASE pc'["roster"] = "next"
      BY <1>s, <1>g, <2>1, <2>2, DeliverFrame
    <2>3. CASE ~StartSent /\ pc["session"] = "done" /\ pc'["roster"] = "done"
      <3> SUFFICES ASSUME Intact'
                   PROVE  StreamsDeliver'
        BY DEF StreamsDeliver
      <3>1. Intact /\ Ended /\ (phase = "lobby" => ~game.started)
        BY <1>s, <2>1, <2>3 DEF StreamsDeliver
      <3>2. kind = "player" => phase = "lobby"
        BY <1>a, <2>3, <3>1 DEF StartDivides, StartOpensViews, Intact, OtherTypes
      <3>3. kind = "player" => pending["roster"] = <<>>
        BY <1>q, <3>1, <3>2, NoneWaits DEF StartDivides, PublishedOnceStarted
      <3>4. /\ pending'["lobby"] = pending["lobby"] /\ pending'["views"] = pending["views"]
            /\ pending'["roster"] = pending["roster"]
        BY <1>q, <2>1 DEF FeedsStay
      <3>5. Ended' /\ kind' = kind /\ pc'["session"] = pc["session"]
        BY <1>s, <1>g, <2>1, <3>1
      <3> QED
        BY <2>1, <3>1, <3>3, <3>4, <3>5 DEF StreamsDeliver
    <2> QED
      BY <1>4, <2>2, <2>3 DEF Follows
  <1>5. CASE CloserMoves
    BY <1>5, <1>n, <1>s, <1>g, DeliverFrame DEF CloserMoves
  <1>6. ASSUME NEW l \in Loops, GivesUp(l)
        PROVE  StreamsDeliver'
    BY <1>6 DEF GivesUp, StreamsDeliver
  <1>7. ASSUME NEW l \in Loops, Sends(l)
        PROVE  StreamsDeliver'
    <2> DEFINE m == out[l][1]
    <2>1. Adds(l, m)
      BY <1>7, Adding
    <2> HIDE DEF m
    <2>2. StaysBut(l) /\ FeedsStay /\ game' = game
      BY <2>1 DEF Adds
    <2>3. /\ pc'["session"] = "done" => pc["session"] = "done" /\ l # "session"
          /\ pc'["roster"] = "done" => pc["roster"] = "done"
      <3>1. l \in {"session", "roster"} => pc'[l] \in {"next", "writing"}
        BY <2>1 DEF Adds
      <3> QED
        BY <1>s, <2>2, <3>1
    <2>4. l # "session" => phase' = phase
      <3>1. l # "session" => m.what # "start"
        BY <2>1, NamesApart DEF Adds, Writable, EndMessages
      <3> QED
        BY <2>1, <3>1 DEF Adds
    <2>5. /\ pending'["lobby"] = pending["lobby"] /\ pending'["views"] = pending["views"]
          /\ pending'["roster"] = pending["roster"]
      BY <1>q, <2>2 DEF FeedsStay
    <2> QED
      BY <1>s, <1>g, <2>2, <2>3, <2>4, <2>5 DEF StreamsDeliver
  <1>8. ASSUME NEW l \in Loops, Takes(l)
        PROVE  StreamsDeliver'
    <2> DEFINE q == Source(l)
    <2>1. /\ StaysBut(l) /\ l \in {"session", "roster"} /\ UNCHANGED <<phase, game>>
          /\ pc'[l] = "writing"
          /\ \A r \in Feeds : r # q => pending'[r] = pending[r]
      BY <1>8 DEF Takes, Streams
    <2>2. /\ l = "session" => q \in {"lobby", "views"}
          /\ l = "roster" => q = "roster"
      BY <1>a DEF Source, OtherTypes
    <2> HIDE DEF q
    <2>3. /\ pc'["session"] = "done" =>
               /\ pc["session"] = "done"
               /\ pending'["lobby"] = pending["lobby"] /\ pending'["views"] = pending["views"]
          /\ pc'["roster"] = "done" => pc["roster"] = "done" /\ pending'["roster"] = pending["roster"]
      BY <1>s, <1>q, <2>1, <2>2
    <2> QED
      BY <1>s, <1>g, <2>1, <2>3 DEF StreamsDeliver
  <1>9. ASSUME NEW l \in Loops, RunsDry(l)
        PROVE  StreamsDeliver'
    <2>1. /\ StaysBut(l) /\ FeedsStay /\ UNCHANGED <<phase, game>> /\ l \in {"session", "roster"}
          /\ pending[Source(l)] = <<>>
          /\ IF l = "session" /\ phase = "lobby" THEN pc'[l] = "start" ELSE Ended /\ pc'[l] = "done"
      BY <1>9, <1>n DEF RunsDry, Streams
    <2>2. /\ pending'["lobby"] = pending["lobby"] /\ pending'["views"] = pending["views"]
          /\ pending'["roster"] = pending["roster"]
      BY <1>q, <2>1 DEF FeedsStay
    <2>3. CASE l = "session" /\ phase = "lobby"
      BY <1>s, <1>g, <2>1, <2>3, DeliverFrame
    <2>4. CASE l = "session" /\ phase # "lobby"
      <3>1. phase = "views" /\ pending["views"] = <<>> /\ pending["lobby"] = <<>>
        BY <1>a, <2>1, <2>4 DEF Source, OtherTypes, StartDivides, LobbyIsDone
      <3> QED
        BY <1>s, <1>g, <2>1, <2>2, <2>4, <3>1 DEF StreamsDeliver
    <2>5. CASE l = "roster"
      <3>1. pending["roster"] = <<>> /\ Ended
        BY <2>1, <2>5 DEF Source
      <3> QED
        BY <1>s, <1>g, <2>1, <2>2, <2>5, <3>1 DEF StreamsDeliver
    <2> QED
      BY <2>1, <2>3, <2>4, <2>5
  <1>10. ASSUME NEW f \in Feeds, Produces(f)
         PROVE  StreamsDeliver'
    <2>1. StaysBut("reader") /\ ~Ended
      BY <1>10 DEF Produces
    <2> QED
      BY <1>s, <2>1 DEF StreamsDeliver
  <1> QED
    BY <1>1, <1>2, <1>3, <1>4, <1>5, <1>6, <1>7, <1>8, <1>9, <1>10 DEF Moves

(* The end that is told is right. *)
LEMMA TellFrame ==
  ASSUME EndIsTold, Intact' => Intact, sent' = sent, Ended /\ ~game.started => ~game'.started,
         EndsWith("lobby_closed") => Ended, out'["closer"] = out["closer"]
  PROVE  EndIsTold'
  BY SentStays DEF EndIsTold, EndsWith

\* Every step keeps the end that is told right.
LEMMA TellStep ==
  ASSUME ServedTypes, LoopsHold, StartDivides, EndComesLast, StreamsDeliver, EndIsTold, Moves
  PROVE  EndIsTold'
  <1>a. pc \in [Loops -> Places] /\ out \in [Loops -> Seq(Message)] /\ OtherTypes /\ LoopsHold
    BY TypesSplit
  <1>n. NothingSent => FeedsStay /\ UNCHANGED <<sent, phase, game>>
    BY DEF NothingSent
  <1>s. \A l : StaysBut(l) => (Intact' => Intact) /\ (l # "closer" => out'["closer"] = out["closer"])
    BY StaysIntact
  <1>g. game' = game => (Ended /\ ~game.started => ~game'.started)
    OBVIOUS
  <1>h. CloserMayHold(pc["closer"], out["closer"])
    BY <1>a DEF LoopsHold, MayHold, Loops
  <1>w. \A what \in EndMessages : Only(out["closer"], {what}) => pc["closer"] = "writing"
    BY <1>h DEF CloserMayHold, Only, EndMessages, Closings, RecordedEnds
  <1>e. EndsWith("lobby_closed") /\ Intact => Ended
    <2>1. Only(out["closer"], {"lobby_closed"}) => Ended
      BY <1>w DEF EndMessages, EndComesLast
    <2>2. Sent("lobby_closed") # {} /\ Intact => Ended
      BY DEF EndMessages, EndSent, EndComesLast, Intact
    <2> QED
      BY <2>1, <2>2 DEF EndsWith
  <1> SUFFICES ASSUME Intact', Intact
               PROVE  EndIsTold'
    <2>1. Intact' => Intact
      <3>1. \A l : Sends(l) => StaysBut(l)
        BY DEF Sends
      <3> QED
        BY <1>s, <3>1 DEF Moves, Calm, GameMoves, Starts, Follows, CloserMoves, GivesUp, Takes, RunsDry, Produces
    <2> QED
      BY <2>1 DEF EndIsTold
  <1>1. CASE Calm
    BY <1>1, <1>n, <1>s, <1>g, <1>e, TellFrame DEF Calm
  <1>2. CASE GameMoves
    <2>1. Ended /\ ~game.started => ~game'.started
      BY <1>2 DEF GameMoves
    <2> QED
      BY <1>2, <1>s, <1>e, <2>1, TellFrame DEF GameMoves
  <1>3. CASE Starts
    BY <1>3, <1>n, <1>s, <1>g, <1>e, TellFrame DEF Starts
  <1>4. CASE Follows
    BY <1>4, <1>n, <1>s, <1>g, <1>e, TellFrame DEF Follows
  <1>5. CASE CloserMoves
    <2>1. sent' = sent /\ game' = game
      BY <1>5, <1>n DEF CloserMoves
    <2>2. CASE out'["closer"] = out["closer"]
      BY <1>5, <1>s, <1>g, <1>e, <2>1, <2>2, TellFrame DEF CloserMoves
    <2>3. CASE pc["closer"] = "locking" /\ Len(out'["closer"]) = 1 /\ out'["closer"][1].what = Tells
      <3>1. (StartSent' <=> StartSent) /\ \A what : Sent(what)' = Sent(what)
        BY <2>1, SentStays
      <3>2. \A what : Only(out'["closer"], {what}) => what = Tells
        BY <2>3 DEF Only
      <3>3. Tells = "session_ended" => StartSent
        BY DEF Tells
      <3>4. Tells = "lobby_closed" => ~game.started
        <4> SUFFICES ASSUME Tells = "lobby_closed"
                     PROVE  ~game.started
          OBVIOUS
        <4>1. kind # "preview" /\ ~StartSent
          BY DEF Tells
        <4>2. phase = "lobby"
          BY <1>a, <4>1 DEF StartDivides, StartOpensViews, Intact, OtherTypes
        <4>3. pc["session"] = "done"
          BY <2>3 DEF EndComesLast
        <4> QED
          BY <4>2, <4>3 DEF StreamsDeliver
      <3>5. Only(out'["closer"], {"session_ended"}) => StartSent
        BY <3>2, <3>3
      <3>6. Only(out'["closer"], {"lobby_closed"}) => ~game.started
        BY <3>2, <3>4
      <3> QED
        BY <2>1, <3>1, <3>5, <3>6 DEF EndIsTold, EndsWith
    <2>4. CASE socket' # "open"
      BY <2>4 DEF Intact
    <2> QED
      BY <1>5, <2>2, <2>3, <2>4 DEF CloserMoves
  <1>6. ASSUME NEW l \in Loops, GivesUp(l)
        PROVE  EndIsTold'
    BY <1>6 DEF GivesUp
  <1>7. ASSUME NEW l \in Loops, Sends(l)
        PROVE  EndIsTold'
    <2> DEFINE m == out[l][1]
    <2>1. Adds(l, m)
      BY <1>7, Adding
    <2>2. m = out[l][1]
      OBVIOUS
    <2> HIDE DEF m
    <2>3. sent' = Append(sent, m) /\ sent \in Seq(Message) /\ m \in Message /\ StaysBut(l) /\ game' = game
      BY <1>a, <2>1 DEF Adds, OtherTypes
    <2>4. \A what : Sent(what) # {} => Sent(what)' # {}
      BY <2>3, SentGrows
    <2>5. \A what : Sent(what)' # {} => Sent(what) # {} \/ m.what = what
      BY <2>3, SentGrows
    <2>6. StartSent => StartSent'
      BY <2>4, StartIsSent
    <2>7. CASE l = "closer"
      <3>1. Len(out["closer"]) = 1 /\ out'["closer"] = <<>> /\ m = out["closer"][1]
        BY <2>1, <2>2, <2>7 DEF Adds
      <3>2. Only(out["closer"], {m.what})
        BY <3>1 DEF Only
      <3>3. \A what : ~Only(out'["closer"], {what})
        BY <3>1 DEF Only
      <3>4. \A what : EndsWith(what)' => EndsWith(what)
        BY <2>5, <3>2, <3>3 DEF EndsWith
      <3> QED
        BY <2>3, <2>6, <3>4 DEF EndIsTold
    <2>8. CASE l # "closer"
      <3>1. m.what \notin EndMessages
        BY <2>1, <2>8, NamesApart DEF Adds, Writable, EndMessages, Closings, RecordedEnds
      <3>2. out'["closer"] = out["closer"]
        BY <1>s, <2>3, <2>8
      <3>3. \A what \in EndMessages : EndsWith(what)' => EndsWith(what)
        BY <2>5, <3>1, <3>2 DEF EndsWith
      <3> QED
        BY <2>3, <2>6, <3>3 DEF EndIsTold, EndMessages
    <2> QED
      BY <2>7, <2>8
  <1>8. ASSUME NEW l \in Loops, Takes(l)
        PROVE  EndIsTold'
    <2>1. StaysBut(l) /\ l # "closer" /\ sent' = sent /\ game' = game
      BY <1>8 DEF Takes, Streams
    <2> QED
      BY <1>s, <1>g, <1>e, <2>1, TellFrame
  <1>9. ASSUME NEW l \in Loops, RunsDry(l)
        PROVE  EndIsTold'
    <2>1. StaysBut(l) /\ l # "closer" /\ sent' = sent /\ game' = game
      BY <1>9, <1>n DEF RunsDry, Streams
    <2> QED
      BY <1>s, <1>g, <1>e, <2>1, TellFrame
  <1>10. ASSUME NEW f \in Feeds, Produces(f)
         PROVE  EndIsTold'
    <2>1. StaysBut("reader") /\ sent' = sent /\ game' = game
      BY <1>10 DEF Produces
    <2> QED
      BY <1>s, <1>g, <1>e, <2>1, TellFrame
  <1> QED
    BY <1>1, <1>2, <1>3, <1>4, <1>5, <1>6, <1>7, <1>8, <1>9, <1>10 DEF Moves


(***************************************************************************)
(* The invariant.                                                          *)
(***************************************************************************)
\* What the loops hold when the connection is served: nothing.
LEMMA ServedStarts ==
  ServedInit => ServedInv
  <1> SUFFICES ASSUME ServedInit
               PROVE  ServedInv
    OBVIOUS
  <1> DEFINE told == [what |-> "acting", n |-> 0, actor |-> acting]
  <1>1. kind \in Kinds /\ kind \in {"player", "admin", "preview"}
    BY ServedAssumption DEF ServedAssumption, ServedInit
  <1>2. /\ {"reader", "session", "roster", "closer"} \subseteq Loops
        /\ \A l \in Loops : out[l] = <<>>
    BY DEF ServedInit, Loops
  <1>3. /\ pc["reader"] = "read" /\ pc["closer"] = "serving" /\ pc["session"] = "next"
        /\ pc["roster"] = (IF kind = "player" THEN "held" ELSE "done")
        /\ \A l \in Lanes : pc[l] = "next"
    BY <1>2, NamesApart DEF ServedInit, Starting, Loops
  <1>4. \A q \in Queues : pending[q] = <<>> /\ published[q] = 0
    BY DEF ServedInit
  <1>5. told.what = "acting" /\ told.n = 0 /\ told.actor = acting /\ told \in Message
    <2>1. told.what = "acting" /\ told.n = 0 /\ told.actor = acting
      OBVIOUS
    <2>2. acting \in Actors \cup {"none"}
      BY DEF ServedInit
    <2>3. told \in Message
      BY <2>2, MessageType
    <2> QED
      BY <2>1, <2>3
  <1>6. sent = (IF kind = "preview" THEN <<told>> ELSE <<>>)
    BY DEF ServedInit
  <1> HIDE DEF told
  <1>7. /\ \A i \in 1 .. Len(sent) : i = 1 /\ sent[i] = told
        /\ kind = "preview" => Len(sent) = 1 /\ sent[1] = told
        /\ sent \in Seq(Message)
    <2>1. CASE kind = "preview"
      <3>1. /\ Len(<<told>>) = 1 /\ <<told>>[1] = told /\ <<told>> \in Seq(Message)
            /\ \A i \in 1 .. Len(<<told>>) : i = 1
        BY <1>5
      <3> QED
        BY <1>6, <2>1, <3>1
    <2>2. CASE kind # "preview"
      <3>1. /\ <<>> \in Seq(Message)
            /\ \A i \in 1 .. Len(<<>>) : FALSE
        OBVIOUS
      <3> QED
        BY <1>6, <2>2, <3>1
    <2> QED
      BY <2>1, <2>2
  <1>8. \A what : what # "acting" => Sent(what) = {}
    BY <1>5, <1>7 DEF Sent
  <1>9. ~StartSent
    BY <1>8, StartIsSent
  <1>10. ServedTypes
    <2>1. \A l \in Loops : Starting(kind)[l] \in Places
      BY DEF Starting, Places
    <2>2. pc \in [Loops -> Places]
      BY <2>1 DEF ServedInit, Starting
    <2>3. out \in [Loops -> Seq(Message)]
      BY DEF ServedInit
    <2>4. /\ pending \in [Queues -> Seq(Message)] /\ \A q \in Queues : pending[q] \in Seq(Of(q))
      BY DEF ServedInit
    <2>5. signal \in [Lanes -> BOOLEAN] /\ published \in [Queues -> Nat]
      BY DEF ServedInit
    <2>6. /\ phase \in {"lobby", "views"} /\ acting \in Actors \cup {"none"}
          /\ game \in [started : BOOLEAN, ended : {"none", "session_ended", "owner_changed", "disconnected"}]
          /\ socket \in {"open", "recorded", "unrecorded", "released"}
          /\ client \in [there : BOOLEAN, takes : BOOLEAN]
          /\ dropped \in RecordedEnds \cup {"none"}
          /\ stage \in {"serving", "decided", "draining", "over"} /\ cancelled \in BOOLEAN
      BY DEF ServedInit
    <2>7. results \in Seq(LoggedEnds) /\ cause \in LoggedEnds
      BY DEF ServedInit, LoggedEnds
    <2> QED
      BY <1>1, <1>7, <2>2, <2>3, <2>4, <2>5, <2>6, <2>7 DEF ServedTypes
  <1>11. LoopsHold
    <2> SUFFICES ASSUME NEW l \in Loops
                 PROVE  MayHold(l, pc[l], out[l])
      BY DEF LoopsHold
    <2>1. out[l] = <<>>
      BY <1>2
    <2> QED
      BY <1>3, <2>1, NamesApart
      DEF MayHold, LaneMayHold, ReaderMayHold, CloserMayHold, RosterMayHold, SessionMayHold
  <1>12. EndsAreKnown
    <2>1. ~Reported
      BY DEF Reported, ServedInit
    <2>2. \A l \in Loops : pc[l] # "closed"
      BY <1>3 DEF Loops
    <2> QED
      BY <2>1, <2>2 DEF EndsAreKnown, ServedInit
  <1>13. StartDivides
    <2>1. kind = "preview" => phase = "views" /\ game.started
      BY DEF ServedInit
    <2>2. kind # "preview" => phase = "lobby"
      BY DEF ServedInit
    <2>3. PreviewIsStarted
      BY <1>8, <2>1 DEF PreviewIsStarted
    <2>4. Before("lobby", "start") /\ Before("start", "views") /\ Before("start", "roster")
      BY <1>8 DEF Before
    <2>5. StartOpensViews
      BY <1>8, <1>9, <2>2, <2>4 DEF StartOpensViews
    <2>6. LobbyIsDone
      BY <1>3, <1>4, <2>1, <2>2 DEF LobbyIsDone, Queues, Feeds
    <2>7. SessionSays
      <3>1. out["session"] = <<>>
        BY <1>2
      <3> QED
        BY <3>1 DEF SessionSays
    <2>8. RosterFollows
      BY <1>3 DEF RosterFollows
    <2>9. PublishedOnceStarted
      BY <1>4 DEF PublishedOnceStarted, Queues, Feeds
    <2> QED
      BY <2>3, <2>4, <2>5, <2>6, <2>7, <2>8, <2>9 DEF StartDivides
  <1>14. NumbersAgree
    <2>1. OfferIsNext
      BY <1>3 DEF OfferIsNext
    <2> SUFFICES ASSUME NEW q \in Queues
                 PROVE  Ordered(q)
      BY <2>1 DEF NumbersAgree
    <2>2. /\ Taker(q) \in Loops
          /\ q # "acting"
      BY <1>10, TypesSplit, <2>1, LineTypes
    <2>3. out[Taker(q)] = <<>> /\ pending[q] = <<>>
      BY <1>2, <1>4, <2>2
    <2>4. \A i \in 1 .. Len(sent) : sent[i].what # q
      BY <1>5, <1>7, <2>2
    <2>5. \A i \in 1 .. Len(<<>>) : FALSE
      OBVIOUS
    <2> QED
      BY <2>3, <2>4, <2>5 DEF Ordered, InLine, WaitInLine, HeldInLine, SentInLine
  <1>15. ActsAsTold
    <2> SUFFICES ASSUME kind = "preview"
                 PROVE  /\ \A i \in 1 .. Len(sent) : sent[i].what = "views" => ToldUpTo(sent, sent[i].actor, i)
                        /\ \A i \in 1 .. Len(out["session"]) : out["session"][i].actor = acting
                        /\ ToldUpTo(sent, acting, Len(sent) + 1)
      BY DEF ActsAsTold
    <2>1. \A i \in 1 .. Len(sent) : sent[i].what # "views"
      BY <1>5, <1>7
    <2>2. out["session"] = <<>>
      BY <1>2
    <2>3. ToldUpTo(sent, acting, Len(sent) + 1)
      <3>1. Len(sent) = 1 /\ sent[1].what = "acting" /\ sent[1].actor = acting
        BY <1>5, <1>7
      <3> QED
        BY <1>7, <3>1 DEF ToldUpTo
    <2> QED
      BY <2>1, <2>2, <2>3
  <1>16. EndComesLast
    <2>1. \A e \in EndMessages : Sent(e) = {}
      BY <1>8 DEF EndMessages
    <2> QED
      BY <1>3, <2>1 DEF EndComesLast, EndSent
  <1>17. AllDelivered
    <2>1. Sent("views") = {} /\ Sent("session_ended") = {} /\ Sent("lobby_closed") = {}
      BY <1>8
    <2>2. /\ pending["views"] = <<>> /\ published["views"] = 0
          /\ published["lobby"] = 0 /\ published["roster"] = 0
      BY <1>4 DEF Queues, Feeds
    <2>3. ViewsCounted
      <3>1. ViewsTaken = 0
        BY <1>3 DEF ViewsTaken
      <3>2. Cardinality(Sent("views")) = 0
        BY <2>1, FS_EmptySet
      <3>3. Len(pending["views"]) = 0
        BY <2>2
      <3> QED
        BY <2>2, <3>1, <3>2, <3>3 DEF ViewsCounted
    <2>4. LatestKept
      BY <2>2 DEF LatestKept
    <2>5. StreamsDeliver
      BY <1>3 DEF StreamsDeliver
    <2>6. EndIsTold
      <3>1. out["closer"] = <<>>
        BY <1>2
      <3>2. \A what : ~Only(out["closer"], {what})
        BY <3>1 DEF Only
      <3> QED
        BY <2>1, <3>2 DEF EndIsTold, EndsWith
    <2> QED
      BY <2>3, <2>4, <2>5, <2>6 DEF AllDelivered
  <1> QED
    BY <1>10, <1>11, <1>12, <1>13, <1>14, <1>15, <1>16, <1>17 DEF ServedInv

\* The invariant is inductive: each part from those before it.
LEMMA ServedStep ==
  ServedInv /\ [ServedNext]_servedVars => ServedInv'
  <1> SUFFICES ASSUME ServedInv, [ServedNext]_servedVars
               PROVE  ServedInv'
    OBVIOUS
  <1>1. /\ ServedTypes /\ LoopsHold /\ EndsAreKnown /\ StartDivides /\ NumbersAgree /\ ActsAsTold
        /\ EndComesLast /\ ViewsCounted /\ LatestKept /\ StreamsDeliver /\ EndIsTold
    BY DEF ServedInv, AllDelivered
  <1>2. ServedTypes' /\ LoopsHold'
    BY <1>1, TypeStep
  <1>3. EndsAreKnown'
    BY <1>1, EndsStep
  <1>4. StartDivides'
    BY <1>1, StartStep
  <1>5. NumbersAgree'
    BY <1>1, NumbersStep
  <1>6. Moves
    BY <1>1, StepMoves
  <1>7. ActsAsTold'
    BY <1>1, <1>6, ActsStep
  <1>8. EndComesLast'
    BY <1>1, <1>6, ClosingStep
  <1>9. ViewsCounted'
    BY <1>1, <1>6, CountStep
  <1>10. LatestKept'
    BY <1>1, <1>2, <1>6, LatestStep
  <1>11. StreamsDeliver'
    BY <1>1, <1>6, DeliverStep
  <1>12. EndIsTold'
    BY <1>1, <1>6, TellStep
  <1> QED
    BY <1>2, <1>3, <1>4, <1>5, <1>7, <1>8, <1>9, <1>10, <1>11, <1>12 DEF ServedInv, AllDelivered

\* However a connection is served, the invariant holds.
THEOREM ServedInvariant == ServedSpec => []ServedInv
  <1> QED
    BY ServedStarts, ServedStep, PTL DEF ServedSpec

(***************************************************************************)
(* What the client and the logs may rely on.                               *)
(***************************************************************************)
\* serve and closeAs: an end logged as the client's, while it is there, is of
\* a socket closed without a recorded end, never one the server recorded.
THEOREM ServedEndsAreReported == ServedSpec => []RecordedEndsAreReported
  <1>1. ServedInv => RecordedEndsAreReported
    BY DEF ServedInv, EndsAreKnown, Reported, RecordedEndsAreReported
  <1> QED
    BY <1>1, ServedInvariant, PTL

\* closeOnRuntimeEnd: when the connection is closed for its owner, the client
\* has everything produced for it before, and no answer is cut.
THEOREM ServedIsNotCutShort == ServedSpec => []NothingIsCutShort
  <1>1. ServedInv => NothingIsCutShort
    <2> SUFFICES ASSUME ServedInv, pc["closer"] = "closing", socket = "open", client.there, ~cancelled
                 PROVE  /\ Cardinality(Sent("views")) = published["views"]
                        /\ \A feed \in {"lobby", "roster"} :
                             published[feed] > 0 => \E i \in Sent(feed) : sent[i].n = published[feed]
                        /\ kind # "preview" => (game.started <=> Sent("start") # {})
                        /\ Sent("session_ended") # {} => Sent("start") # {}
                        /\ Sent("lobby_closed") # {} => ~game.started
                        /\ Answering = {}
      BY DEF NothingIsCutShort
    <2>1. /\ ServedTypes /\ LoopsHold /\ EndsAreKnown /\ StartDivides /\ EndComesLast
          /\ ViewsCounted /\ LatestKept /\ StreamsDeliver /\ EndIsTold
      BY DEF ServedInv, AllDelivered
    <2>2. Intact
      BY DEF Intact
    <2>3. Quiet
      BY <2>1 DEF EndComesLast
    <2>4. /\ pc["session"] = "done" /\ pc["roster"] = "done"
          /\ out["session"] = <<>> /\ out["roster"] = <<>>
      <3>1. pc["session"] = "done" /\ pc["roster"] = "done"
        BY <2>3 DEF Quiet
      <3>2. out["session"] = <<>> /\ out["roster"] = <<>>
        BY <2>1, <3>1 DEF LoopsHold, MayHold, SessionMayHold, RosterMayHold, Loops
      <3> QED
        BY <3>1, <3>2
    <2>5. /\ pending["views"] = <<>> /\ pending["lobby"] = <<>>
          /\ phase = "lobby" => ~game.started
          /\ kind = "player" => pending["roster"] = <<>>
      BY <2>1, <2>2, <2>4 DEF StreamsDeliver
    <2>6. OtherTypes
      BY <2>1, TypesSplit
    <2>7. Cardinality(Sent("views")) = published["views"]
      <3>1. ViewsTaken = 0 /\ Len(pending["views"]) = 0
        BY <2>4, <2>5 DEF ViewsTaken
      <3>2. Cardinality(Sent("views")) \in Nat
        BY <2>6, SentFinite DEF OtherTypes
      <3> QED
        BY <2>1, <2>2, <3>1, <3>2 DEF ViewsCounted
    <2>8. ASSUME published["lobby"] > 0
          PROVE  \E i \in Sent("lobby") : sent[i].n = published["lobby"]
      <3>1. Kept("lobby", sent, <<>>, <<>>, published["lobby"])
        BY <2>1, <2>2, <2>4, <2>5, <2>8, LatestIs DEF LatestKept
      <3> QED
        BY <3>1 DEF Kept, Sent
    <2>9. ASSUME published["roster"] > 0
          PROVE  \E i \in Sent("roster") : sent[i].n = published["roster"]
      <3>1. kind = "player"
        BY <2>1, <2>9 DEF StartDivides, PublishedOnceStarted
      <3>2. Kept("roster", sent, <<>>, <<>>, published["roster"])
        BY <2>1, <2>2, <2>4, <2>5, <2>9, <3>1, LatestIs DEF LatestKept
      <3> QED
        BY <3>2 DEF Kept, Sent
    <2>10. kind # "preview" => (game.started <=> StartSent)
      <3> SUFFICES ASSUME kind # "preview"
                   PROVE  game.started <=> StartSent
        OBVIOUS
      <3>1. StartSent => game.started
        BY <2>1 DEF StartDivides, StartOpensViews, LobbyIsDone
      <3>2. game.started => StartSent
        BY <2>1, <2>5, <2>6 DEF StartDivides, StartOpensViews, OtherTypes
      <3> QED
        BY <3>1, <3>2
    <2>11. /\ Sent("session_ended") # {} => StartSent
           /\ Sent("lobby_closed") # {} => ~game.started
      BY <2>1, <2>2 DEF EndIsTold, EndsWith
    <2>12. Answering = {}
      <3>1. \A l \in Lanes \cup {"reader"} : pc[l] \notin {"handling", "writing"}
        BY <2>3 DEF Quiet
      <3>2. \A l \in Lanes \cup {"reader"} : pc[l] # "closed"
        BY <2>1 DEF EndsAreKnown, Loops
      <3> QED
        BY <3>1, <3>2 DEF Answering
    <2> QED
      BY <2>7, <2>8, <2>9, <2>10, <2>11, <2>12, StartIsSent
  <1> QED
    BY <1>1, ServedInvariant, PTL

\* sendSession and sendRoster: the lobby, then the start, then views and
\* roster, each in the order produced, a preview's view under the participant
\* told last, and nothing after the end.
THEOREM ServedInOrder == ServedSpec => []SentInOrder
  <1>1. ServedInv => SentInOrder
    <2> SUFFICES ASSUME ServedInv
                 PROVE  SentInOrder
      OBVIOUS
    <2>1. /\ Before("lobby", "start")
          /\ kind # "preview" => \A what \in {"views", "roster"} :
                                   Sent(what) # {} => Sent("start") # {} /\ Before("start", what)
      BY StartIsSent DEF ServedInv, StartDivides, StartOpensViews
    <2>2. \A what \in Feeds \cup Lanes : Numbered(what)
      <3> SUFFICES ASSUME NEW what \in Feeds \cup Lanes
                   PROVE  Numbered(what)
        OBVIOUS
      <3>1. SentInLine(what, sent, out[Taker(what)], pending[what], Past(what))
        BY DEF ServedInv, NumbersAgree, Ordered, InLine, Queues
      <3>2. \A i \in 1 .. Len(sent) : sent[i].what = what =>
              \A j \in 1 .. Len(sent) : sent[j].what = what /\ i < j => sent[i].n < sent[j].n
        BY <3>1 DEF SentInLine
      <3> QED
        BY <3>2 DEF Numbered, Sent
    <2>3. kind = "preview" => \A i \in Sent("views") : \E j \in Sent("acting") :
            j < i /\ sent[j].actor = sent[i].actor /\ \A k \in Sent("acting") : k <= j \/ k > i
      <3> SUFFICES ASSUME kind = "preview", NEW i \in Sent("views")
                   PROVE  \E j \in Sent("acting") :
                            /\ j < i /\ sent[j].actor = sent[i].actor
                            /\ \A k \in Sent("acting") : k <= j \/ k > i
        OBVIOUS
      <3>1. ToldUpTo(sent, sent[i].actor, i)
        BY DEF ServedInv, ActsAsTold, Sent
      <3> QED
        BY <3>1 DEF ToldUpTo, Sent
    <2>4. \A e \in EndMessages : \A i \in Sent(e) : i = Len(sent)
      BY DEF ServedInv, EndComesLast
    <2> QED
      BY <2>1, <2>2, <2>3, <2>4 DEF SentInOrder
  <1> QED
    BY <1>1, ServedInvariant, PTL
=============================================================================
