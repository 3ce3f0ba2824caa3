------------------------------ MODULE ViewFeeds ------------------------------
(***************************************************************************)
(* What connections see of a running game (sendView, sendFull and viewFeed *)
(* of play/runtime/workflows/liveconnection, viewpatch): a boundary's      *)
(* views go out as patches over the view the connection was last sent,     *)
(* with the acknowledgement, errors and events of its participant; a       *)
(* connection that does not take its views gets one FULL view instead.     *)
(* The viewers are player connections and watching admins; a client applies*)
(* what it takes.                                                          *)
(***************************************************************************)
EXTENDS Integers, Sequences, FiniteSets, SequencesExt

CONSTANTS
  Seats,        \* participants
  Players,      \* player connections, one for each seat
  Admins,       \* admin connections
  Fields, FieldValues, \* a view is a function from fields to values
  NoView,
  MaxPending,   \* pendingViews
  MaxViews,     \* boundaries of the model
  MaxResyncs    \* FULL views asked for

ASSUME ViewsAssumption ==
  /\ MaxPending \in Nat \ {0}
  /\ Players \cap Admins = {}

VARIABLES
  cache,    \* each seat's current view
  acked,    \* how far each seat's samples were consumed
  seatOf,   \* the seat of each player connection: a preview's changes
  watching, \* the seat each admin watches
  feeds,    \* each viewer's last view, acknowledgement and revision, and its pending views
  clients,  \* what each viewer's client has of the views it took
  shown,    \* events and errors sent to each viewer's seat since it follows it
  boundaries, resyncs

viewVars == <<cache, acked, seatOf, watching, feeds, clients, shown, boundaries, resyncs>>

Viewers == Players \cup Admins
AllViews == UNION {[fields -> FieldValues] : fields \in SUBSET Fields \ {{}}}

Follows(v) == IF v \in Players THEN seatOf[v] ELSE watching[v]
Watches(v) == Follows(v) # NoView

(* Diff: the changed fields; whole without a view before it, or when a field
   disappeared. *)
IsFull(previous, next) == previous = NoView \/ ~(DOMAIN previous \subseteq DOMAIN next)
Diff(previous, next) ==
  IF IsFull(previous, next) THEN next
  ELSE [f \in {f \in DOMAIN next : f \in DOMAIN previous => previous[f] # next[f]} |-> next[f]]

NoPatch == [f \in {} |-> NoView]

(* ackFor: an admin is not sent the acknowledgements of who they watch. *)
AckFor(v, acks) == IF v \in Players THEN acks[seatOf[v]] ELSE 0

View(v, full, revision, state, ack, errors, events) ==
  [seat |-> Follows(v), full |-> full, revision |-> revision, state |-> state, ack |-> ack,
   errors |-> errors, events |-> events]

(* Mutant: the collapsed view keeps only what the newest one carried. *)
PublishDropping(pending, view, whole) ==
  IF Len(pending) < MaxPending \/ whole = NoView THEN Append(pending, view)
  ELSE <<[view EXCEPT !.full = TRUE, !.state = whole]>>

(* publish: views left untaken collapse into one FULL view of whole that
   keeps the errors and events of its own participant, in order. *)
Publish(pending, view, whole) ==
  IF Len(pending) < MaxPending \/ whole = NoView THEN Append(pending, view)
  ELSE LET own == SelectSeq(Append(pending, view), LAMBDA behind : behind.seat = view.seat)
           all(field) == FoldLeft(LAMBDA so, behind : so \o behind[field], <<>>, own)
       IN <<[view EXCEPT !.full = TRUE, !.state = whole,
                         !.errors = all("errors"), !.events = all("events")]>>

(* sendView: nothing when neither the view, the acknowledgement nor an error
   or event is new; a view that only acknowledges keeps its revision. *)
SendView(v, view, acks, errors, events) ==
  LET feed  == feeds[v]
      ack   == AckFor(v, acks)
      mine  == IF v \in Players THEN errors ELSE <<>>
      full  == view # NoView /\ IsFull(feed.last, view)
      patch == IF view = NoView THEN NoPatch ELSE Diff(feed.last, view)
      last  == IF view = NoView THEN feed.last ELSE view
      empty == ~full /\ patch = NoPatch
      revision == IF empty THEN feed.revision ELSE feed.revision + 1
  IN IF empty /\ ack = feed.ack /\ mine = <<>> /\ events = <<>> THEN [feed EXCEPT !.last = last]
     ELSE [last |-> last, ack |-> ack, revision |-> revision,
           pending |-> Publish(feed.pending, View(v, full, revision, patch, ack, mine, events), last)]

(* sendFull: a fresh baseline for the patches that follow. *)
FullFor(v, seat, acks) ==
  LET feed == feeds[v]
      ack  == IF v \in Players THEN acks[seat] ELSE 0
      view == [View(v, TRUE, feed.revision + 1, cache[seat], ack, <<>>, <<>>) EXCEPT !.seat = seat]
  IN [last |-> cache[seat], ack |-> ack, revision |-> feed.revision + 1,
      pending |-> Publish(feed.pending, view, cache[seat])]

-----------------------------------------------------------------------------
(* A transient for one seat, for everyone, or none; numbered by boundary. *)
Received(target, v) ==
  IF Watches(v) /\ target \in {"all", Follows(v)} THEN <<boundaries + 1>> ELSE <<>>

(* commitBoundary and acknowledge: every seat's view follows the batch. *)
Acknowledge(views, consumed, errorTo, eventTo) ==
  /\ boundaries < MaxViews
  /\ boundaries' = boundaries + 1
  /\ cache' = views
  /\ acked' = consumed
  /\ feeds' = [v \in Viewers |->
       IF ~Watches(v) THEN feeds[v]
       ELSE SendView(v, views[Follows(v)], consumed, Received(errorTo, v), Received(eventTo, v))]
  /\ shown' = [v \in Viewers |->
       [errors |-> shown[v].errors \o (IF v \in Players THEN Received(errorTo, v) ELSE <<>>),
        events |-> shown[v].events \o Received(eventTo, v)]]
  /\ UNCHANGED <<seatOf, watching, clients, resyncs>>

(* What a boundary changes: one seat's view, or one seat's acknowledgement
   when it had nothing to run, with an error and an event for a seat or an
   event for everyone. *)
CommitViews ==
  \E s \in Seats, view \in AllViews, to \in Seats \cup {NoView} :
    Acknowledge([cache EXCEPT ![s] = view], [acked EXCEPT ![s] = boundaries + 1], to,
                IF to = NoView THEN "all" ELSE to)
AcknowledgeRefreshes ==
  \E s \in Seats :
    Acknowledge(cache, [acked EXCEPT ![s] = boundaries + 1], NoView, NoView)

(* A FULL view asked for or given with a new perspective. *)
SendFull(v, seat) ==
  /\ resyncs < MaxResyncs
  /\ resyncs' = resyncs + 1
  /\ feeds' = [feeds EXCEPT ![v] = FullFor(v, seat, acked)]
  /\ UNCHANGED <<cache, acked, clients, boundaries>>

NothingShown == [errors |-> <<>>, events |-> <<>>]

(* resync and resyncAdmin. *)
Resync(v) ==
  /\ Watches(v)
  /\ SendFull(v, Follows(v))
  /\ UNCHANGED <<seatOf, watching, shown>>

(* selectPerspective: any seat, again and again. *)
SelectPerspective(a, seat) ==
  /\ SendFull(a, seat)
  /\ watching' = [watching EXCEPT ![a] = seat]
  /\ shown' = [shown EXCEPT ![a] = IF watching[a] = seat THEN @ ELSE NothingShown]
  /\ UNCHANGED seatOf

(* actAs of a preview, whose one connection plays each seat in turn. *)
ActAsSeat(v, seat) ==
  /\ Cardinality(Players) = 1
  /\ SendFull(v, seat)
  /\ seatOf' = [seatOf EXCEPT ![v] = seat]
  /\ shown' = [shown EXCEPT ![v] = IF seatOf[v] = seat THEN @ ELSE NothingShown]
  /\ UNCHANGED watching

(* A connection of the same seat takes over with a FULL view (reattach);
   what the older one did not take is gone with it. *)
Reattached(v) ==
  /\ v \in Players
  /\ resyncs < MaxResyncs
  /\ resyncs' = resyncs + 1
  /\ feeds' = [feeds EXCEPT ![v] =
       LET view == View(v, TRUE, 1, cache[seatOf[v]], acked[seatOf[v]], <<>>, <<>>)
       IN [last |-> view.state, ack |-> view.ack, revision |-> 1, pending |-> <<view>>]]
  /\ clients' = [clients EXCEPT ![v] = [seat |-> NoView, state |-> NoView, revision |-> 0, ack |-> 0,
                                        errors |-> <<>>, events |-> <<>>, broken |-> FALSE]]
  /\ shown' = [shown EXCEPT ![v] = NothingShown]
  /\ UNCHANGED <<cache, acked, seatOf, watching, boundaries>>

(* The client: a FULL view replaces what it has; a patch must follow the
   revision it has of the same seat. *)
Applied(client, view) ==
  LET follows == view.seat = client.seat
                 /\ view.revision = (IF view.state = NoPatch THEN client.revision ELSE client.revision + 1)
      patched == [f \in DOMAIN client.state \cup DOMAIN view.state |->
                    IF f \in DOMAIN view.state THEN view.state[f] ELSE client.state[f]]
      same == view.seat = client.seat
  IN [seat |-> view.seat,
      state |-> IF view.full THEN view.state ELSE IF follows THEN patched ELSE client.state,
      revision |-> view.revision,
      ack |-> view.ack,
      errors |-> (IF same THEN client.errors ELSE <<>>) \o view.errors,
      events |-> (IF same THEN client.events ELSE <<>>) \o view.events,
      broken |-> client.broken \/ (~view.full /\ ~follows)]

(* take: the oldest first. *)
TakeView(v) ==
  /\ feeds[v].pending # <<>>
  /\ clients' = [clients EXCEPT ![v] = Applied(@, Head(feeds[v].pending))]
  /\ feeds' = [feeds EXCEPT ![v].pending = Tail(@)]
  /\ UNCHANGED <<cache, acked, seatOf, watching, shown, boundaries, resyncs>>

-----------------------------------------------------------------------------
FirstView == [f \in Fields |-> CHOOSE value \in FieldValues : TRUE]

(* completeStart: each participant's connection gets a FULL first view. *)
ViewsInit ==
  /\ cache = [s \in Seats |-> FirstView]
  /\ acked = [s \in Seats |-> 0]
  /\ seatOf \in [Players -> Seats]
  /\ watching = [a \in Admins |-> NoView]
  /\ feeds = [v \in Viewers |->
       IF v \in Admins THEN [last |-> NoView, ack |-> 0, revision |-> 0, pending |-> <<>>]
       ELSE [last |-> FirstView, ack |-> 0, revision |-> 1,
             pending |-> <<[seat |-> seatOf[v], full |-> TRUE, revision |-> 1, state |-> FirstView,
                            ack |-> 0, errors |-> <<>>, events |-> <<>>]>>]]
  /\ clients = [v \in Viewers |-> [seat |-> NoView, state |-> NoView, revision |-> 0, ack |-> 0,
                                   errors |-> <<>>, events |-> <<>>, broken |-> FALSE]]
  /\ shown = [v \in Viewers |-> NothingShown]
  /\ boundaries = 0 /\ resyncs = 0

ViewsNext ==
  \/ CommitViews \/ AcknowledgeRefreshes
  \/ \E v \in Viewers : Resync(v) \/ TakeView(v) \/ Reattached(v)
  \/ \E a \in Admins, seat \in Seats : SelectPerspective(a, seat)
  \/ \E v \in Players, seat \in Seats : ActAsSeat(v, seat)

-----------------------------------------------------------------------------
(* However far behind a client is, however its views collapsed, were asked
   for again or changed perspective: once it takes what waits it shows its
   seat's current view and acknowledgement, no patch was applied over
   another view than the one it was made for, at most the limit waits, and
   every error and event of its seat arrives once and in order (sendView,
   sendFull, publish, Diff). *)
ViewersCatchUp ==
  \A v \in Viewers : Watches(v) =>
    LET reached == FoldLeft(Applied, clients[v], feeds[v].pending) IN
    /\ ~reached.broken
    /\ reached.seat = Follows(v)
    /\ reached.state = cache[Follows(v)]
    /\ reached.revision = feeds[v].revision
    /\ v \in Players => reached.ack = acked[seatOf[v]]
    /\ \A field \in {"errors", "events"} :
         /\ IsSuffix(shown[v][field], reached[field])
         /\ \A i \in 2..Len(reached[field]) : reached[field][i - 1] < reached[field][i]
    /\ Len(feeds[v].pending) <= MaxPending
=============================================================================
