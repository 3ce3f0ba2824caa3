------------------------------ MODULE Previews ------------------------------
(***************************************************************************)
(* Previews of one draft version: what is recorded of them                 *)
(* (play/session/workflows/previewlifecycle) and the controllers that run  *)
(* them (play/runtime/workflows/liveconnection/previews.go), on a          *)
(* ControllerResolver of their own.  `starts' holds the StartPreview calls *)
(* and `attaches' the AttachPreview calls of the version's owner, between  *)
(* their durable steps and their steps on this instance.                   *)
(***************************************************************************)
EXTENDS ControllerResolver

CONSTANTS Starters, Attachers, NoPreview

VARIABLES
  rows,          \* Preview -> its play_previews row
  starts,        \* Starter -> its StartPreview call
  attaches,      \* Attacher -> its AttachPreview call
  announced,     \* the previews an owner was told started
  unrecorded,    \* those whose end here could not be, or was not, recorded
  restarts

previewVars == <<rows, starts, attaches, announced, unrecorded, restarts>>

\* Every preview controller's epoch: no other instance ever owns one.
previewEpoch == 1

\* What startPreview comes to besides a running game, and the reason each
\* records; the last is an error, recorded without an answer.
StartFailures == {"script_failure", "unavailable"}

\* Why a running preview ends on its own controller.
EndsOfItsOwn == {"finished", "idle", "ended_by_owner", "script_failure", "unavailable"}

NoRow == [at |-> "none"]
RunningRow == [at |-> "running"]
EndedRow(reason) == [at |-> "ended", reason |-> reason]

Unended == {p \in Names : rows[p].at = "running"}

\* Mutant: an UPDATE of the row whatever it already says.
EndPreviewAgain(from, p, reason) == [from EXCEPT ![p] = EndedRow(reason)]

\* UPDATE ... WHERE ended_at IS NULL: an ended preview keeps its reason.
EndPreview(from, p, reason) ==
  IF from[p].at = "running" THEN [from EXCEPT ![p] = EndedRow(reason)] ELSE from

RunsHere(p) == LiveController(p) # 0 /\ controllers[LiveController(p)].game = "running"

Idle == [at |-> "idle"]
-----------------------------------------------------------------------------
\* recordOpening, with the version's row locked: its running preview ends as
\* replaced and the new one is created, in one transaction.
OpenPreview(c, p) ==
  /\ starts[c] = Idle
  /\ rows[p] = NoRow
  /\ rows' = [q \in Names |->
       IF q = p THEN RunningRow
       ELSE IF q \in Unended THEN EndedRow("replaced") ELSE rows[q]]
  /\ starts' = [starts EXCEPT ![c] =
       [at |-> "opened", preview |-> p,
        replaced |-> IF Unended = {} THEN NoPreview ELSE CHOOSE q \in Unended : TRUE]]
  /\ UNCHANGED <<attaches, announced, unrecorded, restarts, resolverVars>>

\* endHere: the replaced preview's controller, when there is one, ends it.
EndReplaced(c) ==
  /\ starts[c].at = "opened"
  /\ LET replaced == starts[c].replaced
         i == IF replaced = NoPreview THEN 0 ELSE LiveController(replaced)
     IN IF i = 0 THEN UNCHANGED <<rows, controllers>>
        ELSE /\ rows' = EndPreview(rows, replaced, "replaced")
             /\ controllers' = [controllers EXCEPT ![i] = Ended(@)]
  /\ starts' = [starts EXCEPT ![c] = [at |-> "ready", preview |-> @.preview]]
  /\ UNCHANGED <<attaches, announced, unrecorded, restarts, table, asks, resolverClosed>>

\* controllerFor; without room the preview ends as unavailable.
GetController(c) ==
  /\ starts[c].at = "ready"
  /\ LET p == starts[c].preview
         i == Answered(p, previewEpoch)
     IN /\ ControllerFor(p, previewEpoch)
        /\ starts' = [starts EXCEPT ![c] =
             IF i = 0 THEN [at |-> "failed", preview |-> p, reason |-> "unavailable"]
             ELSE [at |-> "starting", preview |-> p, controller |-> i]]
  /\ UNCHANGED <<rows, attaches, announced, unrecorded, restarts, asks, resolverClosed>>

\* startPreview on the controller's goroutine.  A controller that was ended
\* meanwhile may still pick the start up; it is released right after.
StartGame(c) ==
  /\ starts[c].at = "starting"
  /\ LET i == starts[c].controller
     IN /\ controllers[i].at # "gone"
        /\ controllers' = [controllers EXCEPT ![i].game = "running"]
  /\ announced' = announced \cup {starts[c].preview}
  /\ starts' = [starts EXCEPT ![c] = Idle]
  /\ UNCHANGED <<rows, attaches, unrecorded, restarts, table, asks, resolverClosed>>

\* endPreviewStart, then the failure is recorded in a step of its own.
StartFails(c, reason) ==
  /\ starts[c].at = "starting"
  /\ LET i == starts[c].controller
     IN /\ controllers[i].at # "gone"
        /\ controllers' = [controllers EXCEPT ![i] =
             IF @.at = "live" THEN Ended(@) ELSE @]
  /\ starts' = [starts EXCEPT ![c] =
       [at |-> "failed", preview |-> starts[c].preview, reason |-> reason]]
  /\ UNCHANGED <<rows, attaches, announced, unrecorded, restarts, table, asks, resolverClosed>>

\* The caller left before the start began, or its controller stopped first:
\* nothing is recorded.
StartAbandoned(c) ==
  /\ starts[c].at = "starting"
  /\ starts' = [starts EXCEPT ![c] = Idle]
  /\ UNCHANGED <<rows, attaches, announced, unrecorded, restarts, resolverVars>>

FailedStart(c) ==
  /\ starts[c].at = "failed"
  /\ rows' = EndPreview(rows, starts[c].preview, starts[c].reason)
  /\ starts' = [starts EXCEPT ![c] = Idle]
  /\ UNCHANGED <<attaches, announced, unrecorded, restarts, resolverVars>>

-----------------------------------------------------------------------------
\* Mutant: the end told to the connections and never recorded.
PreviewEndsLiveOnly(p, reason) ==
  /\ RunsHere(p)
  /\ controllers' = [controllers EXCEPT ![LiveController(p)] = Ended(@)]
  /\ UNCHANGED <<rows, starts, attaches, announced, unrecorded, restarts, table, asks, resolverClosed>>

\* endSession with previewEnds: durably first, then live.
PreviewEnds(p, reason) ==
  /\ RunsHere(p)
  /\ rows' = EndPreview(rows, p, reason)
  /\ controllers' = [controllers EXCEPT ![LiveController(p)] = Ended(@)]
  /\ UNCHANGED <<starts, attaches, announced, unrecorded, restarts, table, asks, resolverClosed>>

\* abort when the durable end fails: the game still ends here.
AbortUnrecorded(p) ==
  /\ RunsHere(p)
  /\ controllers' = [controllers EXCEPT ![LiveController(p)] = Ended(@)]
  /\ unrecorded' = unrecorded \cup {p}
  /\ UNCHANGED <<rows, starts, attaches, announced, restarts, table, asks, resolverClosed>>

ForgetPreview(i) ==
  /\ Forget(i)
  /\ UNCHANGED previewVars

\* A restarted instance remembers no controller and no call.
Restart ==
  /\ ~ restarts
  /\ restarts' = TRUE
  /\ controllers' = [i \in Ids |-> [Ended(controllers[i]) EXCEPT !.at = "gone"]]
  /\ table' = [p \in Names |-> 0]
  /\ starts' = [c \in Starters |-> Idle]
  /\ attaches' = [a \in Attachers |-> Idle]
  /\ unrecorded' = unrecorded \cup Unended
  /\ UNCHANGED <<rows, announced, asks, resolverClosed>>

-----------------------------------------------------------------------------
\* AttachPreview of a preview its owner was told started: on its controller
\* when the game runs there, replacing the older connection.
AttachPreview(a, p) ==
  /\ attaches[a] = Idle
  /\ p \in announced
  /\ IF RunsHere(p)
     THEN /\ controllers' = [controllers EXCEPT ![LiveController(p)].connected = {a}]
          /\ UNCHANGED attaches
     ELSE /\ attaches' = [attaches EXCEPT ![a] = [at |-> "finding", preview |-> p]]
          /\ UNCHANGED controllers
  /\ UNCHANGED <<rows, starts, announced, unrecorded, restarts, table, asks, resolverClosed>>

\* FindPreview, and the end of a preview nothing runs any more: the owner is
\* told the end that is recorded.
TellEnded(a) ==
  /\ attaches[a].at = "finding"
  /\ rows' = EndPreview(rows, attaches[a].preview, "unavailable")
  /\ attaches' = [attaches EXCEPT ![a] = Idle]
  /\ UNCHANGED <<starts, announced, unrecorded, restarts, resolverVars>>

DisconnectOwner(a, p) ==
  /\ RunsHere(p) /\ a \in controllers[LiveController(p)].connected
  /\ controllers' = [controllers EXCEPT ![LiveController(p)].connected = @ \ {a}]
  /\ UNCHANGED <<table, asks, resolverClosed, previewVars>>

-----------------------------------------------------------------------------
PreviewsInit ==
  /\ rows = [p \in Names |-> NoRow]
  /\ starts = [c \in Starters |-> Idle]
  /\ attaches = [a \in Attachers |-> Idle]
  /\ announced = {} /\ unrecorded = {}
  /\ restarts = FALSE

PreviewsNext ==
  \/ \E c \in Starters :
       \/ \E p \in Names : OpenPreview(c, p)
       \/ EndReplaced(c) \/ GetController(c)
       \/ StartGame(c) \/ StartAbandoned(c) \/ FailedStart(c)
       \/ \E reason \in StartFailures : StartFails(c, reason)
  \/ \E p \in Names :
       \/ \E reason \in EndsOfItsOwn : PreviewEnds(p, reason)
       \/ AbortUnrecorded(p)
       \/ \E a \in Attachers : AttachPreview(a, p) \/ DisconnectOwner(a, p)
  \/ \E i \in Ids : ForgetPreview(i)
  \/ \E a \in Attachers : TellEnded(a)
  \/ Restart

-----------------------------------------------------------------------------
\* The record follows the games: at most one preview is recorded as running;
\* one whose owner was told it started is recorded as running only while its
\* game does run, unless the instance restarted or failed to write its end;
\* an owner is connected to a game that runs, and looks up only what ended.
PreviewsAreRecorded ==
  /\ Cardinality(Unended) <= 1
  /\ \A p \in announced \cap Unended : RunsHere(p) \/ p \in unrecorded
  /\ \A i \in Ids :
       LET p == controllers[i].name
       IN rows[p].at # "none" /\ controllers[i].connected # {} => RunsHere(p)
  /\ \A a \in Attachers :
       attaches[a].at = "finding" => ~ RunsHere(attaches[a].preview)

\* "One per game": two previews of one version never run at once
\* (play/docs/FLOWS.md, Previews).
OnePreviewPerGame ==
  \A p, q \in Names : RunsHere(p) /\ RunsHere(q) => p = q

\* The end of a preview is recorded once.
EndsAreFinal ==
  [][\A p \in Names : rows[p].at = "ended" => rows'[p] = rows[p]]_<<rows>>
=============================================================================
