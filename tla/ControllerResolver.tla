------------------------- MODULE ControllerResolver -------------------------
(***************************************************************************)
(* The ControllerResolver of one instance                                  *)
(* (play/runtime/workflows/liveconnection/controller_resolver.go): the     *)
(* table from which every connection takes its Session's controller, and   *)
(* how an admin's connection is admitted on it (step_attach_admin.go).     *)
(* Controllers are numbered in the order they were created.                *)
(***************************************************************************)
EXTENDS Integers, Sequences, FiniteSets

CONSTANTS
  Names,            \* what controllers run: Sessions, or previews
  Epochs, Askers,
  Creator,          \* the Asker who created every Session
  MaxLive,          \* maxLiveSessions
  MaxAdmins,        \* liveLimits.admins
  MaxControllers    \* bound of the model on the controllers ever created

ASSUME ResolverAssumption ==
  /\ IsFiniteSet(Names) /\ Epochs \subseteq Int
  /\ MaxLive \in Nat /\ MaxAdmins \in Nat \ {0}

VARIABLES
  controllers,      \* every controller created, in order
  table,            \* Name -> its controller's number, or 0
  asks,             \* Asker -> how far AttachAdmin got
  resolverClosed

resolverVars == <<controllers, table, asks, resolverClosed>>

Ids == 1..Len(controllers)

\* A controller runs until its `ended' channel closes; its goroutine then
\* returns and it is forgotten.
Controller(name, epoch) ==
  [name |-> name, epoch |-> epoch, at |-> "live", game |-> "none", connected |-> {}]

Ended(controller) == [controller EXCEPT !.at = "ended", !.connected = {}]

Entries == {n \in Names : table[n] # 0}

HasController(n) == table[n] # 0

IsLive(i) == controllers[i].at = "live"

\* live: the controller of n that has not ended, or 0.
LiveController(n) == IF HasController(n) /\ IsLive(table[n]) THEN table[n] ELSE 0

\* What controllerFor decides, without creating anything.
Verdict(n, epoch) ==
  IF HasController(n)
  THEN CASE epoch = controllers[table[n]].epoch -> "existing"
         [] epoch < controllers[table[n]].epoch -> "owner_changed"
         [] epoch > controllers[table[n]].epoch -> "replace"
  ELSE IF Cardinality(Entries) >= MaxLive THEN "server_busy" ELSE "create"

\* A newer epoch's controller takes the place of the retired one.
Installed(n, epoch) ==
  LET before == IF HasController(n)
                THEN [controllers EXCEPT ![table[n]] = Ended(@)] ELSE controllers
  IN Append(before, Controller(n, epoch))

\* The changes controllerFor makes to the table and to the controllers.
ControllerFor(n, epoch) ==
  IF Verdict(n, epoch) \in {"create", "replace"}
  THEN /\ Len(controllers) < MaxControllers
       /\ controllers' = Installed(n, epoch)
       /\ table' = [table EXCEPT ![n] = Len(controllers) + 1]
  ELSE UNCHANGED <<controllers, table>>

\* The controller it answers with, 0 when it refuses.
Answered(n, epoch) ==
  CASE Verdict(n, epoch) = "existing" -> table[n]
    [] Verdict(n, epoch) \in {"create", "replace"} -> Len(controllers) + 1
    [] OTHER -> 0

\* Mutant: forget, dropping whatever holds the place of the controller's Session.
ForgottenByName(i) == [table EXCEPT ![controllers[i].name] = 0]

\* forget: only the controller that still holds the place of its Session.
Forgotten(i) ==
  IF table[controllers[i].name] = i THEN [table EXCEPT ![controllers[i].name] = 0] ELSE table

-----------------------------------------------------------------------------
\* The controller ends its Session, or the instance shuts down; either way
\* its goroutine returns and the resolver forgets it, in a later step.
EndController(i) ==
  /\ IsLive(i)
  /\ controllers' = [controllers EXCEPT ![i] = Ended(@)]
  /\ UNCHANGED <<table, asks, resolverClosed>>

Forget(i) ==
  /\ controllers[i].at = "ended" \/ (resolverClosed /\ IsLive(i))
  /\ table' = Forgotten(i)
  /\ controllers' = [controllers EXCEPT ![i] = [Ended(@) EXCEPT !.at = "gone"]]
  /\ UNCHANGED <<asks, resolverClosed>>

CloseResolver ==
  /\ ~ resolverClosed
  /\ resolverClosed' = TRUE
  /\ UNCHANGED <<controllers, table, asks>>

-----------------------------------------------------------------------------
NotAsking == [at |-> "idle"]

\* AttachAdmin asks the database first only when there is no controller yet,
\* and turns away who did not create the Session.
AskEligibility(a, n, epoch) ==
  /\ asks[a].at = "idle"
  /\ IF HasController(n) \/ a = Creator
     THEN asks' = [asks EXCEPT ![a] =
            [at |-> "admitted", name |-> n, epoch |-> epoch, known |-> ~ HasController(n)]]
     ELSE UNCHANGED asks
  /\ UNCHANGED <<controllers, table, resolverClosed>>

AskController(a) ==
  /\ asks[a].at = "admitted"
  /\ LET ask == asks[a]
         given == Answered(ask.name, ask.epoch)
     IN /\ ControllerFor(ask.name, ask.epoch)
        /\ asks' = [asks EXCEPT ![a] =
             IF given = 0 THEN NotAsking
             ELSE [at |-> "attaching", controller |-> given, known |-> ask.known]]
  /\ UNCHANGED resolverClosed

\* registerAdmin: told at once that an ended Session ended, never kept.
Registered(controller, a) ==
  IF Cardinality(controller.connected) >= MaxAdmins \/ controller.at # "live" THEN controller
  ELSE [controller EXCEPT !.connected = @ \cup {a}]

\* attachAdmin: the eligibility not known yet is read on the controller.
Attach(a) ==
  /\ asks[a].at = "attaching"
  /\ LET i == asks[a].controller
     IN controllers' =
          IF asks[a].known \/ a = Creator
          THEN [controllers EXCEPT ![i] = Registered(@, a)] ELSE controllers
  /\ asks' = [asks EXCEPT ![a] = NotAsking]
  /\ UNCHANGED <<table, resolverClosed>>

DisconnectAdmin(a, i) ==
  /\ a \in controllers[i].connected
  /\ controllers' = [controllers EXCEPT ![i].connected = @ \ {a}]
  /\ UNCHANGED <<table, asks, resolverClosed>>

-----------------------------------------------------------------------------
ResolverInit ==
  /\ controllers = <<>>
  /\ table = [n \in Names |-> 0]
  /\ asks = [a \in Askers |-> NotAsking]
  /\ resolverClosed = FALSE

ResolverNext ==
  \/ \E i \in Ids : EndController(i) \/ Forget(i) \/ \E a \in Askers : DisconnectAdmin(a, i)
  \/ \E a \in Askers :
       \/ \E n \in Names, epoch \in Epochs : AskEligibility(a, n, epoch)
       \/ AskController(a)
       \/ Attach(a)
  \/ CloseResolver

-----------------------------------------------------------------------------
\* However connections of several owner epochs race with the ends of the
\* controllers they find, a Session never has two controllers that run, the
\* one that runs is the one new connections find, the instance keeps no more
\* than it may, and no connection is left on a controller that ended.
ControllersAgree ==
  /\ Cardinality(Entries) <= MaxLive
  /\ \A i \in Ids :
       /\ IsLive(i) => table[controllers[i].name] = i
       /\ controllers[i].connected # {} => IsLive(i)
       /\ Cardinality(controllers[i].connected) <= MaxAdmins
=============================================================================
