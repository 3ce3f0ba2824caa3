--------------------------- MODULE ConnectionRoom ---------------------------
(***************************************************************************)
(* The way of a live handshake to a served connection (api/server.go,      *)
(* api/play, api/internal/live/controller.go): it is authorized, limited,  *)
(* routed to its Session's owner, given room on the instance, attached to  *)
(* the Runtime and served, or refused on an upgraded connection it is then *)
(* told on, with room of its own.  Every way back returns the room it took,*)
(* also while the instance shuts down.                                     *)
(***************************************************************************)
EXTENDS Integers, FiniteSets

CONSTANTS
  Handshakes,
  CallerOf,                          \* who makes each
  MaxConnections, MaxPerCaller,      \* live connections
  MaxRefusing, MaxRefusingPerCaller  \* upgraded only to be refused

ASSUME RoomAssumption == IsFiniteSet(Handshakes)

Callers == {CallerOf[h] : h \in Handshakes}

VARIABLES
  at,         \* where each handshake is
  route,      \* of each: "code", "player", "admin" or "preview"
  reserved, reservedBy, refusing, refusingBy,
  attached,   \* the connections the Runtime has
  running,    \* connections being served: Controller.running
  server      \* "up", "stopping", "stopped"

roomVars == <<at, route, reserved, reservedBy, refusing, refusingBy, attached, running, server>>
countVars == <<reserved, reservedBy, refusing, refusingBy>>

Moves(h, where) == at' = [at EXCEPT ![h] = where]

Rest(h, where) == Moves(h, where) /\ UNCHANGED <<route, countVars, attached, running, server>>

(* Reserve and its release. *)
HasConnectionRoom(h) == reserved < MaxConnections /\ reservedBy[CallerOf[h]] < MaxPerCaller
Reserve(h, n) ==
  /\ reserved' = reserved + n
  /\ reservedBy' = [reservedBy EXCEPT ![CallerOf[h]] = @ + n]
  /\ UNCHANGED <<refusing, refusingBy>>

(* ReserveRefusal and its release: none of the room Reserve holds. *)
HasRefusalRoom(h) == refusing < MaxRefusing /\ refusingBy[CallerOf[h]] < MaxRefusingPerCaller
ReserveRefusal(h, n) ==
  /\ refusing' = refusing + n
  /\ refusingBy' = [refusingBy EXCEPT ![CallerOf[h]] = @ + n]
  /\ UNCHANGED <<reserved, reservedBy>>

-----------------------------------------------------------------------------
(* WebSocketRoutes: how each route goes on once its caller is not limited. *)
Arrive(h) ==
  /\ at[h] = "none" /\ server = "up"
  /\ \E r \in {"code", "player", "admin", "preview"} : route' = [route EXCEPT ![h] = r]
  /\ Moves(h, "authorizing")
  /\ UNCHANGED <<countVars, attached, running, server>>

(* RequireWebSocket: anyone else is answered. *)
Authorized(h) ==
  /\ at[h] = "authorizing"
  /\ Rest(h, "none") \/ Rest(h, "limiting")

(* Requests: a limited caller is refused before any Session is looked for. *)
Limited(h) ==
  /\ at[h] = "limiting"
  /\ \/ Rest(h, "limited")
     \/ Rest(h, CASE route[h] = "code" -> "resolving" [] route[h] = "preview" -> "accepting" [] OTHER -> "locating")

(* resolveJoinCode: a code that does not let the caller join is refused. *)
ResolveJoinCode(h) ==
  /\ at[h] = "resolving"
  /\ \E where \in {"locating", "refused", "none"} : Rest(h, where)

(* requireOwner: only the Session's owner, this instance, goes on. *)
RequireOwner(h) ==
  /\ at[h] = "locating"
  /\ \E where \in {"accepting", "refused", "none"} : Rest(h, where)

(* upgrade: with room, for the connection or for its refusal; the handshake
   itself may still fail, giving the room back. *)
Upgrade(h) ==
  /\ at[h] \in {"accepting", "refused"}
  /\ IF HasConnectionRoom(h)
     THEN /\ Moves(h, IF at[h] = "accepting" THEN "upgraded" ELSE "rejecting")
          /\ Reserve(h, 1)
          /\ UNCHANGED <<route, attached, running, server>>
     ELSE Rest(h, "limited")

AcceptFails(h) ==
  /\ at[h] \in {"accepting", "refused"} /\ HasConnectionRoom(h)
  /\ Rest(h, "none")

(* refuseLimit: told on an upgraded connection when there is room to refuse,
   answered as an HTTP error otherwise. *)
RefuseLimit(h) ==
  /\ at[h] = "limited"
  /\ IF HasRefusalRoom(h)
     THEN Moves(h, "refusing") /\ ReserveRefusal(h, 1) /\ UNCHANGED <<route, attached, running, server>>
     ELSE Rest(h, "none")

RefusalTold(h) ==
  /\ at[h] = "refusing"
  /\ Moves(h, "none") /\ ReserveRefusal(h, -1)
  /\ UNCHANGED <<route, attached, running, server>>

(* refuseUpgraded: a Session that cannot be joined is told of within
   refusalLinger, then the room is given back. *)
Rejected(h) ==
  /\ at[h] = "rejecting"
  /\ Moves(h, "none") /\ Reserve(h, -1)
  /\ UNCHANGED <<route, attached, running, server>>

-----------------------------------------------------------------------------
(* Mutant: only a served connection gives its room back. *)
NotServedKeeping(h) == UNCHANGED countVars

(* A handler that returns before serving gives the room back. *)
NotServed(h) == Reserve(h, -1)

(* handlePlayerJoin, handleAdminJoin, handlePreviewConnect: the Runtime's
   admission decides; a refusal is told. *)
Attach(h) ==
  /\ at[h] = "upgraded"
  /\ \/ /\ Moves(h, "attached") /\ attached' = attached \cup {h}
        /\ UNCHANGED countVars
     \/ /\ Moves(h, "none") /\ NotServed(h)
        /\ UNCHANGED attached
  /\ UNCHANGED <<route, running, server>>

(* handlePreviewConnect: a preview's start that cannot be sent. *)
StartNotTaken(h) ==
  /\ at[h] = "attached" /\ route[h] = "preview"
  /\ Moves(h, "none") /\ NotServed(h)
  /\ attached' = attached \ {h}
  /\ UNCHANGED <<route, running, server>>

(* start: refused once Shutdown started. *)
Starts == server = "up"

(* Serve: a refused connection is disconnected at once. *)
ServeConnection(h) ==
  /\ at[h] = "attached"
  /\ IF Starts
     THEN /\ Moves(h, "served") /\ running' = running + 1
          /\ UNCHANGED <<countVars, attached>>
     ELSE /\ Moves(h, "none") /\ Reserve(h, -1) /\ attached' = attached \ {h}
          /\ UNCHANGED running
  /\ UNCHANGED <<route, server>>

(* serve: disconnected and released first, then its loops stop. *)
Disconnected(h) ==
  /\ at[h] = "served"
  /\ Moves(h, "draining") /\ Reserve(h, -1) /\ attached' = attached \ {h}
  /\ UNCHANGED <<route, running, server>>

LoopsStopped(h) ==
  /\ at[h] = "draining"
  /\ Moves(h, "none") /\ running' = running - 1
  /\ UNCHANGED <<route, countVars, attached, server>>

(* Shutdown: no connection starts any more, and it returns once none runs. *)
Shutdown ==
  /\ \/ server = "up" /\ server' = "stopping"
     \/ server = "stopping" /\ running = 0 /\ server' = "stopped"
  /\ UNCHANGED <<at, route, countVars, attached, running>>

RoomInit ==
  /\ at = [h \in Handshakes |-> "none"] /\ route = [h \in Handshakes |-> "player"]
  /\ reserved = 0 /\ reservedBy = [c \in Callers |-> 0]
  /\ refusing = 0 /\ refusingBy = [c \in Callers |-> 0]
  /\ attached = {} /\ running = 0 /\ server = "up"

RoomNext ==
  \/ Shutdown
  \/ \E h \in Handshakes :
       \/ Arrive(h) \/ Authorized(h) \/ Limited(h) \/ ResolveJoinCode(h) \/ RequireOwner(h)
       \/ Upgrade(h) \/ AcceptFails(h) \/ RefuseLimit(h) \/ RefusalTold(h) \/ Rejected(h)
       \/ Attach(h) \/ StartNotTaken(h) \/ ServeConnection(h) \/ Disconnected(h) \/ LoopsStopped(h)

RoomSpec == RoomInit /\ [][RoomNext]_roomVars

-----------------------------------------------------------------------------
Holding == {h \in Handshakes : at[h] \in {"upgraded", "rejecting", "attached", "served"}}
Refused == {h \in Handshakes : at[h] = "refusing"}

(* release, Serve, Shutdown: whatever way a handshake ends, the room counted
   is the room held, the Runtime keeps only connections somebody will
   disconnect, and once Shutdown returned nothing is served. *)
RoomIsGivenBack ==
  /\ reserved = Cardinality(Holding) /\ refusing = Cardinality(Refused)
  /\ \A c \in Callers :
       /\ reservedBy[c] = Cardinality({h \in Holding : CallerOf[h] = c})
       /\ refusingBy[c] = Cardinality({h \in Refused : CallerOf[h] = c})
  /\ attached = {h \in Handshakes : at[h] \in {"attached", "served"}}
  /\ server = "stopped" => \A h \in Handshakes : at[h] \notin {"served", "draining"}
=============================================================================
