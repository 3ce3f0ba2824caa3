--------------------------- MODULE SessionStatus ---------------------------
(***************************************************************************)
(* The lifecycle states of a durable Session and, for every end cause, the *)
(* terminal state it leads to and the states it applies to                 *)
(* (play/session/internal/business/sessionstatus, .../endcause).           *)
(***************************************************************************)

Lobby     == "LOBBY"
Running   == "RUNNING"
Finished  == "FINISHED"
Cancelled == "CANCELLED"
Expired   == "EXPIRED"
Aborted   == "ABORTED"

\* No row of play_sessions has this identity yet.
Absent == "ABSENT"

LiveStatus     == {Lobby, Running}
TerminalStatus == {Finished, Cancelled, Expired, Aborted}
Status         == LiveStatus \cup TerminalStatus

EndCause == {"GAME_FINISHED", "HOST_CANCELLED", "ALL_PLAYERS_LEFT",
             "PLATFORM_TERMINATED", "LOBBY_EXPIRED", "INACTIVITY_TIMEOUT",
             "MAX_LIFETIME", "GAME_START_FAILURE", "SCRIPT_FAILURE",
             "UNRECOVERABLE_INFRA_FAILURE", "OWNER_LOST"}

\* The row's end_cause while it is NULL.
NoCause == "NONE"

\* endings[cause].Status
EndingStatus(cause) ==
  CASE cause = "GAME_FINISHED" -> Finished
    [] cause \in {"HOST_CANCELLED", "ALL_PLAYERS_LEFT", "PLATFORM_TERMINATED"} -> Cancelled
    [] cause \in {"LOBBY_EXPIRED", "INACTIVITY_TIMEOUT", "MAX_LIFETIME"} -> Expired
    [] OTHER -> Aborted

\* endings[cause].From
EndingFrom(cause) ==
  CASE cause \in {"HOST_CANCELLED", "PLATFORM_TERMINATED", "MAX_LIFETIME"} -> {Lobby, Running}
    [] cause \in {"LOBBY_EXPIRED", "GAME_START_FAILURE"} -> {Lobby}
    [] OTHER -> {Running}
=============================================================================
