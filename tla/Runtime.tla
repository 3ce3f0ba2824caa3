------------------------------ MODULE Runtime ------------------------------
(***************************************************************************)
(* What a Runtime instance does for the games it runs, beside the live     *)
(* Session's own controller: the game's timeline, what its viewers are     *)
(* shown, the resolver of controllers and the previews it hosts.  They     *)
(* share no variable but the controllers', which the resolver and the      *)
(* previews use: a behaviour exercises one of them, its `part', and leaves *)
(* the others as they start.                                               *)
(***************************************************************************)
EXTENDS GameTimeline, ViewFeeds, Previews

VARIABLE part

runtimeVars == <<timelineVars, viewVars, resolverVars, previewVars, part>>

RuntimeInit ==
  /\ TimelineInit /\ ViewsInit /\ ResolverInit /\ PreviewsInit
  /\ part \in {"timeline", "views", "controllers", "previews"}
  /\ part # "timeline" => ~preview /\ ~hasUpdate
  /\ part # "views" => seatOf = CHOOSE seats \in [Players -> Seats] : TRUE

RuntimeNext ==
  /\ \/ part = "timeline" /\ TimelineNext /\ UNCHANGED <<viewVars, resolverVars, previewVars>>
     \/ part = "views" /\ ViewsNext /\ UNCHANGED <<timelineVars, resolverVars, previewVars>>
     \/ part = "controllers" /\ ResolverNext /\ UNCHANGED <<timelineVars, viewVars, previewVars>>
     \/ part = "previews" /\ PreviewsNext /\ UNCHANGED <<timelineVars, viewVars>>
  /\ UNCHANGED part

RuntimeSpec == RuntimeInit /\ [][RuntimeNext]_runtimeVars
=============================================================================
