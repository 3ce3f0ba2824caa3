---------------------------- MODULE DraftReading ----------------------------
(***************************************************************************)
(* What is read of a version: its snapshot at a revision, what changed     *)
(* between two revisions, its builds, and what running or showing a built  *)
(* revision loads.  A revision 0 asks for the current one, or is the empty *)
(* project a change started from.                                          *)
(***************************************************************************)
EXTENDS VersionBuilding

AtRevision(v, rev) == IF rev = 0 THEN Current(v) ELSE rev
HasRevision(v, rev) == Exists(v) /\ rev <= Current(v)
FilesAt(v, rev) == IF rev = 0 THEN NoFiles ELSE versions[v].revs[rev].files

(* FindLastBuildInStatus. *)
LastSuccessfulBuild(v) ==
  LET succeeded == {b \in DOMAIN builds : builds[b].version = v /\ builds[b].status = "SUCCEEDED"}
  IN IF succeeded = {} THEN Nothing
     ELSE builds[CHOOSE b \in succeeded :
                   \A other \in succeeded : builds[other].revision <= builds[b].revision]

(* ReadBuild, once it does not wait any more. *)
ReadBuild(v, rev) ==
  IF HasBuild(v, AtRevision(v, rev)) THEN BuildOf(v, AtRevision(v, rev)) ELSE Nothing

ReadDraft(v, rev) ==
  LET at == AtRevision(v, rev)
      read == versions[v].revs[at]
  IN IF ~HasRevision(v, at) THEN Nothing
     ELSE [status   |-> versions[v].status,
           current  |-> Current(v),
           revision |-> at,
           files    |-> read.files,
           assets   |-> AssetStates(DeclarationsOf(read), read.assets),
           build    |-> ReadBuild(v, at),
           last     |-> LastSuccessfulBuild(v)]

(* The files of upTo and what changed in them since another revision. *)
RevisionChanges(v, since, upTo) ==
  LET at == AtRevision(v, upTo)
  IN IF ~HasRevision(v, at) \/ since > at THEN Nothing
     ELSE Changes(FilesAt(v, since), FilesAt(v, at))

(* The differing files with how they differ; their lines are left out. *)
DiffRevisions(v, from, to) ==
  LET at == AtRevision(v, to)
      differing == Changes(FilesAt(v, from), FilesAt(v, at))
  IN IF ~HasRevision(v, at) \/ from > Current(v) THEN Nothing
     ELSE [p \in differing.added \cup differing.modified \cup differing.deleted |->
             CASE p \in differing.added -> "added"
               [] p \in differing.modified -> "modified"
               [] p \in differing.deleted -> "deleted"]

(* ListRevisions, newest first, before a revision. *)
ListRevisions(v, before, limit) ==
  LET newest == IF before \in 1..Current(v) THEN before - 1 ELSE Current(v)
      listed == IF limit <= newest THEN limit ELSE newest
  IN [j \in 1..listed |-> newest + 1 - j]

(* Ready, with its script, only when the revision's build succeeded. *)
LoadBuiltRevision(v, rev) ==
  LET built == ReadBuild(v, rev)
  IN IF ~HasBuild(v, AtRevision(v, rev)) THEN Nothing
     ELSE IF built.status # "SUCCEEDED" THEN [ready |-> FALSE, script |-> Nothing]
     ELSE [ready |-> TRUE, script |-> built.script]

(* The frontend of a succeeded build and the assets its revision both
   declares and binds. *)
SignBuiltFrontend(v, rev) ==
  LET built == ReadBuild(v, rev)
  IN IF ~HasBuild(v, AtRevision(v, rev)) \/ built.status # "SUCCEEDED" THEN Nothing
     ELSE [url |-> built.script, assets |-> DeliveredAssets(versions[v].revs[rev])]
=============================================================================
