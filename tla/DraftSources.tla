---------------------------- MODULE DraftSources ----------------------------
(***************************************************************************)
(* What a DRAFT version's authored sources may hold and how a change       *)
(* applies to them (play/session/internal/business/draftsources).          *)
(*                                                                         *)
(* A text is a sequence of words, so that a find appears in it no time,    *)
(* once or several times; its size is its length.  The words of the        *)
(* project file that are asset keys are the assets it declares.            *)
(***************************************************************************)
EXTENDS Naturals, Sequences, FiniteSets, SequencesExt

CONSTANTS
  Paths,          \* the paths a change may name
  AllowedPaths,   \* those a project may hold
  RequiredFiles,  \* the entries every project keeps
  ProjectFile,    \* game.project.json
  StarterText,    \* what each required file starts with
  AssetKeys,      \* the asset keys a project may declare
  OptionalAssets, \* those declared "optional"
  Blobs,          \* contents an upload may carry
  Accepts,        \* the contents each key's declared type accepts
  BadWord,        \* what makes a project file unreadable
  Refused,        \* the answer to a change a diagnostic refuses
  MaxFiles, MaxFileBytes, MaxTotalBytes

ASSUME DraftSourcesAssumption ==
  /\ RequiredFiles \subseteq AllowedPaths
  /\ AllowedPaths \subseteq Paths
  /\ ProjectFile \in RequiredFiles
  /\ OptionalAssets \subseteq AssetKeys
  /\ Accepts \in [AssetKeys -> SUBSET Blobs]
  /\ BadWord \notin AssetKeys
  /\ {MaxFiles, MaxFileBytes, MaxTotalBytes} \subseteq Nat

(* No file at all: the empty project. *)
NoFiles == [p \in {} |-> <<>>]

(* A revision holds its files and, by key, the content bound to each asset. *)
IsRevision(rev) ==
  /\ DOMAIN rev.files \subseteq AllowedPaths
  /\ RequiredFiles \subseteq DOMAIN rev.files
  /\ DOMAIN rev.assets \subseteq AssetKeys
  /\ \A k \in DOMAIN rev.assets : rev.assets[k] \in Blobs

(* The files are maps of hashes, so equal paths with equal contents are the
   same map. *)
SameFiles(a, b) == a = b

SameRevision(a, b) == SameFiles(a.files, b.files) /\ a.assets = b.assets

ReadableProject(text) == BadWord \notin Range(text)

(* The keys a project file declares; an unreadable one declares none. *)
DeclaredAssets(text) ==
  IF ReadableProject(text) THEN AssetKeys \cap Range(text) ELSE {}

DeclarationsOf(rev) ==
  IF ProjectFile \in DOMAIN rev.files THEN DeclaredAssets(rev.files[ProjectFile]) ELSE {}

AssetStates(declared, bindings) ==
  [k \in declared \cup DOMAIN bindings |->
     IF k \notin declared THEN "undeclared"
     ELSE IF k \notin DOMAIN bindings THEN "missing" ELSE "ready"]

Occurrences(text, word) == {j \in DOMAIN text : text[j] = word}

CheckPath(p) == p \in AllowedPaths

(* One edit over the files as the edits before it left them. *)
ApplyEdit(files, edit) ==
  IF files = Refused \/ ~CheckPath(edit.path) THEN Refused
  ELSE IF edit.path \notin DOMAIN files THEN Refused
  ELSE LET found == Occurrences(files[edit.path], edit.find) IN
       IF found = {} \/ (Cardinality(found) > 1 /\ ~edit.all) THEN Refused
       ELSE [files EXCEPT ![edit.path] =
               [j \in DOMAIN @ |-> IF j \in found THEN edit.replace ELSE @[j]]]

EditedPaths(edits) == {edits[j].path : j \in DOMAIN edits}

(* The edits, in order, as whole-file writes; a failed one refuses them all. *)
ResolveEdits(current, edits) ==
  LET edited == FoldLeft(ApplyEdit, current, edits)
      order  == SetToSeq(EditedPaths(edits))
  IN IF edited = Refused THEN Refused
     ELSE [j \in DOMAIN order |-> [path |-> order[j], content |-> edited[order[j]]]]

TotalSize(files) == FoldLeft(LAMBDA total, p : total + Len(files[p]), 0, SetToSeq(DOMAIN files))

WriteIsValid(write) ==
  /\ CheckPath(write.path)
  /\ Len(write.content) <= MaxFileBytes
  /\ write.path = ProjectFile => ReadableProject(write.content)

DeleteIsValid(current, p) == CheckPath(p) /\ p \notin RequiredFiles /\ p \in DOMAIN current

ProjectIsValid(files) ==
  /\ Cardinality(DOMAIN files) <= MaxFiles
  /\ TotalSize(files) <= MaxTotalBytes
  /\ RequiredFiles \subseteq DOMAIN files

(* Writes and deletes applied to the files of current, all or nothing. *)
Apply(current, writes, deletes) ==
  LET written == [j \in DOMAIN writes |-> writes[j].path]
      named   == written \o deletes
      content(p) == writes[CHOOSE j \in DOMAIN writes : writes[j].path = p].content
      next    == [p \in (DOMAIN current \cup Range(written)) \ Range(deletes) |->
                    IF p \in Range(written) THEN content(p) ELSE current[p]]
  IN IF /\ named # <<>>
        /\ IsInjective(named)
        /\ \A j \in DOMAIN writes : WriteIsValid(writes[j])
        /\ \A j \in DOMAIN deletes : DeleteIsValid(current, deletes[j])
        /\ ProjectIsValid(next)
     THEN next ELSE Refused

(* What changed from the files of one revision to those of another. *)
Changes(from, to) ==
  [added    |-> DOMAIN to \ DOMAIN from,
   modified |-> {p \in DOMAIN to \cap DOMAIN from : to[p] # from[p]},
   deleted  |-> DOMAIN from \ DOMAIN to]

NoChanges == [added |-> {}, modified |-> {}, deleted |-> {}]

(* The starter project: every required file. *)
Template == [p \in RequiredFiles |-> StarterText[p]]
=============================================================================
