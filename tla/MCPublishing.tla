---------------------------- MODULE MCPublishing ----------------------------
(* One game, one content to bind to its assets, and three ways to exercise it,
   of which a behaviour takes one, its `part': two editions changed, frozen and
   published by two callers at once; the content of a first edition uploaded,
   built and cleaned; and a first edition built by two workers on an instance
   that stops and fails. *)
EXTENDS Publishing

CONSTANT w1 \* the only worker of the parts with one

VARIABLE part

(* The sources declare a required asset and an optional one, until one change
   withdraws the optional one or another withdraws both. *)
MCDeclaring == [p \in RequiredFiles |-> <<"logo", "sound">>]
Withdraw ==
  [files |-> <<>>, edits |-> <<[path |-> "project", find |-> "sound", replace |-> "none", all |-> FALSE]>>,
   delete |-> <<>>]
Rewrite == [files |-> <<[path |-> "project", content |-> <<"none">>]>>, edits |-> <<>>, delete |-> <<>>]
MCChanges == {Withdraw, Rewrite}

MCAccepts == [k \in AssetKeys |-> Blobs]
MCWeight == [b \in Blobs |-> 1]
Symmetry == Permutations(Callers) \cup Permutations(IdempotencyKeys) \cup Permutations(PublishKeys)

Working == {w \in Workers : workers[w] # Waiting}
Calling == {c \in Callers : calls[c] # Idle}
Asked(op) == {calls[c].req : c \in {c \in Callers : calls[c].op = op}}
PublishKeysUsed == {releases[r].key : r \in DOMAIN releases}
                     \cup {calls[c].key : c \in {c \in Callers : calls[c].at = "begin"}}

(* The second edition is changed at most once, in its sources or by unbinding
   an asset; nothing is restored, no upload is refused once received, and the
   instance does not fail. *)
InEditions ==
  /\ faults = 0 /\ Working \subseteq {w1}
  /\ \A req \in Asked("change") : req.change = Rewrite
  /\ \A req \in Asked("upload") \cup Asked("remove") : req.asset = "logo"
  /\ \A req \in Asked("upload") : req.blob # Nothing
  /\ Asked("restore") = {}
  /\ Len(editions) > 1 =>
       /\ Asked("upload") = {}
       /\ Cardinality({i \in IdempotencyKeys : HasAttempt(editions[2].version, i)}) <= 1

InFirstEdition ==
  /\ Len(editions) <= 1 /\ Cardinality(Calling) <= 1 /\ Cardinality(PublishKeysUsed) <= 1
  /\ \A req \in Asked("change") : req.change = Withdraw

InStore == InFirstEdition /\ faults <= 1 /\ Working \subseteq {w1}
InBuilding == InFirstEdition /\ Asked("upload") = {}

MCInit == Init /\ part \in {"editions", "store", "building"}

MCNext ==
  /\ Next
  /\ CASE part = "editions" -> InEditions'
       [] part = "store"    -> InStore'
       [] part = "building" -> InBuilding'
  /\ UNCHANGED part

MCSpec == MCInit /\ [][MCNext]_<<vars, part>>
=============================================================================
