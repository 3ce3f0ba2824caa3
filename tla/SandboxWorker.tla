--------------------------- MODULE SandboxWorker ---------------------------
(***************************************************************************)
(* One sandbox worker process (play/runtime/sandbox/worker.go): what each  *)
(* request line does to it and what it answers.  A game's state is the     *)
(* number of steps executed, its randomness the number of draws made; what *)
(* the authored code does with a call is chosen by whoever sends it.       *)
(***************************************************************************)
EXTENDS Naturals

\* How the authored code behaves in a call: it returns what the entrypoint
\* must return; it throws, or returns something else; or it traps the
\* runtime it runs on.
Behaviours == {"returns", "throws", "traps"}

\* A snapshot: the confirmed state, the state of the script's randomness and
\* the context's revision.
Snapshot(state, draws, revision) == [state |-> state, draws |-> draws, revision |-> revision]

Snapshots == [state : Nat, draws : Nat, revision : Nat]

Workers == [loaded : BOOLEAN, started : BOOLEAN, broken : BOOLEAN, at : Snapshots]

NewWorker ==
  [loaded |-> FALSE, started |-> FALSE, broken |-> FALSE, at |-> Snapshot(0, 0, 0)]

Fatal(w) == [worker |-> w, answer |-> [kind |-> "fatal"]]

ScriptError(w) == [worker |-> w, answer |-> [kind |-> "script_failed"]]

Answer(w) == [worker |-> w, answer |-> [kind |-> "succeeded", at |-> w.at]]

\* The runtime cannot be trusted after it: every later request is fatal.
Broken(w, draws) == ScriptError([w EXCEPT !.broken = TRUE, !.at.draws = @ + draws])

Load(w, behaviour) ==
  IF w.loaded THEN Fatal(w)
  ELSE IF behaviour # "returns" THEN Broken([w EXCEPT !.loaded = TRUE], 0)
  ELSE Answer([w EXCEPT !.loaded = TRUE])

\* start() draws from the seed's randomness.
Start(w, behaviour) ==
  IF ~ w.loaded \/ w.started THEN Fatal(w)
  ELSE IF behaviour # "returns" THEN Broken(w, 1)
  ELSE Answer([w EXCEPT !.started = TRUE, !.at = Snapshot(1, 1, 1)])

\* Mutant: a failed step that leaves the context usable, its state as it was.
ExecuteAndGoOn(w, steps, fails, behaviour) ==
  IF ~ w.started THEN Fatal(w)
  ELSE IF behaviour # "returns" THEN ScriptError([w EXCEPT !.at.draws = @ + fails])
  ELSE Answer([w EXCEPT !.at =
         Snapshot(w.at.state + steps, w.at.draws + steps, w.at.revision + 1)])

\* A batch of `steps': all of them, or, when the one numbered `fails' fails,
\* none, though the steps before it drew their randomness.
Execute(w, steps, fails, behaviour) ==
  IF ~ w.started THEN Fatal(w)
  ELSE IF behaviour # "returns" THEN Broken(w, fails)
  ELSE Answer([w EXCEPT !.at =
         Snapshot(w.at.state + steps, w.at.draws + steps, w.at.revision + 1)])

Restore(w, snapshot) ==
  IF ~ w.loaded \/ w.started THEN Fatal(w)
  ELSE Answer([w EXCEPT !.started = TRUE, !.at = snapshot])

\* project() has no randomness and changes nothing; only a trap breaks it.
Project(w, behaviour) ==
  IF ~ w.started THEN Fatal(w)
  ELSE IF behaviour = "traps" THEN Broken(w, 0)
  ELSE IF behaviour = "throws" THEN ScriptError(w)
  ELSE Answer(w)

\* handle: one request line, one answer.
Handle(w, request, behaviour) ==
  IF w.broken THEN Fatal(w) ELSE
  CASE request.operation = "load" -> Load(w, behaviour)
    [] request.operation = "start" -> Start(w, behaviour)
    [] request.operation = "execute" -> Execute(w, request.steps, request.fails, behaviour)
    [] request.operation = "restore" -> Restore(w, request.snapshot)
    [] request.operation = "project" -> Project(w, behaviour)
=============================================================================
