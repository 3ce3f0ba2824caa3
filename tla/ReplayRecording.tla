--------------------------- MODULE ReplayRecording ---------------------------
(***************************************************************************)
(* The Recorder of play/runtime/workflows/replayrecording: one goroutine   *)
(* per recording turns the committed ticks it is offered into chunks, and  *)
(* a bounded queue of store workers shared by every recording makes them   *)
(* durable.  The n-th tick a game commits has the time n; its state and    *)
(* its transients are named by it.  A chunk is named by its recording and  *)
(* its place among the recording's sealed chunks, which is its index.      *)
(***************************************************************************)
EXTENDS Naturals, Sequences, SequencesExt, FiniteSets

CONSTANTS
  Recordings,
  Storers,          \* the queue's workers
  NoChunk,
  StateEvery,       \* stateEveryTicks
  ChunkTicks,       \* the ticks chunkDuration covers
  MaxRecords,       \* stands for maxChunkBytes
  MaxPendingChunks,
  InboxSize,
  StoreAttempts,
  MaxTicks          \* recording -> bound of the model on its game's ticks

VARIABLES
  recording,        \* recording -> none, running (in the map), stopping, done
  ticksOffered,     \* recording -> the last tick its game committed
  caller,           \* recording -> playing, finishing, retrying, finished
  inbox,            \* recording -> its messages, in the order sent
  active,           \* recording -> the chunk being built
  skipped,          \* recording -> ticks since its chunk last kept a state
  ticksTaken,       \* recording -> the ticks its chunks took, in order
  sealed,           \* recording -> its sealed chunks, in order
  final,            \* recording -> index of the final chunk not stored yet, or 0
  finished,         \* recordings whose final chunk is stored
  pendingChunks,    \* the queue: <<recording, index>>, oldest first
  storer,           \* worker -> what it does
  signal,           \* the queue's signal channel holds its one token
  shutdown,         \* open, closing, draining, cancelled (past the deadline)
  storedChunks, droppedChunks

gameVars == <<recording, ticksOffered, caller>>
chunkVars == <<active, skipped, ticksTaken, sealed>>
queueVars == <<pendingChunks, signal, droppedChunks>>
replayVars == <<gameVars, inbox, chunkVars, final, finished, queueVars,
                storer, shutdown, storedChunks>>

Looking == [at |-> "looking"]
Waiting == [at |-> "waiting"]
Storing(chunk, attempt) == [at |-> "storing", chunk |-> chunk, attempt |-> attempt]

Transient(tick) == [kind |-> "transient", tick |-> tick]
StateAt(tick) == [kind |-> "state", tick |-> tick]

-----------------------------------------------------------------------------
(* chunking: what one recorded tick does to the active chunk. *)

OpenAt(tick, records) ==
  [from |-> tick, end |-> (tick \div ChunkTicks + 1) * ChunkTicks, records |-> records]

Sealed(chunk, through, isFinal) ==
  [from |-> chunk.from, through |-> through, final |-> isFinal, records |-> chunk.records]

RollsOver(r, tick) ==
  active[r] # NoChunk /\ (tick >= active[r].end \/ Len(active[r].records) >= MaxRecords)

\* Mutant: whatever led to the new base goes to the chunk after it.
SplitBefore(chunk, tick) ==
  [old |-> Sealed(chunk, tick, FALSE), new |-> OpenAt(tick, <<Transient(tick)>>)]

\* A rollover: the tick's transients end the old chunk, its state opens the new.
SplitAt(chunk, tick) ==
  [old |-> Sealed([chunk EXCEPT !.records = Append(@, Transient(tick))], tick, FALSE),
   new |-> OpenAt(tick, <<>>)]

KeepsState(r) == skipped[r] + 1 >= StateEvery

\* The active chunk with a tick that neither opens it nor rolls it over.
WithTick(chunk, tick, keepState) ==
  [chunk EXCEPT !.records =
     @ \o (IF keepState THEN <<Transient(tick), StateAt(tick)>> ELSE <<Transient(tick)>>)]

\* The chunk finish ends: the final tick stays in the last chunk, past its end too.
FinalOf(r, tick) ==
  Sealed(IF active[r] = NoChunk THEN OpenAt(tick, <<Transient(tick)>>)
         ELSE WithTick(active[r], tick, TRUE), tick, TRUE)

-----------------------------------------------------------------------------
(* storeQueue.add: never blocks, drops the oldest to make room. *)

Enqueue(chunk) ==
  LET isFull == Len(pendingChunks) >= MaxPendingChunks
  IN /\ pendingChunks' = Append(IF isFull THEN Tail(pendingChunks) ELSE pendingChunks, chunk)
     /\ droppedChunks' = IF isFull THEN droppedChunks \cup {Head(pendingChunks)} ELSE droppedChunks
     /\ signal' = TRUE

\* take: the chunk the worker goes on with.
Take(w) ==
  /\ storer' = [storer EXCEPT ![w] = Storing(Head(pendingChunks), 1)]
  /\ pendingChunks' = Tail(pendingChunks)

-----------------------------------------------------------------------------
(* The Recorder's methods, called by the game's controller. *)

StartRecording(r) ==
  /\ recording[r] = "none" /\ shutdown = "open"
  /\ recording' = [recording EXCEPT ![r] = "running"]
  /\ UNCHANGED <<ticksOffered, caller, inbox, chunkVars, final, finished, queueVars, storer, shutdown, storedChunks>>

\* Offer: a tick that does not fit is dropped.
Offer(r) ==
  /\ recording[r] # "none" /\ caller[r] = "playing" /\ ticksOffered[r] < MaxTicks[r]
  /\ ticksOffered' = [ticksOffered EXCEPT ![r] = @ + 1]
  /\ inbox' = IF recording[r] = "running" /\ Len(inbox[r]) < InboxSize
              THEN [inbox EXCEPT ![r] = Append(@, [kind |-> "tick", tick |-> ticksOffered[r] + 1])]
              ELSE inbox
  /\ UNCHANGED <<recording, caller, chunkVars, final, finished, queueVars, storer, shutdown, storedChunks>>

\* Finish of the game's last tick; retrying sends the same capture again.
Finish(r) ==
  /\ recording[r] = "running"
  /\ \/ caller[r] = "playing" /\ ticksOffered[r] < MaxTicks[r]
        /\ ticksOffered' = [ticksOffered EXCEPT ![r] = @ + 1]
     \/ caller[r] = "retrying" /\ UNCHANGED ticksOffered
  /\ Len(inbox[r]) < InboxSize
  /\ inbox' = [inbox EXCEPT ![r] = Append(@, [kind |-> "finish", tick |-> ticksOffered'[r]])]
  /\ caller' = [caller EXCEPT ![r] = "finishing"]
  /\ UNCHANGED <<recording, chunkVars, final, finished, queueVars, storer, shutdown, storedChunks>>

\* The caller's context is done first: its message stays in the inbox.
FinishTimesOut(r) ==
  /\ caller[r] = "finishing"
  /\ caller' = [caller EXCEPT ![r] = "retrying"]
  /\ UNCHANGED <<recording, ticksOffered, inbox, chunkVars, final, finished, queueVars, storer, shutdown, storedChunks>>

\* StopRecording waits for a place in the inbox, no longer in the map.
StopRecording(r) ==
  /\ recording[r] = "running" /\ caller[r] # "finishing"
  /\ Len(inbox[r]) < InboxSize
  /\ recording' = [recording EXCEPT ![r] = "stopping"]
  /\ inbox' = [inbox EXCEPT ![r] = Append(@, [kind |-> "stop"])]
  /\ UNCHANGED <<ticksOffered, caller, chunkVars, final, finished, queueVars, storer, shutdown, storedChunks>>

-----------------------------------------------------------------------------
(* run: a recording's goroutine handles its messages in order. *)

Receives(r, kind) ==
  /\ inbox[r] # <<>> /\ Head(inbox[r]).kind = kind /\ recording[r] # "done"
  /\ inbox' = [inbox EXCEPT ![r] = Tail(@)]

RecordTick(r) ==
  /\ Receives(r, "tick")
  /\ LET tick == Head(inbox[r]).tick IN
     IF r \in finished \/ final[r] # 0
     THEN UNCHANGED <<chunkVars, queueVars>>
     ELSE /\ ticksTaken' = [ticksTaken EXCEPT ![r] = Append(@, tick)]
          /\ IF RollsOver(r, tick)
             THEN LET split == SplitAt(active[r], tick)
                  IN /\ sealed' = [sealed EXCEPT ![r] = Append(@, split.old)]
                     /\ active' = [active EXCEPT ![r] = split.new]
                     /\ skipped' = [skipped EXCEPT ![r] = 0]
                     /\ Enqueue(<<r, Len(sealed[r]) + 1>>)
             ELSE /\ active' = [active EXCEPT ![r] =
                        IF @ = NoChunk THEN OpenAt(tick, <<Transient(tick)>>)
                        ELSE WithTick(@, tick, KeepsState(r))]
                  /\ skipped' = [skipped EXCEPT ![r] =
                        IF active[r] = NoChunk \/ KeepsState(r) THEN 0 ELSE @ + 1]
                  /\ UNCHANGED <<sealed, queueVars>>
  /\ UNCHANGED <<gameVars, final, finished, storer, shutdown, storedChunks>>

\* finish seals the final chunk once: a retry stores the one it holds.
SealFinal(r, tick) ==
  IF final[r] # 0 THEN UNCHANGED chunkVars
  ELSE /\ sealed' = [sealed EXCEPT ![r] = Append(@, FinalOf(r, tick))]
       /\ active' = [active EXCEPT ![r] = NoChunk]
       /\ ticksTaken' = [ticksTaken EXCEPT ![r] = Append(@, tick)]
       /\ UNCHANGED skipped

\* Mutant: stop hands over the active chunk only.
LeftWithoutFinal(r) == IF active[r] # NoChunk THEN Len(sealed[r]) + 1 ELSE 0

\* What stop hands over, or 0.
LeftToStore(r) == IF final[r] # 0 THEN final[r]
                  ELSE IF active[r] # NoChunk THEN Len(sealed[r]) + 1 ELSE 0

\* finish: the store answers, fails, or stores it and its answer is lost.
FinishGame(r) ==
  /\ Receives(r, "finish")
  /\ IF r \in finished
     THEN UNCHANGED <<chunkVars, final, finished, storedChunks>> /\ caller' = [caller EXCEPT ![r] =
            IF @ = "finishing" THEN "finished" ELSE @]
     ELSE /\ SealFinal(r, Head(inbox[r]).tick)
          /\ LET last == Len(sealed'[r]) IN
             \/ /\ storedChunks' = storedChunks \cup {<<r, last>>}
                /\ final' = [final EXCEPT ![r] = 0]
                /\ finished' = finished \cup {r}
                /\ caller' = [caller EXCEPT ![r] = IF @ = "finishing" THEN "finished" ELSE @]
             \/ /\ \/ UNCHANGED storedChunks
                   \/ storedChunks' = storedChunks \cup {<<r, last>>}
                /\ final' = [final EXCEPT ![r] = last]
                /\ UNCHANGED finished
                /\ caller' = [caller EXCEPT ![r] = IF @ = "finishing" THEN "retrying" ELSE @]
  /\ UNCHANGED <<recording, ticksOffered, queueVars, storer, shutdown>>

\* stop: what the recording still holds goes to the queue.
Stop(r) ==
  /\ Receives(r, "stop")
  /\ recording' = [recording EXCEPT ![r] = "done"]
  /\ IF r \in finished \/ LeftToStore(r) = 0 THEN UNCHANGED <<chunkVars, final, queueVars>>
     ELSE /\ Enqueue(<<r, LeftToStore(r)>>)
          /\ final' = [final EXCEPT ![r] = 0]
          /\ active' = [active EXCEPT ![r] = NoChunk]
          /\ sealed' = IF final[r] # 0 THEN sealed
                       ELSE [sealed EXCEPT ![r] = Append(@, Sealed(active[r], Last(ticksTaken[r]), FALSE))]
          /\ UNCHANGED <<skipped, ticksTaken>>
  /\ UNCHANGED <<ticksOffered, caller, finished, storer, shutdown, storedChunks>>

-----------------------------------------------------------------------------
(* work: the queue's workers. *)

Look(w) ==
  /\ storer[w] = Looking
  /\ IF shutdown = "cancelled"
     THEN storer' = [storer EXCEPT ![w] = [at |-> "ended"]] /\ UNCHANGED pendingChunks
     ELSE IF pendingChunks # <<>> THEN Take(w)
     ELSE storer' = [storer EXCEPT ![w] = Waiting] /\ UNCHANGED pendingChunks
  /\ UNCHANGED <<gameVars, inbox, chunkVars, final, finished, signal, droppedChunks, shutdown, storedChunks>>

Woken(w) ==
  /\ storer[w] = Waiting /\ signal
  /\ signal' = FALSE
  /\ storer' = [storer EXCEPT ![w] = Looking]
  /\ UNCHANGED <<gameVars, inbox, chunkVars, final, finished, pendingChunks, droppedChunks, shutdown, storedChunks>>

\* draining: one last look before ending.
LastLook(w) ==
  /\ storer[w] = Waiting /\ shutdown \in {"draining", "cancelled"}
  /\ IF pendingChunks # <<>> THEN Take(w)
     ELSE storer' = [storer EXCEPT ![w] = [at |-> "ended"]] /\ UNCHANGED pendingChunks
  /\ UNCHANGED <<gameVars, inbox, chunkVars, final, finished, signal, droppedChunks, shutdown, storedChunks>>

\* storeWithRetries: one attempt; a failed one may have stored the chunk.
StoreChunk(w) ==
  /\ storer[w].at = "storing"
  /\ LET chunk == storer[w].chunk IN
     \/ /\ storedChunks' = storedChunks \cup {chunk}
        /\ storer' = [storer EXCEPT ![w] = Looking]
        /\ UNCHANGED droppedChunks
     \/ /\ storedChunks' \in {storedChunks, storedChunks \cup {chunk}}
        /\ IF shutdown = "cancelled" \/ storer[w].attempt >= StoreAttempts
           THEN /\ droppedChunks' = droppedChunks \cup {chunk}
                /\ storer' = [storer EXCEPT ![w] = Looking]
           ELSE /\ storer' = [storer EXCEPT ![w].attempt = @ + 1]
                /\ UNCHANGED droppedChunks
  /\ UNCHANGED <<gameVars, inbox, chunkVars, final, finished, pendingChunks, signal, shutdown>>

-----------------------------------------------------------------------------
(* Close: every recording is told to stop, then the queue drains. *)

Close ==
  /\ shutdown = "open"
  /\ shutdown' = "closing"
  /\ UNCHANGED <<gameVars, inbox, chunkVars, final, finished, queueVars, storer, storedChunks>>

\* The closed Recorder's map is empty: its recordings' stop messages follow.
StopAtClose(r) ==
  /\ shutdown = "closing" /\ recording[r] = "running"
  /\ Len(inbox[r]) < InboxSize
  /\ recording' = [recording EXCEPT ![r] = "stopping"]
  /\ inbox' = [inbox EXCEPT ![r] = Append(@, [kind |-> "stop"])]
  /\ UNCHANGED <<ticksOffered, caller, chunkVars, final, finished, queueVars, storer, shutdown, storedChunks>>

Drain ==
  /\ shutdown = "closing" /\ \A r \in Recordings : recording[r] \in {"none", "done"}
  /\ shutdown' = "draining"
  /\ UNCHANGED <<gameVars, inbox, chunkVars, final, finished, queueVars, storer, storedChunks>>

DrainTimesOut ==
  /\ shutdown = "draining"
  /\ shutdown' = "cancelled"
  /\ UNCHANGED <<gameVars, inbox, chunkVars, final, finished, queueVars, storer, storedChunks>>

\* Its workers ended, drain drops what is still queued.
DropRest ==
  /\ shutdown \in {"draining", "cancelled"} /\ \A w \in Storers : storer[w].at = "ended"
  /\ shutdown' = "drained"
  /\ droppedChunks' = droppedChunks \cup ToSet(pendingChunks)
  /\ pendingChunks' = <<>>
  /\ UNCHANGED <<gameVars, inbox, chunkVars, final, finished, signal, storer, storedChunks>>

-----------------------------------------------------------------------------

ReplayInit ==
  /\ recording = [r \in Recordings |-> "none"]
  /\ ticksOffered = [r \in Recordings |-> 0]
  /\ caller = [r \in Recordings |-> "playing"]
  /\ inbox = [r \in Recordings |-> <<>>]
  /\ active = [r \in Recordings |-> NoChunk]
  /\ skipped = [r \in Recordings |-> 0]
  /\ ticksTaken = [r \in Recordings |-> <<>>]
  /\ sealed = [r \in Recordings |-> <<>>]
  /\ final = [r \in Recordings |-> 0]
  /\ finished = {}
  /\ pendingChunks = <<>> /\ signal = FALSE
  /\ storer = [w \in Storers |-> Waiting]
  /\ shutdown = "open"
  /\ storedChunks = {} /\ droppedChunks = {}

ReplayNext ==
  \/ \E r \in Recordings :
       \/ StartRecording(r) \/ Offer(r) \/ Finish(r) \/ FinishTimesOut(r) \/ StopRecording(r)
       \/ RecordTick(r) \/ FinishGame(r) \/ Stop(r) \/ StopAtClose(r)
  \/ \E w \in Storers : Look(w) \/ Woken(w) \/ LastLook(w) \/ StoreChunk(w)
  \/ Close \/ Drain \/ DrainTimesOut \/ DropRest

-----------------------------------------------------------------------------

\* The ticks whose transients a chunk holds, in order.
TransientsOf(chunk) ==
  LET transients == SelectSeq(chunk.records, LAMBDA record : record.kind = "transient")
  IN [i \in DOMAIN transients |-> transients[i].tick]

\* A recording's history has no gap and no overlap: each chunk begins where
\* the one before it ends, holds only what happened since its base (its first
\* tick's own transients in the first one), every tick recorded left its
\* transients in exactly one chunk, in order, and only the last chunk is
\* final, with the game's final state.
HistoryIsWhole ==
  \A r \in Recordings :
    LET history == sealed[r]
        open == IF active[r] = NoChunk THEN <<>> ELSE TransientsOf(active[r])
    IN /\ \A i \in 1 .. Len(history) - 1 :
            history[i + 1].from = history[i].through /\ ~history[i].final
       /\ active[r] # NoChunk /\ history # <<>> =>
            active[r].from = Last(history).through /\ ~Last(history).final
       /\ \A i \in DOMAIN history : \A tick \in ToSet(TransientsOf(history[i])) :
            /\ tick <= history[i].through
            /\ history[i].from < tick \/ (i = 1 /\ history[i].from = tick)
       /\ FlattenSeq([i \in DOMAIN history |-> TransientsOf(history[i])]) \o open = ticksTaken[r]
       /\ history # <<>> /\ Last(history).final =>
            /\ Last(history).through = ticksOffered[r]
            /\ Last(history).from = ticksOffered[r] \/ Last(Last(history).records) = StateAt(ticksOffered[r])

Held(r) == IF final[r] = 0 THEN {} ELSE {<<r, final[r]>>}

Handled == {storer[w].chunk : w \in {v \in Storers : storer[v].at = "storing"}}

\* No sealed chunk disappears unnoticed: it is waiting within the queue's
\* limit, with a worker that will see it, being stored, held for the final
\* retry, stored, or dropped and reported; a Finish that was answered
\* without error left the final chunk stored; a closed Recorder left nothing.
ChunksAreAccountedFor ==
  /\ \A r \in Recordings : \A i \in DOMAIN sealed[r] :
       <<r, i>> \in ToSet(pendingChunks) \cup Handled \cup Held(r) \cup storedChunks \cup droppedChunks
  /\ Len(pendingChunks) <= MaxPendingChunks
  /\ pendingChunks # <<>> /\ shutdown \notin {"draining", "cancelled"} =>
       signal \/ \E w \in Storers : storer[w].at \in {"looking", "storing"}
  /\ \A r \in Recordings : caller[r] = "finished" =>
       Last(sealed[r]).final /\ <<r, Len(sealed[r])>> \in storedChunks
  /\ shutdown = "drained" => pendingChunks = <<>> /\ Handled = {} /\ \A r \in Recordings : Held(r) = {}

\* What the recorder stores is the history whole, or is known to be missing
\* (record, storeWithRetries, drain).
ReplaysHold == HistoryIsWhole /\ ChunksAreAccountedFor
=============================================================================
