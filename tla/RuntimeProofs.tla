---------------------------- MODULE RuntimeProofs ----------------------------
(***************************************************************************)
(* Runtime for any Sessions, previews, epochs, callers and bounds: the     *)
(* resolver of controllers and the previews it hosts.                      *)
(***************************************************************************)
EXTENDS Runtime, SequenceTheorems, FiniteSetTheorems, TLAPS

Controllers ==
  [name : Names, epoch : Int, at : {"live", "ended", "gone"},
   game : {"none", "running"}, connected : SUBSET (Askers \cup Attachers)]

\* How far AttachAdmin may have got, its controller being one there is.
Asks ==
  [at : {"idle"}]
    \cup [at : {"admitted"}, name : Names, epoch : Epochs, known : BOOLEAN]
    \cup [at : {"attaching"}, controller : Ids, known : BOOLEAN]

ResolverTypes ==
  /\ controllers \in Seq(Controllers)
  /\ table \in [Names -> Nat]
  /\ asks \in [Askers -> Asks]

\* The table points to controllers of the Session, and to each that runs.
TableHolds ==
  /\ \A n \in Names : table[n] # 0 => table[n] \in Ids /\ controllers[table[n]].name = n
  /\ \A i \in Ids : IsLive(i) => table[controllers[i].name] = i

ConnectionsFit ==
  \A i \in Ids :
    /\ controllers[i].connected # {} => IsLive(i)
    /\ IsFiniteSet(controllers[i].connected) /\ Cardinality(controllers[i].connected) <= MaxAdmins

\* Inductive.
ResolverInv ==
  /\ ResolverTypes /\ TableHolds /\ ConnectionsFit
  /\ Cardinality(Entries) <= MaxLive

\* One controller of the sequence changes.
LEMMA OneChanges ==
  ASSUME ResolverTypes, NEW i \in Ids, NEW c \in Controllers,
         controllers' = [controllers EXCEPT ![i] = c]
  PROVE  /\ controllers' \in Seq(Controllers) /\ Ids' = Ids
         /\ \A j \in Ids : controllers'[j] = IF j = i THEN c ELSE controllers[j]
<1>1. controllers \in Seq(Controllers) /\ i \in 1..Len(controllers)
  BY DEF ResolverTypes, Ids
<1>2. controllers' \in Seq(Controllers) /\ Len(controllers') = Len(controllers)
  BY <1>1, ExceptSeq
<1>3. QED
  BY <1>1, <1>2 DEF Ids

\* What a controller may become without a Session's place changing: it keeps
\* its name, runs only if it ran, and keeps connections only while it does.
Remains(c, d) ==
  /\ d.name = c.name /\ d.epoch = c.epoch
  /\ d.at = "live" => c.at = "live"
  /\ d.connected # {} => d.at = "live"
  /\ IsFiniteSet(d.connected) /\ Cardinality(d.connected) <= MaxAdmins

\* A controller that ends, or whose connections change, keeps the invariant.
LEMMA ControllerRemains ==
  ASSUME ResolverInv, NEW i \in Ids, NEW c \in Controllers,
         controllers' = [controllers EXCEPT ![i] = c], Remains(controllers[i], c),
         table' = table, asks' \in [Askers -> Asks]
  PROVE  ResolverInv'
<1>1. /\ controllers' \in Seq(Controllers) /\ Ids' = Ids
      /\ \A j \in Ids : controllers'[j] = IF j = i THEN c ELSE controllers[j]
  BY OneChanges DEF ResolverInv
<1>2. ResolverTypes'
  <2>1. Asks' = Asks
    BY <1>1 DEF Asks
  <2>2. QED
    BY <1>1, <2>1 DEF ResolverInv, ResolverTypes
<1>3. TableHolds'
  BY <1>1 DEF ResolverInv, TableHolds, Remains, IsLive
<1>4. ConnectionsFit'
  BY <1>1 DEF ResolverInv, ConnectionsFit, Remains, IsLive
<1>5. Entries' = Entries
  BY DEF Entries
<1>6. QED
  BY <1>2, <1>3, <1>4, <1>5 DEF ResolverInv

\* A controller that ended is one, and leaves no connection behind.
LEMMA EndedRemains ==
  ASSUME ResolverInv, NEW i \in Ids, NEW c \in Controllers
  PROVE  /\ controllers[i] \in Controllers
         /\ Ended(c) \in Controllers /\ Ended(c).name = c.name /\ Ended(c).epoch = c.epoch
         /\ Ended(c).game = c.game
         /\ Ended(c).at = "ended" /\ Ended(c).connected = {}
         /\ Remains(c, Ended(c))
<1>1. controllers[i] \in Controllers
  BY DEF ResolverInv, ResolverTypes, Ids
<1>2. PICK d : d = Ended(c)
  OBVIOUS
<1>3. d = [c EXCEPT !.at = "ended", !.connected = {}]
  BY <1>2 DEF Ended
<1>4. /\ d \in Controllers /\ d.name = c.name /\ d.epoch = c.epoch /\ d.game = c.game
      /\ d.at = "ended" /\ d.connected = {}
  BY <1>3 DEF Controllers
<1>5. IsFiniteSet({}) /\ Cardinality({}) = 0 /\ MaxAdmins \in Nat
  BY FS_EmptySet, ResolverAssumption
<1>6. Remains(c, d)
  BY <1>4, <1>5 DEF Remains
<1>7. QED
  BY <1>1, <1>2, <1>4, <1>6

\* Fewer Sessions than may have controllers are within the bound.
LEMMA EntriesFit ==
  ASSUME ResolverInv, NEW held \in SUBSET Entries
  PROVE  Cardinality(held) <= MaxLive
<1>1. IsFiniteSet(Entries) /\ IsFiniteSet(held)
  BY ResolverAssumption, FS_Subset DEF Entries
<1>2. /\ Cardinality(held) <= Cardinality(Entries)
      /\ Cardinality(held) \in Nat /\ Cardinality(Entries) \in Nat
  BY <1>1, FS_Subset, FS_CardinalityType
<1>3. QED
  BY <1>2, ResolverAssumption DEF ResolverInv

\* forget gives up only the place the controller itself holds.
LEMMA ForgetStep ==
  ASSUME ResolverInv, NEW i \in Ids, Forget(i)
  PROVE  /\ ResolverInv'
         /\ Ids' = Ids
         /\ \A j \in Ids : j # i => controllers'[j] = controllers[j]
         /\ controllers'[i].at = "gone" /\ controllers'[i].connected = {}
         /\ controllers'[i].name = controllers[i].name /\ controllers'[i].game = controllers[i].game
<1>1. PICK c : c = [Ended(controllers[i]) EXCEPT !.at = "gone"]
  OBVIOUS
<1>2. controllers' = [controllers EXCEPT ![i] = c] /\ table' = Forgotten(i) /\ asks' = asks
  BY <1>1 DEF Forget
<1>3. /\ controllers[i] \in Controllers /\ Ended(controllers[i]) \in Controllers
      /\ Ended(controllers[i]).name = controllers[i].name /\ Ended(controllers[i]).game = controllers[i].game
      /\ Ended(controllers[i]).connected = {}
  <2>1. controllers[i] \in Controllers
    BY DEF ResolverInv, ResolverTypes, Ids
  <2>2. QED
    BY <2>1, EndedRemains
<1>4. /\ c \in Controllers /\ c.name = controllers[i].name /\ c.game = controllers[i].game
      /\ c.at = "gone" /\ c.connected = {}
  BY <1>1, <1>3 DEF Controllers
<1>5. /\ controllers' \in Seq(Controllers) /\ Ids' = Ids
      /\ \A j \in Ids : controllers'[j] = IF j = i THEN c ELSE controllers[j]
  BY <1>2, <1>4, OneChanges DEF ResolverInv
<1>6. table \in [Names -> Nat] /\ asks \in [Askers -> Asks] /\ controllers[i].name \in Names
  BY <1>3 DEF ResolverInv, ResolverTypes, Controllers
<1>7. /\ table' \in [Names -> Nat]
      /\ \A n \in Names : table'[n] = IF n = controllers[i].name /\ table[n] = i THEN 0 ELSE table[n]
  BY <1>2, <1>6 DEF Forgotten
<1>8. Asks' = Asks
  BY <1>5 DEF Asks
<1>9. ResolverTypes'
  BY <1>2, <1>5, <1>6, <1>7, <1>8 DEF ResolverTypes
<1>10. TableHolds'
  <2>1. ASSUME NEW n \in Names, table'[n] # 0
        PROVE  table'[n] \in Ids /\ controllers'[table'[n]].name = n
    BY <1>4, <1>5, <1>7, <2>1 DEF ResolverInv, TableHolds
  <2>2. ASSUME NEW j \in Ids, controllers'[j].at = "live"
        PROVE  table'[controllers'[j].name] = j
    <3>1. j # i /\ controllers'[j] = controllers[j]
      BY <1>4, <1>5, <2>2
    <3>2. controllers[j] \in Controllers /\ table[controllers[j].name] = j
      BY <2>2, <3>1 DEF ResolverInv, ResolverTypes, TableHolds, IsLive, Ids
    <3>3. controllers[j].name \in Names
      BY <3>2 DEF Controllers
    <3>4. QED
      BY <1>7, <3>1, <3>2, <3>3
  <2>3. QED
    BY <1>5, <2>1, <2>2 DEF TableHolds, IsLive
<1>11. ConnectionsFit'
  <2>1. IsFiniteSet({}) /\ Cardinality({}) = 0 /\ MaxAdmins \in Nat
    BY FS_EmptySet, ResolverAssumption
  <2>2. ASSUME NEW j \in Ids
        PROVE  /\ controllers'[j].connected # {} => controllers'[j].at = "live"
               /\ IsFiniteSet(controllers'[j].connected)
               /\ Cardinality(controllers'[j].connected) <= MaxAdmins
    <3>1. CASE j = i
      <4>1. controllers'[j].connected = {}
        BY <1>4, <1>5, <3>1
      <4>2. IsFiniteSet(controllers'[j].connected) /\ Cardinality(controllers'[j].connected) = 0
        BY <2>1, <4>1, Zenon
      <4>3. QED
        BY <2>1, <4>1, <4>2
    <3>2. CASE j # i
      BY <1>5, <3>2 DEF ResolverInv, ConnectionsFit, IsLive
    <3>3. QED
      BY <3>1, <3>2
  <2>3. QED
    BY <1>5, <2>2 DEF ConnectionsFit, IsLive
<1>12. Cardinality(Entries') <= MaxLive
  <2>1. Entries' \in SUBSET Entries
    BY <1>7 DEF Entries
  <2>2. QED
    BY <2>1, EntriesFit
<1>13. QED
  BY <1>4, <1>5, <1>9, <1>10, <1>11, <1>12 DEF ResolverInv

\* controllerFor: the Session's one controller that runs is its newest, and
\* the table leads to it.
LEMMA ControllerForStep ==
  ASSUME ResolverInv, NEW n \in Names, NEW epoch \in Int, ControllerFor(n, epoch)
  PROVE  /\ controllers' \in Seq(Controllers) /\ table' \in [Names -> Nat] /\ Ids \subseteq Ids'
         /\ TableHolds' /\ ConnectionsFit' /\ Cardinality(Entries') <= MaxLive
         /\ Answered(n, epoch) # 0 =>
              Answered(n, epoch) \in Ids' /\ table'[n] = Answered(n, epoch)
<1>1. Verdict(n, epoch) \in {"existing", "owner_changed", "replace", "server_busy", "create"}
  <2>1. HasController(n) => controllers[table[n]].epoch \in Int
    <3>1. HasController(n) => table[n] \in 1..Len(controllers)
      BY DEF ResolverInv, TableHolds, HasController, Ids
    <3>2. HasController(n) => controllers[table[n]] \in Controllers
      BY <3>1 DEF ResolverInv, ResolverTypes
    <3>3. QED
      BY <3>2 DEF Controllers
  <2>2. CASE HasController(n)
    BY <2>1, <2>2 DEF Verdict
  <2>3. CASE ~ HasController(n)
    BY <2>3 DEF Verdict
  <2>4. QED
    BY <2>2, <2>3
<1>2. CASE Verdict(n, epoch) \in {"existing", "owner_changed", "server_busy"}
  <2>1. UNCHANGED <<controllers, table>>
    BY <1>2 DEF ControllerFor
  <2>2. Ids' = Ids /\ Entries' = Entries
    BY <2>1 DEF Ids, Entries
  <2>3. Answered(n, epoch) # 0 => Answered(n, epoch) = table[n]
    BY <1>2 DEF Answered
  <2>4. TableHolds' /\ ConnectionsFit'
    BY <2>1, <2>2 DEF ResolverInv, TableHolds, ConnectionsFit, IsLive
  <2>5. Answered(n, epoch) # 0 => table[n] \in Ids
    BY <2>3 DEF ResolverInv, TableHolds
  <2>6. QED
    BY <2>1, <2>2, <2>3, <2>4, <2>5 DEF ResolverInv, ResolverTypes
<1>3. CASE Verdict(n, epoch) \in {"create", "replace"}
  <2>1. PICK before : before = IF HasController(n)
                               THEN [controllers EXCEPT ![table[n]] = Ended(@)] ELSE controllers
    OBVIOUS
  <2>2. /\ controllers \in Seq(Controllers) /\ table \in [Names -> Nat]
        /\ Len(controllers) \in Nat /\ Ids = 1..Len(controllers)
        /\ HasController(n) => table[n] \in Ids /\ controllers[table[n]].name = n
    BY DEF ResolverInv, ResolverTypes, TableHolds, HasController, Ids
  <2>3. /\ before \in Seq(Controllers) /\ Len(before) = Len(controllers)
        /\ \A j \in Ids : before[j] = IF HasController(n) /\ j = table[n]
                                      THEN Ended(controllers[j]) ELSE controllers[j]
    <3>1. CASE HasController(n)
      <4>1. PICK i \in Ids : i = table[n]
        BY <2>2, <3>1
      <4>2. controllers[i] \in Controllers /\ Ended(controllers[i]) \in Controllers
        <5>1. controllers[i] \in Controllers
          BY <2>2
        <5>2. QED
          BY <5>1, EndedRemains
      <4>3. before = [controllers EXCEPT ![i] = Ended(controllers[i])]
        BY <2>1, <3>1, <4>1
      <4>4. QED
        BY <2>2, <3>1, <4>1, <4>2, <4>3, ExceptSeq
    <3>2. CASE ~ HasController(n)
      BY <2>1, <2>2, <3>2
    <3>3. QED
      BY <3>1, <3>2
  <2>4. PICK c : c = Controller(n, epoch)
    OBVIOUS
  <2>5. c \in Controllers /\ c.name = n /\ c.at = "live" /\ c.connected = {}
    BY <2>4 DEF Controller, Controllers
  <2>6. PICK new \in Nat : new = Len(controllers) + 1
    BY <2>2
  <2>7. controllers' = Append(before, c) /\ table' = [table EXCEPT ![n] = new]
    BY <1>3, <2>1, <2>4, <2>6 DEF ControllerFor, Installed
  <2>8. /\ controllers' \in Seq(Controllers) /\ Ids' = Ids \cup {new} /\ new \notin Ids
        /\ controllers'[new] = c /\ \A j \in Ids : controllers'[j] = before[j]
    <3>1. /\ Append(before, c) \in Seq(Controllers) /\ Len(Append(before, c)) = Len(before) + 1
          /\ \A i \in 1..Len(before) : Append(before, c)[i] = before[i]
          /\ Append(before, c)[Len(before) + 1] = c
      BY <2>3, <2>5, AppendProperties
    <3>2. Ids' = 1..new
      BY <2>3, <2>6, <2>7, <3>1 DEF Ids
    <3>3. Ids = 1..Len(controllers) /\ Len(controllers) \in Nat
      BY <2>2
    <3>4. QED
      BY <2>3, <2>6, <2>7, <3>1, <3>2, <3>3
  <2>9. table' \in [Names -> Nat] /\ table'[n] = new /\ new # 0
        /\ \A m \in Names : m # n => table'[m] = table[m]
    BY <2>2, <2>6, <2>7
  <2>10. ASSUME NEW j \in Ids
         PROVE  /\ controllers[j] \in Controllers
                /\ controllers'[j].name = controllers[j].name
                /\ controllers'[j].at = "live" => controllers[j].at = "live" /\ table[n] # j
                /\ Remains(controllers[j], controllers'[j])
    <3>1. controllers[j] \in Controllers
      BY <2>2
    <3>2. CASE HasController(n) /\ j = table[n]
      BY <2>3, <2>8, <3>1, <3>2, EndedRemains
    <3>3. CASE ~ (HasController(n) /\ j = table[n])
      <4>1. controllers'[j] = controllers[j]
        BY <2>3, <2>8, <3>3
      <4>2. Remains(controllers[j], controllers[j])
        BY DEF ResolverInv, ConnectionsFit, IsLive, Remains
      <4>3. table[n] # j
        BY <2>2, <3>3 DEF HasController
      <4>4. QED
        BY <3>1, <4>1, <4>2, <4>3
    <3>4. QED
      BY <3>2, <3>3
  <2>11. TableHolds'
    <3>1. ASSUME NEW m \in Names, table'[m] # 0
          PROVE  table'[m] \in Ids' /\ controllers'[table'[m]].name = m
      <4>1. CASE m = n
        BY <2>5, <2>8, <2>9, <4>1
      <4>2. CASE m # n
        <5>1. table'[m] = table[m] /\ table[m] \in Ids /\ controllers[table[m]].name = m
          BY <2>9, <3>1, <4>2 DEF ResolverInv, TableHolds
        <5>2. QED
          BY <2>8, <2>10, <5>1
      <4>3. QED
        BY <4>1, <4>2
    <3>2. ASSUME NEW j \in Ids', controllers'[j].at = "live"
          PROVE  table'[controllers'[j].name] = j
      <4>1. CASE j = new
        BY <2>5, <2>8, <2>9, <4>1
      <4>2. CASE j \in Ids
        <5>1. controllers[j].at = "live" /\ table[n] # j /\ controllers[j] \in Controllers
              /\ controllers'[j].name = controllers[j].name
          BY <2>10, <3>2, <4>2
        <5>2. table[controllers[j].name] = j
          BY <4>2, <5>1 DEF ResolverInv, TableHolds, IsLive
        <5>3. controllers[j].name # n /\ controllers[j].name \in Names
          BY <5>1, <5>2 DEF Controllers
        <5>4. QED
          BY <2>9, <5>1, <5>2, <5>3
      <4>3. QED
        BY <2>8, <4>1, <4>2
    <3>3. QED
      BY <3>1, <3>2 DEF TableHolds, IsLive
  <2>12. ConnectionsFit'
    <3>1. IsFiniteSet({}) /\ Cardinality({}) = 0 /\ MaxAdmins \in Nat
      BY FS_EmptySet, ResolverAssumption
    <3>2. ASSUME NEW j \in Ids'
          PROVE  /\ controllers'[j].connected # {} => controllers'[j].at = "live"
                 /\ IsFiniteSet(controllers'[j].connected)
                 /\ Cardinality(controllers'[j].connected) <= MaxAdmins
      <4>1. CASE j = new
        <5>1. controllers'[j].connected = {}
          BY <2>5, <2>8, <4>1
        <5>2. IsFiniteSet(controllers'[j].connected) /\ Cardinality(controllers'[j].connected) = 0
          BY <3>1, <5>1, Zenon
        <5>3. QED
          BY <3>1, <5>1, <5>2
      <4>2. CASE j \in Ids
        BY <2>10, <4>2 DEF Remains
      <4>3. QED
        BY <2>8, <4>1, <4>2
    <3>3. QED
      BY <3>2 DEF ConnectionsFit, IsLive
  <2>13. Cardinality(Entries') <= MaxLive
    <3>1. Entries' = Entries \cup {n}
      BY <2>9 DEF Entries
    <3>2. CASE HasController(n)
      <4>1. Entries' \in SUBSET Entries
        BY <3>1, <3>2 DEF Entries, HasController
      <4>2. QED
        BY <4>1, EntriesFit
    <3>3. CASE ~ HasController(n)
      <4>1. ~ (Cardinality(Entries) >= MaxLive)
        BY <1>3, <3>3 DEF Verdict
      <4>2. IsFiniteSet(Entries) /\ n \notin Entries
        BY <3>3, ResolverAssumption, FS_Subset DEF Entries, HasController
      <4>3. Cardinality(Entries') = Cardinality(Entries) + 1 /\ Cardinality(Entries) \in Nat
        BY <3>1, <4>2, FS_AddElement, FS_CardinalityType
      <4>4. QED
        BY <4>1, <4>3, ResolverAssumption
    <3>4. QED
      BY <3>2, <3>3
  <2>14. Answered(n, epoch) = new
    BY <1>3, <2>6 DEF Answered
  <2>15. QED
    BY <2>8, <2>9, <2>11, <2>12, <2>13, <2>14
<1>4. QED
  BY <1>1, <1>2, <1>3

\* A step that leaves the controllers and the table alone.
LEMMA ResolverKept ==
  ASSUME ResolverInv, UNCHANGED <<controllers, table>>, asks' \in [Askers -> Asks]
  PROVE  ResolverInv'
<1>1. Ids' = Ids /\ Entries' = Entries /\ Asks' = Asks
  BY DEF Ids, Entries, Asks
<1>2. ResolverTypes'
  BY <1>1 DEF ResolverInv, ResolverTypes
<1>3. TableHolds' /\ ConnectionsFit'
  BY <1>1 DEF ResolverInv, TableHolds, ConnectionsFit, IsLive
<1>4. QED
  BY <1>1, <1>2, <1>3 DEF ResolverInv

\* A controller ends, whatever else the step does to its calls.
LEMMA EndingStep ==
  ASSUME ResolverInv, NEW i \in Ids, controllers' = [controllers EXCEPT ![i] = Ended(@)],
         UNCHANGED <<table, asks>>
  PROVE  /\ ResolverInv' /\ Ids' = Ids
         /\ \A j \in Ids : j # i => controllers'[j] = controllers[j]
         /\ controllers'[i].at = "ended" /\ controllers'[i].connected = {}
         /\ controllers'[i].name = controllers[i].name /\ controllers'[i].game = controllers[i].game
<1>1. controllers[i] \in Controllers /\ asks' \in [Askers -> Asks]
  BY DEF ResolverInv, ResolverTypes, Ids
<1>2. PICK c : c = Ended(controllers[i])
  OBVIOUS
<1>3. /\ c \in Controllers /\ Remains(controllers[i], c) /\ c.at = "ended" /\ c.connected = {}
      /\ c.name = controllers[i].name /\ c.game = controllers[i].game
  BY <1>1, <1>2, EndedRemains
<1>4. controllers' = [controllers EXCEPT ![i] = c]
  BY <1>2
<1>5. ResolverInv'
  BY <1>1, <1>3, <1>4, ControllerRemains
<1>6. Ids' = Ids /\ \A j \in Ids : controllers'[j] = IF j = i THEN c ELSE controllers[j]
  BY <1>3, <1>4, OneChanges DEF ResolverInv
<1>7. QED
  BY <1>3, <1>5, <1>6

\* Connections of a controller that leave it, whoever's they are.
LEMMA LeavingStep ==
  ASSUME ResolverInv, NEW i \in Ids, NEW a,
         controllers' = [controllers EXCEPT ![i].connected = @ \ {a}],
         UNCHANGED <<table, asks>>
  PROVE  /\ ResolverInv' /\ Ids' = Ids
         /\ \A j \in Ids : j # i => controllers'[j] = controllers[j]
         /\ controllers'[i].connected \subseteq controllers[i].connected
         /\ controllers'[i].at = controllers[i].at
         /\ controllers'[i].name = controllers[i].name /\ controllers'[i].game = controllers[i].game
<1>1. controllers[i] \in Controllers /\ asks' \in [Askers -> Asks]
  BY DEF ResolverInv, ResolverTypes, Ids
<1>2. PICK left : left = controllers[i].connected \ {a}
  OBVIOUS
<1>3. PICK c : c = [controllers[i] EXCEPT !.connected = left]
  OBVIOUS
<1>4. /\ c \in Controllers /\ c.connected = left /\ left \subseteq controllers[i].connected
      /\ c.at = controllers[i].at /\ c.name = controllers[i].name
      /\ c.game = controllers[i].game /\ c.epoch = controllers[i].epoch
  BY <1>1, <1>2, <1>3 DEF Controllers
<1>5. controllers' = [controllers EXCEPT ![i] = c]
  BY <1>2, <1>3
<1>6. Remains(controllers[i], c)
  <2>1. /\ controllers[i].connected # {} => controllers[i].at = "live"
        /\ IsFiniteSet(controllers[i].connected) /\ Cardinality(controllers[i].connected) <= MaxAdmins
    BY DEF ResolverInv, ConnectionsFit, IsLive
  <2>2. /\ IsFiniteSet(left) /\ Cardinality(left) <= Cardinality(controllers[i].connected)
        /\ Cardinality(left) \in Nat /\ Cardinality(controllers[i].connected) \in Nat
    BY <1>4, <2>1, FS_Subset, FS_CardinalityType
  <2>3. IsFiniteSet(c.connected) /\ Cardinality(c.connected) <= MaxAdmins
    BY <1>4, <2>1, <2>2, ResolverAssumption
  <2>4. c.connected # {} => c.at = "live"
    BY <1>4, <2>1
  <2>5. QED
    BY <1>4, <2>3, <2>4 DEF Remains
<1>7. ResolverInv'
  BY <1>1, <1>4, <1>5, <1>6, ControllerRemains
<1>8. Ids' = Ids /\ \A j \in Ids : controllers'[j] = IF j = i THEN c ELSE controllers[j]
  BY <1>4, <1>5, OneChanges DEF ResolverInv
<1>9. QED
  BY <1>4, <1>7, <1>8

\* registerAdmin keeps no more admins than may be, and none on what ended.
LEMMA AttachStep ==
  ASSUME ResolverInv, NEW a \in Askers, Attach(a)
  PROVE  ResolverInv'
<1>1. PICK i : i = asks[a].controller
  OBVIOUS
<1>2. asks[a] \in Asks /\ asks[a].at = "attaching"
  BY DEF ResolverInv, ResolverTypes, Attach
<1>3. i \in Ids
  BY <1>1, <1>2 DEF Asks
<1>4. asks' \in [Askers -> Asks]
  <2>1. NotAsking \in Asks
    BY DEF NotAsking, Asks
  <2>2. QED
    BY <2>1 DEF ResolverInv, ResolverTypes, Attach
<1>5. table' = table
  BY DEF Attach
<1>6. PICK c : c = Registered(controllers[i], a)
  OBVIOUS
<1>7. CASE controllers' = controllers
  BY <1>4, <1>5, <1>7, ResolverKept
<1>8. CASE controllers' = [controllers EXCEPT ![i] = c]
  <2>1. controllers[i] \in Controllers
    BY <1>3 DEF ResolverInv, ResolverTypes, Ids
  <2>2. /\ controllers[i].connected # {} => controllers[i].at = "live"
        /\ IsFiniteSet(controllers[i].connected) /\ Cardinality(controllers[i].connected) <= MaxAdmins
    BY <1>3 DEF ResolverInv, ConnectionsFit, IsLive
  <2>3. CASE Cardinality(controllers[i].connected) >= MaxAdmins \/ controllers[i].at # "live"
    <3>1. c = controllers[i]
      BY <1>6, <2>3 DEF Registered
    <3>2. c \in Controllers /\ Remains(controllers[i], c)
      BY <2>1, <2>2, <3>1 DEF Remains
    <3>3. QED
      BY <1>3, <1>4, <1>5, <1>8, <3>2, ControllerRemains
  <2>4. CASE ~ (Cardinality(controllers[i].connected) >= MaxAdmins \/ controllers[i].at # "live")
    <3>1. PICK joined : joined = controllers[i].connected \cup {a}
      OBVIOUS
    <3>2. c = [controllers[i] EXCEPT !.connected = joined]
      BY <1>6, <2>4, <3>1 DEF Registered
    <3>3. /\ c \in Controllers /\ c.connected = joined /\ c.at = controllers[i].at
          /\ c.name = controllers[i].name /\ c.epoch = controllers[i].epoch
      BY <2>1, <3>1, <3>2 DEF Controllers
    <3>4. IsFiniteSet(joined) /\ Cardinality(joined) <= MaxAdmins
      <4>1. IsFiniteSet(joined) /\ Cardinality(controllers[i].connected) \in Nat
        BY <2>2, <3>1, FS_AddElement, FS_CardinalityType
      <4>2. CASE a \in controllers[i].connected
        <5>1. joined = controllers[i].connected
          BY <3>1, <4>2
        <5>2. QED
          BY <2>2, <4>1, <5>1
      <4>3. CASE a \notin controllers[i].connected
        <5>1. Cardinality(joined) = Cardinality(controllers[i].connected) + 1
          BY <2>2, <3>1, <4>3, FS_AddElement
        <5>2. QED
          BY <2>4, <4>1, <5>1, ResolverAssumption
      <4>4. QED
        BY <4>2, <4>3
    <3>5. Remains(controllers[i], c)
      <4>1. IsFiniteSet(c.connected) /\ Cardinality(c.connected) <= MaxAdmins
        BY <3>3, <3>4, Zenon
      <4>2. QED
        BY <2>4, <3>3, <4>1 DEF Remains
    <3>6. QED
      BY <1>3, <1>4, <1>5, <1>8, <3>3, <3>5, ControllerRemains
  <2>5. QED
    BY <2>3, <2>4
<1>9. QED
  BY <1>1, <1>6, <1>7, <1>8 DEF Attach

\* AttachAdmin's eligibility, then the controller it is given.
LEMMA AskSteps ==
  ASSUME ResolverInv, NEW a \in Askers,
         (\E n \in Names, epoch \in Epochs : AskEligibility(a, n, epoch)) \/ AskController(a)
  PROVE  ResolverInv'
<1>1. ASSUME NEW n \in Names, NEW epoch \in Epochs, AskEligibility(a, n, epoch)
      PROVE  ResolverInv'
  <2>1. PICK known \in BOOLEAN : known = ~ HasController(n)
    BY DEF HasController
  <2>2. PICK ask : ask = [at |-> "admitted", name |-> n, epoch |-> epoch, known |-> known]
    OBVIOUS
  <2>3. ask \in Asks
    BY <2>2 DEF Asks
  <2>4. asks' = [asks EXCEPT ![a] = ask] \/ asks' = asks
    BY <1>1, <2>1, <2>2 DEF AskEligibility
  <2>5. asks' \in [Askers -> Asks] /\ UNCHANGED <<controllers, table>>
    BY <1>1, <2>3, <2>4 DEF ResolverInv, ResolverTypes, AskEligibility
  <2>6. QED
    BY <2>5, ResolverKept
<1>2. ASSUME AskController(a)
      PROVE  ResolverInv'
  <2>1. PICK ask \in Asks : ask = asks[a] /\ ask.at = "admitted"
    BY <1>2 DEF ResolverInv, ResolverTypes, AskController
  <2>2. ask.name \in Names /\ ask.epoch \in Int /\ ask.known \in BOOLEAN
    BY <2>1, ResolverAssumption DEF Asks
  <2>3. PICK given : given = Answered(ask.name, ask.epoch)
    OBVIOUS
  <2>4. PICK next : next = IF given = 0 THEN NotAsking
                           ELSE [at |-> "attaching", controller |-> given, known |-> ask.known]
    OBVIOUS
  <2>5. ControllerFor(ask.name, ask.epoch) /\ asks' = [asks EXCEPT ![a] = next]
    BY <1>2, <2>1, <2>3, <2>4 DEF AskController
  <2>6. /\ controllers' \in Seq(Controllers) /\ table' \in [Names -> Nat] /\ Ids \subseteq Ids'
        /\ TableHolds' /\ ConnectionsFit' /\ Cardinality(Entries') <= MaxLive
        /\ given # 0 => given \in Ids'
    BY <2>2, <2>3, <2>5, ControllerForStep
  <2>7. Asks \subseteq Asks' /\ next \in Asks'
    BY <2>2, <2>4, <2>6 DEF Asks, NotAsking
  <2>8. asks' \in [Askers -> Asks']
    BY <2>5, <2>7 DEF ResolverInv, ResolverTypes
  <2>9. QED
    BY <2>6, <2>8 DEF ResolverInv, ResolverTypes
<1>3. QED
  BY <1>1, <1>2

\* Every step of the resolver keeps the invariant.
LEMMA ResolverStep ==
  ASSUME ResolverInv, [ResolverNext]_resolverVars
  PROVE  ResolverInv'
<1>1. asks \in [Askers -> Asks]
  BY DEF ResolverInv, ResolverTypes
<1>2. CASE UNCHANGED resolverVars \/ CloseResolver
  BY <1>1, <1>2, ResolverKept DEF resolverVars, CloseResolver
<1>3. ASSUME NEW i \in Ids, EndController(i) \/ Forget(i) \/ \E a \in Askers : DisconnectAdmin(a, i)
      PROVE  ResolverInv'
  BY <1>3, EndingStep, ForgetStep, LeavingStep DEF EndController, DisconnectAdmin
<1>4. QED
  BY <1>2, <1>3, AskSteps, AttachStep DEF ResolverNext

-----------------------------------------------------------------------------
(* Previews. *)

Reasons == StartFailures \cup EndsOfItsOwn \cup {"replaced"}

PreviewRows == [at : {"none", "running"}] \cup [at : {"ended"}, reason : Reasons]

Starts ==
  [at : {"idle"}]
    \cup [at : {"opened"}, preview : Names, replaced : Names \cup {NoPreview}]
    \cup [at : {"ready"}, preview : Names]
    \cup [at : {"starting"}, preview : Names, controller : Ids]
    \cup [at : {"failed"}, preview : Names, reason : Reasons]

Attaches == [at : {"idle"}] \cup [at : {"finding"}, preview : Names]

PreviewTypes ==
  /\ rows \in [Names -> PreviewRows]
  /\ starts \in [Starters -> Starts]
  /\ attaches \in [Attachers -> Attaches]
  /\ announced \subseteq Names /\ unrecorded \subseteq Names
  /\ resolverClosed = FALSE

\* A controller that runs the preview's game.
IsPlayed(p) ==
  \E i \in Ids : controllers[i].name = p /\ IsLive(i) /\ controllers[i].game = "running"

OneIsOpen == \A p, q \in Unended : p = q

\* Only recorded previews have controllers, and only a game its owner was
\* told of is played, and connected to.
ControllersPlay ==
  \A i \in Ids :
    /\ rows[controllers[i].name].at # "none"
    /\ controllers[i].game = "running" => controllers[i].name \in announced
    /\ controllers[i].connected # {} => controllers[i].game = "running"

\* A start's preview is its own, was not announced, has no controller before
\* the start has it, and one that runs from then, unless it was ended.
StartsHold ==
  \A c \in Starters : starts[c].at # "idle" =>
    /\ rows[starts[c].preview].at # "none" /\ starts[c].preview \notin announced
    /\ \A d \in Starters :
         starts[d].at # "idle" /\ starts[d].preview = starts[c].preview => d = c
    /\ starts[c].at \in {"opened", "ready"} =>
         \A i \in Ids : controllers[i].name # starts[c].preview
    /\ starts[c].at = "starting" =>
         /\ controllers[starts[c].controller].name = starts[c].preview
         /\ IsLive(starts[c].controller) \/ rows[starts[c].preview].at = "ended"

AnnouncedHold ==
  \A p \in announced :
    rows[p].at # "none" /\ (rows[p].at = "running" => IsPlayed(p) \/ p \in unrecorded)

FindingHold ==
  \A a \in Attachers : attaches[a].at = "finding" =>
    attaches[a].preview \in announced /\ ~ IsPlayed(attaches[a].preview)

PreviewsHeld ==
  PreviewTypes /\ OneIsOpen /\ ControllersPlay /\ StartsHold /\ AnnouncedHold /\ FindingHold

\* Inductive: the resolver's part runs with no preview at all.
PreviewsInv ==
  /\ part = "previews" => PreviewsHeld
  /\ part # "previews" => PreviewsInit

\* The controller a preview has, when one runs.
LEMMA LiveControllers ==
  ASSUME ResolverInv, NEW p \in Names
  PROVE  /\ LiveController(p) # 0 =>
              /\ LiveController(p) \in Ids /\ IsLive(LiveController(p))
              /\ controllers[LiveController(p)].name = p
         /\ \A i \in Ids : IsLive(i) /\ controllers[i].name = p => LiveController(p) = i /\ i # 0
         /\ RunsHere(p) <=> IsPlayed(p)
<1>1. /\ table[p] # 0 => table[p] \in Ids /\ controllers[table[p]].name = p
      /\ \A i \in Ids : IsLive(i) => table[controllers[i].name] = i
      /\ \A i \in Ids : i # 0
  BY DEF ResolverInv, TableHolds, Ids
<1>2. LiveController(p) # 0 =>
        /\ LiveController(p) \in Ids /\ IsLive(LiveController(p))
        /\ controllers[LiveController(p)].name = p
  BY <1>1 DEF LiveController, HasController
<1>3. \A i \in Ids : IsLive(i) /\ controllers[i].name = p => LiveController(p) = i /\ i # 0
  BY <1>1 DEF LiveController, HasController
<1>4. RunsHere(p) <=> IsPlayed(p)
  BY <1>2, <1>3 DEF RunsHere, IsPlayed
<1>5. QED
  BY <1>2, <1>3, <1>4

\* EndPreview ends a preview recorded as running, and changes nothing else.
LEMMA EndPreviewEnds ==
  ASSUME PreviewTypes, NEW p \in Names, NEW reason \in Reasons, rows' = EndPreview(rows, p, reason)
  PROVE  /\ rows' \in [Names -> PreviewRows]
         /\ \A q \in Names : q # p => rows'[q] = rows[q]
         /\ rows[p].at = "running" => rows'[p].at = "ended"
         /\ rows[p].at # "running" => rows'[p] = rows[p]
         /\ \A q \in Names : rows[q].at = "ended" => rows'[q] = rows[q]
<1>1. PICK row : row = EndedRow(reason)
  OBVIOUS
<1>2. row \in PreviewRows /\ row.at = "ended"
  BY <1>1 DEF EndedRow, PreviewRows
<1>3. rows \in [Names -> PreviewRows]
  BY DEF PreviewTypes
<1>4. CASE rows[p].at = "running"
  <2>1. rows' = [rows EXCEPT ![p] = row]
    BY <1>1, <1>4 DEF EndPreview
  <2>2. QED
    BY <1>2, <1>3, <1>4, <2>1
<1>5. CASE rows[p].at # "running"
  BY <1>3, <1>5 DEF EndPreview
<1>6. QED
  BY <1>4, <1>5

\* Controllers end or lose connections, none begins and no game starts.
ControllersOnlyEnd ==
  /\ Ids' = Ids
  /\ \A i \in Ids :
       /\ controllers'[i].name = controllers[i].name
       /\ controllers'[i].game = controllers[i].game
       /\ controllers'[i].at = "live" => controllers[i].at = "live"
       /\ controllers'[i].connected # {} => controllers[i].game = "running"

\* Previews end, none is opened.
RowsOnlyEnd ==
  /\ rows' \in [Names -> PreviewRows]
  /\ \A p \in Names :
       rows'[p].at = rows[p].at \/ (rows[p].at = "running" /\ rows'[p].at = "ended")

\* A start goes on without having its controller yet, or is over.
GoesOn(s, t) ==
  \/ t = s \/ t.at = "idle"
  \/ /\ s.at # "idle" /\ t.at \in {"ready", "failed"} /\ t.preview = s.preview
     /\ t.at = "ready" => s.at = "opened"

StartsGoOn ==
  /\ starts' \in [Starters -> Starts']
  /\ \A c \in Starters : GoesOn(starts[c], starts'[c])

\* A controller stops running with its preview's end; or with an end that
\* could not be recorded, or before its owner was told of the game, and then
\* no start waits for it any more.
LossesAreRecorded ==
  \A i \in Ids : controllers[i].at = "live" /\ controllers'[i].at # "live" =>
    \/ rows'[controllers[i].name].at = "ended"
    \/ /\ controllers[i].name \in unrecorded' \/ controllers[i].name \notin announced
       /\ \A c \in Starters :
            starts'[c].at = "starting" => starts'[c].preview # controllers[i].name

\* An owner looks up only what was announced and does not run any more.
LookupsAreEnded ==
  /\ attaches' \in [Attachers -> Attaches]
  /\ \A a \in Attachers :
       attaches'[a].at = "finding" =>
         attaches'[a].preview \in announced /\ ~ IsPlayed(attaches'[a].preview)

NothingBegins ==
  /\ ControllersOnlyEnd /\ RowsOnlyEnd /\ StartsGoOn /\ LossesAreRecorded /\ LookupsAreEnded
  /\ announced' = announced /\ unrecorded \subseteq unrecorded' /\ unrecorded' \subseteq Names
  /\ resolverClosed' = resolverClosed

\* The controllers' names are those of previews.
LEMMA ControllersAreNamed ==
  ASSUME ResolverInv
  PROVE  \A i \in Ids : controllers[i] \in Controllers /\ controllers[i].name \in Names
<1>1. \A i \in Ids : controllers[i] \in Controllers
  BY DEF ResolverInv, ResolverTypes, Ids
<1>2. QED
  BY <1>1 DEF Controllers

\* A start that is under way has its preview.
LEMMA StartsAreTyped ==
  ASSUME PreviewTypes, NEW c \in Starters, starts[c].at # "idle"
  PROVE  /\ starts[c].preview \in Names
         /\ starts[c].at = "starting" => starts[c].controller \in Ids
         /\ starts[c].at = "opened" => starts[c].replaced \in Names \cup {NoPreview}
         /\ starts[c].at = "failed" => starts[c].reason \in Reasons
<1>1. starts[c] \in Starts
  BY DEF PreviewTypes
<1>2. QED
  BY <1>1 DEF Starts

\* Where nothing begins, what is open, played, announced and looked up only
\* ends, and ends on the record.
LEMMA QuietStep ==
  ASSUME ResolverInv, PreviewsHeld, NothingBegins
  PROVE  PreviewsHeld'
<1>1. /\ PreviewTypes /\ OneIsOpen /\ ControllersPlay /\ StartsHold /\ AnnouncedHold /\ FindingHold
      /\ Ids' = Ids /\ rows' \in [Names -> PreviewRows] /\ announced' = announced
      /\ \A i \in Ids : controllers[i].name \in Names
      /\ announced \subseteq Names
  BY ControllersAreNamed DEF PreviewsHeld, NothingBegins, ControllersOnlyEnd, RowsOnlyEnd, PreviewTypes
<1>2. PreviewTypes'
  BY <1>1 DEF PreviewTypes, NothingBegins, StartsGoOn, LookupsAreEnded
<1>3. OneIsOpen'
  <2>1. Unended' \subseteq Unended
    BY DEF NothingBegins, RowsOnlyEnd, Unended
  <2>2. QED
    BY <1>1, <2>1 DEF OneIsOpen
<1>4. ControllersPlay'
  BY <1>1 DEF ControllersPlay, NothingBegins, ControllersOnlyEnd, RowsOnlyEnd
<1>5. StartsHold'
  <2>1. SUFFICES ASSUME NEW c \in Starters, starts'[c].at # "idle"
                 PROVE  /\ rows'[starts'[c].preview].at # "none" /\ starts'[c].preview \notin announced
                        /\ \A d \in Starters :
                             starts'[d].at # "idle" /\ starts'[d].preview = starts'[c].preview => d = c
                        /\ starts'[c].at \in {"opened", "ready"} =>
                             \A i \in Ids : controllers'[i].name # starts'[c].preview
                        /\ starts'[c].at = "starting" =>
                             /\ controllers'[starts'[c].controller].name = starts'[c].preview
                             /\ \/ controllers'[starts'[c].controller].at = "live"
                                \/ rows'[starts'[c].preview].at = "ended"
    BY <1>1 DEF StartsHold, IsLive
  <2>2. \A d \in Starters : starts'[d].at # "idle" =>
          /\ starts[d].at # "idle" /\ starts'[d].preview = starts[d].preview
          /\ starts'[d].at \in {"opened", "ready"} => starts[d].at \in {"opened", "ready"}
          /\ starts'[d].at = "starting" => starts'[d] = starts[d]
    BY DEF NothingBegins, StartsGoOn, GoesOn
  <2>3. starts[c].at # "idle" /\ starts'[c].preview = starts[c].preview /\ starts[c].preview \in Names
    BY <1>1, <2>1, <2>2, StartsAreTyped
  <2>4. rows'[starts'[c].preview].at # "none" /\ starts'[c].preview \notin announced
    BY <1>1, <2>3 DEF StartsHold, NothingBegins, RowsOnlyEnd
  <2>5. \A d \in Starters :
          starts'[d].at # "idle" /\ starts'[d].preview = starts'[c].preview => d = c
    BY <1>1, <2>1, <2>2 DEF StartsHold
  <2>6. starts'[c].at \in {"opened", "ready"} =>
          \A i \in Ids : controllers'[i].name # starts'[c].preview
    BY <1>1, <2>1, <2>2 DEF StartsHold, NothingBegins, ControllersOnlyEnd
  <2>7. ASSUME starts'[c].at = "starting"
        PROVE  /\ controllers'[starts'[c].controller].name = starts'[c].preview
               /\ \/ controllers'[starts'[c].controller].at = "live"
                  \/ rows'[starts'[c].preview].at = "ended"
    <3>1. starts'[c] = starts[c] /\ starts[c].at = "starting"
      BY <2>1, <2>2, <2>7
    <3>2. PICK i \in Ids : i = starts[c].controller
      BY <1>1, <3>1, StartsAreTyped
    <3>3. PICK p \in Names : p = starts[c].preview
      BY <2>3
    <3>4. /\ controllers[i].name = p /\ p \notin announced
          /\ controllers[i].at = "live" \/ rows[p].at = "ended"
      BY <1>1, <3>1, <3>2, <3>3 DEF StartsHold, IsLive
    <3>5. controllers'[i].name = p
      BY <3>2, <3>4 DEF NothingBegins, ControllersOnlyEnd
    <3>6. rows[p].at = "ended" => rows'[p].at = "ended"
      BY DEF NothingBegins, RowsOnlyEnd
    <3>7. controllers[i].at = "live" /\ controllers'[i].at # "live" => rows'[p].at = "ended"
      BY <2>3, <2>7, <3>2, <3>3, <3>4 DEF NothingBegins, LossesAreRecorded
    <3>8. QED
      BY <3>1, <3>2, <3>3, <3>4, <3>5, <3>6, <3>7
  <2>8. QED
    BY <2>4, <2>5, <2>6, <2>7
<1>6. AnnouncedHold'
  <2>1. SUFFICES ASSUME NEW p \in announced
                 PROVE  /\ rows'[p].at # "none"
                        /\ rows'[p].at = "running" => IsPlayed(p)' \/ p \in unrecorded'
    BY <1>1 DEF AnnouncedHold
  <2>2. p \in Names /\ rows[p].at # "none"
    BY <1>1 DEF AnnouncedHold
  <2>3. rows'[p].at # "none" /\ (rows'[p].at = "running" => rows[p].at = "running")
    BY <2>2 DEF NothingBegins, RowsOnlyEnd
  <2>4. ASSUME rows'[p].at = "running", p \notin unrecorded'
        PROVE  IsPlayed(p)'
    <3>1. p \notin unrecorded
      BY <2>4 DEF NothingBegins
    <3>2. PICK i \in Ids : controllers[i].name = p /\ controllers[i].at = "live" /\ controllers[i].game = "running"
      BY <1>1, <2>3, <2>4, <3>1 DEF AnnouncedHold, IsPlayed, IsLive
    <3>3. controllers'[i].at = "live"
      BY <2>4, <3>2 DEF NothingBegins, LossesAreRecorded
    <3>4. controllers'[i].name = p /\ controllers'[i].game = "running" /\ i \in Ids'
      BY <1>1, <3>2 DEF NothingBegins, ControllersOnlyEnd
    <3>5. QED
      BY <3>3, <3>4 DEF IsPlayed, IsLive
  <2>5. QED
    BY <2>3, <2>4
<1>7. FindingHold'
  <2>1. \A p : IsPlayed(p)' => IsPlayed(p)
    BY DEF IsPlayed, IsLive, NothingBegins, ControllersOnlyEnd
  <2>2. QED
    BY <1>1, <2>1 DEF FindingHold, NothingBegins, LookupsAreEnded
<1>8. QED
  BY <1>2, <1>3, <1>4, <1>5, <1>6, <1>7 DEF PreviewsHeld

\* What a step leaves alone begins nothing.
LEMMA KeptIsQuiet ==
  ASSUME PreviewsHeld
  PROVE  /\ rows' = rows => RowsOnlyEnd
         /\ starts' = starts /\ Ids' = Ids => StartsGoOn
         /\ attaches' = attaches => LookupsAreEnded
         /\ controllers' = controllers => Ids' = Ids /\ ControllersOnlyEnd /\ LossesAreRecorded
<1>1. rows' = rows => RowsOnlyEnd
  BY DEF PreviewsHeld, PreviewTypes, RowsOnlyEnd
<1>2. starts' = starts /\ Ids' = Ids => StartsGoOn
  <2>1. Ids' = Ids => Starts' = Starts
    BY DEF Starts
  <2>2. QED
    BY <2>1 DEF PreviewsHeld, PreviewTypes, StartsGoOn, GoesOn
<1>3. attaches' = attaches => LookupsAreEnded
  BY DEF PreviewsHeld, PreviewTypes, FindingHold, LookupsAreEnded
<1>4. controllers' = controllers => Ids' = Ids /\ ControllersOnlyEnd /\ LossesAreRecorded
  BY DEF PreviewsHeld, ControllersPlay, Ids, ControllersOnlyEnd, LossesAreRecorded
<1>5. QED
  BY <1>1, <1>2, <1>3, <1>4

\* One start goes on.
LEMMA OneGoesOn ==
  ASSUME PreviewTypes, NEW c \in Starters, NEW t \in Starts, Ids' = Ids,
         starts' = [starts EXCEPT ![c] = t], GoesOn(starts[c], t)
  PROVE  StartsGoOn /\ starts'[c] = t
<1>1. Starts' = Starts
  BY DEF Starts
<1>2. QED
  BY <1>1 DEF PreviewTypes, StartsGoOn, GoesOn

\* One preview's end is recorded.
LEMMA OneEndIsQuiet ==
  ASSUME PreviewTypes, NEW p \in Names, NEW reason \in Reasons, rows' = EndPreview(rows, p, reason)
  PROVE  RowsOnlyEnd /\ (rows[p].at # "none" => rows'[p].at = "ended")
<1>1. rows[p] \in PreviewRows
  BY DEF PreviewTypes
<1>2. rows[p].at \in {"none", "running", "ended"}
  BY <1>1 DEF PreviewRows
<1>3. QED
  BY <1>2, EndPreviewEnds DEF RowsOnlyEnd

\* A start that is given up, or whose failure is recorded.
LEMMA StartsEnd ==
  ASSUME ResolverInv, PreviewsHeld, NEW c \in Starters, StartAbandoned(c) \/ FailedStart(c)
  PROVE  ResolverInv' /\ PreviewsHeld'
<1>1. UNCHANGED resolverVars /\ starts' = [starts EXCEPT ![c] = Idle]
  BY DEF StartAbandoned, FailedStart
<1>2. ResolverInv' /\ Ids' = Ids
  BY <1>1, ResolverKept DEF resolverVars, Ids, ResolverInv, ResolverTypes
<1>3. Idle \in Starts /\ GoesOn(starts[c], Idle) /\ PreviewTypes
  BY DEF Idle, Starts, GoesOn, PreviewsHeld
<1>4. StartsGoOn
  BY <1>1, <1>2, <1>3, OneGoesOn
<1>5. RowsOnlyEnd
  <2>1. CASE FailedStart(c)
    <3>1. starts[c].at = "failed" /\ rows' = EndPreview(rows, starts[c].preview, starts[c].reason)
      BY <2>1 DEF FailedStart
    <3>2. starts[c].preview \in Names /\ starts[c].reason \in Reasons
      BY <1>3, <3>1, StartsAreTyped
    <3>3. QED
      BY <1>3, <3>1, <3>2, OneEndIsQuiet
  <2>2. CASE StartAbandoned(c)
    BY <2>2, KeptIsQuiet DEF StartAbandoned
  <2>3. QED
    BY <2>1, <2>2
<1>6. NothingBegins
  BY <1>1, <1>4, <1>5, KeptIsQuiet
    DEF NothingBegins, StartAbandoned, FailedStart, resolverVars, PreviewsHeld, PreviewTypes
<1>7. QED
  BY <1>2, <1>6, QuietStep

\* The controller of a preview ends, with what the step records of it.
LEMMA OneControllerEnds ==
  ASSUME ResolverInv, PreviewsHeld, NEW i \in Ids, controllers' = [controllers EXCEPT ![i] = Ended(@)],
         UNCHANGED <<table, asks>>
  PROVE  /\ ResolverInv' /\ Ids' = Ids /\ ControllersOnlyEnd
         /\ \A j \in Ids : controllers[j].at = "live" /\ controllers'[j].at # "live" => j = i
<1>1. /\ ResolverInv' /\ Ids' = Ids
      /\ \A j \in Ids : j # i => controllers'[j] = controllers[j]
      /\ controllers'[i].at = "ended" /\ controllers'[i].connected = {}
      /\ controllers'[i].name = controllers[i].name /\ controllers'[i].game = controllers[i].game
  BY EndingStep
<1>2. \A j \in Ids : controllers[j].connected # {} => controllers[j].game = "running"
  BY DEF PreviewsHeld, ControllersPlay
<1>3. QED
  BY <1>1, <1>2 DEF ControllersOnlyEnd

\* endHere: the controller that ends is that of the preview replaced, which
\* the record says ended.
LEMMA EndReplacedStep ==
  ASSUME ResolverInv, PreviewsHeld, NEW c \in Starters, EndReplaced(c)
  PROVE  ResolverInv' /\ PreviewsHeld'
<1>1. PICK replaced : replaced = starts[c].replaced
  OBVIOUS
<1>2. PICK i : i = IF replaced = NoPreview THEN 0 ELSE LiveController(replaced)
  OBVIOUS
<1>3. PICK t : t = [at |-> "ready", preview |-> starts[c].preview]
  OBVIOUS
<1>4. /\ starts[c].at = "opened" /\ starts' = [starts EXCEPT ![c] = t]
      /\ UNCHANGED <<attaches, announced, unrecorded, table, asks, resolverClosed>>
      /\ i = 0 => UNCHANGED <<rows, controllers>>
      /\ i # 0 => /\ rows' = EndPreview(rows, replaced, "replaced")
                  /\ controllers' = [controllers EXCEPT ![i] = Ended(@)]
  BY <1>1, <1>2, <1>3 DEF EndReplaced
<1>5. PreviewTypes
  BY DEF PreviewsHeld
<1>6. starts[c].preview \in Names /\ replaced \in Names \cup {NoPreview}
  BY <1>1, <1>4, <1>5, StartsAreTyped
<1>7. t \in Starts /\ GoesOn(starts[c], t)
  BY <1>3, <1>4, <1>6 DEF Starts, GoesOn
<1>8. /\ ResolverInv' /\ Ids' = Ids /\ ControllersOnlyEnd /\ RowsOnlyEnd /\ LossesAreRecorded
  <2>1. CASE i = 0
    <3>1. ResolverInv'
      BY <1>4, <2>1, ResolverKept DEF ResolverInv, ResolverTypes
    <3>2. QED
      BY <1>4, <2>1, <3>1, KeptIsQuiet
  <2>2. CASE i # 0
    <3>1. replaced \in Names /\ i = LiveController(replaced)
      BY <1>2, <1>6, <2>2
    <3>2. i \in Ids /\ controllers[i].name = replaced
      BY <2>2, <3>1, LiveControllers
    <3>3. /\ ResolverInv' /\ Ids' = Ids /\ ControllersOnlyEnd
          /\ \A j \in Ids : controllers[j].at = "live" /\ controllers'[j].at # "live" => j = i
      BY <1>4, <2>2, <3>2, OneControllerEnds
    <3>4. "replaced" \in Reasons /\ rows[replaced].at # "none"
      BY <3>2 DEF Reasons, PreviewsHeld, ControllersPlay
    <3>5. RowsOnlyEnd /\ rows'[replaced].at = "ended"
      BY <1>4, <1>5, <2>2, <3>1, <3>4, OneEndIsQuiet
    <3>6. LossesAreRecorded
      BY <3>2, <3>3, <3>5 DEF LossesAreRecorded
    <3>7. QED
      BY <3>3, <3>5, <3>6
  <2>3. QED
    BY <2>1, <2>2
<1>9. NothingBegins
  BY <1>4, <1>5, <1>7, <1>8, OneGoesOn, KeptIsQuiet DEF NothingBegins, PreviewTypes
<1>10. QED
  BY <1>8, <1>9, QuietStep

\* endPreviewStart ends a controller nobody was told of.
LEMMA StartFailsStep ==
  ASSUME ResolverInv, PreviewsHeld, NEW c \in Starters, NEW reason \in StartFailures,
         StartFails(c, reason)
  PROVE  ResolverInv' /\ PreviewsHeld'
<1>1. PICK t : t = [at |-> "failed", preview |-> starts[c].preview, reason |-> reason]
  OBVIOUS
<1>2. PICK i : i = starts[c].controller
  OBVIOUS
<1>3. /\ starts[c].at = "starting" /\ starts' = [starts EXCEPT ![c] = t]
      /\ UNCHANGED <<rows, attaches, announced, unrecorded, table, asks, resolverClosed>>
      /\ controllers' = [controllers EXCEPT ![i] = IF @.at = "live" THEN Ended(@) ELSE @]
  BY <1>1, <1>2 DEF StartFails
<1>4. PreviewTypes
  BY DEF PreviewsHeld
<1>5. starts[c].preview \in Names /\ i \in Ids
  BY <1>2, <1>3, <1>4, StartsAreTyped
<1>6. t \in Starts /\ GoesOn(starts[c], t) /\ t.at = "failed"
  BY <1>1, <1>3, <1>5 DEF Starts, GoesOn, Reasons
<1>7. /\ controllers[i].name = starts[c].preview /\ starts[c].preview \notin announced
      /\ \A d \in Starters : starts[d].at # "idle" /\ starts[d].preview = starts[c].preview => d = c
  BY <1>2, <1>3 DEF PreviewsHeld, StartsHold
<1>8. /\ ResolverInv' /\ Ids' = Ids /\ ControllersOnlyEnd
      /\ \A j \in Ids : controllers[j].at = "live" /\ controllers'[j].at # "live" => j = i
  <2>1. CASE controllers[i].at = "live"
    <3>1. controllers' = [controllers EXCEPT ![i] = Ended(@)]
      BY <1>3, <2>1
    <3>2. QED
      BY <1>3, <1>5, <3>1, OneControllerEnds
  <2>2. CASE controllers[i].at # "live"
    <3>1. controllers \in Seq(Controllers) /\ asks \in [Askers -> Asks]
      BY DEF ResolverInv, ResolverTypes
    <3>2. controllers' = controllers
      BY <1>3, <2>2, <3>1
    <3>3. QED
      BY <1>3, <3>1, <3>2, ResolverKept, KeptIsQuiet
  <2>3. QED
    BY <2>1, <2>2
<1>9. StartsGoOn /\ starts'[c] = t
  BY <1>3, <1>4, <1>6, <1>8, OneGoesOn
<1>10. \A d \in Starters : starts'[d].at = "starting" => starts'[d].preview # starts[c].preview
  <2>1. \A d \in Starters : d # c => starts'[d] = starts[d]
    BY <1>3, <1>4 DEF PreviewTypes
  <2>2. QED
    BY <1>6, <1>7, <1>9, <2>1
<1>11. LossesAreRecorded
  BY <1>7, <1>8, <1>10 DEF LossesAreRecorded
<1>12. NothingBegins
  BY <1>3, <1>4, <1>8, <1>9, <1>11, KeptIsQuiet DEF NothingBegins, PreviewTypes
<1>13. QED
  BY <1>8, <1>12, QuietStep

\* endSession and abort: a game that is played was announced, so its end is
\* recorded, or known not to be.
LEMMA PreviewEndsStep ==
  ASSUME ResolverInv, PreviewsHeld, NEW p \in Names,
         (\E reason \in EndsOfItsOwn : PreviewEnds(p, reason)) \/ AbortUnrecorded(p)
  PROVE  ResolverInv' /\ PreviewsHeld'
<1>1. PICK i : i = LiveController(p)
  OBVIOUS
<1>2. /\ RunsHere(p) /\ UNCHANGED <<starts, attaches, announced, table, asks, resolverClosed>>
      /\ controllers' = [controllers EXCEPT ![i] = Ended(@)]
  BY <1>1 DEF PreviewEnds, AbortUnrecorded
<1>3. i \in Ids /\ controllers[i].name = p /\ controllers[i].game = "running"
  BY <1>1, <1>2, LiveControllers DEF RunsHere
<1>4. p \in announced /\ rows[p].at # "none" /\ PreviewTypes
  BY <1>3 DEF PreviewsHeld, ControllersPlay
<1>5. /\ ResolverInv' /\ Ids' = Ids /\ ControllersOnlyEnd
      /\ \A j \in Ids : controllers[j].at = "live" /\ controllers'[j].at # "live" => j = i
  BY <1>2, <1>3, OneControllerEnds
<1>6. RowsOnlyEnd /\ LossesAreRecorded /\ unrecorded \subseteq unrecorded' /\ unrecorded' \subseteq Names
  <2>1. ASSUME NEW reason \in EndsOfItsOwn, PreviewEnds(p, reason)
        PROVE  RowsOnlyEnd /\ LossesAreRecorded /\ unrecorded' = unrecorded
    <3>1. rows' = EndPreview(rows, p, reason) /\ reason \in Reasons /\ unrecorded' = unrecorded
      BY <2>1 DEF PreviewEnds, Reasons
    <3>2. RowsOnlyEnd /\ rows'[p].at = "ended"
      BY <1>4, <3>1, OneEndIsQuiet
    <3>3. QED
      BY <1>3, <1>5, <3>1, <3>2 DEF LossesAreRecorded
  <2>2. ASSUME AbortUnrecorded(p)
        PROVE  RowsOnlyEnd /\ LossesAreRecorded /\ unrecorded' = unrecorded \cup {p}
    <3>1. rows' = rows /\ unrecorded' = unrecorded \cup {p}
      BY <2>2 DEF AbortUnrecorded
    <3>2. \A c \in Starters : starts'[c].at = "starting" => starts'[c].preview # p
      BY <1>2, <1>4 DEF PreviewsHeld, StartsHold
    <3>3. QED
      BY <1>3, <1>5, <3>1, <3>2, KeptIsQuiet DEF LossesAreRecorded
  <2>3. unrecorded \subseteq Names
    BY <1>4 DEF PreviewTypes
  <2>4. QED
    BY <2>1, <2>2, <2>3
<1>7. NothingBegins
  BY <1>2, <1>4, <1>5, <1>6, KeptIsQuiet DEF NothingBegins
<1>8. QED
  BY <1>5, <1>7, QuietStep

\* forget, of a controller that ended: the previews' resolver never closes.
LEMMA ForgetPreviewStep ==
  ASSUME ResolverInv, PreviewsHeld, NEW i \in Ids, ForgetPreview(i)
  PROVE  ResolverInv' /\ PreviewsHeld'
<1>1. Forget(i) /\ UNCHANGED previewVars /\ PreviewTypes
  BY DEF ForgetPreview, PreviewsHeld
<1>2. controllers[i].at = "ended" /\ resolverClosed' = resolverClosed
  BY <1>1 DEF PreviewTypes, Forget
<1>3. /\ ResolverInv' /\ Ids' = Ids
      /\ \A j \in Ids : j # i => controllers'[j] = controllers[j]
      /\ controllers'[i].at = "gone" /\ controllers'[i].connected = {}
      /\ controllers'[i].name = controllers[i].name /\ controllers'[i].game = controllers[i].game
  BY <1>1, ForgetStep
<1>4. ControllersOnlyEnd
  BY <1>3 DEF ControllersOnlyEnd, PreviewsHeld, ControllersPlay
<1>5. LossesAreRecorded
  BY <1>2, <1>3 DEF LossesAreRecorded
<1>6. NothingBegins
  BY <1>1, <1>2, <1>3, <1>4, <1>5, KeptIsQuiet DEF NothingBegins, previewVars, PreviewTypes
<1>7. QED
  BY <1>3, <1>6, QuietStep

\* A restart: what was recorded as running is known to run no more.
LEMMA RestartStep ==
  ASSUME ResolverInv, PreviewsHeld, Restart
  PROVE  ResolverInv' /\ PreviewsHeld'
<1>1. \A i \in Ids : controllers[i] \in Controllers
  BY ControllersAreNamed
<1>2. PICK n \in Nat : n = Len(controllers) /\ Ids = 1..n
  BY DEF ResolverInv, ResolverTypes, Ids
<1>3. ASSUME NEW i \in Ids
      PROVE  LET c == [Ended(controllers[i]) EXCEPT !.at = "gone"]
             IN /\ c \in Controllers /\ c.at = "gone" /\ c.connected = {}
                /\ c.name = controllers[i].name /\ c.game = controllers[i].game
  <2>1. PICK d : d = Ended(controllers[i])
    OBVIOUS
  <2>2. d \in Controllers /\ d.connected = {} /\ d.name = controllers[i].name /\ d.game = controllers[i].game
    BY <1>1, <2>1, EndedRemains
  <2>3. QED
    BY <2>1, <2>2 DEF Controllers
<1>4. /\ controllers' \in Seq(Controllers) /\ Ids' = Ids
      /\ \A i \in Ids : /\ controllers'[i].at = "gone" /\ controllers'[i].connected = {}
                        /\ controllers'[i].name = controllers[i].name
                        /\ controllers'[i].game = controllers[i].game
  <2>1. controllers' = [i \in 1..n |-> [Ended(controllers[i]) EXCEPT !.at = "gone"]]
    BY <1>2 DEF Restart
  <2>2. controllers' \in [1..n -> Controllers]
    BY <1>2, <1>3, <2>1
  <2>3. controllers' \in Seq(Controllers) /\ Len(controllers') = n
    BY <2>2
  <2>4. QED
    BY <1>2, <1>3, <2>1, <2>3 DEF Ids
<1>5. /\ rows' = rows /\ announced' = announced /\ unrecorded' = unrecorded \cup Unended
      /\ asks' = asks /\ resolverClosed' = resolverClosed /\ table' = [p \in Names |-> 0]
      /\ starts' = [c \in Starters |-> Idle] /\ attaches' = [a \in Attachers |-> Idle]
  BY DEF Restart
<1>6. ResolverInv'
  <2>1. Asks' = Asks
    BY <1>4 DEF Asks
  <2>2. ResolverTypes'
    BY <1>4, <1>5, <2>1 DEF ResolverInv, ResolverTypes
  <2>3. TableHolds'
    BY <1>4, <1>5 DEF TableHolds, IsLive
  <2>4. ConnectionsFit'
    <3>1. IsFiniteSet({}) /\ Cardinality({}) = 0 /\ MaxAdmins \in Nat
      BY FS_EmptySet, ResolverAssumption
    <3>2. \A i \in Ids : /\ IsFiniteSet(controllers'[i].connected)
                         /\ Cardinality(controllers'[i].connected) = 0
      BY <1>4, <3>1, Zenon
    <3>3. QED
      BY <1>4, <3>1, <3>2 DEF ConnectionsFit
  <2>5. Entries' = {}
    BY <1>5 DEF Entries
  <2>6. Cardinality(Entries') <= MaxLive
    BY <2>5, FS_EmptySet, ResolverAssumption
  <2>7. QED
    BY <2>2, <2>3, <2>4, <2>6 DEF ResolverInv
<1>7. ControllersOnlyEnd /\ RowsOnlyEnd
  BY <1>4, <1>5, KeptIsQuiet DEF ControllersOnlyEnd
<1>8. StartsGoOn /\ LookupsAreEnded
  BY <1>5 DEF StartsGoOn, GoesOn, LookupsAreEnded, Idle, Starts, Attaches
<1>9. LossesAreRecorded
  <2>1. \A p \in Names : rows[p].at \in {"none", "running", "ended"}
    BY DEF PreviewsHeld, PreviewTypes, PreviewRows
  <2>2. \A i \in Ids : controllers[i].name \in Names /\ rows[controllers[i].name].at # "none"
    BY ControllersAreNamed DEF PreviewsHeld, ControllersPlay
  <2>3. \A c \in Starters : starts'[c].at = "idle"
    BY <1>5 DEF Idle
  <2>4. QED
    BY <1>5, <2>1, <2>2, <2>3 DEF LossesAreRecorded, Unended
<1>10. NothingBegins
  BY <1>5, <1>7, <1>8, <1>9 DEF NothingBegins, PreviewsHeld, PreviewTypes, Unended
<1>11. QED
  BY <1>6, <1>10, QuietStep

\* AttachPreview joins only a game that runs; without one, the preview looked
\* up has ended, or ends now.
LEMMA OwnersStep ==
  ASSUME ResolverInv, PreviewsHeld, NEW a \in Attachers,
         TellEnded(a) \/ \E p \in Names : AttachPreview(a, p) \/ DisconnectOwner(a, p)
  PROVE  ResolverInv' /\ PreviewsHeld'
<1>1. PreviewTypes /\ attaches \in [Attachers -> Attaches] /\ resolverClosed = FALSE
      /\ asks \in [Askers -> Asks] /\ announced \subseteq Names /\ unrecorded \subseteq Names
  BY DEF PreviewsHeld, PreviewTypes, ResolverInv, ResolverTypes
<1>2. ASSUME TellEnded(a)
      PROVE  ResolverInv' /\ PreviewsHeld'
    <2>1. PICK p : p = attaches[a].preview
      OBVIOUS
    <2>2. attaches[a] \in Attaches /\ attaches[a].at = "finding"
      BY <1>1, <1>2 DEF TellEnded
    <2>3. p \in Names /\ "unavailable" \in Reasons
      BY <2>1, <2>2 DEF Attaches, Reasons, StartFailures
    <2>4. /\ rows' = EndPreview(rows, p, "unavailable") /\ attaches' = [attaches EXCEPT ![a] = Idle]
          /\ UNCHANGED <<starts, announced, unrecorded, controllers, table, asks, resolverClosed>>
      BY <1>2, <2>1 DEF TellEnded, resolverVars
    <2>5. RowsOnlyEnd
      BY <1>1, <2>3, <2>4, OneEndIsQuiet
    <2>6. LookupsAreEnded
      BY <1>1, <2>4 DEF LookupsAreEnded, PreviewsHeld, FindingHold, Idle, Attaches
    <2>7. NothingBegins
      BY <1>1, <2>4, <2>5, <2>6, KeptIsQuiet DEF NothingBegins
    <2>8. ResolverInv'
      BY <1>1, <2>4, ResolverKept
    <2>9. QED
      BY <2>7, <2>8, QuietStep
<1>3. ASSUME NEW p \in Names, DisconnectOwner(a, p)
      PROVE  ResolverInv' /\ PreviewsHeld'
  <2>1. PICK i : i = LiveController(p)
    OBVIOUS
  <2>2. /\ RunsHere(p) /\ UNCHANGED <<table, asks, resolverClosed, previewVars>>
        /\ controllers' = [controllers EXCEPT ![i].connected = @ \ {a}]
    BY <1>3, <2>1 DEF DisconnectOwner
  <2>3. i \in Ids
    BY <2>1, <2>2, LiveControllers DEF RunsHere
  <2>4. /\ ResolverInv' /\ Ids' = Ids
        /\ \A j \in Ids : j # i => controllers'[j] = controllers[j]
        /\ controllers'[i].connected \subseteq controllers[i].connected
        /\ controllers'[i].at = controllers[i].at
        /\ controllers'[i].name = controllers[i].name /\ controllers'[i].game = controllers[i].game
    BY <2>2, <2>3, LeavingStep
  <2>5. ControllersOnlyEnd /\ LossesAreRecorded
    BY <2>4 DEF ControllersOnlyEnd, LossesAreRecorded, PreviewsHeld, ControllersPlay
  <2>6. NothingBegins
    BY <1>1, <2>2, <2>4, <2>5, KeptIsQuiet DEF NothingBegins, previewVars
  <2>7. QED
    BY <2>4, <2>6, QuietStep
<1>4. ASSUME NEW p \in Names, AttachPreview(a, p)
      PROVE  ResolverInv' /\ PreviewsHeld'
  <2>1. /\ p \in announced
        /\ UNCHANGED <<rows, starts, announced, unrecorded, table, asks, resolverClosed>>
    BY <1>4 DEF AttachPreview
  <2>2. CASE ~ RunsHere(p)
    <3>1. PICK lookup : lookup = [at |-> "finding", preview |-> p]
      OBVIOUS
    <3>2. attaches' = [attaches EXCEPT ![a] = lookup] /\ controllers' = controllers
      BY <1>4, <2>2, <3>1 DEF AttachPreview
    <3>3. lookup \in Attaches /\ lookup.preview = p /\ ~ IsPlayed(p)
      BY <2>2, <3>1, LiveControllers DEF Attaches
    <3>4. LookupsAreEnded
      BY <1>1, <2>1, <3>2, <3>3 DEF LookupsAreEnded, PreviewsHeld, FindingHold
    <3>5. NothingBegins
      BY <1>1, <2>1, <3>2, <3>4, KeptIsQuiet DEF NothingBegins
    <3>6. ResolverInv'
      BY <1>1, <2>1, <3>2, ResolverKept
    <3>7. QED
      BY <3>5, <3>6, QuietStep
  <2>3. CASE RunsHere(p)
    <3>1. PICK i : i = LiveController(p)
      OBVIOUS
    <3>2. i \in Ids /\ controllers[i] \in Controllers /\ controllers[i].at = "live"
          /\ controllers[i].game = "running"
      BY <2>3, <3>1, LiveControllers, ControllersAreNamed DEF RunsHere, IsLive
    <3>3. PICK joined : joined = {a}
      OBVIOUS
    <3>4. PICK d : d = [controllers[i] EXCEPT !.connected = joined]
      OBVIOUS
    <3>5. controllers' = [controllers EXCEPT ![i] = d] /\ attaches' = attaches
      BY <1>4, <2>3, <3>1, <3>3, <3>4 DEF AttachPreview
    <3>6. /\ d \in Controllers /\ d.connected = joined /\ d.at = "live" /\ d.game = "running"
          /\ d.name = controllers[i].name /\ d.epoch = controllers[i].epoch
      BY <3>2, <3>3, <3>4 DEF Controllers
    <3>7. IsFiniteSet(joined) /\ Cardinality(joined) = 1
      BY <3>3, FS_Singleton
    <3>8. Remains(controllers[i], d)
      <4>1. IsFiniteSet(d.connected) /\ Cardinality(d.connected) = 1
        BY <3>6, <3>7, Zenon
      <4>2. QED
        BY <3>2, <3>6, <4>1, ResolverAssumption DEF Remains
    <3>9. ResolverInv'
      BY <1>1, <2>1, <3>2, <3>5, <3>6, <3>8, ControllerRemains
    <3>10. Ids' = Ids /\ \A j \in Ids : controllers'[j] = IF j = i THEN d ELSE controllers[j]
      BY <3>2, <3>5, <3>6, OneChanges DEF ResolverInv
    <3>11. ControllersOnlyEnd /\ LossesAreRecorded
      BY <3>2, <3>6, <3>10 DEF ControllersOnlyEnd, LossesAreRecorded, PreviewsHeld, ControllersPlay
    <3>12. NothingBegins
      BY <1>1, <2>1, <3>5, <3>10, <3>11, KeptIsQuiet DEF NothingBegins
    <3>13. QED
      BY <3>9, <3>12, QuietStep
  <2>4. QED
    BY <2>2, <2>3
<1>5. QED
  BY <1>2, <1>3, <1>4

\* recordOpening: the preview it opens is the only one recorded as running,
\* and nothing knows it yet.
LEMMA OpenPreviewStep ==
  ASSUME ResolverInv, PreviewsHeld, NEW c \in Starters, NEW p \in Names, OpenPreview(c, p)
  PROVE  /\ ResolverInv' /\ PreviewsHeld'
         /\ \A q \in Names : rows[q].at = "ended" => rows'[q] = rows[q]
<1>1. /\ PreviewTypes /\ OneIsOpen /\ ControllersPlay /\ StartsHold /\ AnnouncedHold /\ FindingHold
  BY DEF PreviewsHeld
<1>2. PICK t : t = [at |-> "opened", preview |-> p,
                    replaced |-> IF Unended = {} THEN NoPreview ELSE CHOOSE q \in Unended : TRUE]
  OBVIOUS
<1>3. /\ starts[c] = Idle /\ rows[p] = NoRow /\ starts' = [starts EXCEPT ![c] = t]
      /\ UNCHANGED <<attaches, announced, unrecorded, controllers, table, asks, resolverClosed>>
      /\ rows' = [q \in Names |-> IF q = p THEN RunningRow
                                  ELSE IF q \in Unended THEN EndedRow("replaced") ELSE rows[q]]
  BY <1>2 DEF OpenPreview, resolverVars
<1>4. ResolverInv' /\ Ids' = Ids
  <2>1. asks \in [Askers -> Asks]
    BY DEF ResolverInv, ResolverTypes
  <2>2. QED
    BY <1>3, <2>1, ResolverKept DEF Ids
<1>5. rows[p].at = "none" /\ p \notin Unended
  BY <1>3 DEF NoRow, Unended
<1>6. /\ rows' \in [Names -> PreviewRows] /\ rows'[p].at = "running"
      /\ \A q \in Names : q # p =>
           \/ rows'[q].at = "ended" /\ rows[q].at = "running"
           \/ rows'[q] = rows[q] /\ rows[q].at # "running"
  <2>1. RunningRow \in PreviewRows /\ RunningRow.at = "running"
    BY DEF RunningRow, PreviewRows
  <2>2. EndedRow("replaced") \in PreviewRows /\ EndedRow("replaced").at = "ended"
    BY DEF EndedRow, PreviewRows, Reasons
  <2>3. QED
    BY <1>1, <1>3, <2>1, <2>2 DEF PreviewTypes, Unended
<1>7. /\ t \in Starts /\ t.at = "opened" /\ t.preview = p
  <2>1. PICK replaced : replaced = IF Unended = {} THEN NoPreview ELSE CHOOSE q \in Unended : TRUE
    OBVIOUS
  <2>2. replaced \in Names \cup {NoPreview}
    <3>1. CASE Unended = {}
      BY <2>1, <3>1
    <3>2. CASE Unended # {}
      <4>1. replaced \in Unended
        BY <2>1, <3>2
      <4>2. QED
        BY <4>1 DEF Unended
    <3>3. QED
      BY <3>1, <3>2
  <2>3. t = [at |-> "opened", preview |-> p, replaced |-> replaced]
    BY <1>2, <2>1
  <2>4. QED
    BY <2>2, <2>3 DEF Starts
<1>8. starts'[c] = t /\ \A d \in Starters : d # c => starts'[d] = starts[d]
  BY <1>1, <1>3 DEF PreviewTypes
<1>9. PreviewTypes'
  <2>1. Starts' = Starts
    BY <1>4 DEF Starts
  <2>2. QED
    BY <1>1, <1>3, <1>6, <1>7, <2>1 DEF PreviewTypes
<1>10. OneIsOpen'
  BY <1>6 DEF OneIsOpen, Unended
<1>11. ControllersPlay'
  <2>1. \A i \in Ids : controllers[i].name \in Names
    BY ControllersAreNamed
  <2>2. QED
    BY <1>1, <1>3, <1>4, <1>6, <2>1 DEF ControllersPlay
<1>12. p \notin announced /\ \A i \in Ids : controllers[i].name # p
  BY <1>1, <1>5 DEF AnnouncedHold, ControllersPlay
<1>13. \A d \in Starters : d # c /\ starts[d].at # "idle" => starts[d].preview \in Names \ {p}
  BY <1>1, <1>5, StartsAreTyped DEF StartsHold
<1>14. StartsHold'
  <2>1. SUFFICES ASSUME NEW d \in Starters, starts'[d].at # "idle"
                 PROVE  /\ rows'[starts'[d].preview].at # "none" /\ starts'[d].preview \notin announced
                        /\ \A e \in Starters :
                             starts'[e].at # "idle" /\ starts'[e].preview = starts'[d].preview => e = d
                        /\ starts'[d].at \in {"opened", "ready"} =>
                             \A i \in Ids : controllers[i].name # starts'[d].preview
                        /\ starts'[d].at = "starting" =>
                             /\ controllers[starts'[d].controller].name = starts'[d].preview
                             /\ \/ controllers[starts'[d].controller].at = "live"
                                \/ rows'[starts'[d].preview].at = "ended"
    BY <1>3, <1>4 DEF StartsHold, IsLive
  <2>2. CASE d = c
    BY <1>6, <1>7, <1>8, <1>12, <1>13, <2>2
  <2>3. CASE d # c
    <3>1. starts'[d] = starts[d] /\ starts[d].at # "idle" /\ starts[d].preview \in Names \ {p}
      BY <1>8, <1>13, <2>1, <2>3
    <3>2. \A e \in Starters :
            starts'[e].at # "idle" /\ starts'[e].preview = starts[d].preview => e = d
      BY <1>1, <1>7, <1>8, <3>1 DEF StartsHold
    <3>3. QED
      BY <1>1, <1>6, <2>3, <3>1, <3>2 DEF StartsHold, IsLive
  <2>4. QED
    BY <2>2, <2>3
<1>15. AnnouncedHold'
  <2>1. announced \subseteq Names
    BY <1>1 DEF PreviewTypes
  <2>2. QED
    BY <1>1, <1>3, <1>6, <1>12, <2>1 DEF AnnouncedHold
<1>16. FindingHold'
  BY <1>1, <1>3, <1>4 DEF FindingHold, IsPlayed, IsLive
<1>17. \A q \in Names : rows[q].at = "ended" => rows'[q] = rows[q]
  BY <1>5, <1>6
<1>18. QED
  BY <1>4, <1>9, <1>10, <1>11, <1>14, <1>15, <1>16, <1>17 DEF PreviewsHeld

\* controllerFor: the preview's only controller is the one its start is given.
LEMMA GetControllerStep ==
  ASSUME ResolverInv, PreviewsHeld, NEW c \in Starters, GetController(c)
  PROVE  ResolverInv' /\ PreviewsHeld'
<1>1. /\ PreviewTypes /\ OneIsOpen /\ ControllersPlay /\ StartsHold /\ AnnouncedHold /\ FindingHold
  BY DEF PreviewsHeld
<1>2. PICK p : p = starts[c].preview
  OBVIOUS
<1>3. PICK given : given = Answered(p, previewEpoch)
  OBVIOUS
<1>4. PICK t : t = IF given = 0 THEN [at |-> "failed", preview |-> p, reason |-> "unavailable"]
                   ELSE [at |-> "starting", preview |-> p, controller |-> given]
  OBVIOUS
<1>5. /\ starts[c].at = "ready" /\ ControllerFor(p, previewEpoch)
      /\ starts' = [starts EXCEPT ![c] = t]
      /\ UNCHANGED <<rows, attaches, announced, unrecorded, asks, resolverClosed>>
  BY <1>2, <1>3, <1>4 DEF GetController
<1>6. /\ p \in Names /\ p \notin announced /\ rows[p].at # "none"
      /\ \A i \in Ids : controllers[i].name # p
      /\ \A d \in Starters : starts[d].at # "idle" /\ starts[d].preview = p => d = c
  BY <1>1, <1>2, <1>5, StartsAreTyped DEF StartsHold
<1>7. previewEpoch \in Int
  BY DEF previewEpoch
<1>8. /\ controllers' \in Seq(Controllers) /\ table' \in [Names -> Nat] /\ Ids \subseteq Ids'
      /\ TableHolds' /\ ConnectionsFit' /\ Cardinality(Entries') <= MaxLive
      /\ given # 0 => given \in Ids'
  BY <1>3, <1>5, <1>6, <1>7, ControllerForStep
<1>9. ResolverInv'
  <2>1. asks' = asks /\ asks \in [Askers -> Asks] /\ Asks \subseteq Asks'
    BY <1>5, <1>8 DEF ResolverInv, ResolverTypes, Asks
  <2>2. QED
    BY <1>8, <2>1 DEF ResolverInv, ResolverTypes
<1>10. Verdict(p, previewEpoch) \in {"server_busy", "create"}
  <2>1. ~ HasController(p)
    BY <1>6 DEF ResolverInv, TableHolds, HasController
  <2>2. QED
    BY <2>1 DEF Verdict
<1>11. CASE Verdict(p, previewEpoch) = "server_busy"
  <2>1. given = 0 /\ controllers' = controllers
    BY <1>3, <1>5, <1>11 DEF Answered, ControllerFor
  <2>2. t = [at |-> "failed", preview |-> p, reason |-> "unavailable"]
    BY <1>4, <2>1
  <2>3. t \in Starts /\ GoesOn(starts[c], t)
    BY <1>2, <1>5, <1>6, <2>2 DEF Starts, GoesOn, Reasons, StartFailures
  <2>4. Ids' = Ids /\ ControllersOnlyEnd /\ LossesAreRecorded /\ RowsOnlyEnd /\ LookupsAreEnded
    BY <1>5, <2>1, KeptIsQuiet
  <2>5. StartsGoOn
    BY <1>1, <1>5, <2>3, <2>4, OneGoesOn
  <2>6. NothingBegins
    BY <1>1, <1>5, <2>4, <2>5 DEF NothingBegins, PreviewTypes
  <2>7. QED
    BY <1>9, <2>6, QuietStep
<1>12. CASE Verdict(p, previewEpoch) = "create"
  <2>1. PICK new : new = Len(controllers) + 1
    OBVIOUS
  <2>2. PICK d : d = Controller(p, previewEpoch)
    OBVIOUS
  <2>3. ~ HasController(p)
    BY <1>6 DEF ResolverInv, TableHolds, HasController
  <2>4. given = new /\ controllers' = Append(controllers, d)
    BY <1>3, <1>5, <1>12, <2>1, <2>2, <2>3 DEF Answered, ControllerFor, Installed
  <2>5. /\ d \in Controllers /\ d.name = p /\ d.at = "live" /\ d.game = "none" /\ d.connected = {}
    BY <1>6, <1>7, <2>2 DEF Controller, Controllers
  <2>6. /\ Ids' = Ids \cup {new} /\ new \notin Ids /\ new # 0
        /\ controllers'[new] = d /\ \A i \in Ids : controllers'[i] = controllers[i]
    <3>1. controllers \in Seq(Controllers) /\ Len(controllers) \in Nat /\ Ids = 1..Len(controllers)
      BY DEF ResolverInv, ResolverTypes, Ids
    <3>2. /\ Append(controllers, d) \in Seq(Controllers)
          /\ Len(Append(controllers, d)) = Len(controllers) + 1
          /\ \A i \in 1..Len(controllers) : Append(controllers, d)[i] = controllers[i]
          /\ Append(controllers, d)[Len(controllers) + 1] = d
      BY <2>5, <3>1, AppendProperties
    <3>3. Ids' = 1..new
      BY <2>1, <2>4, <3>2 DEF Ids
    <3>4. QED
      BY <2>1, <2>4, <3>1, <3>2, <3>3
  <2>7. t = [at |-> "starting", preview |-> p, controller |-> new]
    BY <1>4, <2>4, <2>6
  <2>8. Starts \subseteq Starts' /\ t \in Starts'
    BY <1>6, <2>6, <2>7 DEF Starts
  <2>9. starts'[c] = t /\ \A e \in Starters : e # c => starts'[e] = starts[e]
    BY <1>1, <1>5 DEF PreviewTypes
  <2>10. PreviewTypes'
    BY <1>1, <1>5, <2>8 DEF PreviewTypes
  <2>11. OneIsOpen' /\ ControllersPlay'
    BY <1>1, <1>5, <1>6, <2>5, <2>6 DEF OneIsOpen, Unended, ControllersPlay
  <2>12. \A e \in Starters : e # c /\ starts[e].at # "idle" => starts[e].preview # p
    BY <1>6
  <2>13. StartsHold'
    <3>1. SUFFICES ASSUME NEW e \in Starters, starts'[e].at # "idle"
                   PROVE  /\ rows[starts'[e].preview].at # "none" /\ starts'[e].preview \notin announced
                          /\ \A f \in Starters :
                               starts'[f].at # "idle" /\ starts'[f].preview = starts'[e].preview => f = e
                          /\ starts'[e].at \in {"opened", "ready"} =>
                               \A i \in Ids' : controllers'[i].name # starts'[e].preview
                          /\ starts'[e].at = "starting" =>
                               /\ controllers'[starts'[e].controller].name = starts'[e].preview
                               /\ \/ controllers'[starts'[e].controller].at = "live"
                                  \/ rows[starts'[e].preview].at = "ended"
      BY <1>5 DEF StartsHold, IsLive
    <3>2. CASE e = c
      BY <1>6, <2>5, <2>6, <2>7, <2>9, <2>12, <3>2
    <3>3. CASE e # c
      <4>1. starts'[e] = starts[e] /\ starts[e].at # "idle" /\ starts[e].preview # p
        BY <2>9, <2>12, <3>1, <3>3
      <4>2. \A f \in Starters :
              starts'[f].at # "idle" /\ starts'[f].preview = starts[e].preview => f = e
        BY <1>1, <2>7, <2>9, <4>1 DEF StartsHold
      <4>3. starts[e].at = "starting" => starts[e].controller \in Ids
        BY <1>1, StartsAreTyped
      <4>4. QED
        BY <1>1, <2>5, <2>6, <4>1, <4>2, <4>3 DEF StartsHold, IsLive
    <3>4. QED
      BY <3>2, <3>3
  <2>14. \A q : IsPlayed(q)' <=> IsPlayed(q)
    BY <2>5, <2>6 DEF IsPlayed, IsLive
  <2>15. AnnouncedHold' /\ FindingHold'
    BY <1>1, <1>5, <2>14 DEF AnnouncedHold, FindingHold
  <2>16. QED
    BY <1>9, <2>10, <2>11, <2>13, <2>15 DEF PreviewsHeld
<1>13. QED
  BY <1>10, <1>11, <1>12

\* startPreview: the game announced is played, unless its end is recorded.
LEMMA StartGameStep ==
  ASSUME ResolverInv, PreviewsHeld, NEW c \in Starters, StartGame(c)
  PROVE  ResolverInv' /\ PreviewsHeld'
<1>1. /\ PreviewTypes /\ OneIsOpen /\ ControllersPlay /\ StartsHold /\ AnnouncedHold /\ FindingHold
  BY DEF PreviewsHeld
<1>2. PICK p : p = starts[c].preview
  OBVIOUS
<1>3. PICK i : i = starts[c].controller
  OBVIOUS
<1>4. /\ starts[c].at = "starting" /\ starts' = [starts EXCEPT ![c] = Idle]
      /\ controllers' = [controllers EXCEPT ![i].game = "running"]
      /\ announced' = announced \cup {p}
      /\ UNCHANGED <<rows, attaches, unrecorded, table, asks, resolverClosed>>
  BY <1>2, <1>3 DEF StartGame
<1>5. /\ p \in Names /\ i \in Ids /\ p \notin announced /\ rows[p].at # "none"
      /\ controllers[i].at = "live" \/ rows[p].at = "ended"
      /\ \A d \in Starters : starts[d].at # "idle" /\ starts[d].preview = p => d = c
  BY <1>1, <1>2, <1>3, <1>4, StartsAreTyped DEF StartsHold, IsLive
<1>6. controllers[i] \in Controllers /\ controllers[i].name = p
  BY <1>1, <1>2, <1>3, <1>4, <1>5, ControllersAreNamed DEF StartsHold
<1>7. PICK d : d = [controllers[i] EXCEPT !.game = "running"]
  OBVIOUS
<1>8. /\ d \in Controllers /\ d.game = "running" /\ d.at = controllers[i].at /\ d.name = p
      /\ d.epoch = controllers[i].epoch /\ d.connected = controllers[i].connected
  BY <1>6, <1>7 DEF Controllers
<1>9. controllers' = [controllers EXCEPT ![i] = d]
  BY <1>4, <1>7
<1>10. Ids' = Ids /\ \A j \in Ids : controllers'[j] = IF j = i THEN d ELSE controllers[j]
  BY <1>5, <1>8, <1>9, OneChanges DEF ResolverInv
<1>11. ResolverInv'
  <2>1. Remains(controllers[i], d)
    BY <1>5, <1>6, <1>8 DEF Remains, ResolverInv, ConnectionsFit, IsLive
  <2>2. asks' \in [Askers -> Asks]
    BY <1>4 DEF ResolverInv, ResolverTypes
  <2>3. QED
    BY <1>4, <1>5, <1>8, <1>9, <2>1, <2>2, ControllerRemains
<1>12. starts'[c].at = "idle" /\ \A e \in Starters : e # c => starts'[e] = starts[e]
  BY <1>1, <1>4 DEF PreviewTypes, Idle
<1>13. PreviewTypes'
  <2>1. Starts' = Starts /\ Idle \in Starts
    BY <1>10 DEF Starts, Idle
  <2>2. QED
    BY <1>1, <1>4, <1>5, <2>1 DEF PreviewTypes
<1>14. OneIsOpen'
  BY <1>1, <1>4 DEF OneIsOpen, Unended
<1>15. ControllersPlay'
  BY <1>1, <1>4, <1>6, <1>8, <1>10 DEF ControllersPlay
<1>16. StartsHold'
  <2>1. SUFFICES ASSUME NEW e \in Starters, starts'[e].at # "idle"
                 PROVE  /\ rows[starts'[e].preview].at # "none" /\ starts'[e].preview \notin announced'
                        /\ \A f \in Starters :
                             starts'[f].at # "idle" /\ starts'[f].preview = starts'[e].preview => f = e
                        /\ starts'[e].at \in {"opened", "ready"} =>
                             \A j \in Ids : controllers'[j].name # starts'[e].preview
                        /\ starts'[e].at = "starting" =>
                             /\ controllers'[starts'[e].controller].name = starts'[e].preview
                             /\ \/ controllers'[starts'[e].controller].at = "live"
                                \/ rows[starts'[e].preview].at = "ended"
    BY <1>4, <1>10 DEF StartsHold, IsLive
  <2>2. e # c /\ starts'[e] = starts[e] /\ starts[e].at # "idle" /\ starts[e].preview # p
    BY <1>5, <1>12, <2>1
  <2>3. \A j \in Ids : controllers'[j].name = controllers[j].name /\ controllers'[j].at = controllers[j].at
    BY <1>6, <1>8, <1>10
  <2>4. starts[e].at = "starting" => starts[e].controller \in Ids
    BY <1>1, StartsAreTyped
  <2>5. \A f \in Starters :
          starts'[f].at # "idle" /\ starts'[f].preview = starts[e].preview => f = e
    BY <1>1, <1>12, <2>2 DEF StartsHold
  <2>6. QED
    BY <1>1, <1>4, <2>2, <2>3, <2>4, <2>5 DEF StartsHold, IsLive
<1>17. \A q : q # p => (IsPlayed(q)' <=> IsPlayed(q))
  BY <1>6, <1>8, <1>10 DEF IsPlayed, IsLive
<1>18. rows[p].at = "running" => IsPlayed(p)'
  BY <1>1, <1>2, <1>3, <1>4, <1>5, <1>8, <1>10 DEF IsPlayed, IsLive, StartsHold
<1>19. AnnouncedHold'
  BY <1>1, <1>4, <1>5, <1>17, <1>18 DEF AnnouncedHold
<1>20. FindingHold'
  BY <1>1, <1>4, <1>5, <1>17 DEF FindingHold
<1>21. QED
  BY <1>11, <1>13, <1>14, <1>15, <1>16, <1>19, <1>20 DEF PreviewsHeld

\* Every step of the previews keeps the resolver's invariant and their own.
LEMMA PreviewsStep ==
  ASSUME ResolverInv, PreviewsHeld, PreviewsNext
  PROVE  ResolverInv' /\ PreviewsHeld'
<1>1. ASSUME NEW c \in Starters,
             \/ \E p \in Names : OpenPreview(c, p)
             \/ EndReplaced(c) \/ GetController(c) \/ StartGame(c)
      PROVE  ResolverInv' /\ PreviewsHeld'
  BY <1>1, OpenPreviewStep, EndReplacedStep, GetControllerStep, StartGameStep
<1>2. ASSUME NEW c \in Starters,
             \/ StartAbandoned(c) \/ FailedStart(c)
             \/ \E reason \in StartFailures : StartFails(c, reason)
      PROVE  ResolverInv' /\ PreviewsHeld'
  BY <1>2, StartsEnd, StartFailsStep
<1>3. ASSUME NEW p \in Names, (\E reason \in EndsOfItsOwn : PreviewEnds(p, reason)) \/ AbortUnrecorded(p)
      PROVE  ResolverInv' /\ PreviewsHeld'
  BY <1>3, PreviewEndsStep
<1>4. ASSUME NEW a \in Attachers,
             TellEnded(a) \/ \E p \in Names : AttachPreview(a, p) \/ DisconnectOwner(a, p)
      PROVE  ResolverInv' /\ PreviewsHeld'
  BY <1>4, OwnersStep
<1>5. ASSUME NEW i \in Ids, ForgetPreview(i)
      PROVE  ResolverInv' /\ PreviewsHeld'
  BY <1>5, ForgetPreviewStep
<1>6. QED
  BY <1>1, <1>2, <1>3, <1>4, <1>5, RestartStep DEF PreviewsNext

-----------------------------------------------------------------------------
\* The resolver starts with no controller, the previews with no preview.
LEMMA RuntimeStarts ==
  ASSUME RuntimeInit
  PROVE  ResolverInv /\ PreviewsInv
<1>1. /\ controllers = <<>> /\ table = [n \in Names |-> 0]
      /\ asks = [a \in Askers |-> NotAsking] /\ resolverClosed = FALSE
      /\ rows = [p \in Names |-> NoRow] /\ starts = [c \in Starters |-> Idle]
      /\ attaches = [a \in Attachers |-> Idle] /\ announced = {} /\ unrecorded = {}
      /\ PreviewsInit
  BY DEF RuntimeInit, ResolverInit, PreviewsInit
<1>2. controllers \in Seq(Controllers) /\ Ids = {}
  BY <1>1 DEF Ids
<1>3. ResolverTypes
  <2>1. NotAsking \in Asks
    BY DEF NotAsking, Asks
  <2>2. QED
    BY <1>1, <1>2, <2>1 DEF ResolverTypes
<1>4. TableHolds /\ ConnectionsFit
  BY <1>1, <1>2 DEF TableHolds, ConnectionsFit
<1>5. Cardinality(Entries) <= MaxLive
  <2>1. Entries = {}
    BY <1>1 DEF Entries
  <2>2. QED
    BY <2>1, FS_EmptySet, ResolverAssumption
<1>6. PreviewTypes
  <2>1. NoRow \in PreviewRows /\ Idle \in Starts /\ Idle \in Attaches
    BY DEF NoRow, PreviewRows, Idle, Starts, Attaches
  <2>2. QED
    BY <1>1, <2>1 DEF PreviewTypes
<1>7. OneIsOpen
  BY <1>1 DEF OneIsOpen, Unended, NoRow
<1>8. ControllersPlay /\ StartsHold /\ AnnouncedHold /\ FindingHold
  BY <1>1, <1>2 DEF ControllersPlay, StartsHold, AnnouncedHold, FindingHold, Idle
<1>9. QED
  BY <1>1, <1>3, <1>4, <1>5, <1>6, <1>7, <1>8 DEF ResolverInv, PreviewsHeld, PreviewsInv

\* Whichever part runs, its steps keep both invariants.
LEMMA RuntimeStep ==
  ASSUME ResolverInv, PreviewsInv, [RuntimeNext]_runtimeVars
  PROVE  ResolverInv' /\ PreviewsInv'
<1>1. CASE part = "previews" /\ PreviewsNext /\ UNCHANGED part
  BY <1>1, PreviewsStep DEF PreviewsInv
<1>2. CASE part = "controllers" /\ ResolverNext /\ UNCHANGED <<previewVars, part>>
  <2>1. ResolverInv'
    BY <1>2, ResolverStep
  <2>2. PreviewsInit'
    BY <1>2 DEF PreviewsInv, PreviewsInit, previewVars
  <2>3. QED
    BY <1>2, <2>1, <2>2 DEF PreviewsInv
<1>3. CASE UNCHANGED <<resolverVars, previewVars, part>>
  <2>1. ResolverInv'
    BY <1>3, ResolverStep
  <2>2. PreviewsHeld => PreviewsHeld'
    BY <1>3 DEF PreviewsHeld, PreviewTypes, OneIsOpen, ControllersPlay, StartsHold, AnnouncedHold,
                FindingHold, IsPlayed, IsLive, Starts, Ids, Unended, previewVars, resolverVars
  <2>3. PreviewsInit => PreviewsInit'
    BY <1>3 DEF PreviewsInit, previewVars
  <2>4. QED
    BY <1>3, <2>1, <2>2, <2>3 DEF PreviewsInv
<1>4. QED
  BY <1>1, <1>2, <1>3 DEF RuntimeNext, runtimeVars

\* Both invariants hold in every state.
LEMMA RuntimeInvariant == RuntimeSpec => [](ResolverInv /\ PreviewsInv)
<1>1. RuntimeInit => ResolverInv /\ PreviewsInv
  BY RuntimeStarts
<1>2. ResolverInv /\ PreviewsInv /\ [RuntimeNext]_runtimeVars => (ResolverInv /\ PreviewsInv)'
  BY RuntimeStep
<1>3. QED
  BY <1>1, <1>2, PTL DEF RuntimeSpec

\* controllerFor, forget and the ends of controllers, in any order: a Session
\* never has two controllers that run, the one that runs is the one new
\* connections find, no connection is left on one that ended, and an instance
\* keeps no more than it may.
THEOREM ControllersAlwaysAgree == RuntimeSpec => []ControllersAgree
<1>1. ResolverInv => ControllersAgree
  BY DEF ResolverInv, TableHolds, ConnectionsFit, ControllersAgree
<1>2. QED
  BY <1>1, RuntimeInvariant, PTL

\* The record of previews follows their games, whatever part of a start, an
\* end, a lookup or a restart the others interleave with.
THEOREM PreviewsStayRecorded == RuntimeSpec => []PreviewsAreRecorded
<1>1. ASSUME ResolverInv, PreviewsHeld
      PROVE  PreviewsAreRecorded
  <2>1. /\ PreviewTypes /\ OneIsOpen /\ ControllersPlay /\ StartsHold /\ AnnouncedHold /\ FindingHold
        /\ announced \subseteq Names
    BY <1>1 DEF PreviewsHeld, PreviewTypes
  <2>2. \A p \in Names : RunsHere(p) <=> IsPlayed(p)
    BY <1>1, LiveControllers
  <2>3. Cardinality(Unended) <= 1
    <3>1. CASE Unended = {}
      BY <3>1, FS_EmptySet
    <3>2. CASE Unended # {}
      <4>1. PICK p : Unended = {p}
        BY <2>1, <3>2 DEF OneIsOpen
      <4>2. QED
        BY <4>1, FS_Singleton
    <3>3. QED
      BY <3>1, <3>2
  <2>4. \A p \in announced \cap Unended : RunsHere(p) \/ p \in unrecorded
    BY <2>1, <2>2 DEF AnnouncedHold, Unended
  <2>5. ASSUME NEW i \in Ids, controllers[i].connected # {}
        PROVE  RunsHere(controllers[i].name)
    <3>1. IsPlayed(controllers[i].name)
      BY <1>1, <2>1, <2>5 DEF ControllersPlay, IsPlayed, ResolverInv, ConnectionsFit
    <3>2. QED
      BY <1>1, <2>2, <3>1, ControllersAreNamed
  <2>6. \A a \in Attachers : attaches[a].at = "finding" => ~ RunsHere(attaches[a].preview)
    BY <2>1, <2>2 DEF FindingHold
  <2>7. QED
    BY <2>3, <2>4, <2>5, <2>6 DEF PreviewsAreRecorded
<1>2. ASSUME ResolverInv, PreviewsInit
      PROVE  PreviewsAreRecorded
  <2>1. /\ Unended = {} /\ announced = {}
        /\ \A p \in Names : rows[p].at = "none"
        /\ \A a \in Attachers : attaches[a].at = "idle"
    BY <1>2 DEF PreviewsInit, Unended, NoRow, Idle
  <2>2. Cardinality(Unended) <= 1
    BY <2>1, FS_EmptySet
  <2>3. \A i \in Ids : controllers[i].name \in Names
    BY <1>2, ControllersAreNamed
  <2>4. QED
    BY <2>1, <2>2, <2>3 DEF PreviewsAreRecorded
<1>3. ResolverInv /\ PreviewsInv => PreviewsAreRecorded
  BY <1>1, <1>2 DEF PreviewsInv
<1>4. QED
  BY <1>3, RuntimeInvariant, PTL

\* The end of a preview is recorded once: its reason is never replaced.
THEOREM EndsStayFinal == RuntimeSpec => EndsAreFinal
<1>1. ASSUME ResolverInv, PreviewsInv, RuntimeNext, NEW p \in Names, rows[p].at = "ended"
      PROVE  rows'[p] = rows[p]
  <2>1. CASE UNCHANGED previewVars
    BY <2>1 DEF previewVars
  <2>2. CASE part = "previews" /\ PreviewsNext
    <3>1. PreviewsHeld /\ PreviewTypes
      BY <1>1, <2>2 DEF PreviewsInv, PreviewsHeld
    <3>2. ASSUME NEW q \in Names, NEW reason \in Reasons, rows' = EndPreview(rows, q, reason)
          PROVE  rows'[p] = rows[p]
      BY <1>1, <3>1, <3>2, EndPreviewEnds
    <3>3. CASE rows' = rows
      BY <3>3
    <3>4. ASSUME NEW c \in Starters, NEW q \in Names, OpenPreview(c, q)
          PROVE  rows'[p] = rows[p]
      BY <1>1, <3>1, <3>4, OpenPreviewStep
    <3>5. ASSUME NEW c \in Starters, EndReplaced(c)
          PROVE  rows'[p] = rows[p]
      <4>1. PICK replaced : replaced = starts[c].replaced
        OBVIOUS
      <4>2. replaced \in Names \cup {NoPreview} /\ "replaced" \in Reasons
        BY <3>1, <3>5, <4>1, StartsAreTyped DEF EndReplaced, Reasons
      <4>3. rows' = rows \/ (replaced # NoPreview /\ rows' = EndPreview(rows, replaced, "replaced"))
        BY <3>5, <4>1 DEF EndReplaced
      <4>4. QED
        BY <3>2, <4>2, <4>3
    <3>6. ASSUME NEW c \in Starters, FailedStart(c)
          PROVE  rows'[p] = rows[p]
      <4>1. /\ starts[c].preview \in Names /\ starts[c].reason \in Reasons
            /\ rows' = EndPreview(rows, starts[c].preview, starts[c].reason)
        BY <3>1, <3>6, StartsAreTyped DEF FailedStart
      <4>2. QED
        BY <3>2, <4>1
    <3>7. ASSUME NEW q \in Names, NEW reason \in EndsOfItsOwn, PreviewEnds(q, reason)
          PROVE  rows'[p] = rows[p]
      BY <3>2, <3>7 DEF PreviewEnds, Reasons
    <3>8. ASSUME NEW a \in Attachers, TellEnded(a)
          PROVE  rows'[p] = rows[p]
      <4>1. attaches[a] \in Attaches /\ attaches[a].at = "finding"
        BY <3>1, <3>8 DEF PreviewTypes, TellEnded
      <4>2. attaches[a].preview \in Names /\ "unavailable" \in Reasons
        BY <4>1 DEF Attaches, Reasons, StartFailures
      <4>3. QED
        BY <3>2, <3>8, <4>2 DEF TellEnded
    <3>9. QED
      BY <2>2, <3>3, <3>4, <3>5, <3>6, <3>7, <3>8
        DEF PreviewsNext, GetController, StartGame, StartAbandoned, StartFails, AbortUnrecorded,
            AttachPreview, DisconnectOwner, ForgetPreview, Restart, previewVars
  <2>3. QED
    BY <1>1, <2>1, <2>2 DEF RuntimeNext
<1>2. ResolverInv /\ PreviewsInv /\ [RuntimeNext]_runtimeVars =>
        [\A p \in Names : rows[p].at = "ended" => rows'[p] = rows[p]]_<<rows>>
  BY <1>1 DEF runtimeVars, previewVars
<1>3. QED
  BY <1>2, RuntimeInvariant, PTL DEF RuntimeSpec, EndsAreFinal
=============================================================================
