------------------------------ MODULE HostProofs ------------------------------
(***************************************************************************)
(* The host, for any sizes: the migrations take effect once and in order,    *)
(* whatever hosts start; no log line is lost on its way to the exporter; and *)
(* the status of the channel says what its link does.                        *)
(***************************************************************************)
EXTENDS Host, SequenceTheorems, TLAPS

-----------------------------------------------------------------------------
(* The store *)

Known(h) == applied[h] \cup migrated[h]

Typed ==
    /\ boot \in [Hosts -> {"off", "list", "migrate", "record", "commit", "ready", "failed"}]
    /\ applied \in [Hosts -> SUBSET Names] /\ migrated \in [Hosts -> SUBSET Names]
    /\ schema \in Seq(Nat)

Ordered ==
    /\ schema = [i \in 1..Len(schema) |-> i]
    /\ recorded = 1..Len(schema)
    /\ Len(schema) <= Migrations

\* What a host knows of the schema is the beginning of it: it may have grown.
KnowsBeginning == \A h \in Hosts : \E k \in 0..Len(schema) : Known(h) = 1..k

SoleWriter == \A g, h \in Hosts : InTransaction(g) /\ InTransaction(h) => g = h

\* What is executed is missing, and what is recorded is new to everybody.
Transacts ==
    \A h \in Hosts :
        /\ InTransaction(h) => Missing(h) # {}
        /\ boot[h] = "commit" => Pending(h) \notin recorded

Complete == \A h \in Hosts : boot[h] = "ready" => Len(schema) = Migrations

IndInv == Typed /\ Ordered /\ KnowsBeginning /\ SoleWriter /\ Transacts /\ Complete

-----------------------------------------------------------------------------

\* A host that knows the first k migrations goes on with the next one, if there is
\* one.
LEMMA PendingIsNext ==
    ASSUME NEW h \in Hosts, NEW k \in Nat, k <= Migrations, Known(h) = 1..k
    PROVE  /\ Missing(h) = (k + 1)..Migrations
           /\ Missing(h) # {} => k < Migrations /\ Pending(h) = k + 1
           /\ Missing(h) = {} => k = Migrations
  <1>1. Missing(h) = (k + 1)..Migrations
    BY StoreAssumption DEF Missing, Names, Known
  <1>2. ASSUME Missing(h) # {}
        PROVE  k < Migrations /\ Pending(h) = k + 1
    <2>1. k < Migrations
      BY <1>1, <1>2, StoreAssumption
    <2>2. k + 1 \in Missing(h) /\ \A m \in Missing(h) : k + 1 <= m
      BY <1>1, <2>1, StoreAssumption
    <2>3. \A n \in Missing(h) : (\A m \in Missing(h) : n <= m) => n = k + 1
      BY <1>1, <2>2, StoreAssumption
    <2>4. Pending(h) = k + 1
      BY <2>2, <2>3 DEF Pending
    <2> QED
      BY <2>1, <2>4
  <1>3. ASSUME Missing(h) = {}
        PROVE  k = Migrations
    <2>1. k + 1 \notin (k + 1)..Migrations
      BY <1>1, <1>3
    <2> QED
      BY <2>1, StoreAssumption
  <1> QED
    BY <1>1, <1>2, <1>3

LEMMA InitInv == Init => IndInv
  <1> SUFFICES ASSUME Init PROVE IndInv OBVIOUS
  <1>1. Typed /\ Ordered
    BY StoreAssumption DEF Init, StoreInit, Typed, Ordered
  <1>2. KnowsBeginning
    <2>1. \A h \in Hosts : Known(h) = 1..0
      BY DEF Init, StoreInit, Known
    <2>2. 0 \in 0..Len(schema)
      BY <1>1 DEF Typed
    <2> QED
      BY <2>1, <2>2 DEF KnowsBeginning
  <1>3. SoleWriter /\ Transacts /\ Complete
    BY DEF Init, StoreInit, SoleWriter, Transacts, Complete, InTransaction
  <1> QED
    BY <1>1, <1>2, <1>3 DEF IndInv

\* What others know and do stays true when the schema stays as it is.
LEMMA StillKept ==
    ASSUME IndInv, NEW h \in Hosts,
           UNCHANGED <<recorded, schema>>,
           Typed', SoleWriter',
           \A g \in Hosts \ {h} :
               boot'[g] = boot[g] /\ applied'[g] = applied[g] /\ migrated'[g] = migrated[g],
           \E k \in 0..Len(schema) : Known(h)' = 1..k,
           InTransaction(h)' => Missing(h)' # {},
           boot'[h] = "commit" => Pending(h)' \notin recorded,
           boot'[h] = "ready" => Len(schema) = Migrations
    PROVE  IndInv'
  <1>1. Ordered'
    BY DEF IndInv, Ordered
  <1>2. KnowsBeginning'
    BY DEF IndInv, KnowsBeginning, Known
  <1>3. Transacts'
    <2> SUFFICES ASSUME NEW g \in Hosts
                 PROVE  /\ InTransaction(g)' => Missing(g)' # {}
                        /\ boot'[g] = "commit" => Pending(g)' \notin recorded'
      BY DEF Transacts
    <2>1. CASE g = h
      BY <2>1
    <2>2. CASE g # h
      <3>1. Missing(g)' = Missing(g) /\ Pending(g)' = Pending(g)
        BY <2>2 DEF Missing, Pending
      <3> QED
        BY <2>2, <3>1 DEF IndInv, Transacts, InTransaction
    <2> QED
      BY <2>1, <2>2
  <1>4. Complete'
    BY DEF IndInv, Complete
  <1> QED
    BY <1>1, <1>2, <1>3, <1>4 DEF IndInv


\* A step that takes h no further into a transaction than it was.
LEMMA StartKeeps ==
    ASSUME IndInv, NEW h \in Hosts,
           OpenStore(h) \/ MigrateFails(h) \/ HostGone(h)
    PROVE  IndInv'
  <1>1. Typed'
    BY DEF IndInv, Typed, OpenStore, MigrateFails, HostGone, BootGoes, Forget
  <1>2. /\ UNCHANGED <<recorded, schema>>
        /\ boot'[h] \in {"off", "list", "failed"}
        /\ \A g \in Hosts \ {h} :
               boot'[g] = boot[g] /\ applied'[g] = applied[g] /\ migrated'[g] = migrated[g]
    BY DEF IndInv, Typed, OpenStore, MigrateFails, HostGone, BootGoes, Forget
  <1>3. SoleWriter'
    BY <1>2 DEF IndInv, SoleWriter, InTransaction
  <1>4. \E k \in 0..Len(schema) : Known(h)' = 1..k
    <2>1. CASE OpenStore(h)
      BY <2>1 DEF OpenStore, IndInv, KnowsBeginning, Known
    <2>2. CASE MigrateFails(h) \/ HostGone(h)
      <3>1. Known(h)' = 1..0
        BY <2>2 DEF MigrateFails, HostGone, Forget, IndInv, Typed, Known
      <3>2. 0 \in 0..Len(schema)
        BY DEF IndInv, Typed
      <3> QED
        BY <3>1, <3>2
    <2> QED
      BY <2>1, <2>2
  <1> QED
    BY <1>1, <1>2, <1>3, <1>4, StillKept DEF InTransaction

LEMMA MigrateKeeps ==
    ASSUME IndInv, NEW h \in Hosts,
           appliedMigrations(h) \/ Execute(h) \/ Record(h) \/ Migrated(h)
    PROVE  IndInv'
  <1> DEFINE Others == \A g \in Hosts \ {h} :
               boot'[g] = boot[g] /\ applied'[g] = applied[g] /\ migrated'[g] = migrated[g]
  <1>1. PICK k \in 0..Len(schema) : Known(h) = 1..k
    BY DEF IndInv, KnowsBeginning
  <1>2. k \in Nat /\ k <= Len(schema) /\ Len(schema) \in Nat /\ k <= Migrations
    BY StoreAssumption DEF IndInv, Typed, Ordered
  <1>3. CASE appliedMigrations(h)
    <2>1. recorded \subseteq Names
      BY <1>2, StoreAssumption DEF IndInv, Ordered, Names
    <2>2. Typed' /\ Others /\ boot'[h] = "migrate" /\ UNCHANGED <<recorded, schema>>
      BY <1>3, <2>1 DEF appliedMigrations, BootGoes, IndInv, Typed
    <2>3. SoleWriter'
      BY <2>2 DEF IndInv, SoleWriter, InTransaction
    <2>4. Known(h)' = 1..Len(schema)
      <3>1. Known(h)' = recorded \cup migrated[h]
        BY <1>3 DEF appliedMigrations, IndInv, Typed, Known
      <3>2. migrated[h] \subseteq 1..Len(schema)
        BY <1>1, <1>2 DEF Known
      <3> QED
        BY <3>1, <3>2 DEF IndInv, Ordered
    <2>5. Len(schema) \in 0..Len(schema)
      BY <1>2
    <2> QED
      BY <2>2, <2>3, <2>4, <2>5, StillKept DEF InTransaction
  <1>4. CASE Execute(h)
    <2>1. Typed' /\ Others /\ boot'[h] = "record"
          /\ UNCHANGED <<recorded, schema, applied, migrated>>
      BY <1>4 DEF Execute, BootGoes, IndInv, Typed
    <2>2. SoleWriter'
      BY <1>4, <2>1 DEF Execute, SoleWriter, Locked, InTransaction
    <2>3. Known(h)' = Known(h) /\ Missing(h)' # {}
      BY <1>4, <2>1 DEF Execute, Known, Missing
    <2> QED
      BY <1>1, <2>1, <2>2, <2>3, StillKept
  <1>5. CASE Record(h)
    <2>1. Typed' /\ Others /\ boot'[h] = "commit"
          /\ UNCHANGED <<recorded, schema, applied, migrated>>
      BY <1>5 DEF Record, BootGoes, IndInv, Typed
    <2>2. SoleWriter'
      BY <1>5, <2>1 DEF Record, BootGoes, IndInv, SoleWriter, InTransaction
    <2>3. Known(h)' = Known(h) /\ Missing(h)' = Missing(h) /\ Pending(h)' = Pending(h)
      BY <2>1 DEF Known, Missing, Pending
    <2>4. Missing(h) # {} /\ Pending(h) \notin recorded
      BY <1>5 DEF Record, BootGoes, IndInv, Transacts, InTransaction
    <2> QED
      BY <1>1, <2>1, <2>2, <2>3, <2>4, StillKept
  <1>6. CASE Migrated(h)
    <2>1. Typed' /\ Others /\ boot'[h] = "ready" /\ UNCHANGED <<recorded, schema>>
      BY <1>6 DEF Migrated, BootGoes, Forget, IndInv, Typed
    <2>2. SoleWriter'
      BY <2>1 DEF IndInv, SoleWriter, InTransaction
    <2>3. Known(h)' = 1..0 /\ 0 \in 0..Len(schema)
      BY <1>2, <1>6 DEF Migrated, Forget, IndInv, Typed, Known
    <2>4. Len(schema) = Migrations
      <3>1. k = Migrations
        BY <1>1, <1>2, <1>6, PendingIsNext DEF Migrated
      <3>2. Len(schema) <= Migrations
        BY DEF IndInv, Ordered
      <3> QED
        BY <1>2, <3>1, <3>2
    <2> QED
      BY <2>1, <2>2, <2>3, <2>4, StillKept DEF InTransaction
  <1> QED
    BY <1>3, <1>4, <1>5, <1>6

\* What is committed is the next migration for everybody: it was not recorded, and
\* nobody else has written since.
LEMMA CommitKeeps ==
    ASSUME IndInv, NEW h \in Hosts, Commit(h)
    PROVE  IndInv'
  <1> DEFINE n == Len(schema)
  <1>1. PICK k \in 0..n : Known(h) = 1..k
    BY DEF IndInv, KnowsBeginning
  <1>2. k \in Nat /\ k <= n /\ n \in Nat /\ k <= Migrations
    BY StoreAssumption DEF IndInv, Typed, Ordered
  <1>3. Pending(h) = n + 1 /\ n < Migrations
    <2>1. Missing(h) # {} /\ Pending(h) \notin 1..n
      BY DEF Commit, BootGoes, IndInv, Ordered, Transacts, InTransaction
    <2>2. k < Migrations /\ Pending(h) = k + 1
      BY <1>1, <1>2, <2>1, PendingIsNext
    <2>3. k = n
      BY <1>2, <2>1, <2>2
    <2> QED
      BY <2>2, <2>3
  <1>4. /\ boot[h] = "commit" /\ boot'[h] = "migrate"
        /\ recorded' = recorded \cup {n + 1} /\ schema' = Append(schema, n + 1)
        /\ migrated' = [migrated EXCEPT ![h] = @ \cup {n + 1}]
        /\ applied' = applied
        /\ boot' = [boot EXCEPT ![h] = "migrate"]
    BY <1>3 DEF Commit, BootGoes, IndInv, Typed
  <1>5. Len(schema') = n + 1 /\ schema' \in Seq(Nat)
    BY <1>2, <1>4, AppendProperties DEF IndInv, Typed
  <1>6. Typed'
    <2>1. n + 1 \in Names
      BY <1>2, <1>3, StoreAssumption DEF Names
    <2> QED
      BY <1>4, <1>5, <2>1 DEF IndInv, Typed
  <1>7. Ordered'
    <2>1. \A i \in 1..Len(schema') : schema'[i] = i
      <3> SUFFICES ASSUME NEW i \in 1..(n + 1) PROVE schema'[i] = i
        BY <1>5
      <3>1. CASE i = n + 1
        BY <1>2, <1>4, <3>1, AppendProperties DEF IndInv, Typed
      <3>2. CASE i \in 1..n
        <4>1. schema[i] = i
          BY <3>2 DEF IndInv, Ordered
        <4> QED
          BY <1>2, <1>4, <3>2, <4>1, AppendProperties DEF IndInv, Typed
      <3> QED
        BY <1>2, <3>1, <3>2
    <2>2. schema' = [i \in 1..Len(schema') |-> schema'[i]]
      BY <1>5
    <2>3. recorded' = 1..Len(schema')
      BY <1>2, <1>4, <1>5 DEF IndInv, Ordered
    <2> QED
      BY <1>2, <1>3, <1>5, <2>1, <2>2, <2>3, StoreAssumption DEF Ordered
  <1>8. KnowsBeginning'
    <2> SUFFICES ASSUME NEW g \in Hosts PROVE \E j \in 0..(n + 1) : Known(g)' = 1..j
      BY <1>5 DEF KnowsBeginning
    <2>1. CASE g = h
      <3>1. Known(h)' = 1..k \cup {n + 1}
        BY <1>1, <1>4 DEF IndInv, Typed, Known
      <3>2. k = n
        BY <1>1, <1>2, <1>3, PendingIsNext DEF Commit, BootGoes, IndInv, Transacts, InTransaction
      <3>3. Known(h)' = 1..(n + 1)
        BY <1>2, <3>1, <3>2
      <3> QED
        BY <1>2, <2>1, <3>3
    <2>2. CASE g # h
      <3>1. Known(g)' = Known(g)
        BY <1>4, <2>2 DEF IndInv, Typed, Known
      <3>2. PICK j \in 0..n : Known(g) = 1..j
        BY DEF IndInv, KnowsBeginning
      <3> QED
        BY <1>2, <3>1, <3>2
    <2> QED
      BY <2>1, <2>2
  <1>9. \A g \in Hosts : ~InTransaction(g)'
    BY <1>4 DEF IndInv, Typed, SoleWriter, InTransaction
  <1>10. SoleWriter' /\ Transacts'
    BY <1>9 DEF SoleWriter, Transacts, InTransaction
  <1>11. Complete'
    <2>1. \A g \in Hosts : boot'[g] # "ready"
      BY <1>2, <1>3, <1>4, StoreAssumption DEF IndInv, Typed, Complete
    <2> QED
      BY <2>1 DEF Complete
  <1> QED
    BY <1>6, <1>7, <1>8, <1>10, <1>11 DEF IndInv

\* Every step of the host is one of its own start, one of another host's, or leaves
\* the store alone.
LEMMA StepOfStore ==
    ASSUME [Next]_vars
    PROVE  \/ UNCHANGED storeVars
           \/ \E h \in Hosts :
                OpenStore(h) \/ Migrate(h) \/ MigrateFails(h) \/ HostGone(h)
  <1>1. CASE Start \/ OtherHost
    BY <1>1, HostAssumption DEF Start, OtherHost, OpenDatabase, MigrateStore, StartPlugin,
       StartChannels
  <1>2. CASE GatewayEnds \/ Shutdown
    BY <1>2, HostAssumption DEF GatewayEnds, Shutdown, CloseChannels, StopPlugin, CloseStore,
       CloseLog
  <1>3. CASE Client \/ \E m \in Messages : TextAnswered(m) \/ TextStep(m)
    BY <1>3 DEF Client, TextAnswered, TextStep
  <1>4. CASE Write \/ Export
    BY <1>4 DEF Write, Export
  <1>5. CASE UNCHANGED vars
    BY <1>5 DEF vars
  <1> QED
    BY <1>1, <1>2, <1>3, <1>4, <1>5 DEF Next

LEMMA Kept == IndInv /\ [Next]_vars => IndInv'
  <1> SUFFICES ASSUME IndInv, [Next]_vars PROVE IndInv' OBVIOUS
  <1>1. CASE UNCHANGED storeVars
    <2>1. Typed' /\ Ordered' /\ KnowsBeginning' /\ SoleWriter' /\ Complete'
      BY <1>1 DEF storeVars, IndInv, Typed, Ordered, KnowsBeginning, Known, SoleWriter,
         Complete, InTransaction
    <2>2. \A h \in Hosts : Missing(h)' = Missing(h) /\ Pending(h)' = Pending(h)
      BY <1>1 DEF storeVars, Missing, Pending
    <2>3. Transacts'
      BY <1>1, <2>2 DEF storeVars, IndInv, Transacts, InTransaction
    <2> QED
      BY <2>1, <2>3 DEF IndInv
  <1>2. CASE \E h \in Hosts : OpenStore(h) \/ Migrate(h) \/ MigrateFails(h) \/ HostGone(h)
    BY <1>2, StartKeeps, MigrateKeeps, CommitKeeps DEF Migrate
  <1> QED
    BY <1>1, <1>2, StepOfStore

\* Each migration takes effect once and in order, exactly when it is recorded, and a
\* host that uses its store has the whole schema: for any number of hosts that
\* start at once, lose the lock, are killed and start again.
THEOREM MigratesOnce == Spec => []MigratedOnce
  <1>1. IndInv => MigratedOnce
    BY DEF IndInv, Ordered, Complete, MigratedOnce
  <1> QED
    BY InitInv, Kept, <1>1, PTL DEF Spec

-----------------------------------------------------------------------------
(* The log *)

Lines == Seq(Nat)

LogTyped ==
    /\ writing \in Nat /\ written \in Nat
    /\ accepted \in Lines /\ handed \in Lines /\ input \in Lines
    /\ buffer \in Lines /\ heldLine \in Lines
    /\ loop \in {"select", "post", "last", "end"}

\* Every accepted line is in one of four places, which follow each other.
Flow == accepted = handed \o buffer \o heldLine \o input

\* A line is held back only for a post, and the loop leaves nothing behind.
LoopLeavesNothing ==
    /\ heldLine # <<>> => loop = "post"
    /\ loop \in {"last", "end"} => inputClosed /\ input = <<>>
    /\ loop = "end" => buffer = <<>>
    /\ closed => loop = "end"

LogInv == LogTyped /\ Flow /\ LoopLeavesNothing

\* The head of one sequence moves to the end of the one before it.
LEMMA MoveHead ==
    ASSUME NEW S, NEW s \in Seq(S), NEW t \in Seq(S), t # <<>>
    PROVE  /\ Append(s, Head(t)) \o Tail(t) = s \o t
           /\ (s \o <<Head(t)>>) \o Tail(t) = s \o t
  <1> DEFINE h == Head(t)
             rest == Tail(t)
  <1>1. h \in S /\ rest \in Seq(S)
    BY HeadTailProperties
  <1> HIDE DEF h, rest
  <1>2. Append(<<>>, h) = <<h>> /\ <<h>> \in Seq(S)
    BY <1>1, EmptySeq, AppendIsConcat
  <1>3. <<h>> \o rest = t
    <2>1. Len(t) = Len(rest) + 1 /\ Len(t) \in Nat /\ Len(rest) \in Nat
      BY <1>1, HeadTailProperties, LenProperties, EmptySeq DEF rest
    <2>2. /\ <<h>> \o rest \in Seq(S) /\ Len(<<h>> \o rest) = 1 + Len(rest)
          /\ \A i \in 1..1 + Len(rest) : (<<h>> \o rest)[i] = IF i <= 1 THEN h ELSE rest[i - 1]
      BY <1>1, <1>2, ConcatProperties
    <2>3. \A i \in 1..Len(rest) : rest[i] = t[i + 1]
      BY HeadTailProperties DEF rest
    <2>4. h = t[1]
      BY DEF h
    <2>5. ASSUME NEW i \in 1..Len(t) PROVE (<<h>> \o rest)[i] = t[i]
      <3>1. CASE i = 1
        BY <2>1, <2>2, <2>4, <3>1
      <3>2. CASE i # 1
        <4>1. i - 1 \in 1..Len(rest) /\ (i - 1) + 1 = i /\ ~(i <= 1) /\ i \in 1..1 + Len(rest)
          BY <2>1, <3>2
        <4> QED
          BY <2>2, <2>3, <4>1
      <3> QED
        BY <3>1, <3>2
    <2> DEFINE joined == <<h>> \o rest
    <2>6. joined \in Seq(S) /\ Len(joined) = Len(t) /\ \A i \in 1..Len(joined) : joined[i] = t[i]
      BY <2>1, <2>2, <2>5
    <2> HIDE DEF joined
    <2>7. joined = t
      BY <2>6, SeqEqual
    <2> QED
      BY <2>7 DEF joined
  <1>4. (s \o <<h>>) \o rest = s \o (<<h>> \o rest)
    BY <1>1, <1>2, ConcatAssociative
  <1>5. Append(s, h) = s \o <<h>>
    BY <1>1, AppendIsConcat
  <1> QED
    BY <1>3, <1>4, <1>5 DEF h, rest

\* A value appended to the last sequence is appended to all.
LEMMA AppendLast ==
    ASSUME NEW S, NEW s \in Seq(S), NEW t \in Seq(S), NEW e \in S
    PROVE  s \o Append(t, e) = Append(s \o t, e)
  <1>1. s \o t \in Seq(S) /\ <<e>> \in Seq(S)
    BY ConcatProperties
  <1>2. Append(t, e) = t \o <<e>> /\ Append(s \o t, e) = (s \o t) \o <<e>>
    BY <1>1, AppendIsConcat
  <1> QED
    BY <1>1, <1>2, ConcatAssociative

LEMMA LogInvInit == Init => LogInv
  <1> SUFFICES ASSUME Init PROVE LogInv
    OBVIOUS
  <1>1. LogTyped /\ LoopLeavesNothing
    BY DEF Init, LogInit, LogTyped, LoopLeavesNothing, Lines
  <1>2. Flow
    BY ConcatEmptySeq, EmptySeq DEF Init, LogInit, Flow
  <1> QED
    BY <1>1, <1>2 DEF LogInv

LEMMA StepOfLog ==
    ASSUME [Next]_vars
    PROVE  UNCHANGED logVars \/ WriteBegins \/ WriteEnds \/ CloseInput \/ CloseDone \/ LogLoop
  <1>1. CASE Start \/ GatewayEnds \/ OtherHost
    BY <1>1 DEF Start, OtherHost, OpenDatabase, MigrateStore, StartPlugin, StartChannels,
       GatewayEnds
  <1>2. CASE Shutdown
    BY <1>2 DEF Shutdown, CloseChannels, StopPlugin, CloseStore, CloseLog
  <1>3. CASE Client \/ \E m \in Messages : TextAnswered(m) \/ TextStep(m)
    BY <1>3 DEF Client, TextAnswered, TextStep
  <1>4. CASE Write \/ Export
    BY <1>4 DEF Write, Export
  <1>5. CASE UNCHANGED vars
    BY <1>5 DEF vars
  <1> QED
    BY <1>1, <1>2, <1>3, <1>4, <1>5 DEF Next

\* A line is accepted into an open channel only.
LEMMA WriterKeeps ==
    ASSUME LogInv, WriteBegins \/ WriteEnds \/ CloseInput \/ CloseDone
    PROVE  LogInv'
  <1> USE DEF LogInv
  <1>1. UNCHANGED <<handed, buffer, heldLine, loop>>
    BY DEF WriteBegins, WriteEnds, CloseInput, CloseDone, loopVars
  <1>2. CASE WriteEnds /\ input' = Append(input, writing) /\ accepted' = Append(accepted, writing)
             /\ ~inputClosed
    <2> DEFINE front == handed \o buffer \o heldLine
    <2>1. front \in Lines
      BY ConcatProperties DEF LogTyped, Lines
    <2> HIDE DEF front
    <2>2. writing \in Nat /\ input \in Seq(Nat) /\ accepted \in Seq(Nat) /\ front \in Seq(Nat)
      BY <2>1 DEF LogTyped, Lines
    <2>3. Append(input, writing) \in Lines /\ Append(accepted, writing) \in Lines
      BY <2>2, AppendProperties DEF Lines
    <2>4. front \o Append(input, writing) = Append(front \o input, writing)
      BY <2>2, AppendLast
    <2>5. accepted' = front \o input'
      BY <1>2, <2>4 DEF Flow, front
    <2>6. Flow'
      BY <1>1, <2>5 DEF Flow, front
    <2>7. LogTyped'
      BY <1>1, <1>2, <2>3 DEF WriteEnds, LogTyped
    <2>8. LoopLeavesNothing'
      BY <1>1, <1>2 DEF WriteEnds, LoopLeavesNothing
    <2> QED
      BY <2>6, <2>7, <2>8
  <1>3. CASE UNCHANGED <<input, accepted>>
    <2>1. Flow'
      BY <1>1, <1>3 DEF Flow
    <2>2. LogTyped'
      BY <1>1, <1>3 DEF WriteBegins, WriteEnds, CloseInput, CloseDone, LogTyped, writeVars
    <2>3. LoopLeavesNothing'
      BY <1>1, <1>3 DEF WriteBegins, WriteEnds, CloseInput, CloseDone, LoopLeavesNothing
    <2> QED
      BY <2>1, <2>2, <2>3
  <1> QED
    BY <1>2, <1>3 DEF WriteBegins, WriteEnds, CloseInput, CloseDone, writeVars

\* The loop moves lines on, in their order.
LEMMA LoopKeeps ==
    ASSUME LogInv, LogLoop
    PROVE  LogInv'
  <1> USE DEF LogInv
  <1>1. UNCHANGED <<accepted, inputClosed, closed, writing, written>>
    BY DEF LogLoop, LoopReceives, LoopTicks, LoopPosted, LoopLeaves, LoopLeavesWhen, writeVars
  <1>2. CASE LoopReceives
    <2> DEFINE front == handed \o buffer
    <2>1. /\ input # <<>> /\ loop = "select" /\ heldLine = <<>> /\ front \in Lines
          /\ input' = Tail(input) /\ handed' = handed
      BY <1>2, ConcatProperties DEF LoopReceives, LoopLeavesNothing, LogTyped, Lines
    <2>2. Head(input) \in Nat /\ Tail(input) \in Lines /\ <<Head(input)>> \in Lines
      BY <2>1, HeadTailProperties DEF LogTyped, Lines
    <2>3. accepted = front \o input
      BY <2>1, ConcatEmptySeq DEF Flow, Lines
    <2>4. CASE buffer' = Append(buffer, Head(input)) /\ UNCHANGED <<loop, heldLine>>
      <3>1. buffer' \in Lines
        BY <2>2, <2>4, AppendProperties DEF LogTyped, Lines
      <3>2. handed \o buffer' = Append(front, Head(input))
        <4>1. handed \in Seq(Nat) /\ buffer \in Seq(Nat)
          BY DEF LogTyped, Lines
        <4>2. handed \o Append(buffer, Head(input)) = Append(handed \o buffer, Head(input))
          BY <2>2, <4>1, AppendLast
        <4> QED
          BY <2>4, <4>2
      <3>3. (handed \o buffer') \o <<>> = handed \o buffer'
        BY <3>1, ConcatProperties, ConcatEmptySeq DEF LogTyped, Lines
      <3>4. accepted = Append(front, Head(input)) \o Tail(input)
        BY <2>1, <2>3, MoveHead DEF LogTyped, Lines
      <3>5. Flow'
        BY <1>1, <2>1, <2>4, <3>2, <3>3, <3>4 DEF Flow
      <3>6. LogTyped'
        BY <1>1, <2>1, <2>2, <2>4, <3>1 DEF LogTyped
      <3>7. LoopLeavesNothing'
        BY <1>1, <2>1, <2>4 DEF LoopLeavesNothing
      <3> QED
        BY <3>5, <3>6, <3>7
    <2>5. CASE loop' = "post" /\ heldLine' = <<Head(input)>> /\ UNCHANGED buffer
      <3>1. accepted = (front \o <<Head(input)>>) \o Tail(input)
        BY <2>1, <2>3, MoveHead DEF LogTyped, Lines
      <3>2. Flow'
        BY <1>1, <2>1, <2>5, <3>1 DEF Flow
      <3>3. LogTyped'
        BY <1>1, <2>1, <2>2, <2>5 DEF LogTyped
      <3>4. LoopLeavesNothing'
        BY <1>1, <2>1, <2>5 DEF LoopLeavesNothing
      <3> QED
        BY <3>2, <3>3, <3>4
    <2> QED
      BY <1>2, <2>4, <2>5 DEF LoopReceives
  <1>3. CASE LoopPosted
    <2> DEFINE front == handed \o buffer
    <2>1. /\ handed' = front /\ buffer' = heldLine /\ heldLine' = <<>> /\ input' = input
          /\ loop \in {"post", "last"} /\ loop' = IF loop = "last" THEN "end" ELSE "select"
      BY <1>3 DEF LoopPosted
    <2>2. front \in Lines /\ front \o heldLine \in Lines
      BY ConcatProperties DEF LogTyped, Lines
    <2>3. (front \o heldLine) \o <<>> = front \o heldLine
      BY <2>2, ConcatEmptySeq DEF Lines
    <2>4. Flow'
      BY <1>1, <2>1, <2>3 DEF Flow
    <2>5. LogTyped'
      BY <1>1, <2>1, <2>2, EmptySeq DEF LogTyped, Lines
    <2>6. LoopLeavesNothing'
      BY <1>1, <2>1 DEF LoopLeavesNothing
    <2> QED
      BY <2>4, <2>5, <2>6
  <1>4. CASE LoopTicks \/ LoopLeaves
    <2>1. UNCHANGED <<handed, buffer, heldLine, input>>
      BY <1>4 DEF LoopTicks, LoopLeaves, LoopLeavesWhen
    <2>2. Flow'
      BY <1>1, <2>1 DEF Flow
    <2>3. LogTyped'
      BY <1>1, <1>4, <2>1 DEF LoopTicks, LoopLeaves, LoopLeavesWhen, LogTyped
    <2>4. LoopLeavesNothing'
      BY <1>1, <1>4, <2>1 DEF LoopTicks, LoopLeaves, LoopLeavesWhen, LoopLeavesNothing
    <2> QED
      BY <2>2, <2>3, <2>4
  <1> QED
    BY <1>2, <1>3, <1>4 DEF LogLoop

LEMMA LogKept == LogInv /\ [Next]_vars => LogInv'
  <1>1. LogInv /\ UNCHANGED logVars => LogInv'
    BY DEF LogInv, LogTyped, Flow, LoopLeavesNothing, logVars, writeVars, loopVars
  <1> QED
    BY <1>1, StepOfLog, WriterKeeps, LoopKeeps

\* Write and the loop of the exporter: no line the channel took is lost, doubled or
\* overtaken, and Close returns only when all were handed to the HTTP client.
THEOREM LinesArrive == Spec => []LinesAccounted
  <1>1. LogInv => LinesAccounted
    <2> SUFFICES ASSUME LogInv, closed PROVE handed = accepted
      BY DEF LogInv, Flow, LinesAccounted
    <2>1. buffer = <<>> /\ heldLine = <<>> /\ input = <<>>
      BY DEF LogInv, LoopLeavesNothing
    <2> QED
      BY <2>1, ConcatEmptySeq DEF LogInv, LogTyped, Flow, Lines
  <1> QED
    BY LogInvInit, LogKept, <1>1, PTL DEF Spec

-----------------------------------------------------------------------------
(* The channel *)

Raises(e) == e = "connected"
Lowers(e) == e \in {"disconnected", "logged out"}

Events == {"connected", "disconnected", "logged out"} \cup Messages

ChanTyped ==
    /\ phase \in {"new", "enabled", "starting", "created", "linked", "shown", "kept",
                  "failing", "started", "failed", "closing", "detached", "unlinked", "closed"}
    /\ closer \in BOOLEAN /\ handler \in BOOLEAN
    /\ events \in Seq(Events)

\* The client has a handler from NewAdapter until Detach, and a closer that is kept
\* stands for such a client.
Handles ==
    /\ handler <=> \/ phase \in {"created", "linked", "shown", "kept", "closing"}
                   \/ phase = "started" /\ closer
    /\ closer => phase \in {"kept", "started"}
    /\ phase = "kept" => closer

Unlinked ==
    /\ phase \in {"new", "enabled", "starting", "created", "failing", "failed",
                  "unlinked", "closed"} => link = "off"
    /\ phase = "started" /\ ~closer => link = "off"

\* What the status says when it is not the client that says it.
Says ==
    /\ status.connected => status.running
    /\ phase \in {"closed", "failed"} => ~status.running
    /\ phase = "failed" => status.error

\* Behind every event that lowers the status is one that raises it.
Announced(seq) ==
    \A i \in 1..Len(seq) : Lowers(seq[i]) => \E j \in 1..Len(seq) : i < j /\ Raises(seq[j])

Raised(seq) == \E i \in 1..Len(seq) : Raises(seq[i])

\* A link that is up was reported after all else, and the status is raised or is
\* going to be.
UpComes ==
    link = "up" =>
        /\ Announced(events)
        /\ phase \in {"shown", "kept", "started"} => status.connected \/ Raised(events)

ChanInv == ChanTyped /\ Handles /\ Unlinked /\ Says /\ UpComes

LEMMA AppendEvent ==
    ASSUME NEW S, NEW seq \in Seq(S), NEW e \in S
    PROVE  /\ Raises(e) => Announced(Append(seq, e)) /\ Raised(Append(seq, e))
           /\ ~Lowers(e) /\ Announced(seq) => Announced(Append(seq, e))
           /\ Raised(seq) => Raised(Append(seq, e))
  <1> DEFINE new == Append(seq, e)
             n == Len(seq)
  <1>1. /\ Len(new) = n + 1 /\ n \in Nat
        /\ \A i \in 1..n : new[i] = seq[i]
        /\ new[n + 1] = e
    BY AppendProperties, LenProperties
  <1> HIDE DEF new, n
  <1>2. Raises(e) => Raised(new)
    BY <1>1 DEF Raised
  <1>3. Raises(e) => Announced(new)
    <2>1. Raises(e) => ~Lowers(e)
      BY DEF Raises, Lowers
    <2> QED
      BY <1>1, <2>1 DEF Announced
  <1>4. ~Lowers(e) /\ Announced(seq) => Announced(new)
    <2> SUFFICES ASSUME ~Lowers(e), Announced(seq), NEW i \in 1..(n + 1), Lowers(new[i])
                 PROVE  \E j \in 1..(n + 1) : i < j /\ Raises(new[j])
      BY <1>1 DEF Announced
    <2>1. i \in 1..n /\ Lowers(seq[i])
      BY <1>1
    <2>2. PICK j \in 1..n : i < j /\ Raises(seq[j])
      BY <2>1 DEF Announced, n
    <2> QED
      BY <1>1, <2>2
  <1>5. Raised(seq) => Raised(new)
    <2> SUFFICES ASSUME NEW i \in 1..n, Raises(seq[i]) PROVE Raised(new)
      BY DEF Raised, n
    <2> QED
      BY <1>1 DEF Raised
  <1> QED
    BY <1>2, <1>3, <1>4, <1>5 DEF new

LEMMA TailEvent ==
    ASSUME NEW S, NEW seq \in Seq(S), seq # <<>>
    PROVE  /\ Announced(seq) => Announced(Tail(seq))
           /\ Announced(seq) /\ Lowers(Head(seq)) => Raised(Tail(seq))
           /\ Raised(seq) => Raises(Head(seq)) \/ Raised(Tail(seq))
  <1> DEFINE rest == Tail(seq)
             n == Len(seq)
  <1>1. /\ Len(rest) = n - 1 /\ n \in Nat /\ n >= 1
        /\ \A i \in 1..(n - 1) : rest[i] = seq[i + 1]
        /\ Head(seq) = seq[1]
    BY HeadTailProperties, LenProperties, EmptySeq
  <1> HIDE DEF rest, n
  <1>2. \A j \in 1..n : j > 1 => j - 1 \in 1..(n - 1) /\ rest[j - 1] = seq[j]
    BY <1>1
  <1>3. Announced(seq) => Announced(rest)
    <2> SUFFICES ASSUME Announced(seq), NEW i \in 1..(n - 1), Lowers(rest[i])
                 PROVE  \E j \in 1..(n - 1) : i < j /\ Raises(rest[j])
      BY <1>1 DEF Announced
    <2>1. i + 1 \in 1..n /\ Lowers(seq[i + 1])
      BY <1>1
    <2>2. PICK j \in 1..n : i + 1 < j /\ Raises(seq[j])
      BY <2>1 DEF Announced, n
    <2>3. j - 1 \in 1..(n - 1) /\ i < j - 1 /\ Raises(rest[j - 1])
      BY <1>1, <1>2, <2>2
    <2> QED
      BY <2>3
  <1>4. Announced(seq) /\ Lowers(seq[1]) => Raised(rest)
    <2> SUFFICES ASSUME Announced(seq), Lowers(seq[1]) PROVE Raised(rest)
      OBVIOUS
    <2>1. PICK j \in 1..n : 1 < j /\ Raises(seq[j])
      BY <1>1 DEF Announced, n
    <2>2. j - 1 \in 1..(n - 1) /\ Raises(rest[j - 1])
      BY <1>2, <2>1
    <2> QED
      BY <1>1, <2>2 DEF Raised
  <1>5. Raised(seq) => Raises(seq[1]) \/ Raised(rest)
    <2> SUFFICES ASSUME NEW j \in 1..n, Raises(seq[j]), j # 1 PROVE Raised(rest)
      BY DEF Raised, n
    <2>1. j - 1 \in 1..(n - 1) /\ Raises(rest[j - 1])
      BY <1>2
    <2> QED
      BY <1>1, <2>1 DEF Raised
  <1> QED
    BY <1>1, <1>3, <1>4, <1>5 DEF rest

LEMMA ChanInit == Init => ChanInv
  <1> SUFFICES ASSUME Init PROVE ChanInv
    OBVIOUS
  <1>1. ChanTyped /\ Handles /\ Unlinked /\ Says /\ UpComes
    BY EmptySeq DEF Init, ChannelInit, ChanTyped, Handles, Unlinked, Says, UpComes
  <1> QED
    BY <1>1 DEF ChanInv

LEMMA StepOfChannel ==
    ASSUME [Next]_vars
    PROVE  \/ UNCHANGED <<phase, statusVars, clientVars>>
           \/ StartStep \/ CloseStep
           \/ LinkChange \/ HandleEvent \/ \E m \in Messages : Arrives(m)
  <1>1. CASE Start \/ GatewayEnds \/ OtherHost
    BY <1>1 DEF Start, OtherHost, OpenDatabase, MigrateStore, StartPlugin, StartChannels,
       GatewayEnds, channelVars
  <1>2. CASE Shutdown
    BY <1>2 DEF Shutdown, CloseChannels, StopPlugin, CloseStore, CloseLog, channelVars
  <1>3. CASE Client \/ \E m \in Messages : TextAnswered(m) \/ TextStep(m)
    BY <1>3 DEF Client, TextAnswered, TextStep, Answered, RespondFails, SendReply, MessageGoes
  <1>4. CASE Write \/ Export
    BY <1>4 DEF Write, Export, channelVars
  <1>5. CASE UNCHANGED vars
    BY <1>5 DEF vars, channelVars
  <1> QED
    BY <1>1, <1>2, <1>3, <1>4, <1>5 DEF Next

\* Start takes its steps while the link is off, except for what the client reports
\* once it is connected.
LEMMA StartKeepsChannel == ChanInv /\ StartStep => ChanInv'
  <1> SUFFICES ASSUME ChanInv, StartStep PROVE ChanInv'
    OBVIOUS
  <1> USE DEF ChanInv
  <1>1. CASE StartEnabled \/ StartDisabled \/ StartWhatsApp \/ NewAdapterFails \/ FailStart
    BY <1>1 DEF StartEnabled, StartDisabled, StartWhatsApp, NewAdapterFails, FailStart,
       MarkDisconnected, SetStatus, Step, ChanTyped, Handles, Unlinked, Says, UpComes
  <1>2. CASE NewAdapter \/ ConnectFails
    <2>1. ChanTyped' /\ Unlinked'
      BY <1>2 DEF NewAdapter, ConnectFails, Step, statusVars, ChanTyped, Unlinked
    <2>2. Handles'
      BY <1>2 DEF NewAdapter, ConnectFails, Step, statusVars, Handles
    <2>3. Says' /\ UpComes'
      BY <1>2 DEF NewAdapter, ConnectFails, MarkDisconnected, SetStatus, Step, statusVars,
         Says, UpComes
    <2> QED
      BY <2>1, <2>2, <2>3
  <1>3. CASE ShowConnected
    BY <1>3 DEF ShowConnected, MarkConnected, SetStatus, Step, ChanTyped, Handles, Unlinked,
       Says, UpComes
  <1>4. CASE KeepCloser
    BY <1>4 DEF KeepCloser, Step, ChanTyped, Handles, Unlinked, Says, UpComes
  <1>5. CASE ShowRunning
    <2>1. ChanTyped' /\ Handles' /\ Unlinked'
      BY <1>5 DEF ShowRunning, ShowRunningWith, Step, ChanTyped, Handles, Unlinked
    <2>2. Says' /\ UpComes'
      BY <1>5 DEF ShowRunning, ShowRunningWith, SetStatus, Step, Says, UpComes
    <2> QED
      BY <2>1, <2>2
  <1>6. CASE Connect
    <2>1. /\ phase = "created" /\ phase' = "linked" /\ link = "off"
          /\ UNCHANGED <<status, closer, handler>>
          /\ \/ link' = "pairing" /\ UNCHANGED events
             \/ link' = "up" /\ events' = Append(events, "connected")
      BY <1>6 DEF Connect, Step, statusVars, Unlinked
    <2>2. link' = "up" => Announced(events')
      <3>1. "connected" \in Events /\ Raises("connected")
        BY DEF Events, Raises
      <3> QED
        BY <2>1, <3>1, AppendEvent DEF ChanTyped
    <2>3. events' \in Seq(Events)
      <3>1. "connected" \in Events
        BY DEF Events
      <3> QED
        BY <2>1, <3>1, AppendProperties DEF ChanTyped
    <2>4. ChanTyped' /\ Handles' /\ Unlinked' /\ Says'
      BY <2>1, <2>3 DEF ChanTyped, Handles, Unlinked, Says
    <2>5. UpComes'
      BY <2>1, <2>2 DEF UpComes
    <2> QED
      BY <2>4, <2>5
  <1> QED
    BY <1>1, <1>2, <1>3, <1>4, <1>5, <1>6 DEF StartStep

\* Close takes the handler away, then the link, and only then shows the end.
LEMMA CloseKeepsChannel == ChanInv /\ CloseStep => ChanInv'
  <1> SUFFICES ASSUME ChanInv, CloseStep PROVE ChanInv'
    OBVIOUS
  <1> USE DEF ChanInv, CloseStep
  <1>1. ChanTyped'
    BY DEF TakeClosers, Detach, Disconnect, ShowClosed, Step, statusVars, ChanTyped
  <1>2. Handles'
    <2>1. CASE TakeClosers
      BY <2>1 DEF TakeClosers, Step, Handles
    <2>2. CASE Detach
      BY <2>2 DEF Detach, Step, statusVars, Handles
    <2>3. CASE Disconnect
      BY <2>3 DEF Disconnect, Step, statusVars, Handles
    <2>4. CASE ShowClosed
      BY <2>4 DEF ShowClosed, Step, Handles
    <2> QED
      BY <2>1, <2>2, <2>3, <2>4
  <1>3. Unlinked'
    BY DEF TakeClosers, Detach, Disconnect, ShowClosed, Step, statusVars, Handles, Unlinked
  <1>4. Says'
    BY DEF TakeClosers, Detach, Disconnect, ShowClosed, SetStatus, Step, statusVars, Says
  <1>5. UpComes'
    BY DEF TakeClosers, Detach, Disconnect, ShowClosed, Step, UpComes
  <1> QED
    BY <1>1, <1>2, <1>3, <1>4, <1>5

\* The link never comes up without an event behind all others.
LEMMA LinkKeeps == ChanInv /\ LinkChange => ChanInv'
  <1> SUFFICES ASSUME ChanInv, LinkChange PROVE ChanInv'
    OBVIOUS
  <1> USE DEF ChanInv
  <1>1. PICK e \in {"connected", "disconnected", "logged out"} :
          /\ events' = Append(events, e)
          /\ link' = "up" => Raises(e)
          /\ link # "off" /\ link' # "off"
    BY DEF LinkChange, LinkChanges, Raises
  <1>2. UNCHANGED <<phase, status, closer, handler>>
    BY DEF LinkChange, LinkChanges, statusVars
  <1>3. events' \in Seq(Events)
        /\ (Raises(e) => Announced(events') /\ Raised(events'))
    <2>1. e \in Events
      BY DEF Events
    <2> QED
      BY <1>1, <2>1, AppendProperties, AppendEvent DEF ChanTyped
  <1>4. ChanTyped' /\ Handles' /\ Unlinked' /\ Says'
    BY <1>1, <1>2, <1>3 DEF ChanTyped, Handles, Unlinked, Says
  <1>5. UpComes'
    BY <1>1, <1>3 DEF UpComes
  <1> QED
    BY <1>4, <1>5

\* A text says nothing of the link.
LEMMA ArrivesKeeps == ChanInv /\ (\E m \in Messages : Arrives(m)) => ChanInv'
  <1> SUFFICES ASSUME ChanInv, NEW m \in Messages, Arrives(m) PROVE ChanInv'
    OBVIOUS
  <1> USE DEF ChanInv
  <1>1. UNCHANGED <<phase, status, closer, handler, link>> /\ events' = Append(events, m)
    BY DEF Arrives, statusVars
  <1>2. ~Lowers(m)
    BY ChannelAssumption DEF Lowers
  <1>3. events' \in Seq(Events)
        /\ (Announced(events) => Announced(events')) /\ (Raised(events) => Raised(events'))
    <2>1. m \in Events
      BY DEF Events
    <2> QED
      BY <1>1, <1>2, <2>1, AppendProperties, AppendEvent DEF ChanTyped
  <1>4. ChanTyped' /\ Handles' /\ Unlinked' /\ Says'
    BY <1>1, <1>3 DEF ChanTyped, Handles, Unlinked, Says
  <1>5. UpComes'
    BY <1>1, <1>3 DEF UpComes
  <1> QED
    BY <1>4, <1>5

\* An event that lowers the status of a link that is up leaves one that raises it.
LEMMA HandleKeeps == ChanInv /\ HandleEvent => ChanInv'
  <1> SUFFICES ASSUME ChanInv, HandleEvent PROVE ChanInv'
    OBVIOUS
  <1> USE DEF ChanInv
  <1> DEFINE e == Head(events)
  <1>1. UNCHANGED <<phase, closer, handler, link>> /\ events # <<>> /\ events' = Tail(events)
    BY DEF HandleEvent
  <1>2. e \in Events
        /\ events' \in Seq(Events)
    BY <1>1, HeadTailProperties DEF ChanTyped
  <1>3. /\ Announced(events) => Announced(events')
        /\ Announced(events) /\ Lowers(e) => Raised(events')
        /\ Raised(events) => Raises(e) \/ Raised(events')
    BY <1>1, TailEvent DEF ChanTyped
  <1>4. \/ UNCHANGED status /\ (~handler \/ e \in Messages)
        \/ handler /\ Raises(e) /\ status' = [running |-> TRUE, connected |-> TRUE, error |-> FALSE]
        \/ handler /\ Lowers(e) /\ status' = [running |-> FALSE, connected |-> FALSE, error |-> TRUE]
    BY DEF HandleEvent, MarkConnected, MarkDisconnected, SetStatus, Raises, Lowers
  <1>5. e \in Messages => ~Raises(e)
    BY ChannelAssumption DEF Raises
  <1> HIDE DEF e
  <1>6. ChanTyped' /\ Handles' /\ Unlinked'
    BY <1>1, <1>2 DEF ChanTyped, Handles, Unlinked
  <1>7. Says'
    BY <1>1, <1>4 DEF Says, Handles
  <1>8. link = "up" /\ phase \in {"shown", "kept", "started"} => handler
    BY DEF ChanTyped, Handles, Unlinked
  <1>9. UpComes'
    BY <1>1, <1>3, <1>4, <1>5, <1>8 DEF UpComes
  <1> QED
    BY <1>6, <1>7, <1>9

LEMMA ChanKept == ChanInv /\ [Next]_vars => ChanInv'
  <1>1. ChanInv /\ UNCHANGED <<phase, statusVars, clientVars>> => ChanInv'
    BY DEF ChanInv, ChanTyped, Handles, Unlinked, Says, UpComes, statusVars, clientVars
  <1> QED
    BY <1>1, StepOfChannel, StartKeepsChannel, CloseKeepsChannel, LinkKeeps, ArrivesKeeps,
       HandleKeeps

\* Close and a Start that fails: no handler, no link and no raised status is left,
\* whatever events are still to come.
THEOREM ClosedIsOff == Spec => []OffMeansOff
  <1>1. ChanInv => OffMeansOff
    BY DEF ChanInv, Handles, Unlinked, Says, OffMeansOff
  <1> QED
    BY ChanInit, ChanKept, <1>1, PTL DEF Spec

\* startWhatsApp and handleEvent: a link that is up is shown once its events are
\* handled, in whatever order they came between the steps of Start.
THEOREM LinkIsShown == Spec => []UpIsShown
  <1>1. ChanInv => UpIsShown
    <2>1. events = <<>> => ~Raised(events)
      BY DEF Raised
    <2> QED
      BY <2>1 DEF ChanInv, Says, UpComes, UpIsShown
  <1> QED
    BY ChanInit, ChanKept, <1>1, PTL DEF Spec
=============================================================================
