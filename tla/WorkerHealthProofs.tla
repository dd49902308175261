------------------------- MODULE WorkerHealthProofs -------------------------
(***************************************************************************)
(* Proofs about start-up and the heartbeat, for every number of processes, *)
(* migrations and faults and for every interval that fits the freshness    *)
(* rule.                                                                   *)
(***************************************************************************)
EXTENDS WorkerHealth, TLAPS

LEMMA ScriptType ==
  /\ Migration \subseteq Nat \ {0}
  /\ \A m \in Migration : Script[m] \in Nat \ {0}
BY MigrationsAssumption DEF Migration

LEMMA StatementIs ==
  ASSUME NEW m \in Migration, NEW k \in 1 .. Script[m]
  PROVE  <<m, k>> \in Statement
BY DEF Statement

\* With every migration recorded, every statement has run.
LEMMA RecordedIsComplete ==
  ASSUME MInv, applied = Migration
  PROVE  ran = Statement
<1>1. ran \subseteq Statement
  BY DEF MInv, MTypeOK
<1>2. ASSUME NEW x \in Statement PROVE x \in ran
  <2>1. PICK m \in Migration : x \in {m} \X (1 .. Script[m])
    BY DEF Statement
  <2>2. x = <<m, x[2]>> /\ x[2] \in 1 .. Script[m]
    BY <2>1
  <2> QED BY <2>2 DEF MInv
<1> QED BY <1>1, <1>2

\* The end of a turn of the loop, with everything up to file m recorded.
LEMMA NextFileInv ==
  ASSUME MInv, NEW p \in Process, NEW m \in Nat, NEW known \in SUBSET Migration,
         NextFile(p, m, known),
         ran' = ran, faults' = faults,
         applied' \subseteq Migration, applied \subseteq applied',
         known \subseteq applied',
         \A n \in Migration : n <= m => n \in applied',
         \A n \in applied' : \A k \in 1 .. Script[n] : <<n, k>> \in ran
  PROVE  MInv'
<1> USE ScriptType
<1>1. CASE ~(\E n \in Migration \ known : n > m)
  <2>1. Leave(p, "migrated")
    BY <1>1 DEF NextFile, Migration
  <2>2. applied' = Migration
    BY <1>1 DEF Migration
  <2>3. MTypeOK'
    BY <2>1 DEF MInv, MTypeOK, Leave, Go, Place, Migrating
  <2>4. ASSUME NEW q \in Process, at'[q] \in {"run", "record"} PROVE InLoop(q)'
    BY <2>1, <2>4 DEF MInv, MTypeOK, Leave, Go, InLoop
  <2>5. \A q \in Process : Up(q)' => applied' = Migration
    BY <2>2
  <2> QED BY <2>3, <2>4, <2>5 DEF MInv, Migration
<1>2. CASE \E n \in Migration \ known : n > m
  <2>1. PICK n \in Migration \ known :
          /\ n > m
          /\ \A o \in Migration \ known : o > m => n <= o
          /\ Go(p, "run")
          /\ done' = [done EXCEPT ![p] = known]
          /\ next' = [next EXCEPT ![p] = <<n, 1>>]
    BY <1>2 DEF NextFile
  <2>2. n \in Nat /\ Script[n] \in Nat \ {0}
    OBVIOUS
  <2>3. MTypeOK'
    BY <2>1, <2>2 DEF MInv, MTypeOK, Go, Place, Migrating
  <2>4. InLoop(p)'
    <3>1. next'[p] = <<n, 1>> /\ done'[p] = known /\ at'[p] = "run"
      BY <2>1 DEF MInv, MTypeOK, Go
    <3>2. \A o \in Migration : o < n => o \in applied'
      BY <2>1, <2>2
    <3> QED BY <3>1, <3>2, <2>2 DEF InLoop, Migration
  <2>5. ASSUME NEW q \in Process, q # p, at'[q] \in {"run", "record"} PROVE InLoop(q)'
    <3>1. at'[q] = at[q] /\ next'[q] = next[q] /\ done'[q] = done[q]
      BY <2>1, <2>5 DEF MInv, MTypeOK, Go
    <3>2. InLoop(q)
      BY <3>1, <2>5 DEF MInv
    <3> QED BY <3>1, <3>2 DEF InLoop, Migration
  <2>6. ASSUME NEW q \in Process, Up(q)' PROVE applied' = Migration
    <3>1. Up(q)
      BY <2>1, <2>6 DEF MInv, MTypeOK, Go, Up
    <3> QED BY <3>1 DEF MInv
  <2> QED BY <2>3, <2>4, <2>5, <2>6 DEF MInv, Migration
<1> QED BY <1>1, <1>2

LEMMA MInvInit == MInit => MInv
BY MigrationsAssumption
DEF MInit, MInv, MTypeOK, Place, Migrating, Up, InLoop

\* A process that is not in the loop afterwards, and up only if it was up.
LEMMA MoveInv ==
  ASSUME MInv, NEW p \in Process, NEW place \in Place,
         at' = [at EXCEPT ![p] = place],
         place \notin {"run", "record"},
         place \in {"migrated", "idle", "busy"} => Up(p),
         ran' = ran, applied' = applied, faults' \in 0 .. MaxFaults,
         done' \in [Process -> SUBSET Migration], next' \in [Process -> Nat \X Nat],
         \A q \in Process : q # p => done'[q] = done[q] /\ next'[q] = next[q]
  PROVE  MInv'
<1>1. MTypeOK'
  BY DEF MInv, MTypeOK, Migration, Statement
<1>2. ASSUME NEW q \in Process, at'[q] \in {"run", "record"} PROVE InLoop(q)'
  <2>1. q # p /\ at'[q] = at[q]
    BY <1>2 DEF MInv, MTypeOK
  <2>2. InLoop(q) /\ done'[q] = done[q] /\ next'[q] = next[q]
    BY <2>1, <1>2 DEF MInv
  <2> QED BY <2>1, <2>2 DEF InLoop, Migration
<1>3. ASSUME NEW q \in Process, Up(q)' PROVE applied' = Migration
  <2>1. Up(q)
    BY <1>3 DEF MInv, MTypeOK, Up
  <2> QED BY <2>1 DEF MInv
<1> QED BY <1>1, <1>2, <1>3 DEF MInv, Migration
\* What the loop knows of the file it is at.
LEMMA LoopFacts ==
  ASSUME MInv, NEW p \in Process, at[p] \in {"run", "record"}
  PROVE  \E m \in Migration, k \in Nat :
           /\ next[p] = <<m, k>>
           /\ done[p] \subseteq applied
           /\ \A n \in Migration : n < m => n \in applied
           /\ \A i \in 1 .. Script[m] : i < k => <<m, i>> \in ran
           /\ 1 <= k /\ k <= Script[m] + 1
           /\ at[p] = "run" => k <= Script[m]
           /\ at[p] = "record" => k = Script[m] + 1
<1>1. InLoop(p) /\ next[p] \in Nat \X Nat
  BY DEF MInv, MTypeOK
<1>2. PICK m \in Nat, k \in Nat : next[p] = <<m, k>>
  BY <1>1
<1>3. /\ m \in Migration /\ k \in 1 .. Script[m] + 1
      /\ done[p] \subseteq applied
      /\ \A n \in Migration : n < m => n \in applied
      /\ \A i \in 1 .. Script[m] : i < k => <<m, i>> \in ran
      /\ at[p] = "run" => k <= Script[m]
      /\ at[p] = "record" => k = Script[m] + 1
  BY <1>1, <1>2 DEF InLoop
<1>4. Script[m] \in Nat
  BY <1>3, ScriptType
<1> QED BY <1>2, <1>3, <1>4

\* run_migrations raised, or the process ended.
LEMMA LeaveInv ==
  ASSUME MInv, NEW p \in Process, Leave(p, "down") \/ Leave(p, "stopped"),
         ran' = ran, applied' = applied, faults' \in 0 .. MaxFaults
  PROVE  MInv'
<1> DEFINE place == IF Leave(p, "down") THEN "down" ELSE "stopped"
<1>1. /\ at' = [at EXCEPT ![p] = place]
      /\ done' = [done EXCEPT ![p] = {}]
      /\ next' = [next EXCEPT ![p] = <<0, 0>>]
  BY DEF Leave, Go
<1>2. place \in Place /\ place \in {"down", "stopped"}
  BY DEF Place
<1>3. /\ done' \in [Process -> SUBSET Migration] /\ next' \in [Process -> Nat \X Nat]
      /\ \A q \in Process : q # p => done'[q] = done[q] /\ next'[q] = next[q]
  BY <1>1 DEF MInv, MTypeOK
<1> HIDE DEF place
<1> QED BY <1>1, <1>2, <1>3, MoveInv

LEMMA MInvNext ==
  ASSUME MInv, NEW p \in Process,
         \/ Boot(p) \/ Migrate(p) \/ Kill(p) \/ Halt(p)
         \/ /\ Up(p)
            /\ Go(p, "idle") \/ Go(p, "busy")
            /\ UNCHANGED <<ran, applied, done, next, faults>>
  PROVE  MInv'
<1> USE ScriptType
<1>1. CASE Boot(p)
  <2>1. /\ at' = [at EXCEPT ![p] = "read"] /\ "read" \in Place
        /\ "read" \notin {"run", "record"} /\ "read" \notin {"migrated", "idle", "busy"}
        /\ ran' = ran /\ applied' = applied /\ faults' = faults
        /\ done' = done /\ next' = next
    BY <1>1 DEF Boot, Go, Place, Migrating
  <2>2. /\ faults' \in 0 .. MaxFaults
        /\ done' \in [Process -> SUBSET Migration] /\ next' \in [Process -> Nat \X Nat]
        /\ \A q \in Process : q # p => done'[q] = done[q] /\ next'[q] = next[q]
    BY <2>1 DEF MInv, MTypeOK
  <2> QED BY <2>1, <2>2, MoveInv
<1>2. CASE ReadApplied(p)
  <2>1. NextFile(p, 0, applied)
    BY <1>2 DEF ReadApplied
  <2>2. /\ ran' = ran /\ applied' = applied /\ faults' = faults
        /\ applied \in SUBSET Migration
        /\ \A n \in Migration : n <= 0 => n \in applied
        /\ \A n \in applied : \A k \in 1 .. Script[n] : <<n, k>> \in ran
    BY <1>2 DEF ReadApplied, MInv, MTypeOK
  <2> QED BY <2>1, <2>2, NextFileInv
<1>3. CASE Execute(p)
  <2>1. at[p] = "run"
    BY <1>3 DEF Execute
  <2>2. PICK m \in Migration, k \in Nat :
          /\ next[p] = <<m, k>>
          /\ done[p] \subseteq applied
          /\ \A n \in Migration : n < m => n \in applied
          /\ \A i \in 1 .. Script[m] : i < k => <<m, i>> \in ran
          /\ 1 <= k /\ k <= Script[m]
    BY <2>1, LoopFacts
  <2>3. m \in Nat /\ Script[m] \in Nat /\ <<m, k>> \in Statement
    BY <2>2, StatementIs
  <2>4. CASE next[p] \in ran
    BY <1>3, <2>4, LeaveInv DEF Execute, MInv, MTypeOK
  <2>5. CASE next[p] \notin ran
    <3>1. /\ ran' = ran \cup {<<m, k>>}
          /\ next' = [next EXCEPT ![p] = <<m, k + 1>>]
          /\ at' = [at EXCEPT ![p] = IF k = Script[m] THEN "record" ELSE "run"]
          /\ UNCHANGED <<done, applied, faults>>
      BY <1>3, <2>2, <2>5 DEF Execute, Go
    <3>2. MTypeOK'
      BY <2>2, <2>3, <3>1 DEF MInv, MTypeOK, Place, Migrating, Migration, Statement
    <3>3. InLoop(p)'
      <4>1. /\ next'[p] = <<m, k + 1>> /\ done'[p] = done[p]
            /\ at'[p] = IF k = Script[m] THEN "record" ELSE "run"
        BY <3>1 DEF MInv, MTypeOK
      <4>2. \A i \in 1 .. Script[m] : i < k + 1 => <<m, i>> \in ran'
        <5> SUFFICES ASSUME NEW i \in 1 .. Script[m], i < k + 1 PROVE <<m, i>> \in ran'
          OBVIOUS
        <5> QED BY <2>2, <2>3, <3>1
      <4>3. /\ k + 1 \in 1 .. Script[m] + 1
            /\ at'[p] = "run" => k + 1 <= Script[m]
            /\ at'[p] = "record" => k + 1 = Script[m] + 1
        BY <2>2, <2>3, <4>1
      <4> QED BY <2>2, <3>1, <4>1, <4>2, <4>3 DEF InLoop, Migration
    <3>4. ASSUME NEW q \in Process, q # p, at'[q] \in {"run", "record"} PROVE InLoop(q)'
      <4>1. at'[q] = at[q] /\ next'[q] = next[q] /\ done'[q] = done[q]
        BY <3>1, <3>4 DEF MInv, MTypeOK
      <4>2. InLoop(q)
        BY <4>1, <3>4 DEF MInv
      <4> QED BY <3>1, <4>1, <4>2 DEF InLoop, Migration
    <3>5. ASSUME NEW q \in Process, Up(q)' PROVE applied' = Migration
      <4>1. Up(q)
        BY <3>1, <3>5 DEF MInv, MTypeOK, Up
      <4> QED BY <3>1, <4>1 DEF MInv
    <3> QED BY <3>1, <3>2, <3>3, <3>4, <3>5 DEF MInv, Migration
  <2> QED BY <2>4, <2>5
<1>4. CASE Record(p)
  <2>1. at[p] = "record"
    BY <1>4 DEF Record
  <2>2. PICK m \in Migration, k \in Nat :
          /\ next[p] = <<m, k>>
          /\ done[p] \subseteq applied
          /\ \A n \in Migration : n < m => n \in applied
          /\ \A i \in 1 .. Script[m] : i < k => <<m, i>> \in ran
          /\ k = Script[m] + 1
    BY <2>1, LoopFacts
  <2>3. m \in Nat /\ Script[m] \in Nat
    OBVIOUS
  <2>4. \A i \in 1 .. Script[m] : <<m, i>> \in ran
    BY <2>2, <2>3
  <2>5. CASE m \in applied
    BY <1>4, <2>2, <2>5, LeaveInv DEF Record, MInv, MTypeOK
  <2>6. CASE m \notin applied
    <3>1. /\ applied' = applied \cup {m} /\ ran' = ran /\ faults' = faults
          /\ NextFile(p, m, done[p])
      BY <1>4, <2>2, <2>6 DEF Record
    <3>2. ASSUME NEW n \in Migration, n <= m PROVE n \in applied'
      <4>1. n \in Nat
        OBVIOUS
      <4>2. n < m \/ n = m
        BY <2>3, <3>2, <4>1
      <4> QED BY <2>2, <3>1, <4>2
    <3>3. done[p] \in SUBSET Migration /\ done[p] \subseteq applied'
      BY <2>2, <3>1 DEF MInv, MTypeOK
    <3>4. applied' \subseteq Migration /\ applied \subseteq applied'
      BY <2>2, <3>1 DEF MInv, MTypeOK
    <3>5. \A n \in applied' : \A i \in 1 .. Script[n] : <<n, i>> \in ran
      BY <2>4, <3>1 DEF MInv
    <3> QED BY <2>3, <3>1, <3>2, <3>3, <3>4, <3>5, NextFileInv
  <2> QED BY <2>5, <2>6
<1>5. CASE Kill(p)
  <2>1. faults' \in 0 .. MaxFaults
    BY <1>5, MigrationsAssumption DEF Kill, MInv, MTypeOK
  <2> QED BY <1>5, <2>1, LeaveInv DEF Kill
<1>6. CASE Halt(p)
  <2>1. faults' \in 0 .. MaxFaults
    BY <1>6 DEF Halt, MInv, MTypeOK
  <2> QED BY <1>6, <2>1, LeaveInv DEF Halt
<1>7. CASE /\ Up(p)
           /\ Go(p, "idle") \/ Go(p, "busy")
           /\ UNCHANGED <<ran, applied, done, next, faults>>
  <2>1. PICK place \in {"idle", "busy"} : at' = [at EXCEPT ![p] = place]
    BY <1>7 DEF Go
  <2>2. place \in Place
    BY DEF Place
  <2>3. /\ faults' \in 0 .. MaxFaults
        /\ done' \in [Process -> SUBSET Migration] /\ next' \in [Process -> Nat \X Nat]
        /\ \A q \in Process : q # p => done'[q] = done[q] /\ next'[q] = next[q]
    BY <1>7 DEF MInv, MTypeOK
  <2> QED BY <1>7, <2>1, <2>2, <2>3, MoveInv
<1> QED BY <1>1, <1>2, <1>3, <1>4, <1>5, <1>6, <1>7 DEF Migrate
-----------------------------------------------------------------------------
LEMMA Numbers ==
  /\ Interval \in Nat \ {0} /\ Fresh \in Nat \ {0} /\ Patience \in Nat \ {0}
  /\ Interval + 2 * Patience < Fresh
  /\ Interval \in Age /\ Patience \in Age /\ 0 \in Age
BY HealthAssumption DEF Age

LEMMA ThreadType ==
  ASSUME HTypeOK, NEW w \in Worker
  PROVE  /\ beater[w] \in Thread /\ beater[w].age \in Nat /\ beater[w].age <= Fresh
         /\ beat \in Nat /\ beat <= Fresh /\ gone \in Nat /\ gone <= Fresh
BY Numbers DEF HTypeOK, Thread, Age

LEMMA HInvInit == HInit => HInv
<1> SUFFICES ASSUME HInit PROVE HInv
  OBVIOUS
<1>1. MInv
  BY MInvInit DEF HInit
<1>2. NoThread \in Thread
  BY Numbers DEF NoThread, Thread
<1>3. HTypeOK
  <2>1. 0 \in 0 .. MaxMisses /\ Fresh \in Age
    BY Numbers, HealthAssumption DEF Age
  <2>2. beater \in [Worker -> Thread]
    BY <1>2 DEF HInit
  <2> QED BY <2>1, <2>2 DEF HInit, HTypeOK
<1>5. beat >= gone
  BY Numbers DEF HInit
<1>4. \A w \in Worker : ThreadInv(w)
  BY DEF HInit, ThreadInv, NoThread
<1> QED BY <1>1, <1>3, <1>4, <1>5 DEF HInv

\* A step of one thread: the others keep what they had, for the row got
\* younger, or nothing about it changed.
LEMMA OneThread ==
  ASSUME HInv, NEW w \in Worker, NEW t \in Thread,
         beater' = [beater EXCEPT ![w] = t],
         UNCHANGED <<mvars, banner, gone>>, misses' \in 0 .. MaxMisses,
         beat' = beat \/ (beat' \in 0 .. Patience /\ gone = 0),
         ThreadInv(w)'
  PROVE  HInv'
<1> USE Numbers
<1>1. MInv /\ HTypeOK /\ beat >= gone /\ \A v \in Worker : ThreadInv(v)
  BY DEF HInv
<1>2. MInv'
  BY <1>1 DEF mvars, MInv, MTypeOK, InLoop, Up, Migration, Statement
<1>3. HTypeOK'
  BY <1>1 DEF HTypeOK, Age
<1>4. ASSUME NEW v \in Worker, v # w PROVE ThreadInv(v)'
  <2>1. beater'[v] = beater[v] /\ at' = at /\ gone' = gone
    BY <1>1, <1>4 DEF HTypeOK, mvars
  <2>2. ThreadInv(v) /\ beater[v].age \in Nat /\ beat \in Nat /\ beat' \in Nat
    BY <1>1, ThreadType
  <2>3. Left(v)' = Left(v) /\ Left(v) \in Int
    BY <2>1, <2>2 DEF Left
  <2>4. ASSUME beater[v].wrote
        PROVE  beat' + Left(v) <= Interval + 2 * Patience
    <3>1. beat + Left(v) <= Interval + 2 * Patience /\ beater[v].at \in {"write", "wait"}
      BY <2>2, <2>4 DEF ThreadInv
    <3>2. Left(v) <= Interval + Patience
      BY <2>2 DEF Left
    <3> QED BY <3>1, <3>2, <2>2, <2>3
  <2> QED BY <2>1, <2>2, <2>3, <2>4 DEF ThreadInv
<1>5. beat' >= gone'
  <2>1. CASE beat' = beat
    BY <2>1, <1>1
  <2>2. CASE beat' # beat
    BY <2>2
  <2> QED BY <2>1, <2>2
<1> QED BY <1>2, <1>3, <1>4, <1>5 DEF HInv, Worker

\* A step of a process, with its thread ended or just started.
LEMMA OneProcess ==
  ASSUME HInv, MInv', NEW p \in Process, NEW t \in Thread,
         \A q \in Process : q # p => at'[q] = at[q],
         beater' = [w \in Worker |-> IF w = p THEN t ELSE beater[w]],
         UNCHANGED <<beat, misses, banner>>,
         gone' = gone \/ gone' = 0,
         t = NoThread \/ (t = [NoThread EXCEPT !.at = "connect"] /\ (p \in Worker => gone' = 0)
                            /\ at'[p] \in {"idle", "busy"})
  PROVE  HInv'
<1> USE Numbers
<1>1. HTypeOK /\ beat >= gone /\ beat \in Nat /\ \A v \in Worker : ThreadInv(v)
  BY DEF HInv, HTypeOK, Age
<1>2. HTypeOK' /\ beat' >= gone'
  BY <1>1 DEF HTypeOK, Age
<1>3. ASSUME NEW v \in Worker PROVE ThreadInv(v)'
  <2>1. CASE v = p
    <3>1. beater'[v] = t
      BY <2>1
    <3>2. /\ t.wrote = FALSE /\ t.at \in {"off", "connect"} /\ t.age = 0
          /\ t.at = "connect" => gone' = 0 /\ at'[v] \in {"idle", "busy"}
      BY <2>1 DEF NoThread
    <3> QED BY <3>1, <3>2 DEF ThreadInv
  <2>2. CASE v # p
    <3>1. beater'[v] = beater[v] /\ at'[v] = at[v] /\ beat' = beat
      BY <2>2 DEF Worker
    <3>2. ThreadInv(v) /\ Left(v)' = Left(v)
      BY <1>1, <3>1 DEF Left
    <3> QED BY <3>1, <3>2 DEF ThreadInv
  <2> QED BY <2>1, <2>2
<1> QED BY <1>2, <1>3 DEF HInv, Worker

LEMMA HInvPass ==
  ASSUME HInv, Pass
  PROVE  HInv'
<1> USE Numbers
<1>1. /\ MInv /\ HTypeOK /\ beat >= gone /\ \A v \in Worker : ThreadInv(v)
      /\ beat \in Nat /\ beat <= Fresh /\ gone \in Nat /\ gone <= Fresh
  BY DEF HInv, HTypeOK, Age
<1>2. MInv'
  BY <1>1 DEF Pass, mvars, MInv, MTypeOK, InLoop, Up, Migration, Statement
<1>3. /\ beat' \in Age /\ gone' \in Age /\ beat' >= gone' /\ beat' <= beat + 1
  BY <1>1 DEF Pass, Older, Age
<1>4. ASSUME NEW v \in Worker PROVE beater'[v] \in Thread /\ ThreadInv(v)'
  <2>1. /\ beater[v] \in Thread /\ beater[v].age \in Nat /\ at' = at /\ ThreadInv(v) /\ Due(v)
    BY <1>1, ThreadType DEF Pass, mvars
  <2>2. CASE beater[v].at = "off"
    <3>1. beater'[v] = beater[v] /\ beater[v].wrote = FALSE
      BY <2>1, <2>2 DEF Pass, ThreadInv, Thread
    <3> QED BY <2>1, <2>2, <3>1 DEF ThreadInv
  <2>3. CASE beater[v].at # "off"
    <3>1. beater'[v] = [beater[v] EXCEPT !.age = @ + 1]
      BY <2>3 DEF Pass
    <3>2. /\ beater'[v].at = beater[v].at /\ beater'[v].wrote = beater[v].wrote
          /\ beater'[v].age = beater[v].age + 1
      BY <2>1, <3>1 DEF Thread
    <3>3. /\ beater[v].at \in {"connect", "write"} => beater[v].age + 1 <= Patience
          /\ beater[v].at = "wait" => beater[v].age + 1 <= Interval
      BY <2>1 DEF Due
    <3>4. beater'[v] \in Thread
      <4>1. beater[v].age + 1 \in Age
        BY <2>1, <2>3, <3>3 DEF Thread, Age
      <4> QED BY <2>1, <3>1, <4>1 DEF Thread
    <3>5. gone' = 0 /\ at'[v] \in {"idle", "busy"}
      <4>1. AnyUp
        BY <2>1, <2>3 DEF ThreadInv, AnyUp, Up
      <4> QED BY <2>1, <2>3, <4>1 DEF Pass, ThreadInv
    <3>6. ASSUME beater'[v].wrote
          PROVE  /\ beater'[v].at \in {"write", "wait"}
                 /\ beat' + Left(v)' <= Interval + 2 * Patience
      <4>1. beater[v].at \in {"write", "wait"} /\ beat + Left(v) <= Interval + 2 * Patience
        BY <2>1, <3>2, <3>6 DEF ThreadInv
      <4>2. Left(v)' = Left(v) - 1 /\ Left(v) \in Int
        BY <2>1, <3>2, <4>1 DEF Left
      <4>3. beat' \in Int
        BY <1>3 DEF Age
      <4> QED BY <1>1, <1>3, <3>2, <4>1, <4>2, <4>3
    <3> QED BY <3>2, <3>3, <3>4, <3>5, <3>6 DEF ThreadInv
  <2> QED BY <2>2, <2>3
<1>5. HTypeOK'
  BY <1>1, <1>3, <1>4 DEF HTypeOK, Pass
<1> QED BY <1>2, <1>3, <1>4, <1>5 DEF HInv, Worker

LEMMA HInvNext == HInv /\ [HNext]_vars => HInv'
<1> SUFFICES ASSUME HInv, [HNext]_vars PROVE HInv'
  OBVIOUS
<1> USE Numbers
<1>a. /\ MInv /\ HTypeOK /\ beat >= gone /\ \A v \in Worker : ThreadInv(v)
      /\ MTypeOK /\ misses \in Nat /\ misses <= MaxMisses /\ MaxMisses \in Nat
  BY HealthAssumption DEF HInv, HTypeOK, MInv
<1>b. NoThread \in Thread /\ [NoThread EXCEPT !.at = "connect"] \in Thread
  BY DEF NoThread, Thread
<1>1. CASE Pass
  BY <1>1, HInvPass
<1>2. CASE PollHealth
  <2>1. MInv'
    BY <1>2, <1>a DEF PollHealth, mvars, MInv, MTypeOK, InLoop, Up, Migration, Statement
  <2>2. \A v \in Worker : ThreadInv(v)'
    BY <1>2, <1>a DEF PollHealth, mvars, ThreadInv, Left
  <2> QED BY <1>2, <1>a, <2>1, <2>2 DEF PollHealth, HInv, HTypeOK, Alive, Worker
<1>3. ASSUME NEW p \in Process, (Boot(p) \/ Migrate(p)) /\ UNCHANGED hvars PROVE HInv'
  <2>1. MInv'
    BY <1>3, <1>a, MInvNext
  <2>2. at[p] \notin {"idle", "busy"} /\ \A q \in Process : q # p => at'[q] = at[q]
    BY <1>3, <1>a
    DEF Boot, Migrate, ReadApplied, Execute, Record, NextFile, Leave, Go, MTypeOK
  <2>3. ASSUME NEW v \in Worker PROVE ThreadInv(v)'
    <3>1. beater' = beater /\ beat' = beat /\ gone' = gone
      BY <1>3 DEF hvars
    <3>2. ThreadInv(v) /\ Left(v)' = Left(v)
      BY <1>a, <3>1 DEF Left
    <3>3. beater[v].at # "off" => v # p
      BY <2>2, <3>2 DEF ThreadInv
    <3> QED BY <2>2, <3>1, <3>2, <3>3 DEF ThreadInv, Worker
  <2> QED BY <1>3, <1>a, <2>1, <2>3 DEF hvars, HInv, HTypeOK, Worker
<1>4. ASSUME NEW p \in Process, Begin(p) PROVE HInv'
  <2>1. MInv'
    BY <1>4, <1>a, MInvNext DEF Begin, Up
  <2>2. at'[p] \in {"idle", "busy"} /\ \A q \in Process : q # p => at'[q] = at[q]
    BY <1>4, <1>a DEF Begin, Go, MTypeOK
  <2>3. /\ gone' = gone \/ gone' = 0
        /\ p \in Worker => gone' = 0
        /\ UNCHANGED <<beat, misses, banner>>
        /\ beater' = [w \in Worker |->
             IF w = p THEN [NoThread EXCEPT !.at = "connect"] ELSE beater[w]]
    BY <1>4 DEF Begin, Worker
  <2> QED BY <1>b, <2>1, <2>2, <2>3, OneProcess
<1>5. ASSUME NEW p \in Process, End(p) PROVE HInv'
  <2>1. MInv'
    BY <1>5, <1>a, MInvNext DEF End
  <2>2. \A q \in Process : q # p => at'[q] = at[q]
    BY <1>5, <1>a DEF End, Kill, Halt, Leave, Go, MTypeOK
  <2>3. /\ gone' = gone /\ UNCHANGED <<beat, misses, banner>>
        /\ beater' = [w \in Worker |-> IF w = p THEN NoThread ELSE beater[w]]
    BY <1>5 DEF End, StopBeating
  <2> QED BY <1>b, <2>1, <2>2, <2>3, OneProcess
<1>6. ASSUME NEW w \in Worker, Turn(w) PROVE HInv'
  <2>1. MInv'
    BY <1>6, <1>a, MInvNext DEF Turn, Up, Worker
  <2>2. \A q \in Process : at'[q] = at[q] \/ at'[q] \in {"idle", "busy"}
    BY <1>6, <1>a DEF Turn, Go, MTypeOK
  <2>3. ASSUME NEW v \in Worker PROVE ThreadInv(v)'
    <3>1. beater' = beater /\ beat' = beat /\ gone' = gone
      BY <1>6 DEF Turn, hvars
    <3>2. ThreadInv(v) /\ Left(v)' = Left(v)
      BY <1>a, <3>1 DEF Left
    <3> QED BY <2>2, <3>1, <3>2 DEF ThreadInv, Worker
  <2> QED BY <1>6, <1>a, <2>1, <2>3 DEF Turn, hvars, HInv, HTypeOK, Worker
<1>7. ASSUME NEW w \in Worker,
             Connect(w) \/ ConnectFails(w) \/ NextBeat(w) \/ Beat(w) \/ MissBeat(w)
      PROVE  HInv'
  <2> DEFINE t == beater'[w]
  <2>1. ThreadInv(w) /\ beater[w] \in Thread /\ beater[w].age \in Nat /\ beat \in Nat
    BY <1>a, ThreadType
  <2>2. /\ UNCHANGED <<mvars, banner, gone>> /\ misses' \in 0 .. MaxMisses
    BY <1>7, <1>a DEF Connect, ConnectFails, NextBeat, Beat, MissBeat
  <2>3. PICK u \in Thread : beater' = [beater EXCEPT ![w] = u] /\ beater'[w] = u
    <3>1. \A place \in {"write"} : Now(w, place) \in Thread
      BY <2>1 DEF Now, Thread
    <3>2. \A b \in BOOLEAN : [at |-> "wait", age |-> 0, wrote |-> b] \in Thread
      BY DEF Thread
    <3> QED BY <1>7, <1>a, <1>b, <3>1, <3>2
        DEF Connect, ConnectFails, NextBeat, Beat, MissBeat, HTypeOK
  <2>4. beat' = beat \/ (beat' \in 0 .. Patience /\ gone = 0)
    BY <1>7, <2>1 DEF Connect, ConnectFails, NextBeat, Beat, MissBeat, ThreadInv
  <2>5. ThreadInv(w)'
    <3>0. at' = at /\ gone' = gone
      BY <2>2 DEF mvars
    <3>1. CASE Connect(w)
      BY <1>a, <2>1, <3>0, <3>1 DEF Connect, Now, ThreadInv, HTypeOK
    <3>2. CASE ConnectFails(w)
      BY <1>a, <2>1, <3>0, <3>2 DEF ConnectFails, NoThread, ThreadInv, HTypeOK
    <3>3. CASE NextBeat(w)
      BY <1>a, <2>1, <3>0, <3>3 DEF NextBeat, Now, ThreadInv, HTypeOK, Left
    <3>4. CASE Beat(w)
      BY <1>a, <2>1, <3>0, <3>4 DEF Beat, ThreadInv, HTypeOK, Left
    <3>5. CASE MissBeat(w)
      BY <1>a, <2>1, <3>0, <3>5 DEF MissBeat, ThreadInv, HTypeOK
    <3> QED BY <1>7, <3>1, <3>2, <3>3, <3>4, <3>5
  <2> QED BY <2>2, <2>3, <2>4, <2>5, OneThread
<1>8. CASE UNCHANGED vars
  <2>1. MInv'
    BY <1>8, <1>a DEF vars, mvars, MInv, MTypeOK, InLoop, Up, Migration, Statement
  <2>2. \A v \in Worker : ThreadInv(v)'
    BY <1>8, <1>a DEF vars, mvars, hvars, ThreadInv, Left
  <2> QED BY <1>8, <1>a, <2>1, <2>2 DEF vars, hvars, HInv, HTypeOK, Worker
<1> QED BY <1>1, <1>2, <1>3, <1>4, <1>5, <1>6, <1>7, <1>8 DEF HNext, StartUp

LEMMA HInvAlways == HSpec => []HInv
BY HInvInit, HInvNext, PTL DEF HSpec

\* Nobody comes past init_db before every table is there (db.run_migrations).
THEOREM TablesFirst == HSpec => []SchemaComplete
<1>1. HInv => SchemaComplete
  BY RecordedIsComplete DEF HInv, MInv, SchemaComplete
<1> QED BY <1>1, HInvAlways, PTL

\* A worker that beats is reported alive, for every interval that leaves room
\* for two waits for the lock (main.heartbeat_loop, db.last_beat).
THEOREM BeatingIsAlive == HSpec => []BusyIsAlive
<1>1. HInv => BusyIsAlive
  <2> SUFFICES ASSUME HInv, NEW w \in Worker, beater[w].wrote PROVE beat < Fresh
    BY DEF BusyIsAlive, Alive
  <2>1. /\ ThreadInv(w) /\ beater[w].age \in Nat /\ beat \in Nat
    BY ThreadType DEF HInv
  <2>2. Left(w) \in Int /\ Left(w) >= 0 /\ beat + Left(w) <= Interval + 2 * Patience
    BY <2>1, Numbers DEF ThreadInv, Left
  <2> QED BY <2>1, <2>2, Numbers
<1> QED BY <1>1, HInvAlways, PTL

\* Thirty seconds after the last worker nobody is reported alive.
THEOREM GoneIsNoticed == HSpec => []DeadIsNoticed
<1>1. HInv => DeadIsNoticed
  BY Numbers DEF HInv, HTypeOK, Age, DeadIsNoticed, Alive
<1> QED BY <1>1, HInvAlways, PTL
=============================================================================
