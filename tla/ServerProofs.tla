---------------------------- MODULE ServerProofs ----------------------------
(***************************************************************************)
(* Proofs about the server process: ServerLifecycle with the runs of       *)
(* Migrations it has, for any number of files, runners, signals, feeds,    *)
(* events and boots, and CryptoAttackClient, for every number of losses    *)
(* and whether or not the server refuses connections.                      *)
(***************************************************************************)
EXTENDS CryptoAttackClient, ServerLifecycle, SequenceTheorems, FiniteSetTheorems, TLAPS

-----------------------------------------------------------------------------
(* Migrations: n files are applied.  What a run read as applied was a      *)
(* prefix of them, and everything before its file is among them.           *)
SoundRun(run, n) ==
  /\ run \in [phase : RunPhases, applied : SUBSET (1..Files), file : 0..Files]
  /\ run.phase \in {"between", "transaction"} => \E k \in 0..n : run.applied = 1..k
  /\ run.phase = "between" => run.file <= n
  /\ run.phase = "transaction" => run.file \in 1..(n + 1)
  /\ run.phase = "done" => n = Files

Applied(s) ==
  /\ s \in Seq(1..Files) /\ Len(s) <= Files
  /\ \A i \in 1..Len(s) : s[i] = i

MigrationInv ==
  /\ Applied(schema)
  /\ catalog = 1..Len(schema)
  /\ DOMAIN runner = Runners /\ \A r \in Runners : SoundRun(runner[r], Len(schema))

LEMMA SoundSchema == MigrationInv => SchemaIsSound
<1> SUFFICES ASSUME MigrationInv PROVE SchemaIsSound
  OBVIOUS
<1>1. DOMAIN schema = 1..Len(schema) /\ Len(schema) \in Nat
  BY DEF MigrationInv, Applied
<1>2. {schema[i] : i \in DOMAIN schema} = 1..Len(schema)
  BY <1>1 DEF MigrationInv, Applied
<1> QED
  BY <1>1, <1>2 DEF MigrationInv, Applied, SoundRun, SchemaIsSound, EachOnceInOrder,
                    RecordedWithItsSql, SuccessIsComplete

LEMMA WaitingIsSound ==
  ASSUME NEW n \in Nat, NEW phase1 \in {"idle", "failed"}
  PROVE  SoundRun([Waiting EXCEPT !.phase = phase1], n) /\ SoundRun(Waiting, n)
BY MigrationsAssumption DEF SoundRun, Waiting, RunPhases

LEMMA InTransaction ==
  ASSUME NEW run \in [phase : RunPhases, applied : SUBSET (1..Files), file : 0..Files],
         NEW f
  PROVE  [run EXCEPT !.phase = "transaction", !.file = f]
           = [phase |-> "transaction", applied |-> run.applied, file |-> f]
<1> DEFINE begun == [run EXCEPT !.phase = "transaction"]
<1>1. begun = [phase |-> "transaction", applied |-> run.applied, file |-> run.file]
  OBVIOUS
<1> HIDE DEF begun
<1>2. [begun EXCEPT !.file = f] = [phase |-> "transaction", applied |-> run.applied, file |-> f]
  BY <1>1
<1> QED
  BY <1>2 DEF begun

(* The next file of a run is the first that nobody has applied, or one     *)
(* that another run has applied since.                                     *)
LEMMA NextFileFollows ==
  ASSUME NEW r \in Runners, NEW n \in 0..Files, SoundRun(runner[r], n),
         runner[r].phase = "between", Unapplied(r) # {}
  PROVE  NextFile(r) \in 1..(n + 1) /\ NextFile(r) \in 1..Files
<1>1. PICK k \in 0..n : runner[r].applied = 1..k
  BY DEF SoundRun
<1> DEFINE m == IF runner[r].file < k THEN k + 1 ELSE runner[r].file + 1
<1>2. runner[r].file \in 0..n /\ Files \in Nat
  BY MigrationsAssumption DEF SoundRun
<1>3. m \in Unapplied(r) /\ \A g \in Unapplied(r) : m <= g
  BY <1>1, <1>2 DEF Unapplied
<1>4. NextFile(r) \in Unapplied(r) /\ \A g \in Unapplied(r) : NextFile(r) <= g
  BY <1>3 DEF NextFile
<1>5. NextFile(r) = m
  BY <1>2, <1>3, <1>4 DEF Unapplied
<1> QED
  BY <1>1, <1>2, <1>4, <1>5 DEF Unapplied

LEMMA MigrateIsSound ==
  ASSUME MigrationInv, NEW r \in Runners, Migrate(r)
  PROVE  MigrationInv'
<1> DEFINE n == Len(schema)
<1>0. /\ n \in 0..Files /\ Files \in Nat
      /\ SoundRun(runner[r], n) /\ DOMAIN runner = Runners
  BY MigrationsAssumption, LenProperties DEF MigrationInv, Applied
<1>1. CASE ReadApplied(r)
  <2> DEFINE read == [phase |-> "between", applied |-> catalog, file |-> 0]
  <2>1. SoundRun(read, n)
    BY <1>0 DEF SoundRun, MigrationInv, RunPhases
  <2> QED
    BY <1>1, <2>1 DEF ReadApplied, MigrationInv
<1>2. CASE BeginFile(r)
  <2>1. NextFile(r) \in 1..(n + 1) /\ NextFile(r) \in 1..Files
    BY <1>0, <1>2, NextFileFollows DEF BeginFile
  <2>2. runner'[r] = [phase |-> "transaction", applied |-> runner[r].applied,
                      file |-> NextFile(r)]
    <3>1. runner'[r] = [runner[r] EXCEPT !.phase = "transaction", !.file = NextFile(r)]
      BY <1>0, <1>2 DEF BeginFile
    <3> QED
      BY <1>0, <3>1, InTransaction DEF SoundRun
  <2>3. /\ runner[r] \in [phase : RunPhases, applied : SUBSET (1..Files), file : 0..Files]
        /\ \E k \in 0..n : runner[r].applied = 1..k
    BY <1>0, <1>2 DEF BeginFile, SoundRun
  <2>4. /\ runner'[r] \in [phase : RunPhases, applied : SUBSET (1..Files), file : 0..Files]
        /\ runner'[r].phase = "transaction" /\ runner'[r].file = NextFile(r)
        /\ runner'[r].applied = runner[r].applied
    BY <2>1, <2>2, <2>3 DEF RunPhases
  <2>5. SoundRun(runner'[r], n)
    BY <2>1, <2>3, <2>4 DEF SoundRun
  <2> QED
    BY <1>2, <2>5 DEF BeginFile, MigrationInv
<1>3. CASE Commit(r)
  <2>1. runner[r].file = n + 1 /\ n + 1 <= Files
    BY <1>0, <1>3 DEF Commit, RowConflicts, SoundRun, MigrationInv
  <2>2. schema' = Append(schema, n + 1)
    BY <1>3, <2>1 DEF Commit
  <2>3. Applied(schema') /\ Len(schema') = n + 1
    BY <1>0, <2>1, <2>2, AppendProperties DEF Applied, MigrationInv
  <2>4. catalog' = 1..(n + 1)
    BY <1>0, <1>3, <2>1 DEF Commit, MigrationInv
  <2>5. ASSUME NEW q \in Runners PROVE SoundRun(runner'[q], n + 1)
    <3>1. SoundRun(runner[q], n)
      BY DEF MigrationInv
    <3>2. CASE q # r
      BY <1>0, <1>3, <2>1, <3>1, <3>2 DEF Commit, SoundRun
    <3>3. CASE q = r
      <4>1. runner'[r] = [runner[r] EXCEPT !.phase = "between"]
        BY <1>0, <1>3 DEF Commit
      <4> QED
        BY <1>0, <1>3, <2>1, <3>3, <4>1 DEF Commit, SoundRun, RunPhases
    <3> QED
      BY <3>2, <3>3
  <2> QED
    BY <1>0, <1>3, <2>3, <2>4, <2>5 DEF Commit, MigrationInv
<1>4. CASE LoseRace(r) \/ Fail(r)
  BY <1>0, <1>4, WaitingIsSound DEF LoseRace, Fail, End, MigrationInv
<1>5. CASE Finish(r)
  <2>1. n = Files
    <3> SUFFICES ASSUME n < Files PROVE FALSE
      BY <1>0
    <3>1. PICK k \in 0..n : runner[r].applied = 1..k
      BY <1>0, <1>5 DEF Finish, SoundRun
    <3>2. Files \in Unapplied(r)
      BY <1>0, <1>5, <3>1 DEF Finish, SoundRun, Unapplied
    <3> QED
      BY <1>5, <3>2 DEF Finish
  <2>2. SoundRun([Waiting EXCEPT !.phase = "done"], n)
    BY <1>0, <2>1 DEF SoundRun, Waiting, RunPhases
  <2> QED
    BY <1>0, <1>5, <2>2 DEF Finish, End, MigrationInv
<1> QED
  BY <1>1, <1>2, <1>3, <1>4, <1>5 DEF Migrate

-----------------------------------------------------------------------------
(* The log: its lines, and those to be appended, are numbered in the order *)
(* of the events.                                                          *)
Lines == [n : Nat, id : Ids, feed : Feeds, at : Nat]

LogInv ==
  /\ received \in Nat /\ clock \in Nat
  /\ log \in Seq(Lines) /\ writeChain \in Seq(Lines)
  /\ \A i \in 1..Len(log) : log[i].n < received
  /\ \A i \in 1..Len(writeChain) : writeChain[i].n < received
  /\ \A i, j \in 1..Len(writeChain) : i < j => writeChain[i].n < writeChain[j].n
  /\ OnlyTheTailIsLost

(* The end: what shutdown() awaited stays so.  Once the queue was drained  *)
(* it stays empty, and a job is in hand only if it was then; once the pool *)
(* has ended no job has a client, nor gets one.                            *)
EndInv ==
  /\ queued \in Nat /\ job \in {"none", "waiting", "writing"}
  /\ pool \in {"open", "ending", "ended"}
  /\ shutdown \in [Signals -> {"none", "drain", "pool", "app"}]
  /\ pool # "open" => queued = 0 /\ \E s \in Signals : shutdown[s] \in {"pool", "app"}
  /\ pool # "open" /\ job # "none" => overdue
  /\ pool = "ended" => job # "writing"
  /\ \A s \in Signals : /\ shutdown[s] = "pool" => pool # "open"
                        /\ shutdown[s] = "app" => pool = "ended"
  /\ OnlyOverdueJobIsLost

BootInv == MigrationInv /\ ServesWhatItMigrated

IInv == BootInv /\ LogInv /\ EndInv

LEMMA Initially == ProcessInit => IInv
<1> SUFFICES ASSUME ProcessInit PROVE IInv
  OBVIOUS
<1>1. MigrationInv
  <2>1. schema = <<>> /\ catalog = {} /\ runner = [r \in Runners |-> Waiting]
    BY DEF ProcessInit, InitMigrations
  <2>2. Applied(<<>>) /\ Len(<<>>) = 0 /\ 1..0 = {}
    BY MigrationsAssumption DEF Applied
  <2> QED
    BY <2>1, <2>2, WaitingIsSound DEF MigrationInv
<1>2. LogInv
  <2>1. log = <<>> /\ writeChain = <<>> /\ received = 0 /\ clock = 0
    BY DEF ProcessInit
  <2> QED
    BY <2>1 DEF LogInv, OnlyTheTailIsLost
<1>3. EndInv
  BY DEF ProcessInit, EndInv, NotCalled, OnlyOverdueJobIsLost
<1> QED
  BY <1>1, <1>2, <1>3 DEF IInv, BootInv, ServesWhatItMigrated, ProcessInit

-----------------------------------------------------------------------------
(* The log *)

LEMMA Numbered ==
  ASSUME NEW s \in Seq(Lines)
  PROVE  /\ Len(s) \in Nat /\ DOMAIN s = 1..Len(s)
         /\ \A i \in 1..Len(s) : s[i].n \in Nat
<1>1. \A i \in 1..Len(s) : s[i] \in Lines
  BY ElementOfSeq
<1> QED
  BY <1>1, LenProperties DEF Lines

LEMMA LinesAppended ==
  ASSUME LogInv, NEW id \in Ids, NEW time \in Nat,
         received' = received + 1, log' = log, clock' = time,
         writeChain' =
           Append(writeChain, [n |-> received, id |-> id, feed |-> FeedOf(id), at |-> time])
  PROVE  LogInv'
<1> DEFINE line == [n |-> received, id |-> id, feed |-> FeedOf(id), at |-> time]
<1>1. line \in Lines /\ received \in Nat
  BY DEF LogInv, Lines, Feeds
<1>2. /\ writeChain' \in Seq(Lines) /\ Len(writeChain') = Len(writeChain) + 1
      /\ \A i \in 1..Len(writeChain) : writeChain'[i] = writeChain[i]
      /\ writeChain'[Len(writeChain) + 1] = line
  BY <1>1, AppendProperties DEF LogInv
<1>3. /\ Len(writeChain) \in Nat
      /\ \A i \in 1..Len(writeChain) : writeChain[i].n \in Nat
      /\ \A i \in 1..Len(log) : log[i].n \in Nat
      /\ DOMAIN log = 1..Len(log) /\ DOMAIN writeChain' = 1..Len(writeChain')
  BY <1>2, Numbered DEF LogInv
<1>4. \A i \in 1..Len(writeChain') : \/ i \in 1..Len(writeChain) /\ writeChain'[i] = writeChain[i]
                                     \/ i = Len(writeChain) + 1 /\ writeChain'[i].n = received
  BY <1>2, <1>3
<1>5. \A i \in 1..Len(writeChain') : writeChain'[i].n < received'
  BY <1>1, <1>3, <1>4 DEF LogInv
<1>6. \A i, j \in 1..Len(writeChain') : i < j => writeChain'[i].n < writeChain'[j].n
  BY <1>1, <1>3, <1>4 DEF LogInv
<1>7. OnlyTheTailIsLost'
  BY <1>1, <1>2, <1>3, <1>4 DEF LogInv, OnlyTheTailIsLost
<1> QED
  BY <1>1, <1>2, <1>3, <1>5, <1>6, <1>7 DEF LogInv

LEMMA FirstRemoved ==
  ASSUME NEW S, NEW s \in Seq(S), 1 \in DOMAIN s
  PROVE  /\ RemoveAt(s, 1) \in Seq(S) /\ Len(RemoveAt(s, 1)) = Len(s) - 1
         /\ \A i \in 1..(Len(s) - 1) : RemoveAt(s, 1)[i] = s[i + 1]
<1>1. Len(s) \in Nat \ {0} /\ DOMAIN s = 1..Len(s)
  BY LenProperties
<1>2. SubSeq(s, 1, 0) = <<>>
  BY SubSeqProperties
<1>3. /\ SubSeq(s, 2, Len(s)) \in Seq(S) /\ Len(SubSeq(s, 2, Len(s))) = Len(s) - 1
      /\ \A i \in 1..(Len(s) - 1) : SubSeq(s, 2, Len(s))[i] = s[i + 1]
  BY <1>1, SubSeqProperties
<1>4. RemoveAt(s, 1) = SubSeq(s, 2, Len(s))
  BY <1>2, <1>3, ConcatEmptySeq DEF RemoveAt
<1> QED
  BY <1>3, <1>4

LEMMA LineWritten ==
  ASSUME LogInv, AppendLine
  PROVE  LogInv'
<1>1. /\ 1 \in DOMAIN writeChain /\ received' = received /\ clock' = clock
      /\ writeChain' = RemoveAt(writeChain, 1)
      /\ log' \in {Append(log, writeChain[1]), log}
  BY DEF AppendLine, NextLines
<1>2. /\ writeChain' \in Seq(Lines) /\ Len(writeChain') = Len(writeChain) - 1
      /\ \A i \in 1..(Len(writeChain) - 1) : writeChain'[i] = writeChain[i + 1]
      /\ Len(writeChain) \in Nat \ {0} /\ writeChain[1] \in Lines
  BY <1>1, FirstRemoved, LenProperties DEF LogInv
<1>3. /\ log' \in Seq(Lines)
      /\ \A i \in 1..Len(log') : (i \in 1..Len(log) /\ log'[i] = log[i]) \/ log'[i] = writeChain[1]
  <2>1. CASE log' = log
    BY <2>1 DEF LogInv
  <2>2. CASE log' = Append(log, writeChain[1])
    BY <1>2, <2>2, AppendProperties, LenProperties DEF LogInv
  <2> QED
    BY <1>1, <2>1, <2>2
<1>4. /\ \A i \in 1..Len(writeChain) : writeChain[i].n \in Nat /\ writeChain[i].n < received
      /\ \A i, j \in 1..Len(writeChain) : i < j => writeChain[i].n < writeChain[j].n
      /\ \A i \in 1..Len(log) : log[i].n \in Nat /\ log[i].n < received
      /\ \A i \in 1..Len(log), j \in 1..Len(writeChain) : log[i].n < writeChain[j].n
  BY Numbered DEF LogInv, OnlyTheTailIsLost
<1>5. \A i, j \in 1..Len(writeChain') : i < j => writeChain'[i].n < writeChain'[j].n
  <2> SUFFICES ASSUME NEW i \in 1..Len(writeChain'), NEW j \in 1..Len(writeChain'), i < j
               PROVE  writeChain'[i].n < writeChain'[j].n
    OBVIOUS
  <2>1. /\ i + 1 \in 1..Len(writeChain) /\ j + 1 \in 1..Len(writeChain) /\ i + 1 < j + 1
        /\ writeChain'[i] = writeChain[i + 1] /\ writeChain'[j] = writeChain[j + 1]
    BY <1>2
  <2> QED
    BY <1>4, <2>1
<1>6. OnlyTheTailIsLost'
  <2> SUFFICES ASSUME NEW i \in 1..Len(log'), NEW j \in 1..Len(writeChain')
               PROVE  log'[i].n < writeChain'[j].n
    BY <1>2, <1>3, Numbered DEF OnlyTheTailIsLost
  <2>1. writeChain'[j] = writeChain[j + 1] /\ j + 1 \in 1..Len(writeChain) /\ 1 < j + 1
        /\ 1 \in 1..Len(writeChain)
    BY <1>2
  <2> QED
    BY <1>3, <1>4, <2>1
<1>7. \A i \in 1..Len(log') : log'[i].n < received
  BY <1>2, <1>3, <1>4
<1>8. \A i \in 1..Len(writeChain') : writeChain'[i].n < received
  BY <1>2, <1>4
<1> QED
  BY <1>1, <1>2, <1>3, <1>5, <1>6, <1>7, <1>8 DEF LogInv

LEMMA LogKept ==
  ASSUME LogInv, UNCHANGED <<received, log, clock>>, writeChain' \in {writeChain, <<>>}
  PROVE  LogInv'
<1>1. CASE writeChain' = writeChain
  BY <1>1 DEF LogInv, OnlyTheTailIsLost
<1>2. CASE writeChain' = <<>>
  <2>1. writeChain' \in Seq(Lines) /\ Len(writeChain') = 0 /\ DOMAIN writeChain' = {}
    BY <1>2
  <2> QED
    BY <2>1 DEF LogInv, OnlyTheTailIsLost
<1> QED
  BY <1>1, <1>2

LEMMA LogPreserved ==
  ASSUME LogInv, ProcessNext
  PROVE  LogInv'
<1>1. ASSUME NEW id \in Ids, NEW time \in clock..MaxClock, HandleRawEvent(id, time) PROVE LogInv'
  <2>1. time \in Nat
    BY ServerLifecycleAssumption DEF LogInv
  <2> QED
    BY <1>1, <2>1, LinesAppended DEF HandleRawEvent
<1>2. CASE AppendLine
  BY <1>2, LineWritten
<1>3. CASE MigrationFailed \/ Crash \/ \E s \in Signals : DrainedAgain(s) \/ Exit(s)
  BY <1>3, LogKept DEF MigrationFailed, Crash, DrainedAgain, Exit, Die
<1>4. CASE \/ Verified \/ ServerMigrates \/ Migrated \/ Prepared \/ Routed \/ Listening
           \/ \E r \in Runners : DeployMigrates(r)
  BY <1>4, LogKept DEF Verified, ServerMigrates, Migrated, Prepared, Routed, Listening,
                       DeployMigrates, Goto, logVars
<1>5. CASE \/ BeginJob \/ AttemptBegins \/ AttemptEnds \/ GivenUp
           \/ OpenStream \/ CloseStream \/ Restart
           \/ \E s \in Signals : Signal(s) \/ Drained(s) \/ PoolEnded(s)
  BY <1>5, LogKept DEF BeginJob, AttemptBegins, AttemptEnds, GivenUp, JobGoes, OpenStream,
                       CloseStream, Restart, Signal, Drained, PoolEnded, logVars
<1> QED
  BY <1>1, <1>2, <1>3, <1>4, <1>5 DEF ProcessNext

-----------------------------------------------------------------------------
(* The end *)

(* shutdown() of a process that died stands where it stood; its jobs are   *)
(* gone.                                                                   *)
LEMMA DeadIsSound ==
  ASSUME EndInv, NEW how \in {"crashed", "exited"}, Die(how),
         how = "exited" => job # "writing" /\ queued = 0 /\ (job # "none" => overdue)
  PROVE  EndInv'
<1>1. queued' = 0 /\ job' = "none" /\ UNCHANGED <<pool, shutdown, overdue>>
  BY DEF Die, endVars
<1>2. OnlyOverdueJobIsLost'
  <2>1. /\ phase' = how /\ overdue' = overdue
        /\ abandoned' = ({job} \ {"none"}) \cup (IF queued > 0 THEN {"queued"} ELSE {})
    BY DEF Die
  <2>2. how = "exited" => /\ abandoned' = {job} \ {"none"} /\ job \in {"none", "waiting"}
                          /\ (job # "none" => overdue)
    BY <2>1 DEF EndInv
  <2> QED
    BY <2>1, <2>2 DEF OnlyOverdueJobIsLost
<1> QED
  BY <1>1, <1>2 DEF EndInv

LEMMA EndPreserved ==
  ASSUME EndInv, ProcessNext
  PROVE  EndInv'
<1> USE DEF EndInv, OnlyOverdueJobIsLost
<1>1. CASE \/ Verified \/ Migrated \/ Prepared \/ Routed \/ Listening
           \/ ServerMigrates \/ \E r \in Runners : DeployMigrates(r)
  BY <1>1 DEF Verified, Migrated, Prepared, Routed, Listening, ServerMigrates, DeployMigrates,
              Goto, jobVars, endVars
<1>2. CASE MigrationFailed \/ Crash \/ \E s \in Signals : DrainedAgain(s)
  BY <1>2, DeadIsSound DEF MigrationFailed, Crash, DrainedAgain
<1>3. ASSUME NEW s \in Signals, Exit(s) PROVE EndInv'
  <2>1. job # "writing" /\ queued = 0 /\ (job # "none" => overdue)
    BY <1>3 DEF Exit
  <2> QED
    BY <1>3, <2>1, DeadIsSound DEF Exit
<1>4. ASSUME NEW id \in Ids, NEW time \in clock..MaxClock, HandleRawEvent(id, time) PROVE EndInv'
  <2>1. shutdown = NotCalled
    BY <1>4 DEF HandleRawEvent, ControllerRuns
  <2>2. pool = "open"
    BY <2>1 DEF NotCalled
  <2> QED
    BY <1>4, <2>2 DEF HandleRawEvent, ControllerRuns, endVars
<1>5. CASE AppendLine \/ OpenStream \/ CloseStream
  BY <1>5 DEF AppendLine, OpenStream, CloseStream, jobVars, endVars
<1>6. CASE BeginJob \/ AttemptBegins \/ AttemptEnds \/ GivenUp
  <2>1. phase \in {"listening", "serving"} /\ UNCHANGED <<phase, pool, shutdown, overdue, abandoned>>
    BY <1>6 DEF BeginJob, AttemptBegins, AttemptEnds, GivenUp, JobGoes, Up, endVars
  <2>2. CASE BeginJob
    <3>1. pool = "open" /\ queued' \in Nat /\ job' = "waiting"
      BY <2>2 DEF BeginJob
    <3> QED
      BY <2>1, <3>1
  <2>3. CASE AttemptBegins
    BY <2>1, <2>3 DEF AttemptBegins, JobGoes
  <2>4. CASE AttemptEnds \/ GivenUp
    BY <2>1, <2>4 DEF AttemptEnds, GivenUp, JobGoes
  <2> QED
    BY <1>6, <2>2, <2>3, <2>4
<1>7. ASSUME NEW s \in Signals, Signal(s) PROVE EndInv'
  BY <1>7 DEF Signal, jobVars
<1>8. ASSUME NEW s \in Signals, Drained(s) PROVE EndInv'
  BY <1>8 DEF Drained, Up
<1>9. ASSUME NEW s \in Signals, PoolEnded(s) PROVE EndInv'
  BY <1>9 DEF PoolEnded, ClientsReturned, jobVars
<1>10. CASE Restart
  BY <1>10 DEF Restart, NotCalled
<1> QED
  BY <1>1, <1>2, <1>3, <1>4, <1>5, <1>6, <1>7, <1>8, <1>9, <1>10 DEF ProcessNext

-----------------------------------------------------------------------------
(* The replay.  A set of numbers has a least one, and has all of 0..m if   *)
(* it has 0 and with each the next.                                        *)
LEMMA LeastNumber ==
  ASSUME NEW S, S \subseteq Nat, S # {}
  PROVE  \E x \in S : \A y \in S : x <= y
<1>1. \A x, y \in Nat : <<y, x>> \in OpToRel(<, Nat) <=> y < x
  BY DEF OpToRel
<1>2. PICK x \in S : \A y \in S : ~(<<y, x>> \in OpToRel(<, Nat))
  BY NatLessThanWellFounded, WFMin
<1>3. ASSUME NEW y \in S PROVE x <= y
  <2>1. ~(y < x) /\ x \in Nat /\ y \in Nat
    BY <1>1, <1>2
  <2> QED
    BY <2>1
<1> QED
  BY <1>3

LEMMA UpTo ==
  ASSUME NEW m \in Nat, NEW S, 0 \in S, \A k \in 0..m : k \in S /\ k < m => k + 1 \in S
  PROVE  m \in S
<1> SUFFICES ASSUME m \notin S
             PROVE  FALSE
  OBVIOUS
<1> DEFINE T == (0..m) \ S
<1>1. PICK x \in T : \A y \in T : x <= y
  <2>1. m \in T /\ T \subseteq Nat
    OBVIOUS
  <2> HIDE DEF T
  <2> QED
    BY <2>1, LeastNumber
<1>2. x - 1 \in 0..m /\ x - 1 < m /\ ~(x <= x - 1) /\ (x - 1) + 1 = x
  OBVIOUS
<1>3. x - 1 \in S
  BY <1>1, <1>2
<1> QED
  BY <1>1, <1>2, <1>3

LEMMA LastNumber ==
  ASSUME NEW n \in Nat, NEW S, S \subseteq 1..n, S # {}
  PROVE  \E x \in S : \A y \in S : y <= x
<1> DEFINE T == {n - x : x \in S}
<1>1. T \subseteq Nat /\ T # {}
  <2>1. \A x \in S : n - x \in Nat
    OBVIOUS
  <2> QED
    BY <2>1
<1>2. PICK d \in T : \A e \in T : d <= e
  <2> HIDE DEF T
  <2> QED
    BY <1>1, LeastNumber
<1>3. PICK x \in S : d = n - x
  OBVIOUS
<1>4. \A y \in S : n - y \in T
  OBVIOUS
<1>5. \A y \in S : y \in 1..n
  OBVIOUS
<1> HIDE DEF T
<1>6. \A y \in S : y <= x
  BY <1>2, <1>3, <1>4, <1>5
<1> QED
  BY <1>6

LEMMA PartOfInterval ==
  ASSUME NEW n \in Nat, NEW S \in SUBSET (1..n)
  PROVE  IsFiniteSet(S) /\ Cardinality(S) \in Nat
<1>1. IsFiniteSet(1..n)
  BY FS_Interval
<1>2. IsFiniteSet(S)
  BY <1>1, FS_Subset
<1> QED
  BY <1>2, FS_CardinalityType

(* Lines at these positions have a time.                                   *)
Timed(lines, n) == \A i \in 1..n : lines[i].at \in Nat

(* One of the lines is taken first.                                        *)
LEMMA FirstTaken ==
  ASSUME NEW n \in Nat, NEW lines, Timed(lines, n), NEW S, S \subseteq 1..n, S # {}
  PROVE  \E x \in S : \A y \in S \ {x} : TakenBefore(lines, x, y)
<1> DEFINE times == {lines[i].at : i \in S}
<1>1. times \subseteq Nat /\ times # {}
  BY DEF Timed
<1>2. PICK t \in times : \A u \in times : t <= u
  <2> HIDE DEF times
  <2> QED
    BY <1>1, LeastNumber
<1> DEFINE first == {i \in S : lines[i].at = t}
<1>3. first \subseteq 1..n /\ first # {}
  OBVIOUS
<1>4. PICK x \in first : \A y \in first : y <= x
  <2> HIDE DEF first
  <2> QED
    BY <1>3, LastNumber
<1>5. ASSUME NEW y \in S \ {x} PROVE TakenBefore(lines, x, y)
  <2>1. t <= lines[y].at /\ lines[y].at \in Nat /\ t \in Nat /\ lines[x].at = t
    BY <1>1, <1>2 DEF Timed
  <2>2. CASE lines[y].at = t
    <3>1. y <= x /\ y # x /\ x \in Nat /\ y \in Nat
      BY <1>4, <2>2
    <3> QED
      BY <2>1, <2>2, <3>1 DEF TakenBefore
  <2>3. CASE lines[y].at # t
    BY <2>1, <2>3 DEF TakenBefore
  <2> QED
    BY <2>2, <2>3
<1> QED
  BY <1>5

(* Lines can be put in order: without the one that is taken first they     *)
(* can, and that one is the last.                                          *)
Ordering(lines, S, m, order) ==
  /\ order \in [1..m -> S]
  /\ \A x \in S : \E i \in 1..m : order[i] = x
  /\ \A i, j \in 1..m : i < j => TakenBefore(lines, order[j], order[i])

LEMMA OneMore ==
  ASSUME NEW m \in Nat, NEW lines, NEW S, NEW x \in S, NEW order,
         Ordering(lines, S \ {x}, m, order),
         \A y \in S \ {x} : TakenBefore(lines, x, y)
  PROVE  Ordering(lines, S, m + 1, [i \in 1..(m + 1) |-> IF i = m + 1 THEN x ELSE order[i]])
<1> DEFINE longer == [i \in 1..(m + 1) |-> IF i = m + 1 THEN x ELSE order[i]]
<1>1. \A i \in 1..m : order[i] \in S \ {x}
  BY DEF Ordering
<1>2. /\ \A i \in 1..m : i \in 1..(m + 1) /\ i # m + 1
      /\ \A i \in 1..(m + 1) : i = m + 1 \/ i \in 1..m
      /\ m + 1 \in 1..(m + 1)
  OBVIOUS
<1>3. /\ \A i \in 1..m : longer[i] = order[i]
      /\ longer[m + 1] = x
  BY <1>2
<1>4. longer \in [1..(m + 1) -> S]
  BY <1>1, <1>2
<1> HIDE DEF longer
<1>5. ASSUME NEW y \in S PROVE \E i \in 1..(m + 1) : longer[i] = y
  <2>1. CASE y = x
    BY <1>2, <1>3, <2>1
  <2>2. CASE y # x
    <3>1. PICK i \in 1..m : order[i] = y
      BY <2>2 DEF Ordering
    <3> QED
      BY <1>2, <1>3, <3>1
  <2> QED
    BY <2>1, <2>2
<1>6. ASSUME NEW i \in 1..(m + 1), NEW j \in 1..(m + 1), i < j
      PROVE  TakenBefore(lines, longer[j], longer[i])
  <2>1. i \in 1..m
    BY <1>6
  <2>2. CASE j = m + 1
    BY <1>1, <1>3, <2>1, <2>2
  <2>3. CASE j \in 1..m
    BY <1>3, <1>6, <2>1, <2>3 DEF Ordering
  <2> QED
    BY <1>2, <2>2, <2>3
<1>7. Ordering(lines, S, m + 1, longer)
  BY <1>4, <1>5, <1>6 DEF Ordering
<1> QED
  BY <1>7 DEF longer

Orderable(lines, n, m) ==
  \A S \in SUBSET (1..n) : Cardinality(S) = m => \E order : Ordering(lines, S, m, order)

LEMMA LinesAreOrderable ==
  ASSUME NEW n \in Nat, NEW lines, Timed(lines, n), NEW m \in Nat
  PROVE  Orderable(lines, n, m)
<1> DEFINE N == {k \in Nat : Orderable(lines, n, k)}
<1>0. \A S \in SUBSET (1..n) : IsFiniteSet(S)
  BY PartOfInterval
<1>1. 0 \in N
  <2> SUFFICES ASSUME NEW S \in SUBSET (1..n), Cardinality(S) = 0
               PROVE  \E order : Ordering(lines, S, 0, order)
    BY DEF Orderable
  <2>1. S = {}
    BY <1>0, FS_EmptySet
  <2>2. Ordering(lines, {}, 0, [i \in 1..0 |-> i])
    BY DEF Ordering
  <2> QED
    BY <2>1, <2>2
<1>2. ASSUME NEW k \in Nat, k \in N
      PROVE  k + 1 \in N
  <2> SUFFICES ASSUME NEW S \in SUBSET (1..n), Cardinality(S) = k + 1
               PROVE  \E order : Ordering(lines, S, k + 1, order)
    BY DEF Orderable
  <2>1. S # {}
    BY FS_EmptySet
  <2>2. PICK x \in S : \A y \in S \ {x} : TakenBefore(lines, x, y)
    BY <2>1, FirstTaken
  <2>3. Cardinality(S \ {x}) = k /\ S \ {x} \in SUBSET (1..n)
    <3>1. Cardinality(S \ {x}) = Cardinality(S) - 1
      BY <1>0, FS_RemoveElement
    <3> QED
      BY <3>1
  <2>4. PICK order : Ordering(lines, S \ {x}, k, order)
    BY <1>2, <2>3 DEF Orderable
  <2> QED
    BY <2>2, <2>4, OneMore
<1> HIDE DEF N
<1>3. m \in N
  BY <1>1, <1>2, UpTo
<1> QED
  BY <1>3 DEF N

LEMMA LastTakenIsFirst ==
  ASSUME NEW n \in Nat, NEW lines, Timed(lines, n), NEW S \in SUBSET (1..n)
  PROVE  Ordering(lines, S, Cardinality(S), LastTakenFirst(lines, S))
<1> DEFINE m == Cardinality(S)
           Ordered(order) == \A i, j \in DOMAIN order : i < j => TakenBefore(lines, order[j], order[i])
<1>1. m \in Nat
  BY PartOfInterval
<1>2. PICK order : Ordering(lines, S, m, order)
  BY <1>1, LinesAreOrderable DEF Orderable
<1>3. \A i \in 1..m : order[i] \in S /\ S \subseteq Nat
  BY <1>2 DEF Ordering
<1>4. ASSUME NEW i \in 1..m, NEW j \in 1..m, i < j
      PROVE  order[i] # order[j]
  <2>1. TakenBefore(lines, order[j], order[i])
    BY <1>2, <1>4 DEF Ordering
  <2>2. lines[order[i]].at \in Nat /\ order[i] \in Nat
    BY <1>3 DEF Timed
  <2> QED
    BY <2>1, <2>2 DEF TakenBefore
<1>5. order \in Bijection(1..m, S) /\ Ordered(order)
  <2>1. order \in [1..m -> S]
    BY <1>2 DEF Ordering
  <2>2. IsInjective(order)
    <3> SUFFICES ASSUME NEW i \in 1..m, NEW j \in 1..m, order[i] = order[j], i # j
                 PROVE  FALSE
      BY <2>1 DEF IsInjective
    <3>1. i < j \/ j < i
      OBVIOUS
    <3> QED
      BY <1>4, <3>1
  <2>3. Ordered(order)
    BY <1>2, <2>1 DEF Ordering
  <2> QED
    BY <1>2, <2>1, <2>2, <2>3 DEF Bijection, Injection, Surjection, Ordering
<1>6. LastTakenFirst(lines, S) \in Bijection(1..m, S) /\ Ordered(LastTakenFirst(lines, S))
  <2>1. LastTakenFirst(lines, S) = CHOOSE o \in Bijection(1..m, S) : Ordered(o)
    BY DEF LastTakenFirst
  <2> HIDE DEF Ordered, m
  <2> QED
    BY <1>5, <2>1
<1> HIDE DEF m
<1>7. LastTakenFirst(lines, S) \in [1..m -> S]
  BY <1>6 DEF Bijection, Surjection
<1>8. \A x \in S : \E i \in 1..m : LastTakenFirst(lines, S)[i] = x
  BY <1>6 DEF Bijection, Surjection
<1> QED
  BY <1>6, <1>7, <1>8 DEF Ordering, m

(* What a replay of lines shows of a feed.                                 *)
ShownOf(lines, f) ==
  LET order == LastTakenFirst(lines, FirstOfTheirIds(lines, Selected(lines, f)))
  IN [i \in DOMAIN order |-> lines[order[i]]]

LEMMA LastOfFeed ==
  ASSUME NEW lines \in Seq(Lines), NEW f, OfFeed(lines, f) # {}
  PROVE  Max(OfFeed(lines, f)) \in OfFeed(lines, f)
<1> DEFINE S == OfFeed(lines, f)
<1>1. Len(lines) \in Nat /\ S \subseteq 1..Len(lines) /\ S # {}
  BY LenProperties DEF OfFeed
<1> HIDE DEF S
<1>2. PICK x \in S : \A y \in S : y <= x
  BY <1>1, LastNumber
<1>3. \A y \in S : x >= y
  BY <1>1, <1>2
<1>4. Max(S) \in S
  BY <1>3 DEF Max
<1> QED
  BY <1>4 DEF S

LEMMA ReplayShows ==
  ASSUME NEW lines \in Seq(Lines), NEW f
  PROVE  LET last == lines[Max(OfFeed(lines, f))]
             shown == ShownOf(lines, f)
         IN /\ OfFeed(lines, f) # {} => \E i \in DOMAIN shown : shown[i].id = last.id
            /\ \A i \in DOMAIN shown : shown[i].at >= last.at - Window
            /\ \A i \in DOMAIN shown : \A j \in 1..i : shown[j].at >= shown[i].at
<1> DEFINE n == Len(lines)
           newest == Max(OfFeed(lines, f))
           selected == Selected(lines, f)
           positions == FirstOfTheirIds(lines, selected)
           m == Cardinality(positions)
           order == LastTakenFirst(lines, positions)
           shown == ShownOf(lines, f)
<1>1. n \in Nat /\ DOMAIN lines = 1..n
  BY LenProperties
<1>2. Timed(lines, n)
  <2>1. \A i \in 1..n : lines[i] \in Lines
    BY ElementOfSeq
  <2> QED
    BY <2>1 DEF Timed, Lines
<1>3. /\ selected = {i \in OfFeed(lines, f) : lines[i].at >= lines[newest].at - Window}
      /\ positions \subseteq selected /\ selected \subseteq 1..n
  BY <1>1 DEF Selected, FirstOfTheirIds, OfFeed
<1>4. /\ m \in Nat /\ order \in [1..m -> positions]
      /\ \A x \in positions : \E i \in 1..m : order[i] = x
      /\ \A i, j \in 1..m : i < j => TakenBefore(lines, order[j], order[i])
  <2> HIDE DEF n, selected, positions, order, m
  <2>1. positions \in SUBSET (1..n)
    BY <1>3
  <2>2. Ordering(lines, positions, Cardinality(positions), LastTakenFirst(lines, positions))
    BY <1>1, <1>2, <2>1, LastTakenIsFirst
  <2>3. m \in Nat
    BY <1>1, <2>1, PartOfInterval DEF m
  <2> QED
    BY <2>2, <2>3 DEF Ordering, order, m
<1>5. shown = [i \in 1..m |-> lines[order[i]]]
  <2>1. shown = [i \in DOMAIN order |-> lines[order[i]]]
    BY DEF ShownOf
  <2> HIDE DEF shown, order
  <2> QED
    BY <1>4, <2>1
<1> HIDE DEF shown, order, m
<1>6. ASSUME OfFeed(lines, f) # {}
      PROVE  \E i \in DOMAIN shown : shown[i].id = lines[newest].id
  <2> DEFINE same == {i \in selected : lines[i].id = lines[newest].id}
  <2>1. newest \in selected
    <3>1. newest \in OfFeed(lines, f)
      BY <1>6, LastOfFeed
    <3>2. lines[newest].at \in Nat /\ Window \in Nat
      BY <1>1, <1>2, <3>1, ServerLifecycleAssumption DEF Timed, OfFeed
    <3>3. lines[newest].at >= lines[newest].at - Window
      BY <3>2
    <3> QED
      BY <1>3, <3>1, <3>3
  <2>2. same \subseteq 1..n /\ same # {}
    BY <1>3, <2>1
  <2>3. PICK x \in same : \A y \in same \ {x} : TakenBefore(lines, x, y)
    <3> HIDE DEF same, n
    <3> QED
      BY <1>1, <1>2, <2>2, FirstTaken
  <2>4. x \in positions
    BY <2>3 DEF FirstOfTheirIds
  <2>5. PICK i \in 1..m : order[i] = x
    BY <1>4, <2>4
  <2> QED
    BY <1>5, <2>3, <2>5
<1>7. ASSUME NEW i \in 1..m
      PROVE  /\ shown[i].at >= lines[newest].at - Window
             /\ shown[i].at \in Nat /\ shown[i] = lines[order[i]]
  <2>1. order[i] \in selected /\ order[i] \in 1..n
    BY <1>3, <1>4
  <2> QED
    BY <1>2, <1>3, <1>5, <2>1 DEF Timed
<1>8. ASSUME NEW i \in 1..m, NEW j \in 1..i
      PROVE  shown[j].at >= shown[i].at
  <2>1. j \in 1..m /\ shown[j].at \in Nat /\ shown[i].at \in Nat
    <3>1. j \in 1..m
      BY <1>4
    <3> QED
      BY <1>7, <3>1
  <2>2. CASE j = i
    BY <2>1, <2>2
  <2>3. CASE j < i
    <3>1. TakenBefore(lines, order[i], order[j])
      BY <1>4, <2>1, <2>3
    <3>2. shown[i] = lines[order[i]] /\ shown[j] = lines[order[j]]
      BY <1>7, <2>1
    <3> QED
      BY <2>1, <3>1, <3>2 DEF TakenBefore
  <2> QED
    BY <2>2, <2>3
<1>9. DOMAIN shown = 1..m
  BY <1>5
<1> QED
  BY <1>6, <1>7, <1>8, <1>9 DEF shown

(* Until the server routes requests, the store is what the boot replayed,  *)
(* and the log as it was then.                                             *)
ReplayInv ==
  phase = "replayed" /\ options.replay => store = [f \in Feeds |-> ShownOf(log, f)]

LEMMA ReplayPreserved == ReplayInv /\ [ProcessNext]_processVars => ReplayInv'
<1> SUFFICES ASSUME ReplayInv, [ProcessNext]_processVars PROVE ReplayInv'
  OBVIOUS
<1>1. CASE UNCHANGED <<phase, options, log, store>>
  BY <1>1 DEF ReplayInv
<1>2. CASE Prepared
  BY <1>2 DEF Prepared, ReplayInv, Replayed, ShownOf, logVars
<1>3. CASE phase' # "replayed"
  BY <1>3 DEF ReplayInv
<1>4. CASE UNCHANGED processVars
  BY <1>1, <1>4 DEF processVars, logVars
<1>5. CASE Verified \/ Migrated \/ MigrationFailed \/ Routed \/ Listening \/ Crash \/ Restart
  BY <1>3, <1>5 DEF Verified, Migrated, MigrationFailed, Routed, Listening, Crash, Restart, Goto, Die
<1>6. CASE \/ ServerMigrates \/ BeginJob \/ AttemptBegins \/ AttemptEnds \/ GivenUp
           \/ OpenStream \/ CloseStream
           \/ \E r \in Runners : DeployMigrates(r)
           \/ \E s \in Signals : Signal(s) \/ Drained(s) \/ PoolEnded(s)
  BY <1>1, <1>6 DEF ServerMigrates, BeginJob, AttemptBegins, AttemptEnds, GivenUp, JobGoes,
                    OpenStream, CloseStream, DeployMigrates, Signal, Drained, PoolEnded, logVars
<1>7. CASE \/ AppendLine
           \/ \E id \in Ids, time \in clock..MaxClock : HandleRawEvent(id, time)
           \/ \E s \in Signals : DrainedAgain(s) \/ Exit(s)
  BY <1>3, <1>7 DEF AppendLine, HandleRawEvent, DrainedAgain, Exit, Up, ControllerRuns, Die
<1> QED
  BY <1>2, <1>4, <1>5, <1>6, <1>7 DEF ProcessNext

-----------------------------------------------------------------------------
(* The schema *)

LEMMA KilledIsSound ==
  ASSUME MigrationInv, NEW run1 \in {Waiting, [Waiting EXCEPT !.phase = "failed"]},
         runner' = [runner EXCEPT ![Server] = run1], UNCHANGED <<schema, catalog>>
  PROVE  MigrationInv'
<1>1. SoundRun(run1, Len(schema))
  BY WaitingIsSound, LenProperties DEF MigrationInv, Applied
<1> QED
  BY <1>1 DEF MigrationInv

LEMMA BootPreserved ==
  ASSUME BootInv, ProcessNext
  PROVE  BootInv'
<1>0. Server \in Runners
  BY ServerLifecycleAssumption
<1>1. CASE Verified \/ Migrated \/ Prepared \/ Routed \/ Listening
  <2>1. MigrationInv' /\ options' = options /\ catalog' = catalog
    BY <1>1 DEF BootInv, MigrationInv, Verified, Migrated, Prepared, Routed, Listening, Goto,
                migrationVars
  <2>2. CASE Migrated
    <3>1. catalog = 1..Files
      BY <1>0, <2>2, SoundSchema DEF BootInv, Migrated, SchemaIsSound, SuccessIsComplete
    <3> QED
      BY <2>1, <3>1 DEF BootInv, ServesWhatItMigrated
  <2>3. CASE Verified \/ Prepared \/ Routed \/ Listening
    BY <2>1, <2>3 DEF BootInv, ServesWhatItMigrated, Verified, Prepared, Routed, Listening, Goto
  <2> QED
    BY <1>1, <2>2, <2>3
<1>2. ASSUME NEW r \in Runners, Migrate(r), phase \in {"verify", "migrate"}, phase' = phase
      PROVE  BootInv'
  BY <1>2, MigrateIsSound DEF BootInv, ServesWhatItMigrated
<1>3. CASE ServerMigrates \/ \E r \in Runners : DeployMigrates(r)
  BY <1>0, <1>2, <1>3 DEF ServerMigrates, DeployMigrates
<1>4. CASE MigrationFailed \/ Crash \/ \E s \in Signals : DrainedAgain(s) \/ Exit(s)
  <2>1. PICK how \in {"crashed", "exited"} : Die(how)
    BY <1>4 DEF MigrationFailed, Crash, DrainedAgain, Exit
  <2> QED
    BY <2>1, KilledIsSound DEF Die, BootInv, ServesWhatItMigrated
<1>5. CASE Restart
  BY <1>5, KilledIsSound DEF Restart, BootInv, ServesWhatItMigrated
<1>6. CASE UNCHANGED <<migrationVars, options, phase>>
  BY <1>6 DEF BootInv, MigrationInv, ServesWhatItMigrated, migrationVars
<1>7. CASE \/ \E id \in Ids, time \in clock..MaxClock : HandleRawEvent(id, time)
           \/ AppendLine \/ BeginJob \/ AttemptBegins \/ AttemptEnds \/ GivenUp
           \/ OpenStream \/ CloseStream
           \/ \E s \in Signals : Signal(s) \/ Drained(s) \/ PoolEnded(s)
  BY <1>6, <1>7 DEF HandleRawEvent, AppendLine, BeginJob, AttemptBegins, AttemptEnds, GivenUp,
                    JobGoes, OpenStream, CloseStream, Signal, Drained, PoolEnded
<1> QED
  BY <1>1, <1>3, <1>4, <1>5, <1>7 DEF ProcessNext

-----------------------------------------------------------------------------
LEMMA Preserved == IInv /\ [ProcessNext]_processVars => IInv'
<1>1. CASE UNCHANGED processVars
  BY <1>1 DEF processVars, logVars, jobVars, endVars, migrationVars, IInv, BootInv, MigrationInv,
              ServesWhatItMigrated, LogInv, OnlyTheTailIsLost, EndInv, OnlyOverdueJobIsLost
<1> QED
  BY <1>1, BootPreserved, LogPreserved, EndPreserved DEF IInv

(* Every state of a process is one of these, through its boots, migrations *)
(* and signals.                                                            *)
THEOREM Invariance == ProcessSpec => []IInv
BY Initially, Preserved, PTL DEF ProcessSpec

(* Whatever runs of runMigrations() overlap, fail or are killed, each file *)
(* is committed once and in order, and a server told to migrate on start   *)
(* serves no schema with a file missing (db/migrations.ts, index.ts).      *)
THEOREM SchemaIsComplete == ProcessSpec => []MigrationsAreSafe
<1>1. IInv => MigrationsAreSafe
  BY SoundSchema DEF IInv, BootInv, MigrationsAreSafe
<1> QED
  BY <1>1, Invariance, PTL

(* What a process that ends loses of the raw log are its last events,      *)
(* whichever appends failed before (writeChain of index.ts).               *)
THEOREM LinesKeepTheirOrder == ProcessSpec => []OnlyTheTailIsLost
<1>1. IInv => OnlyTheTailIsLost
  BY DEF IInv, LogInv
<1> QED
  BY <1>1, Invariance, PTL

(* Whatever events came at whatever times and were lost of the log, a boot *)
(* that replays it shows each feed that has a line: with the event of its  *)
(* last line, within an hour of it, newest first                           *)
(* (replayLatestRawEventsFromLog, addEvents).                              *)
THEOREM ReplayShowsTheLastHour == ProcessSpec => []ReplayIsRecent
<1>1. ProcessInit => ReplayInv
  BY DEF ProcessInit, ReplayInv
<1>2. ProcessSpec => []ReplayInv
  BY <1>1, ReplayPreserved, PTL DEF ProcessSpec
<1>3. IInv /\ ReplayInv => ReplayIsRecent
  <2> SUFFICES ASSUME IInv, ReplayInv, phase = "replayed", options.replay, NEW f \in Feeds
               PROVE  LET last == log[Max(OfFeed(log, f))]
                          shown == store[f]
                      IN /\ OfFeed(log, f) # {} => \E i \in DOMAIN shown : shown[i].id = last.id
                         /\ \A i \in DOMAIN shown : shown[i].at >= last.at - Window
                         /\ \A i \in DOMAIN shown : \A j \in 1..i : shown[j].at >= shown[i].at
    BY DEF ReplayIsRecent
  <2>1. store[f] = ShownOf(log, f) /\ log \in Seq(Lines)
    BY DEF ReplayInv, IInv, LogInv
  <2> QED
    BY <2>1, ReplayShows
<1> QED
  BY <1>2, <1>3, Invariance, PTL

(* A process that exits by itself, after one signal or more, cuts no        *)
(* statement short and has seen every job through, save the one that waits  *)
(* between two attempts since the drain deadline (shutdown() of index.ts).  *)
THEOREM CleanExit == ProcessSpec => []OnlyOverdueJobIsLost
<1>1. IInv => OnlyOverdueJobIsLost
  BY DEF IInv, EndInv
<1> QED
  BY <1>1, Invariance, PTL

-----------------------------------------------------------------------------
(* CryptoAttackClient.                                                     *)

Statuses ==
  [connected : BOOLEAN, serverConnected : BOOLEAN, generation : Nat,
   subscriptions : {"pending", "attempted"}]
Rounds == [generation : Nat, reason : {"connect", "connected"}]

(* TypeOK without its bounds on generations, and the type of the history.  *)
ClientTypes ==
  /\ link \in Links
  /\ reopening \in BOOLEAN /\ stopped \in BOOLEAN /\ announced \in BOOLEAN
  /\ generation \in Nat
  /\ subscribedGeneration \in {Unset} \cup (0..generation)
  /\ connectAttemptedGeneration \in {Unset} \cup (0..generation)
  /\ status \in Statuses
  /\ losses \in 0..MaxLosses
  /\ heard \in SUBSET {"early", "late"}
  /\ unforced \in Seq(Rounds)

(* Why a round is not repeated: rounds carry the generation they were sent *)
(* in, generations never return, and while a connection lasts the          *)
(* announced round of its generation has set subscribedGeneration.         *)
PastRounds ==
  /\ \A i \in 1..Len(unforced) : unforced[i].generation <= generation
  /\ link = "connected" =>
       \A i \in 1..Len(unforced) :
         unforced[i] = [generation |-> generation, reason |-> "connected"]
           => subscribedGeneration = generation

ClientInv == ClientTypes /\ StatusIsTrue /\ ConnectedIsSubscribed /\ PastRounds /\ OneRoundPerReason

-----------------------------------------------------------------------------
LEMMA InitClientInv == Init => ClientInv
<1> SUFFICES ASSUME Init PROVE ClientInv
  OBVIOUS
<1>1. ClientTypes
  <2>1. status \in Statuses
    BY DEF Init, Statuses
  <2>2. unforced \in Seq(Rounds)
    BY DEF Init
  <2>3. losses \in 0..MaxLosses
    BY CryptoAttackClientAssumption DEF Init
  <2> QED
    BY <2>1, <2>2, <2>3 DEF Init, ClientTypes, Links, Unset
<1> QED
  BY <1>1 DEF Init, ClientInv, StatusIsTrue, ConnectedIsSubscribed, PastRounds, OneRoundPerReason

(* A round appended to the history repeats none if its generation and      *)
(* reason are new.                                                         *)
LEMMA AppendRound ==
  ASSUME unforced \in Seq(Rounds), NEW round \in Rounds,
         OneRoundPerReason, unforced' = Append(unforced, round),
         \A i \in 1..Len(unforced) : unforced[i] # round
  PROVE  OneRoundPerReason'
<1>1. /\ Len(unforced') = Len(unforced) + 1 /\ Len(unforced) \in Nat
      /\ \A i \in 1..Len(unforced) : unforced'[i] = unforced[i]
      /\ unforced'[Len(unforced) + 1] = round
  OBVIOUS
<1> QED
  BY <1>1 DEF OneRoundPerReason

LEMMA Generations ==
  ASSUME ClientTypes
  PROVE  generation \in Nat /\ generation + 1 \in Nat /\ Unset \notin Nat
         /\ connectAttemptedGeneration # generation + 1
BY DEF ClientTypes, Unset

(* 'connect' opens a new generation and always sends its round. *)
LEMMA ConnectedKeeps ==
  ASSUME ClientInv, Connected
  PROVE  ClientInv'
<1> DEFINE round == [generation |-> generation + 1, reason |-> "connect"]
<1> USE DEF ClientInv
<1>1. /\ link' = "connected" /\ generation' = generation + 1 /\ subscribedGeneration' = Unset
      /\ announced' = FALSE /\ connectAttemptedGeneration' = generation + 1
      /\ status' = [connected |-> TRUE, serverConnected |-> FALSE,
                    generation |-> generation + 1, subscriptions |-> "attempted"]
      /\ heard' = {"early"} /\ unforced' = Append(unforced, round)
      /\ UNCHANGED <<reopening, losses, stopped>>
  BY Generations DEF Connected, FallbackDue, Round, Phase, ClientTypes, Statuses
<1>2. /\ round \in Rounds /\ unforced \in Seq(Rounds)
      /\ \A i \in 1..Len(unforced) : unforced[i].generation <= generation
  BY Generations DEF Rounds, ClientTypes, PastRounds
<1>3. \A i \in 1..Len(unforced) : unforced[i] # round
  BY <1>2, Generations
<1>4. ClientTypes'
  <2>1. status' \in Statuses
    BY <1>1, Generations DEF Statuses
  <2>2. unforced' \in Seq(Rounds)
    BY <1>1, <1>2
  <2>3. generation' \in Nat /\ connectAttemptedGeneration' \in 0..generation'
    BY <1>1, Generations
  <2> QED
    BY <1>1, <2>1, <2>2, <2>3 DEF ClientTypes, Links
<1>5. StatusIsTrue' /\ ConnectedIsSubscribed'
  BY <1>1 DEF StatusIsTrue, ConnectedIsSubscribed
<1>6. PastRounds'
  <2>1. \A i \in 1..Len(unforced') :
          unforced'[i] = round \/ (i \in 1..Len(unforced) /\ unforced'[i] = unforced[i])
    BY <1>1, <1>2
  <2>2. round.generation = generation + 1 /\ round.reason = "connect"
    OBVIOUS
  <2> QED
    <3>1. \A i \in 1..Len(unforced') : unforced'[i].generation <= generation'
      <4>1. ASSUME NEW i \in 1..Len(unforced), unforced[i].generation <= generation
            PROVE  unforced[i].generation <= generation + 1
        <5>1. unforced[i] \in Rounds
          BY <1>2
        <5>2. unforced[i].generation \in Nat
          BY <5>1 DEF Rounds
        <5> QED
          BY <4>1, <5>2, Generations
      <4>2. round.generation <= generation + 1
        BY <2>2, Generations
      <4>3. generation' = generation + 1
        BY <1>1
      <4> HIDE DEF round
      <4> QED
        BY <1>2, <2>1, <4>1, <4>2, <4>3
    <3>2. ASSUME NEW i \in 1..Len(unforced'),
                 unforced'[i] = [generation |-> generation', reason |-> "connected"]
          PROVE  FALSE
      <4>1. unforced'[i].generation = generation + 1 /\ unforced'[i].reason = "connected"
        BY <1>1, <3>2
      <4>2. unforced'[i] # round
        BY <2>2, <4>1
      <4>3. i \in 1..Len(unforced) /\ unforced[i].generation = generation + 1
        BY <2>1, <4>1, <4>2
      <4>4. unforced[i].generation \in Nat
        BY <1>2, <4>3 DEF Rounds
      <4> QED
        BY <1>2, <4>3, <4>4, Generations
    <3> QED
      BY <3>1, <3>2 DEF PastRounds
<1>7. OneRoundPerReason'
  BY <1>1, <1>2, <1>3, AppendRound
<1> QED
  BY <1>4, <1>5, <1>6, <1>7

(* The server's announcement sends a round once for a generation. *)
LEMMA ServerConnectedKeeps ==
  ASSUME ClientInv, ServerConnected
  PROVE  ClientInv'
<1> DEFINE round == [generation |-> generation, reason |-> "connected"]
<1> USE DEF ClientInv
<1>1. /\ link = "connected" /\ announced' = TRUE
      /\ UNCHANGED <<socketVars, generation, connectAttemptedGeneration, stopped>>
      /\ status'.connected = TRUE /\ status'.serverConnected = TRUE
      /\ status'.generation = status.generation /\ status' \in Statuses
      /\ heard \subseteq heard' /\ heard' \in SUBSET {"early", "late"}
  BY DEF ServerConnected, AnnouncedDue, Round, NoRound, Phase, ClientTypes, Statuses
<1>2. \/ UNCHANGED <<subscribedGeneration, unforced>>
      \/ /\ subscribedGeneration # generation /\ subscribedGeneration' = generation
         /\ unforced' = Append(unforced, round)
  BY DEF ServerConnected, AnnouncedDue, Round, NoRound
<1>3. StatusIsTrue' /\ ConnectedIsSubscribed'
  BY <1>1 DEF StatusIsTrue, ConnectedIsSubscribed, socketVars
<1>4. CASE UNCHANGED <<subscribedGeneration, unforced>>
  <2>1. ClientTypes'
    BY <1>1, <1>4 DEF ClientTypes, socketVars
  <2>2. PastRounds' /\ OneRoundPerReason'
    BY <1>1, <1>4 DEF PastRounds, OneRoundPerReason, socketVars
  <2> QED
    BY <1>3, <2>1, <2>2
<1>5. CASE /\ subscribedGeneration # generation /\ subscribedGeneration' = generation
           /\ unforced' = Append(unforced, round)
  <2>1. round \in Rounds /\ unforced \in Seq(Rounds) /\ round.generation = generation
    BY DEF Rounds, ClientTypes
  <2>2. \A i \in 1..Len(unforced) : unforced[i] # round
    BY <1>1, <1>5 DEF PastRounds
  <2>3. OneRoundPerReason'
    BY <1>5, <2>1, <2>2, AppendRound
  <2>4. ClientTypes'
    BY <1>1, <1>5, <2>1, Generations DEF ClientTypes, socketVars
  <2>5. \A i \in 1..Len(unforced') :
          unforced'[i] = round \/ (i \in 1..Len(unforced) /\ unforced'[i] = unforced[i])
    BY <1>5, <2>1
  <2>6. PastRounds'
    BY <1>1, <1>5, <2>1, <2>5, Generations DEF PastRounds
  <2> QED
    BY <1>3, <2>3, <2>4, <2>6
<1> QED
  BY <1>2, <1>4, <1>5

LEMMA RefreshKeeps ==
  ASSUME ClientInv, Refresh
  PROVE  ClientInv'
<1> USE DEF ClientInv
<1>1. /\ link = "connected" /\ subscribedGeneration' = generation
      /\ UNCHANGED <<link, reopening, losses, generation, connectAttemptedGeneration, stopped,
                     announced, unforced>>
      /\ status' = [status EXCEPT !.subscriptions = "attempted"]
      /\ heard \subseteq heard' /\ heard' \in SUBSET {"early", "late"}
  BY DEF Refresh, RefreshDue, Round, Phase, ClientTypes, socketVars
<1>2. ClientTypes'
  BY <1>1, Generations DEF ClientTypes, Statuses
<1>3. StatusIsTrue' /\ ConnectedIsSubscribed'
  BY <1>1 DEF StatusIsTrue, ConnectedIsSubscribed, ClientTypes, Statuses
<1>4. PastRounds' /\ OneRoundPerReason'
  BY <1>1 DEF PastRounds, OneRoundPerReason
<1> QED
  BY <1>2, <1>3, <1>4

(* A step that leaves a socket that is not connected keeps the invariant   *)
(* if the status says so.                                                  *)
LEMMA DownKeeps ==
  ASSUME ClientInv, link' \in Links \ {"connected"}, reopening' \in BOOLEAN, stopped' \in BOOLEAN,
         losses' \in 0..MaxLosses,
         UNCHANGED <<generation, serverVars, unforced>>,
         subscribedGeneration' \in {Unset, subscribedGeneration},
         connectAttemptedGeneration' \in {Unset, connectAttemptedGeneration},
         status' \in {status, ResetStatus}, ~status'.connected, ~status'.serverConnected
  PROVE  ClientInv'
<1> USE DEF ClientInv
<1>1. status' \in Statuses /\ status'.generation = status.generation
  BY DEF ResetStatus, ClientTypes, Statuses
<1>2. ClientTypes'
  BY <1>1 DEF ClientTypes, serverVars
<1>3. StatusIsTrue' /\ ConnectedIsSubscribed'
  BY <1>1 DEF StatusIsTrue, ConnectedIsSubscribed, serverVars
<1>4. PastRounds' /\ OneRoundPerReason'
  BY DEF PastRounds, OneRoundPerReason
<1> QED
  BY <1>2, <1>3, <1>4

LEMMA SocketKeeps ==
  ASSUME ClientInv,
         TransportOpens \/ TransportFails \/ BackoffEnds \/ ServerRefuses \/ TransportLost
           \/ ServerDisconnects \/ Stop
  PROVE  ClientInv'
<1>1. ClientTypes /\ StatusIsTrue
  BY DEF ClientInv
<1>2. ~ResetStatus.connected /\ ~ResetStatus.serverConnected
  BY <1>1 DEF ResetStatus, ClientTypes, Statuses
<1>3. link # "connected" => ~status.connected /\ ~status.serverConnected
  BY <1>1 DEF StatusIsTrue, ClientTypes, Statuses
<1>4. losses < MaxLosses => losses + 1 \in 0..MaxLosses
  BY <1>1, CryptoAttackClientAssumption DEF ClientTypes
<1> USE DEF Links, socketVars, generations, serverVars
<1>5. CASE TransportOpens
  BY <1>1, <1>3, <1>5, DownKeeps DEF TransportOpens, ClientTypes
<1>6. CASE TransportFails
  BY <1>1, <1>2, <1>6, DownKeeps DEF TransportFails, ConnectError, ClientTypes
<1>7. CASE BackoffEnds
  BY <1>1, <1>3, <1>7, DownKeeps DEF BackoffEnds, ClientTypes
<1>8. CASE ServerRefuses
  BY <1>1, <1>2, <1>8, DownKeeps DEF ServerRefuses, ConnectError, ClientTypes
<1>9. CASE TransportLost
  BY <1>1, <1>2, <1>4, <1>9, DownKeeps DEF TransportLost, Disconnect, ClientTypes
<1>10. CASE ServerDisconnects
  BY <1>1, <1>2, <1>4, <1>10, DownKeeps DEF ServerDisconnects, Disconnect, ClientTypes
<1>11. CASE Stop
  BY <1>1, <1>2, <1>3, <1>11, DownKeeps DEF Stop, Disconnect, ClientTypes
<1> QED
  BY <1>5, <1>6, <1>7, <1>8, <1>9, <1>10, <1>11

LEMMA StepClientInv == ClientInv /\ [Next]_vars => ClientInv'
<1> SUFFICES ASSUME ClientInv, [Next]_vars PROVE ClientInv'
  OBVIOUS
<1>1. CASE Connected
  BY <1>1, ConnectedKeeps
<1>2. CASE ServerConnected
  BY <1>2, ServerConnectedKeeps
<1>3. CASE Refresh
  BY <1>3, RefreshKeeps
<1>4. CASE TransportOpens \/ TransportFails \/ BackoffEnds \/ ServerRefuses \/ TransportLost
           \/ ServerDisconnects \/ Stop
  BY <1>4, SocketKeeps
<1>5. CASE UNCHANGED vars
  BY <1>5 DEF vars, socketVars, generations, serverVars, ClientInv, ClientTypes, StatusIsTrue,
              ConnectedIsSubscribed, PastRounds, OneRoundPerReason
<1> QED
  BY <1>1, <1>2, <1>3, <1>4, <1>5 DEF Next

(* The inductive invariant holds in every reachable state. *)
THEOREM ClientInvariance == Spec => []ClientInv
<1>1. Init => ClientInv
  BY InitClientInv
<1>2. ClientInv /\ [Next]_vars => ClientInv'
  BY StepClientInv
<1> QED
  BY <1>1, <1>2, PTL DEF Spec

-----------------------------------------------------------------------------
(* Every variable keeps its type, and no generation is ahead of the        *)
(* current one.                                                            *)
THEOREM ClientTypeCorrect == Spec => []TypeOK
<1>1. ClientInv => TypeOK
  BY DEF ClientInv, ClientTypes, Statuses, StatusIsTrue, TypeOK
<1> QED
  BY <1>1, ClientInvariance, PTL

(* The published status is that of the socket in every order of handlers.  *)
THEOREM StatusTruth == Spec => []StatusIsTrue
<1>1. ClientInv => StatusIsTrue
  BY DEF ClientInv
<1> QED
  BY <1>1, ClientInvariance, PTL

(* The server of a connected socket has received a round on it.            *)
THEOREM Subscribed == Spec => []ConnectedIsSubscribed
<1>1. ClientInv => ConnectedIsSubscribed
  BY DEF ClientInv
<1> QED
  BY <1>1, ClientInvariance, PTL

(* No generation sends the round of a reason twice, refreshes apart.       *)
THEOREM RoundsAreUnique == Spec => []OneRoundPerReason
<1>1. ClientInv => OneRoundPerReason
  BY DEF ClientInv
<1> QED
  BY <1>1, ClientInvariance, PTL

=============================================================================
