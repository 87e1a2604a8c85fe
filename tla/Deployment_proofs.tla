------------------------- MODULE Deployment_proofs -------------------------
(***************************************************************************)
(* Proofs about what the servers of one database share.  Part 1 is about   *)
(* Deployment, for any processes, keys, number of migrations and division  *)
(* of them into modules and SQL, DDL and the others.  Part 2 is about      *)
(* MailSettings, for any servers, columns and calls under way.             *)
(***************************************************************************)
EXTENDS Deployment, MailSettings, FiniteSetTheorems, WellFoundedInduction, TLAPS

-----------------------------------------------------------------------------
(***************************************************************************)
(* Part 1: Deployment                                                      *)
(***************************************************************************)

Migrates(p) == proc[p] # Idle /\ proc[p].kind = "migrate"
ServerRun(p) == proc[p] # Idle /\ proc[p].kind = "server"
PastRead(p) == Migrates(p) /\ proc[p].stage \in {"verify", "key", "apply", "insert", "record"}

-----------------------------------------------------------------------------
(* The next migration                                                      *)

\* Sets of files have a least element: of the intervals up to each of them, one
\* contains no other.
LEMMA LeastFile ==
    ASSUME NEW S \in SUBSET Files, S # {}
    PROVE  \E m \in S : \A n \in S : m <= n
<1> DEFINE R == StrictSubsetOrdering(Files)
           T == {1..n : n \in S}
<1>1. Last \in Nat
  BY DeploymentConstants
<1>2. IsWellFoundedOn(R, SUBSET Files)
  <2>1. IsFiniteSet(Files)
    BY <1>1, FS_Interval DEF Files
  <2>2. FiniteSubsetsOf(Files) = SUBSET Files
    BY <2>1, FS_FiniteSubsetsOfFinite
  <2>3. IsWellFoundedOn(R, FiniteSubsetsOf(Files))
    BY FS_StrictSubsetOrderingWellFounded
  <2> QED
    BY <2>2, <2>3
<1>3. T \subseteq SUBSET Files /\ T # {}
  <2>1. \A n \in S : 1..n \subseteq Files
    BY <1>1 DEF Files
  <2> QED
    BY <2>1
<1>4. PICK X \in T : \A Y \in T : <<Y, X>> \notin R
  <2> HIDE DEF R, T
  <2> QED
    BY <1>2, <1>3, WFMin
<1>5. PICK m \in S : X = 1..m
  BY <1>4
<1>6. ASSUME NEW n \in S, n < m
      PROVE  FALSE
  <2>1. 1..n \subseteq 1..m /\ 1..n # 1..m
    BY <1>1, <1>6 DEF Files
  <2>2. <<1..n, 1..m>> \in R
    <3>1. 1..n \in SUBSET Files /\ 1..m \in SUBSET Files
      BY <1>1 DEF Files
    <3> QED
      BY <2>1, <3>1 DEF StrictSubsetOrdering
  <2> QED
    BY <1>4, <1>5, <2>2
<1> QED
  BY <1>1, <1>6 DEF Files

LEMMA NextFileIsPending ==
    ASSUME NEW p, Pending(p) # {}
    PROVE  NextFile(p) \in Pending(p) /\ NextFile(p) \in Files
<1>1. Pending(p) \in SUBSET Files
  BY DEF Pending
<1>2. \E m \in Pending(p) : \A n \in Pending(p) : m <= n
  BY <1>1, LeastFile
<1> QED
  BY <1>1, <1>2 DEF NextFile

-----------------------------------------------------------------------------
(* Types: what each action does to the process that takes it               *)

MigrateRun == [kind : {"migrate"}, stage : {"lock", "read", "verify", "key", "apply", "insert", "record"},
               key : Keys \cup {None}, sql : [Files -> Sql], applied : SUBSET Files,
               ran : Sql \cup {"null"}]
ServerRuns == [kind : {"server"}, stage : {"check", "record", "admin", "create", "serve"}, key : Keys]

LEMMA ProcKinds ==
    ASSUME TypeOK, NEW p \in Procs
    PROVE  /\ proc[p] = Idle \/ proc[p] \in MigrateRun \/ proc[p] \in ServerRuns
           /\ proc[p].stage # "idle" => proc[p] # Idle
           /\ Migrates(p) => proc[p] \in MigrateRun
           /\ ServerRun(p) => proc[p] \in ServerRuns
  BY DEF TypeOK, Proc, MigrateRun, ServerRuns, Idle, Migrates, ServerRun

LEMMA GotoFacts ==
    ASSUME TypeOK, NEW p \in Procs, proc[p] # Idle, NEW stage, Goto(p, stage),
           \/ Migrates(p) /\ stage \in {"lock", "read", "verify", "key", "apply", "insert", "record"}
           \/ ServerRun(p) /\ stage \in {"check", "record", "admin", "create", "serve"}
    PROVE  /\ proc' \in [Procs -> Proc \cup {Idle}]
           /\ \A q \in Procs \ {p} : proc'[q] = proc[q]
           /\ proc'[p] # Idle
           /\ proc'[p].stage = stage
           /\ proc'[p].kind = proc[p].kind /\ proc'[p].key = proc[p].key
           /\ Migrates(p) => proc'[p].sql = proc[p].sql /\ proc'[p].applied = proc[p].applied
<1>1. CASE Migrates(p) /\ stage \in {"lock", "read", "verify", "key", "apply", "insert", "record"}
  <2>1. proc[p] \in MigrateRun
    BY <1>1, ProcKinds
  <2>2. [proc[p] EXCEPT !.stage = stage] \in MigrateRun
    BY <1>1, <2>1 DEF MigrateRun
  <2>3. proc' = [proc EXCEPT ![p] = [proc[p] EXCEPT !.stage = stage]]
    BY DEF Goto, TypeOK
  <2> QED
    BY <1>1, <2>1, <2>2, <2>3 DEF TypeOK, Proc, MigrateRun, Idle
<1>2. CASE ServerRun(p) /\ stage \in {"check", "record", "admin", "create", "serve"}
  <2>1. proc[p] \in ServerRuns
    BY <1>2, ProcKinds
  <2>2. [proc[p] EXCEPT !.stage = stage] \in ServerRuns
    BY <1>2, <2>1 DEF ServerRuns
  <2>3. proc' = [proc EXCEPT ![p] = [proc[p] EXCEPT !.stage = stage]]
    BY DEF Goto, TypeOK
  <2> QED
    BY <1>2, <2>1, <2>2, <2>3 DEF TypeOK, Proc, ServerRuns, MigrateRun, Idle, Migrates, ServerRun
<1> QED
  BY <1>1, <1>2

LEMMA EndFacts ==
    ASSUME TypeOK, NEW p \in Procs, End(p)
    PROVE  /\ proc' \in [Procs -> Proc \cup {Idle}]
           /\ \A q \in Procs \ {p} : proc'[q] = proc[q]
           /\ proc'[p] = Idle
           /\ lock' \in Procs \cup {None}
           /\ \A q \in Procs \ {p} : lock = q => lock' = q
  BY DEF End, TypeOK

LEMMA StartFacts ==
    ASSUME TypeOK, NEW p \in Procs, NEW record \in Proc, Start(p, record)
    PROVE  /\ proc' \in [Procs -> Proc \cup {Idle}]
           /\ \A q \in Procs \ {p} : proc'[q] = proc[q]
           /\ proc[p] = Idle /\ proc'[p] = record
           /\ runs' \in 0..MaxRuns
  BY DeploymentConstants DEF Start, TypeOK

\* A run on its way past the lock is the one that holds it.
LockHeld == \A p \in Procs : Migrates(p) /\ proc[p].stage # "lock" => lock = p

\* A run that is about to record a migration has one to record.
Running == \A p \in Procs : Migrates(p) /\ proc[p].stage = "insert" => Pending(p) # {}

LEMMA LockIsHeld == TypeOK => LockHeld
  BY DEF TypeOK, LockHeld, Migrates

\* What an action that starts, moves or ends process p does to the lock.
LEMMA LockStep ==
    ASSUME TypeOK, NEW p \in Procs, \A q \in Procs \ {p} : proc'[q] = proc[q],
           lock' \in Procs \cup {None},
           \/ \A q \in Procs \ {p} : lock = q => lock' = q
           \/ lock = None,
           Migrates(p)' /\ proc'[p].stage # "lock" => lock' = p
    PROVE  LockHeld'
  BY DeploymentConstants DEF TypeOK, LockHeld, Migrates

LEMMA TypeParts ==
    ASSUME disk' \in [Files -> Sql],
           effect' \in [Files -> [state : {"none", "part", "whole"}, sql : Sql \cup {"null"}, times : Nat]],
           recorded' \in [Files -> Sql \cup {"null", None}],
           lock' \in Procs \cup {None}, kcv' \in Keys \cup {None}, secret' \in Keys \cup {None},
           proc' \in [Procs -> Proc \cup {Idle}],
           runs' \in 0..MaxRuns, broken' \subseteq Files, late' \subseteq Files,
           {admin, mixed}' \subseteq BOOLEAN,
           LockHeld'
    PROVE  TypeOK'
  BY DEF TypeOK, LockHeld, Migrates

\* The run of migrate.mjs that an action is about.
LEMMA MigrateAt ==
    ASSUME TypeOK, NEW p \in Procs, NEW stage \in {"lock", "read", "verify", "key", "apply", "insert", "record"},
           At(p, "migrate", stage)
    PROVE  /\ Migrates(p) /\ proc[p].stage = stage /\ proc[p] \in MigrateRun /\ proc[p] # Idle
           /\ proc[p].sql \in [Files -> Sql] /\ proc[p].applied \subseteq Files /\ proc[p].key \in Keys \cup {None}
           /\ stage # "lock" => lock = p
  BY ProcKinds, LockIsHeld DEF At, Idle, Migrates, MigrateRun, LockHeld

LEMMA ServerAt ==
    ASSUME TypeOK, NEW p \in Procs, NEW stage \in {"check", "record", "admin", "create", "serve"},
           At(p, "server", stage)
    PROVE  /\ ServerRun(p) /\ proc[p].stage = stage /\ proc[p] # Idle /\ proc[p].key \in Keys /\ ~ Migrates(p)
  BY ProcKinds DEF At, Idle, ServerRun, Migrates, ServerRuns

-----------------------------------------------------------------------------
(* Type correctness                                                        *)

Migrating(p) ==
    \/ \E k \in Keys \cup {None} : MigrateStart(p, k)
    \/ MigrateLock(p) \/ MigrateRead(p) \/ MigrateVerify(p) \/ MigrateKey(p)
    \/ MigrateApply(p) \/ MigrateInsert(p) \/ MigrateRecord(p)
Booting(p) ==
    \/ \E k \in Keys : BootStart(p, k)
    \/ BootCheck(p) \/ BootRecord(p) \/ BootAdmin(p) \/ BootCreate(p) \/ StorePassword(p)
\* What applying a file does: it is run, or it breaks off and the process ends.
Applied(p, f) ==
    /\ effect' = IF f \in Ddl THEN [effect EXCEPT ![f] = Run(f, Content(p, f))] ELSE effect
    /\ proc' = [proc EXCEPT ![p].stage = "insert", ![p].ran = Content(p, f)]
    /\ UNCHANGED <<broken, lock>>
BrokenOff(p, f) ==
    /\ End(p) /\ f \in Ddl
    /\ effect' = IF effect[f].state = "none" THEN [effect EXCEPT ![f].state = "part"] ELSE effect
    /\ broken' = broken \cup {f}

LEMMA ApplyCases ==
    ASSUME TypeOK, NEW p \in Procs, MigrateApply(p), Pending(p) # {}
    PROVE  /\ At(p, "migrate", "apply") /\ NextFile(p) \in Files /\ Content(p, NextFile(p)) \in Sql
           /\ Applied(p, NextFile(p)) \/ BrokenOff(p, NextFile(p))
           /\ UNCHANGED <<disk, recorded, kcv, admin, secret, runs, late, mixed>>
<1>1. At(p, "migrate", "apply") /\ NextFile(p) \in Files
  BY NextFileIsPending DEF MigrateApply
<1>2. Content(p, NextFile(p)) \in Sql
  BY <1>1, MigrateAt DEF Content, TypeOK
<1> QED
  BY <1>1, <1>2 DEF MigrateApply, Applied, BrokenOff

LEMMA AppliedMoves ==
    ASSUME TypeOK, NEW p \in Procs, At(p, "migrate", "apply"), NEW f \in Files, Content(p, f) \in Sql,
           Applied(p, f)
    PROVE  /\ proc' \in [Procs -> Proc \cup {Idle}]
           /\ \A q \in Procs \ {p} : proc'[q] = proc[q]
           /\ proc'[p] # Idle /\ proc'[p].stage = "insert" /\ proc'[p].kind = "migrate"
           /\ proc'[p].key = proc[p].key /\ proc'[p].sql = proc[p].sql
           /\ proc'[p].applied = proc[p].applied /\ proc'[p].ran = Content(p, f)
<1> DEFINE record == [proc[p] EXCEPT !.stage = "insert", !.ran = Content(p, f)]
<1>1. proc[p] \in MigrateRun
  BY MigrateAt
<1>2. /\ record \in MigrateRun /\ record.stage = "insert" /\ record.kind = "migrate" /\ record.key = proc[p].key
      /\ record.sql = proc[p].sql /\ record.applied = proc[p].applied /\ record.ran = Content(p, f)
  BY <1>1 DEF MigrateRun
<1>3. proc' = [proc EXCEPT ![p] = record]
  BY <1>1 DEF Applied, TypeOK
<1> HIDE DEF record
<1> QED
  BY <1>2, <1>3 DEF TypeOK, Proc, MigrateRun, Idle

LEMMA MigrateTypes ==
    ASSUME TypeOK, Running, NEW p \in Procs, Migrating(p)
    PROVE  TypeOK'
<1> DEFINE Effects == [Files -> [state : {"none", "part", "whole"}, sql : Sql \cup {"null"}, times : Nat]]
           Recorded == [Files -> Sql \cup {"null", None}]
           Typed == /\ proc' \in [Procs -> Proc \cup {Idle}] /\ LockHeld' /\ lock' \in Procs \cup {None}
                    /\ effect' \in Effects /\ recorded' \in Recorded
                    /\ kcv' \in Keys \cup {None} /\ runs' \in 0..MaxRuns /\ broken' \subseteq Files
                    /\ mixed' \in BOOLEAN /\ UNCHANGED <<disk, admin, secret, late>>
<1>0. /\ effect \in Effects /\ recorded \in Recorded /\ kcv \in Keys \cup {None} /\ runs \in 0..MaxRuns
      /\ broken \subseteq Files /\ mixed \in BOOLEAN /\ lock \in Procs \cup {None}
  BY DEF TypeOK
<1>1. ASSUME NEW k \in Keys \cup {None}, MigrateStart(p, k)
      PROVE  Typed
  <2> DEFINE record == [kind |-> "migrate", stage |-> "lock", key |-> k, sql |-> disk, applied |-> {}, ran |-> "null"]
  <2>1. record \in Proc /\ record.kind = "migrate" /\ record.stage = "lock"
    BY DEF TypeOK, Proc
  <2>2. Start(p, record) /\ UNCHANGED <<disk, schema, lock, kcv, admin, secret, history>>
    BY <1>1 DEF MigrateStart
  <2> HIDE DEF record
  <2>3. LockHeld'
    BY <1>0, <2>1, <2>2, StartFacts, LockStep
  <2> QED
    BY <1>0, <2>1, <2>2, <2>3, StartFacts DEF schema, history
<1>2. ASSUME MigrateLock(p)
      PROVE  Typed
  <2>1. At(p, "migrate", "lock") /\ lock = None /\ lock' = p /\ Goto(p, "read")
    BY <1>2 DEF MigrateLock, Acquire
  <2>2. LockHeld'
    BY <2>1, MigrateAt, GotoFacts, LockStep
  <2> QED
    BY <1>0, <1>2, <2>1, <2>2, MigrateAt, GotoFacts DEF MigrateLock, schema, history
<1>3. ASSUME MigrateRead(p)
      PROVE  Typed
  <2> DEFINE done == {f \in Files : recorded[f] # None}
             record == [proc[p] EXCEPT !.stage = "verify", !.applied = done]
  <2>1. At(p, "migrate", "read")
    BY <1>3 DEF MigrateRead
  <2>2. record \in MigrateRun /\ record.stage = "verify"
    BY <2>1, MigrateAt DEF MigrateRun
  <2>3. proc' = [proc EXCEPT ![p] = record]
    BY <1>3, <2>1, MigrateAt DEF MigrateRead, TypeOK
  <2> HIDE DEF record
  <2>4. proc' \in [Procs -> Proc \cup {Idle}] /\ \A q \in Procs \ {p} : proc'[q] = proc[q]
    BY <2>2, <2>3 DEF TypeOK, Proc, MigrateRun
  <2>5. lock' = lock /\ lock = p
    BY <1>3, <2>1, MigrateAt DEF MigrateRead
  <2>6. LockHeld'
    BY <1>0, <2>4, <2>5, LockStep
  <2> QED
    BY <1>0, <1>3, <2>4, <2>5, <2>6 DEF MigrateRead, schema, history
<1>4. ASSUME MigrateVerify(p)
      PROVE  Typed
  <2>1. At(p, "migrate", "verify") /\ lock = p
    BY <1>4, MigrateAt DEF MigrateVerify
  <2>2. recorded' \in Recorded
    BY <1>0, <1>4, <2>1, MigrateAt DEF MigrateVerify, history
  <2>3. CASE Goto(p, "key") /\ lock' = lock
    <3>1. LockHeld'
      BY <1>0, <2>1, <2>3, MigrateAt, GotoFacts, LockStep
    <3> QED
      BY <1>0, <1>4, <2>1, <2>2, <2>3, <3>1, MigrateAt, GotoFacts DEF MigrateVerify, history
  <2>4. CASE End(p)
    <3>1. LockHeld'
      BY <2>4, EndFacts, LockStep DEF Migrates
    <3> QED
      BY <1>0, <1>4, <2>2, <2>4, <3>1, EndFacts DEF MigrateVerify, history
  <2> QED
    BY <1>4, <2>3, <2>4 DEF MigrateVerify
<1>5. ASSUME MigrateKey(p)
      PROVE  Typed
  <2>1. At(p, "migrate", "key") /\ lock = p
    BY <1>5, MigrateAt DEF MigrateKey
  <2>2. mixed' \in BOOLEAN
    BY <1>0, <1>5 DEF MigrateKey, history
  <2>3. CASE Goto(p, "apply") /\ lock' = lock
    <3>1. LockHeld'
      BY <1>0, <2>1, <2>3, MigrateAt, GotoFacts, LockStep
    <3> QED
      BY <1>0, <1>5, <2>1, <2>2, <2>3, <3>1, MigrateAt, GotoFacts DEF MigrateKey, schema, history
  <2>4. CASE End(p)
    <3>1. LockHeld'
      BY <2>4, EndFacts, LockStep DEF Migrates
    <3> QED
      BY <1>0, <1>5, <2>2, <2>4, <3>1, EndFacts DEF MigrateKey, schema, history
  <2> QED
    BY <1>5, <2>3, <2>4 DEF MigrateKey
<1>6. ASSUME MigrateApply(p)
      PROVE  Typed
  <2> DEFINE f == NextFile(p)
  <2>1. At(p, "migrate", "apply") /\ lock = p
    BY <1>6, MigrateAt DEF MigrateApply
  <2>2. CASE Pending(p) = {}
    <3>1. Goto(p, "record") /\ lock' = lock
      BY <1>6, <2>2 DEF MigrateApply
    <3>2. LockHeld'
      BY <1>0, <2>1, <3>1, MigrateAt, GotoFacts, LockStep
    <3> QED
      BY <1>0, <1>6, <2>1, <2>2, <3>1, <3>2, MigrateAt, GotoFacts DEF MigrateApply, history
  <2>3. CASE Pending(p) # {}
    <3>1. f \in Files /\ Content(p, f) \in Sql /\ (Applied(p, f) \/ BrokenOff(p, f))
          /\ UNCHANGED <<disk, recorded, kcv, admin, secret, runs, late, mixed>>
      BY <1>6, <2>3, ApplyCases
    <3>2. CASE Applied(p, f)
      <4>1. Run(f, Content(p, f)) \in [state : {"none", "part", "whole"}, sql : Sql \cup {"null"}, times : Nat]
        BY <1>0, <3>1 DEF Run
      <4>2. effect' \in Effects /\ broken' = broken /\ lock' = lock
        BY <1>0, <3>2, <4>1 DEF Applied
      <4>3. LockHeld'
        BY <1>0, <2>1, <3>1, <3>2, <4>2, AppliedMoves, LockStep
      <4> QED
        BY <1>0, <2>1, <3>1, <3>2, <4>2, <4>3, AppliedMoves
    <3>3. CASE BrokenOff(p, f)
      <4>1. effect' \in Effects /\ broken' \subseteq Files /\ End(p)
        BY <1>0, <3>1, <3>3 DEF BrokenOff
      <4>2. LockHeld'
        BY <4>1, EndFacts, LockStep DEF Migrates
      <4> QED
        BY <1>0, <3>1, <4>1, <4>2, EndFacts
    <3> QED
      BY <3>1, <3>2, <3>3
  <2> QED
    BY <2>2, <2>3
<1>7. ASSUME MigrateInsert(p)
      PROVE  Typed
  <2> DEFINE f == NextFile(p)
             record == [proc[p] EXCEPT !.stage = "apply", !.applied = proc[p].applied \cup {f}, !.ran = "null"]
  <2>1. At(p, "migrate", "insert") /\ lock = p /\ lock' = lock
    BY <1>7, MigrateAt DEF MigrateInsert
  <2>2. f \in Files
    BY <2>1, MigrateAt, NextFileIsPending DEF Running
  <2>3. record \in MigrateRun
    BY <2>1, <2>2, MigrateAt DEF MigrateRun
  <2>4. proc' = [proc EXCEPT ![p] = record]
    BY <1>7, <2>1, MigrateAt DEF MigrateInsert, TypeOK
  <2>5. f \notin Ddl => Run(f, proc[p].ran) \in [state : {"none", "part", "whole"}, sql : Sql \cup {"null"}, times : Nat]
    BY <1>0, <2>1, <2>2, MigrateAt DEF Run, MigrateRun
  <2>6. effect' \in Effects
    BY <1>0, <1>7, <2>5 DEF MigrateInsert, history
  <2>7. recorded' \in Recorded
    BY <1>0, <1>7, <2>1, <2>2, MigrateAt DEF MigrateInsert, Checksum, history
  <2> HIDE DEF record
  <2>8. proc' \in [Procs -> Proc \cup {Idle}] /\ \A q \in Procs \ {p} : proc'[q] = proc[q]
    BY <2>3, <2>4 DEF TypeOK, Proc, MigrateRun
  <2>9. LockHeld'
    BY <1>0, <2>1, <2>8, LockStep
  <2> QED
    BY <1>0, <1>7, <2>1, <2>6, <2>7, <2>8, <2>9 DEF MigrateInsert, history
<1>8. ASSUME MigrateRecord(p)
      PROVE  Typed
  <2>1. At(p, "migrate", "record") /\ End(p)
    BY <1>8 DEF MigrateRecord
  <2>2. kcv' \in Keys \cup {None}
    BY <1>0, <1>8, <2>1, MigrateAt DEF MigrateRecord, StoreKey, history
  <2>3. LockHeld'
    BY <2>1, EndFacts, LockStep DEF Migrates
  <2> QED
    BY <1>0, <1>8, <2>1, <2>2, <2>3, EndFacts DEF MigrateRecord, schema, history
<1>9. Typed
  BY <1>1, <1>2, <1>3, <1>4, <1>5, <1>6, <1>7, <1>8 DEF Migrating
<1> QED
  BY <1>9, TypeParts DEF TypeOK

LEMMA ServerTypes ==
    ASSUME TypeOK, NEW p \in Procs, Booting(p)
    PROVE  TypeOK' /\ ~ Migrates(p)' /\ \A q \in Procs \ {p} : proc'[q] = proc[q]
<1> DEFINE Moved == /\ proc' \in [Procs -> Proc \cup {Idle}] /\ \A q \in Procs \ {p} : proc'[q] = proc[q]
                    /\ ~ Migrates(p)'
                    /\ lock' \in Procs \cup {None} /\ \A q \in Procs \ {p} : lock = q => lock' = q
           Others == /\ kcv' \in Keys \cup {None} /\ runs' \in 0..MaxRuns /\ mixed' \in BOOLEAN
                     /\ admin' \in BOOLEAN /\ secret' \in Keys \cup {None}
                     /\ UNCHANGED <<disk, effect, recorded, broken, late>>
<1>0. /\ kcv \in Keys \cup {None} /\ runs \in 0..MaxRuns /\ mixed \in BOOLEAN /\ admin \in BOOLEAN
      /\ lock \in Procs \cup {None} /\ secret \in Keys \cup {None}
      /\ proc \in [Procs -> Proc \cup {Idle}]
  BY DEF TypeOK
<1>1. ASSUME NEW from \in {"check", "record", "admin", "create", "serve"}, At(p, "server", from),
             NEW to \in {"check", "record", "admin", "create", "serve"}, Goto(p, to), lock' = lock
      PROVE  Moved
  BY <1>0, <1>1, ServerAt, GotoFacts DEF Migrates, ServerRun
<1>2. ASSUME End(p)
      PROVE  Moved
  BY <1>2, EndFacts DEF Migrates
<1>3. ASSUME NEW k \in Keys, BootStart(p, k)
      PROVE  Moved /\ Others
  <2> DEFINE record == [kind |-> "server", stage |-> "check", key |-> k]
  <2>1. record \in Proc /\ record.kind = "server"
    BY DEF Proc
  <2>2. Start(p, record) /\ UNCHANGED <<disk, schema, lock, kcv, admin, secret, history>>
    BY <1>3 DEF BootStart
  <2> HIDE DEF record
  <2> QED
    BY <1>0, <2>1, <2>2, StartFacts DEF schema, history, Migrates
<1>4. ASSUME BootCheck(p)
      PROVE  Moved /\ Others
  <2>1. Moved
    BY <1>1, <1>2, <1>4 DEF BootCheck
  <2> QED
    BY <1>0, <1>4, <2>1 DEF BootCheck, schema
<1>5. ASSUME BootRecord(p)
      PROVE  Moved /\ Others
  <2>1. Moved
    BY <1>1, <1>5 DEF BootRecord
  <2>2. kcv' \in Keys \cup {None}
    BY <1>0, <1>5, ServerAt DEF BootRecord, StoreKey
  <2> QED
    BY <1>0, <1>5, <2>1, <2>2 DEF BootRecord, schema, history
<1>6. ASSUME BootAdmin(p)
      PROVE  Moved /\ Others
  <2>1. Moved
    BY <1>1, <1>6 DEF BootAdmin
  <2> QED
    BY <1>0, <1>6, <2>1 DEF BootAdmin, schema, history
<1>7. ASSUME BootCreate(p)
      PROVE  Moved /\ Others
  <2>1. Moved
    BY <1>1, <1>2, <1>7 DEF BootCreate
  <2> QED
    BY <1>0, <1>7, <2>1 DEF BootCreate, schema, history
<1>8. ASSUME StorePassword(p)
      PROVE  Moved /\ Others
  <2>1. At(p, "server", "serve") /\ secret' = proc[p].key
        /\ UNCHANGED <<disk, schema, lock, kcv, admin, proc, runs, history>>
    BY <1>8 DEF StorePassword, Serves
  <2>2. ~ Migrates(p)' /\ proc[p].key \in Keys
    BY <2>1, ServerAt DEF Migrates
  <2> QED
    BY <1>0, <2>1, <2>2 DEF schema, history
<1>9. Moved /\ Others
  BY <1>3, <1>4, <1>5, <1>6, <1>7, <1>8 DEF Booting
<1>10. LockHeld'
  BY <1>9, LockStep
<1>11. disk' \in [Files -> Sql] /\ broken' \subseteq Files /\ late' \subseteq Files
       /\ effect' \in [Files -> [state : {"none", "part", "whole"}, sql : Sql \cup {"null"}, times : Nat]]
       /\ recorded' \in [Files -> Sql \cup {"null", None}]
  BY <1>9 DEF TypeOK
<1> QED
  BY <1>9, <1>10, <1>11, TypeParts

LEMMA StopTypes ==
    ASSUME TypeOK, Running, NEW p \in Procs, Stop(p)
    PROVE  TypeOK'
<1>1. proc' \in [Procs -> Proc \cup {Idle}] /\ lock' \in Procs \cup {None} /\ LockHeld'
  BY EndFacts, LockStep DEF Stop, Migrates
<1>2. broken' \subseteq Files
  <2>1. At(p, "migrate", "insert") => NextFile(p) \in Files
    BY MigrateAt, NextFileIsPending DEF Running
  <2> QED
    BY <2>1 DEF Stop, TypeOK
<1> QED
  BY <1>1, <1>2, TypeParts DEF Stop, TypeOK, schema

LEMMA EditTypes ==
    ASSUME TypeOK, NEW f \in Files, EditFile(f)
    PROVE  TypeOK'
  BY DEF EditFile, TypeOK, schema, Sql

LEMMA RunningStep ==
    ASSUME TypeOK, Running, NEW p \in Procs, \A q \in Procs \ {p} : proc'[q] = proc[q],
           Migrates(p)' /\ proc'[p].stage = "insert" => Files \ proc'[p].applied # {}
    PROVE  Running'
  BY DEF Running, Migrates, Pending

LEMMA RunningStays ==
    ASSUME TypeOK, Running, [Next]_vars
    PROVE  Running'
<1>1. ASSUME NEW p \in Procs, NEW k \in Keys \cup {None}, MigrateStart(p, k)
      PROVE  Running'
  <2> DEFINE record == [kind |-> "migrate", stage |-> "lock", key |-> k, sql |-> disk, applied |-> {}, ran |-> "null"]
  <2>1. record \in Proc /\ record.stage = "lock"
    BY DEF TypeOK, Proc
  <2>2. Start(p, record)
    BY <1>1 DEF MigrateStart
  <2> HIDE DEF record
  <2> QED
    BY <2>1, <2>2, StartFacts, RunningStep
<1>2. ASSUME NEW p \in Procs, NEW from \in {"lock", "read", "verify", "key", "apply"}, At(p, "migrate", from),
             NEW to \in {"read", "key", "apply", "record", "insert"}, Goto(p, to),
             to = "insert" => Pending(p) # {}
      PROVE  Running'
  BY <1>2, MigrateAt, GotoFacts, RunningStep DEF Pending
<1>3. ASSUME NEW p \in Procs, End(p)
      PROVE  Running'
  BY <1>3, EndFacts, RunningStep DEF Migrates
<1>4. ASSUME NEW p \in Procs, MigrateRead(p) \/ MigrateInsert(p)
      PROVE  Running'
  <2>1. At(p, "migrate", "read") \/ At(p, "migrate", "insert")
    BY <1>4 DEF MigrateRead, MigrateInsert
  <2>2. proc[p] \in MigrateRun
    BY <2>1, MigrateAt
  <2>3. proc'[p].stage \in {"verify", "apply"} /\ \A q \in Procs \ {p} : proc'[q] = proc[q]
    BY <1>4, <2>2 DEF MigrateRead, MigrateInsert, TypeOK, MigrateRun
  <2> QED
    BY <2>3, RunningStep
<1>5. ASSUME NEW p \in Procs, Migrating(p)
      PROVE  Running'
  <2>1. MigrateLock(p) => Running'
    BY <1>2 DEF MigrateLock
  <2>2. MigrateVerify(p) => Running'
    BY <1>2, <1>3 DEF MigrateVerify
  <2>3. MigrateKey(p) => Running'
    BY <1>2, <1>3 DEF MigrateKey
  <2>4. MigrateApply(p) => Running'
    <3> SUFFICES ASSUME MigrateApply(p)
                 PROVE  Running'
      OBVIOUS
    <3>1. CASE Pending(p) = {}
      BY <1>2, <3>1 DEF MigrateApply
    <3>2. CASE Pending(p) # {} /\ Applied(p, NextFile(p))
      BY <3>2, ApplyCases, AppliedMoves, RunningStep DEF Pending
    <3>3. CASE Pending(p) # {} /\ BrokenOff(p, NextFile(p))
      BY <1>3, <3>3 DEF BrokenOff
    <3> QED
      BY <3>1, <3>2, <3>3, ApplyCases
  <2>5. MigrateRecord(p) => Running'
    BY <1>3 DEF MigrateRecord
  <2> QED
    BY <1>1, <1>4, <1>5, <2>1, <2>2, <2>3, <2>4, <2>5 DEF Migrating
<1>6. ASSUME NEW p \in Procs, Booting(p)
      PROVE  Running'
  BY <1>6, ServerTypes, RunningStep
<1>7. ASSUME NEW p \in Procs, Stop(p)
      PROVE  Running'
  BY <1>3, <1>7 DEF Stop
<1>8. ASSUME NEW f \in Files, EditFile(f)
      PROVE  Running'
  BY <1>8 DEF EditFile, Running, Migrates, Pending
<1>9. UNCHANGED vars => Running'
  BY DEF vars, Running, Migrates, Pending
<1> QED
  BY <1>5, <1>6, <1>7, <1>8, <1>9 DEF Next, Migrating, Booting

LEMMA InitTypes == Init => TypeOK /\ Running
<1> SUFFICES ASSUME Init PROVE TypeOK /\ Running
  OBVIOUS
<1>1. proc = [p \in Procs |-> Idle] /\ Running /\ LockHeld
  BY DEF Init, Running, LockHeld, Migrates
<1>2. PICK old \in SUBSET {1} :
        /\ effect = [f \in Files |-> [state |-> IF f \in old THEN "whole" ELSE "none", sql |-> "null",
                                      times |-> IF f \in old THEN 1 ELSE 0]]
        /\ recorded = [f \in Files |-> IF f \in old THEN "null" ELSE None]
        /\ secret \in IF old = {} THEN {None} ELSE Keys \cup {None}
  BY DEF Init
<1>3. effect \in [Files -> [state : {"none", "part", "whole"}, sql : Sql \cup {"null"}, times : Nat]]
  BY <1>2
<1>4. recorded \in [Files -> Sql \cup {"null", None}]
  BY <1>2
<1>5. secret \in Keys \cup {None}
  BY <1>2
<1>6. disk \in [Files -> Sql] /\ lock = None /\ kcv = None /\ runs \in 0..MaxRuns
  BY DeploymentConstants DEF Init, Sql
<1>7. broken \cup late \subseteq Files /\ {admin, mixed} \subseteq BOOLEAN
  BY DEF Init
<1> QED
  BY <1>1, <1>3, <1>4, <1>5, <1>6, <1>7 DEF TypeOK, LockHeld, Migrates

LEMMA TypesStay ==
    ASSUME TypeOK, Running, [Next]_vars
    PROVE  TypeOK'
<1>1. UNCHANGED vars => TypeOK'
  BY DEF vars, schema, history, TypeOK
<1> QED
  BY <1>1, MigrateTypes, ServerTypes, StopTypes, EditTypes DEF Next, Migrating, Booting

LEMMA RunningAlways == Spec => [](TypeOK /\ Running)
<1>1. Init => TypeOK /\ Running
  BY InitTypes
<1>2. TypeOK /\ Running /\ [Next]_vars => (TypeOK /\ Running)'
  BY TypesStay, RunningStays
<1> QED
  BY <1>1, <1>2, PTL DEF Spec

\* Every value is one the code handles, and however many processes start and stop,
\* one run of the migrations at a time is past the lock (acquireLock).
THEOREM TypeCorrect == Spec => []TypeOK
<1>1. TypeOK /\ Running => TypeOK
  OBVIOUS
<1> QED
  BY <1>1, RunningAlways, PTL

-----------------------------------------------------------------------------
(* One key                                                                 *)

Early == {"lock", "read", "verify", "key", "check"}
Passed(p) == proc[p] # Idle /\ proc[p].key # None /\ proc[p].stage \notin Early

\* The column that holds the key's check value is there before a value is.
ColumnKept == kcv # None => HasColumn

\* Unless processes with different keys overtook each other while none was stored,
\* all that have passed the check have one key, which is the stored one and the one
\* of the stored password.
KeysAgree ==
    mixed \/ /\ \A p, q \in Procs : Passed(p) /\ Passed(q) => proc[p].key = proc[q].key
             /\ \A p \in Procs : Passed(p) => kcv \in {None, proc[p].key} /\ secret \in {None, proc[p].key}
             /\ kcv # None => secret \in {None, kcv}

LEMMA KeysStep ==
    ASSUME TypeOK, KeysAgree, ColumnKept, NEW p \in Procs, NEW k,
           \A q \in Procs \ {p} : proc'[q] = proc[q],
           mixed => mixed',
           Passed(p)' => proc'[p].key = k /\ (\/ Passed(p) /\ proc[p].key = k
                                              \/ ~ Passed(p) /\ KeyFits(k) /\ (mixed' \/ ~ Rivals(p, k))),
           kcv' = kcv \/ (Passed(p) /\ kcv' = proc[p].key),
           secret' = secret \/ (Passed(p) /\ secret' = proc[p].key)
    PROVE  KeysAgree'
<1>1. CASE mixed'
  BY <1>1 DEF KeysAgree
<1>2. CASE ~ mixed'
  <2>1. /\ \A q, r \in Procs : Passed(q) /\ Passed(r) => proc[q].key = proc[r].key
        /\ \A q \in Procs : Passed(q) => kcv \in {None, proc[q].key} /\ secret \in {None, proc[q].key}
        /\ kcv # None => secret \in {None, kcv}
    BY <1>2 DEF KeysAgree
  <2>2. \A q \in Procs \ {p} : Passed(q)' = Passed(q) /\ proc'[q].key = proc[q].key
    BY DEF Passed
  \* what the step changes is the key of a process that had passed
  <2>3. /\ \A q \in Procs : Passed(q) => kcv' \in {None, proc[q].key} /\ secret' \in {None, proc[q].key}
        /\ kcv' # None => secret' \in {None, kcv'}
    BY <2>1
  <2>4. ASSUME Passed(p)', ~ Passed(p)
        PROVE  /\ \A q \in Procs \ {p} : Passed(q) => proc[q].key = k
               /\ kcv' \in {None, k} /\ secret' \in {None, k}
    <3>1. KeyFits(k) /\ ~ Rivals(p, k)
      BY <1>2, <2>4
    <3>2. \A q \in Procs \ {p} : Passed(q) => proc[q].key = k
      BY <3>1 DEF Rivals, Passed, Early
    <3>3. kcv \in {None, k} /\ secret \in {None, k}
      BY <2>1, <3>1 DEF KeyFits, ColumnKept
    <3> QED
      BY <2>4, <3>2, <3>3
  <2>5. \A q \in Procs : Passed(q)' => kcv' \in {None, proc'[q].key} /\ secret' \in {None, proc'[q].key}
    <3>1. CASE Passed(p)' /\ ~ Passed(p)
      BY <2>2, <2>3, <2>4, <3>1
    <3>2. CASE ~ Passed(p)' \/ Passed(p)
      <4>1. Passed(p)' => proc'[p].key = proc[p].key /\ Passed(p)
        BY <3>2
      <4> QED
        BY <2>2, <2>3, <4>1
    <3> QED
      BY <3>1, <3>2
  <2>6. \A q, r \in Procs : Passed(q)' /\ Passed(r)' => proc'[q].key = proc'[r].key
    <3>1. \A q \in Procs \ {p} : Passed(q) /\ Passed(p)' => proc[q].key = k
      BY <2>1, <2>4
    <3> QED
      BY <2>1, <2>2, <3>1
  <2> QED
    BY <2>3, <2>5, <2>6 DEF KeysAgree
<1> QED
  BY <1>1, <1>2

\* Nothing takes back what a migration has done.
LEMMA WholeStays ==
    ASSUME TypeOK, Running, [Next]_vars, NEW f \in Files, effect[f].state = "whole"
    PROVE  effect'[f].state = "whole"
<1>1. ASSUME NEW p \in Procs, MigrateApply(p)
      PROVE  effect'[f].state = "whole"
  <2>1. CASE Pending(p) = {}
    BY <1>1, <2>1 DEF MigrateApply
  <2>2. CASE Pending(p) # {}
    <3> DEFINE g == NextFile(p)
    <3>1. g \in Files
      BY <2>2, NextFileIsPending
    <3>2. \/ effect' = effect
          \/ effect' = [effect EXCEPT ![g] = Run(g, Content(p, g))]
          \/ effect[g].state = "none" /\ effect' = [effect EXCEPT ![g].state = "part"]
      BY <1>1, <2>2 DEF MigrateApply
    <3> QED
      BY <3>1, <3>2 DEF Run, TypeOK
  <2> QED
    BY <2>1, <2>2
<1>2. ASSUME NEW p \in Procs, MigrateInsert(p)
      PROVE  effect'[f].state = "whole"
  BY <1>2 DEF MigrateInsert, Run, TypeOK
<1>3. ASSUME NEW p \in Procs, Migrating(p), ~ MigrateApply(p), ~ MigrateInsert(p)
      PROVE  effect' = effect
  BY <1>3 DEF Migrating, MigrateStart, MigrateLock, MigrateRead, MigrateVerify, MigrateKey, MigrateRecord, schema
<1>4. ASSUME NEW p \in Procs, Booting(p) \/ Stop(p)
      PROVE  effect' = effect
  BY <1>4 DEF Booting, Stop, BootStart, BootCheck, BootRecord, BootAdmin, BootCreate,
     StorePassword, schema, history
<1>5. ASSUME NEW g \in Files, EditFile(g)
      PROVE  effect' = effect
  BY <1>5 DEF EditFile, schema
<1>6. UNCHANGED vars => effect' = effect
  BY DEF vars, schema
<1> QED
  BY <1>1, <1>2, <1>3, <1>4, <1>5, <1>6 DEF Next, Migrating, Booting

\* The value is stored in the column, by an action that says which.
KcvStep == kcv' = kcv \/ \E p \in Procs : /\ At(p, "migrate", "record") \/ At(p, "server", "record")
                                          /\ proc[p].key # None /\ StoreKey(proc[p].key)

LEMMA KcvSteps ==
    ASSUME [Next]_vars
    PROVE  KcvStep
<1>1. ASSUME NEW p \in Procs, MigrateRecord(p)
      PROVE  KcvStep
  BY <1>1 DEF MigrateRecord, KcvStep
<1>2. ASSUME NEW p \in Procs, Migrating(p), ~ MigrateRecord(p)
      PROVE  kcv' = kcv
  BY <1>2 DEF Migrating, MigrateStart, MigrateLock, MigrateRead, MigrateVerify, MigrateKey, MigrateApply, MigrateInsert
<1>3. ASSUME NEW p \in Procs, BootRecord(p)
      PROVE  KcvStep
  BY <1>3 DEF BootRecord, KcvStep, StoreKey
<1>4. ASSUME NEW p \in Procs, Booting(p) \/ Stop(p), ~ BootRecord(p)
      PROVE  kcv' = kcv
  BY <1>4 DEF Booting, Stop, BootStart, BootCheck, BootAdmin, BootCreate,
     StorePassword
<1>5. ASSUME NEW g \in Files, EditFile(g)
      PROVE  kcv' = kcv
  BY <1>5 DEF EditFile
<1>6. UNCHANGED vars => kcv' = kcv
  BY DEF vars
<1> QED
  BY <1>1, <1>2, <1>3, <1>4, <1>5, <1>6 DEF Next, Migrating, Booting, KcvStep

LEMMA ColumnStays ==
    ASSUME TypeOK, Running, ColumnKept, [Next]_vars
    PROVE  ColumnKept'
<1>1. HasColumn => HasColumn'
  BY WholeStays, DeploymentConstants DEF HasColumn
<1>2. kcv' # None => HasColumn
  BY KcvSteps DEF KcvStep, StoreKey, ColumnKept
<1> QED
  BY <1>1, <1>2 DEF ColumnKept

LEMMA MixedStays == [Next]_vars => (mixed => mixed')
  BY DEF Next, vars, history, MigrateStart, MigrateLock, MigrateRead, MigrateVerify, MigrateKey,
     MigrateApply, MigrateInsert, MigrateRecord, BootStart, BootCheck, BootRecord, BootAdmin, BootCreate,
     StorePassword, Stop, EditFile

\* A step after which the process that takes it has passed the check only if it had
\* before, or ends.
LEMMA KeysQuiet ==
    ASSUME TypeOK, KeysAgree, ColumnKept, NEW p \in Procs, mixed => mixed',
           \A q \in Procs \ {p} : proc'[q] = proc[q],
           Passed(p)' => Passed(p) /\ proc'[p].key = proc[p].key,
           kcv' = kcv \/ (Passed(p) /\ kcv' = proc[p].key),
           secret' = secret \/ (Passed(p) /\ secret' = proc[p].key)
    PROVE  KeysAgree'
<1>1. PICK k : k = proc[p].key
  OBVIOUS
<1>2. Passed(p)' => proc'[p].key = k /\ Passed(p) /\ proc[p].key = k
  BY <1>1
<1> QED
  BY <1>2, KeysStep

LEMMA KeysMigrate ==
    ASSUME TypeOK, Running, KeysAgree, ColumnKept, NEW p \in Procs, Migrating(p), mixed => mixed'
    PROVE  KeysAgree'
<1>1. ASSUME NEW from \in {"lock", "read", "verify", "key", "apply", "insert", "record"}, At(p, "migrate", from),
             NEW to \in {"lock", "read", "verify", "key", "apply", "insert", "record"}, Goto(p, to),
             from = "apply" \/ to \in Early, UNCHANGED <<kcv, secret>>
      PROVE  KeysAgree'
  <2>1. /\ \A q \in Procs \ {p} : proc'[q] = proc[q]
        /\ proc'[p].stage = to /\ proc'[p].key = proc[p].key /\ proc[p] # Idle /\ proc[p].stage = from
    BY <1>1, MigrateAt, GotoFacts
  <2>2. Passed(p)' => Passed(p)
    BY <1>1, <2>1 DEF Passed, Early
  <2> QED
    BY <1>1, <2>1, <2>2, KeysQuiet
<1>2. ASSUME End(p), kcv' = kcv \/ (Passed(p) /\ kcv' = proc[p].key), secret' = secret
      PROVE  KeysAgree'
  <2>1. ~ Passed(p)'
    BY <1>2, EndFacts DEF Passed
  <2> QED
    BY <1>2, <2>1, EndFacts, KeysQuiet
<1>3. ASSUME NEW k \in Keys \cup {None}, MigrateStart(p, k)
      PROVE  KeysAgree'
  <2> DEFINE record == [kind |-> "migrate", stage |-> "lock", key |-> k, sql |-> disk, applied |-> {}, ran |-> "null"]
  <2>1. record \in Proc /\ record.stage = "lock"
    BY DEF TypeOK, Proc
  <2>2. Start(p, record) /\ UNCHANGED <<kcv, secret>>
    BY <1>3 DEF MigrateStart
  <2> HIDE DEF record
  <2>3. (\A q \in Procs \ {p} : proc'[q] = proc[q]) /\ ~ Passed(p)'
    BY <2>1, <2>2, StartFacts DEF Passed, Early
  <2> QED
    BY <2>2, <2>3, KeysQuiet
<1>4. ASSUME MigrateLock(p)
      PROVE  KeysAgree'
  BY <1>1, <1>4 DEF MigrateLock, history, Early
<1>5. ASSUME MigrateRead(p) \/ MigrateInsert(p)
      PROVE  KeysAgree'
  <2>1. At(p, "migrate", "read") \/ At(p, "migrate", "insert")
    BY <1>5 DEF MigrateRead, MigrateInsert
  <2>2. proc[p] \in MigrateRun /\ proc[p] # Idle
    BY <2>1, MigrateAt
  <2>3. proc'[p].stage = "verify" \/ (proc'[p].stage = "apply" /\ proc[p].stage = "insert")
    BY <1>5, <2>2 DEF MigrateRead, MigrateInsert, At, TypeOK, MigrateRun
  <2>4. proc'[p].key = proc[p].key /\ \A q \in Procs \ {p} : proc'[q] = proc[q]
    BY <1>5, <2>2 DEF MigrateRead, MigrateInsert, TypeOK, MigrateRun
  <2>5. Passed(p)' => Passed(p)
    BY <2>2, <2>3, <2>4 DEF Passed, Early
  <2>6. UNCHANGED <<kcv, secret>>
    BY <1>5 DEF MigrateRead, MigrateInsert, history
  <2> QED
    BY <2>4, <2>5, <2>6, KeysQuiet
<1>6. ASSUME MigrateVerify(p)
      PROVE  KeysAgree'
  <2>1. At(p, "migrate", "verify") /\ UNCHANGED <<kcv, secret>> /\ (Goto(p, "key") \/ End(p))
    BY <1>6 DEF MigrateVerify, history
  <2> QED
    BY <1>1, <1>2, <2>1 DEF Early
<1>7. ASSUME MigrateKey(p)
      PROVE  KeysAgree'
  <2>1. At(p, "migrate", "key") /\ UNCHANGED <<kcv, secret>>
    BY <1>7 DEF MigrateKey, history
  <2>2. PICK k : k = proc[p].key
    OBVIOUS
  <2>3. /\ mixed' = (mixed \/ (k # None /\ KeyFits(k) /\ Rivals(p, k)))
        /\ (Goto(p, "apply") /\ (k = None \/ KeyFits(k))) \/ End(p)
    BY <1>7, <2>2 DEF MigrateKey
  <2>4. ~ Passed(p)
    BY <2>1, MigrateAt DEF Passed, Early
  <2>5. CASE Goto(p, "apply") /\ (k = None \/ KeyFits(k))
    <3>1. (\A q \in Procs \ {p} : proc'[q] = proc[q]) /\ proc'[p].key = k
      BY <2>1, <2>2, <2>5, MigrateAt, GotoFacts
    <3>2. Passed(p)' => KeyFits(k) /\ (mixed' \/ ~ Rivals(p, k))
      BY <2>3, <2>5, <3>1 DEF Passed
    <3> QED
      BY <2>1, <2>4, <3>1, <3>2, KeysStep
  <2>6. CASE End(p)
    BY <1>2, <2>1, <2>6
  <2> QED
    BY <2>3, <2>5, <2>6
<1>8. ASSUME MigrateApply(p)
      PROVE  KeysAgree'
  <2>1. At(p, "migrate", "apply") /\ UNCHANGED <<kcv, secret>>
    BY <1>8 DEF MigrateApply
  <2>2. CASE Pending(p) = {}
    BY <1>1, <1>8, <2>1, <2>2 DEF MigrateApply
  <2>3. CASE Pending(p) # {} /\ Applied(p, NextFile(p))
    <3>1. /\ \A q \in Procs \ {p} : proc'[q] = proc[q]
          /\ proc'[p].key = proc[p].key /\ proc'[p] # Idle
      BY <1>8, <2>3, ApplyCases, AppliedMoves
    <3>2. Passed(p)' => Passed(p)
      BY <2>1, <3>1, MigrateAt DEF Passed, Early
    <3> QED
      BY <2>1, <3>1, <3>2, KeysQuiet
  <2>4. CASE Pending(p) # {} /\ BrokenOff(p, NextFile(p))
    BY <1>2, <2>1, <2>4 DEF BrokenOff
  <2> QED
    BY <1>8, <2>2, <2>3, <2>4, ApplyCases
<1>9. ASSUME MigrateRecord(p)
      PROVE  KeysAgree'
  <2>1. At(p, "migrate", "record") /\ End(p) /\ secret' = secret
    BY <1>9 DEF MigrateRecord, history
  <2>2. kcv' = kcv \/ (proc[p].key # None /\ kcv' = proc[p].key)
    BY <1>9 DEF MigrateRecord, StoreKey
  <2>3. proc[p].key # None => Passed(p)
    BY <2>1, MigrateAt DEF Passed, Early
  <2> QED
    BY <1>2, <2>1, <2>2, <2>3
<1> QED
  BY <1>3, <1>4, <1>5, <1>6, <1>7, <1>8, <1>9 DEF Migrating

LEMMA KeysServe ==
    ASSUME TypeOK, KeysAgree, ColumnKept, NEW p \in Procs, Booting(p) \/ Stop(p), mixed => mixed'
    PROVE  KeysAgree'
<1>1. ASSUME NEW from \in {"record", "admin", "create", "serve"}, At(p, "server", from),
             NEW to \in {"check", "record", "admin", "create", "serve"}, Goto(p, to),
             kcv' \in {kcv, proc[p].key}, secret' \in {secret, proc[p].key}
      PROVE  KeysAgree'
  <2>1. /\ \A q \in Procs \ {p} : proc'[q] = proc[q]
        /\ proc'[p].stage = to /\ proc'[p].key = proc[p].key /\ proc[p] # Idle /\ proc[p].stage = from
        /\ proc[p].key # None
    BY <1>1, ServerAt, GotoFacts, DeploymentConstants
  <2>2. Passed(p)
    BY <1>1, <2>1 DEF Passed, Early
  <2> QED
    BY <1>1, <2>1, <2>2, KeysQuiet
<1>2. ASSUME End(p), UNCHANGED <<kcv, secret>>
      PROVE  KeysAgree'
  <2>1. ~ Passed(p)'
    BY <1>2, EndFacts DEF Passed
  <2> QED
    BY <1>2, <2>1, EndFacts, KeysQuiet
<1>3. ASSUME NEW k \in Keys, BootStart(p, k)
      PROVE  KeysAgree'
  <2> DEFINE record == [kind |-> "server", stage |-> "check", key |-> k]
  <2>1. record \in Proc /\ record.stage = "check"
    BY DEF Proc
  <2>2. Start(p, record) /\ UNCHANGED <<kcv, secret>>
    BY <1>3 DEF BootStart
  <2> HIDE DEF record
  <2>3. (\A q \in Procs \ {p} : proc'[q] = proc[q]) /\ ~ Passed(p)'
    BY <2>1, <2>2, StartFacts DEF Passed, Early
  <2> QED
    BY <2>2, <2>3, KeysQuiet
<1>4. ASSUME BootCheck(p)
      PROVE  KeysAgree'
  <2>1. At(p, "server", "check") /\ UNCHANGED <<kcv, secret>>
    BY <1>4 DEF BootCheck, history
  <2>2. PICK k : k = proc[p].key
    OBVIOUS
  <2>3. /\ mixed' = (mixed \/ (HasColumn /\ KeyFits(k) /\ Rivals(p, k)))
        /\ (HasColumn /\ KeyFits(k) /\ \E to \in {"record", "admin"} : Goto(p, to)) \/ End(p)
    BY <1>4, <2>2 DEF BootCheck
  <2>4. ~ Passed(p)
    BY <2>1, ServerAt DEF Passed, Early
  <2>5. ASSUME HasColumn, KeyFits(k), NEW to \in {"record", "admin"}, Goto(p, to)
        PROVE  KeysAgree'
    <3>1. (\A q \in Procs \ {p} : proc'[q] = proc[q]) /\ proc'[p].key = k
      BY <2>1, <2>2, <2>5, ServerAt, GotoFacts
    <3>2. KeyFits(k) /\ (mixed' \/ ~ Rivals(p, k))
      BY <2>3, <2>5
    <3> QED
      BY <2>1, <2>4, <3>1, <3>2, KeysStep
  <2>6. CASE End(p)
    BY <1>2, <2>1, <2>6
  <2> QED
    BY <2>3, <2>5, <2>6
<1>5. ASSUME BootRecord(p)
      PROVE  KeysAgree'
  BY <1>1, <1>5 DEF BootRecord, StoreKey, history
<1>6. ASSUME BootAdmin(p)
      PROVE  KeysAgree'
  BY <1>1, <1>6 DEF BootAdmin, history
<1>7. ASSUME BootCreate(p)
      PROVE  KeysAgree'
  <2>1. At(p, "server", "create") /\ UNCHANGED <<kcv, secret>> /\ (Goto(p, "serve") \/ End(p))
    BY <1>7 DEF BootCreate, history
  <2> QED
    BY <1>1, <1>2, <2>1
<1>8. ASSUME StorePassword(p)
      PROVE  KeysAgree'
  <2>1. At(p, "server", "serve") /\ secret' = proc[p].key /\ UNCHANGED <<proc, kcv>>
    BY <1>8 DEF StorePassword, Serves
  <2>2. Passed(p)
    BY <2>1, ServerAt, DeploymentConstants DEF Passed, Early
  <2> QED
    BY <2>1, <2>2, KeysQuiet DEF Passed
<1>9. ASSUME Stop(p)
      PROVE  KeysAgree'
  BY <1>2, <1>9 DEF Stop
<1> QED
  BY <1>3, <1>4, <1>5, <1>6, <1>7, <1>8, <1>9 DEF Booting

\* The stored password can be read with the key the database is said to belong to,
\* and by every server, unless processes with different keys started side by side
\* while no key was stored (assertEncryptionKey, recordEncryptionKey).
THEOREM PasswordCanBeRead == Spec => []PasswordReadable
<1>1. Init => ColumnKept /\ KeysAgree
  BY DEF Init, ColumnKept, KeysAgree, Passed
<1>2. TypeOK /\ Running /\ ColumnKept /\ KeysAgree /\ [Next]_vars => (ColumnKept /\ KeysAgree)'
  <2> SUFFICES ASSUME TypeOK, Running, ColumnKept, KeysAgree, [Next]_vars
               PROVE  KeysAgree'
    BY ColumnStays
  <2>1. ASSUME NEW f \in Files, EditFile(f)
        PROVE  KeysAgree'
    BY <2>1 DEF EditFile, KeysAgree, Passed, history
  <2>2. UNCHANGED vars => KeysAgree'
    BY DEF vars, KeysAgree, Passed, history
  <2> QED
    BY <2>1, <2>2, MixedStays, KeysMigrate, KeysServe DEF Next, Migrating, Booting
<1>3. TypeOK /\ KeysAgree => PasswordReadable
  <2> SUFFICES ASSUME TypeOK, KeysAgree, ~ mixed, secret # None
               PROVE  /\ kcv \in {None, secret}
                      /\ \A p \in Procs : Serves(p) => proc[p].key = secret
    BY DEF PasswordReadable
  <2>1. ASSUME NEW p \in Procs, Serves(p)
        PROVE  Passed(p)
    <3>1. proc[p] # Idle /\ proc[p].stage = "serve" /\ proc[p].key \in Keys
      BY <2>1, ServerAt DEF Serves
    <3> QED
      BY <3>1, DeploymentConstants DEF Passed, Early
  <2> QED
    BY <2>1 DEF KeysAgree
<1> QED
  BY <1>1, <1>2, <1>3, RunningAlways, PTL DEF Spec

-----------------------------------------------------------------------------
(* A migration that is recorded has been run, once                         *)

Inserting(p) == Migrates(p) /\ proc[p].stage = "insert"
Done == {f \in Files : recorded[f] # None}

\* The run that is past reading the table knows what is recorded; what is not
\* recorded has not been run, unless it commits implicitly and a run is about to
\* record it or has stopped before it could.
FileSound(f) ==
    /\ recorded[f] # None => effect[f].state = "whole"
    /\ RunAsRecorded(f) \/ f \in Modules \cap late
    /\ effect[f].times > 1 => f \in broken
    /\ recorded[f] = None /\ f \notin Ddl => effect[f].times = 0
    /\ recorded[f] = None /\ f \in Ddl => \/ f \in broken \/ effect[f].times = 0
                                          \/ \E p \in Procs : Inserting(p) /\ NextFile(p) = f

\* What a run has applied and not yet recorded is what it read, or a module that was
\* edited since.
RanAsRead(p, f) == proc[p].ran = proc[p].sql[f] \/ f \in Modules \cap late
RunSound(p) ==
    /\ PastRead(p) => proc[p].applied = Done
    /\ Migrates(p) => proc[p].applied \subseteq Done
    /\ Inserting(p) => RanAsRead(p, NextFile(p))
    /\ Inserting(p) /\ NextFile(p) \in Ddl => /\ effect[NextFile(p)].state = "whole"
                                              /\ effect[NextFile(p)].sql = proc[p].ran
FilesSound == (\A f \in Files : FileSound(f)) /\ (\A p \in Procs : RunSound(p))

\* A run knows the files it has still to apply as they are on disk, but for those that
\* were edited since.
DiskKnown ==
    \A p \in Procs : Migrates(p) =>
        \A f \in Files \ proc[p].applied : proc[p].sql[f] = disk[f] \/ f \in late

LEMMA NextSame ==
    ASSUME NEW p, proc'[p].applied = proc[p].applied
    PROVE  Pending(p)' = Pending(p) /\ NextFile(p)' = NextFile(p)
<1>1. Pending(p)' = Pending(p)
  BY DEF Pending
<1> QED
  BY <1>1 DEF NextFile

LEMMA OthersSame ==
    ASSUME NEW p, NEW q, proc'[q] = proc[q]
    PROVE  /\ Migrates(q)' = Migrates(q) /\ Inserting(q)' = Inserting(q) /\ PastRead(q)' = PastRead(q)
           /\ NextFile(q)' = NextFile(q)
  BY NextSame DEF Migrates, Inserting, PastRead

\* One run at a time is past the lock.
LEMMA OneRun ==
    ASSUME TypeOK, NEW p \in Procs, NEW q \in Procs, PastRead(p), PastRead(q) \/ Inserting(q)
    PROVE  p = q
  BY LockIsHeld DEF LockHeld, PastRead, Inserting

\* Only an edit changes a file, and only a start reads them.
LEMMA KnownStep ==
    ASSUME TypeOK, DiskKnown, NEW p \in Procs, \A q \in Procs \ {p} : proc'[q] = proc[q],
           UNCHANGED <<disk, late>>,
           Migrates(p)' => \/ proc'[p].sql = disk
                          \/ /\ Migrates(p) /\ proc'[p].sql = proc[p].sql
                             /\ proc[p].applied \subseteq proc'[p].applied
    PROVE  DiskKnown'
  BY DEF DiskKnown, Migrates

LEMMA KnownMigrate ==
    ASSUME TypeOK, Running, DiskKnown, FilesSound, NEW p \in Procs, Migrating(p)
    PROVE  DiskKnown'
<1>1. UNCHANGED <<disk, late>>
  BY DEF Migrating, MigrateStart, MigrateLock, MigrateRead, MigrateVerify, MigrateKey, MigrateApply,
     MigrateInsert, MigrateRecord, history
<1>2. ASSUME NEW k \in Keys \cup {None}, MigrateStart(p, k)
      PROVE  DiskKnown'
  <2> DEFINE record == [kind |-> "migrate", stage |-> "lock", key |-> k, sql |-> disk, applied |-> {}, ran |-> "null"]
  <2>1. record \in Proc /\ record.sql = disk /\ Start(p, record)
    BY <1>2 DEF TypeOK, Proc, MigrateStart
  <2> HIDE DEF record
  <2> QED
    BY <1>1, <2>1, StartFacts, KnownStep
<1>3. ASSUME NEW from \in {"lock", "verify", "key", "apply"}, At(p, "migrate", from),
             NEW to \in {"read", "key", "apply", "record"}, Goto(p, to)
      PROVE  DiskKnown'
  BY <1>1, <1>3, MigrateAt, GotoFacts, KnownStep
<1>4. ASSUME End(p)
      PROVE  DiskKnown'
  BY <1>1, <1>4, EndFacts, KnownStep DEF Migrates
<1>5. ASSUME MigrateRead(p)
      PROVE  DiskKnown'
  <2>1. Migrates(p) /\ proc[p] \in MigrateRun
    BY <1>5, MigrateAt DEF MigrateRead
  <2>2. \A q \in Procs \ {p} : proc'[q] = proc[q]
    BY <1>5 DEF MigrateRead, TypeOK
  <2>3. proc'[p].sql = proc[p].sql /\ proc'[p].applied = Done
    BY <1>5, <2>1 DEF MigrateRead, Done, TypeOK, MigrateRun
  \* nothing is known to be applied before the table is read
  <2>4. proc[p].applied \subseteq Done
    BY <2>1 DEF FilesSound, RunSound
  <2> QED
    BY <1>1, <2>1, <2>2, <2>3, <2>4, KnownStep
<1>6. ASSUME MigrateInsert(p)
      PROVE  DiskKnown'
  <2>1. Migrates(p) /\ proc[p] \in MigrateRun
    BY <1>6, MigrateAt DEF MigrateInsert
  <2>2. /\ \A q \in Procs \ {p} : proc'[q] = proc[q]
        /\ proc'[p].sql = proc[p].sql /\ proc[p].applied \subseteq proc'[p].applied
    BY <1>6, <2>1 DEF MigrateInsert, TypeOK, MigrateRun
  <2> QED
    BY <1>1, <2>1, <2>2, KnownStep
<1>7. ASSUME MigrateApply(p)
      PROVE  DiskKnown'
  <2>1. At(p, "migrate", "apply") /\ Migrates(p)
    BY <1>7, MigrateAt DEF MigrateApply
  <2>2. CASE Pending(p) = {}
    BY <1>3, <1>7, <2>1, <2>2 DEF MigrateApply
  <2>3. CASE Pending(p) # {} /\ Applied(p, NextFile(p))
    BY <1>1, <1>7, <2>1, <2>3, ApplyCases, AppliedMoves, KnownStep
  <2>4. CASE Pending(p) # {} /\ BrokenOff(p, NextFile(p))
    BY <1>4, <2>4 DEF BrokenOff
  <2> QED
    BY <1>7, <2>2, <2>3, <2>4, ApplyCases
<1>8. MigrateLock(p) \/ MigrateVerify(p) \/ MigrateKey(p) \/ MigrateRecord(p) => DiskKnown'
  BY <1>3, <1>4 DEF MigrateLock, MigrateVerify, MigrateKey, MigrateRecord
<1> QED
  BY <1>2, <1>5, <1>6, <1>7, <1>8 DEF Migrating

LEMMA KnownStays ==
    ASSUME TypeOK, Running, DiskKnown, FilesSound, [Next]_vars
    PROVE  DiskKnown'
<1>1. ASSUME NEW p \in Procs, Booting(p)
      PROVE  DiskKnown'
  <2>1. UNCHANGED <<disk, late>>
    BY <1>1 DEF Booting, BootStart, BootCheck, BootRecord, BootAdmin, BootCreate, StorePassword, history
  <2> QED
    BY <1>1, <2>1, ServerTypes, KnownStep
<1>2. ASSUME NEW p \in Procs, Stop(p)
      PROVE  DiskKnown'
  BY <1>2, EndFacts, KnownStep DEF Stop, Migrates
<1>3. ASSUME NEW f \in Files, EditFile(f)
      PROVE  DiskKnown'
  <2>1. /\ proc' = proc /\ late \subseteq late' /\ \A g \in Files \ {f} : disk'[g] = disk[g]
        /\ \A p \in Procs : Migrates(p) /\ f \notin proc[p].applied => f \in late'
    BY <1>3 DEF EditFile, Migrates, TypeOK
  <2> QED
    BY <2>1 DEF DiskKnown, Migrates
<1>4. UNCHANGED vars => DiskKnown'
  BY DEF vars, history, DiskKnown, Migrates
<1> QED
  BY <1>1, <1>2, <1>3, <1>4, KnownMigrate DEF Next, Migrating, Booting

\* A step that runs and records nothing.
LEMMA FilesQuiet ==
    ASSUME TypeOK, FilesSound, NEW p \in Procs, \A q \in Procs \ {p} : proc'[q] = proc[q],
           effect' = effect, recorded' = recorded, late' = late, broken \subseteq broken',
           PastRead(p)' => proc'[p].applied = Done,
           Migrates(p)' => proc'[p].applied \subseteq Done,
           ~ Inserting(p)',
           Inserting(p) => NextFile(p) \notin Ddl \/ NextFile(p) \in broken'
    PROVE  FilesSound'
<1>1. \A q \in Procs \ {p} : /\ Inserting(q)' = Inserting(q) /\ PastRead(q)' = PastRead(q)
                             /\ Migrates(q)' = Migrates(q)
                             /\ NextFile(q)' = NextFile(q) /\ proc'[q] = proc[q]
  BY OthersSame
<1>2. Done' = Done
  BY DEF Done
<1>3. ASSUME NEW f \in Files
      PROVE  FileSound(f)'
  <2>1. FileSound(f)
    BY DEF FilesSound
  <2>2. ASSUME NEW q \in Procs, Inserting(q), NextFile(q) = f, f \in Ddl, f \notin broken'
        PROVE  Inserting(q)' /\ NextFile(q)' = f
    BY <1>1, <2>2
  <2> QED
    BY <2>1, <2>2 DEF FileSound, RunAsRecorded
<1>4. ASSUME NEW q \in Procs
      PROVE  RunSound(q)'
  <2>1. RunSound(q)
    BY DEF FilesSound
  <2>2. CASE q = p
    BY <1>2, <2>2 DEF RunSound
  <2>3. CASE q # p
    BY <1>1, <1>2, <2>1, <2>3 DEF RunSound, RanAsRead
  <2> QED
    BY <2>2, <2>3
<1> QED
  BY <1>3, <1>4 DEF FilesSound

LEMMA FilesVerify ==
    ASSUME TypeOK, Running, FilesSound, NEW p \in Procs, MigrateVerify(p)
    PROVE  FilesSound'
<1>1. At(p, "migrate", "verify") /\ Migrates(p) /\ proc[p].stage = "verify" /\ proc[p].sql \in [Files -> Sql]
  BY MigrateAt DEF MigrateVerify
<1>2. /\ effect' = effect /\ broken' = broken /\ late' = late
      /\ recorded' = [f \in Files |-> IF f \in proc[p].applied /\ recorded[f] = "null"
                                      THEN proc[p].sql[f] ELSE recorded[f]]
  BY DEF MigrateVerify, history
<1>3. proc[p].applied = Done
  BY <1>1 DEF FilesSound, RunSound, PastRead
<1>4. Done' = Done
  BY <1>1, <1>2, DeploymentConstants DEF Done, Sql, None
<1>5. /\ \A q \in Procs \ {p} : proc'[q] = proc[q]
      /\ ~ Inserting(p)' /\ (Migrates(p)' => proc'[p].applied = proc[p].applied)
  <2>1. CASE Goto(p, "key")
    BY <1>1, <2>1, MigrateAt, GotoFacts DEF Inserting
  <2>2. CASE End(p)
    BY <2>2, EndFacts DEF Inserting, PastRead, Migrates
  <2> QED
    BY <2>1, <2>2 DEF MigrateVerify
<1>6. \A q \in Procs \ {p} : /\ Inserting(q)' = Inserting(q) /\ PastRead(q)' = PastRead(q)
                             /\ Migrates(q)' = Migrates(q)
                             /\ NextFile(q)' = NextFile(q) /\ proc'[q] = proc[q]
  BY <1>5, OthersSame
<1>7. ASSUME NEW f \in Files
      PROVE  FileSound(f)'
  <2>1. FileSound(f)
    BY DEF FilesSound
  <2>2. ASSUME NEW q \in Procs, Inserting(q), NextFile(q) = f
        PROVE  Inserting(q)' /\ NextFile(q)' = f
    BY <1>1, <1>6, <2>2 DEF Inserting
  <2>3. recorded'[f] = None <=> recorded[f] = None
    BY <1>4 DEF Done
  <2>4. recorded[f] = "null" \/ recorded'[f] = recorded[f]
    BY <1>2
  <2>5. RunAsRecorded(f)' \/ f \in Modules \cap late
    BY <1>2, <2>1, <2>3, <2>4 DEF FileSound, RunAsRecorded
  <2> QED
    BY <1>2, <2>1, <2>2, <2>3, <2>5 DEF FileSound
<1>8. ASSUME NEW q \in Procs
      PROVE  RunSound(q)'
  <2>1. RunSound(q)
    BY DEF FilesSound
  <2>2. CASE q = p
    BY <1>3, <1>4, <1>5, <2>2 DEF RunSound, PastRead
  <2>3. CASE q # p
    BY <1>2, <1>4, <1>6, <2>1, <2>3 DEF RunSound, RanAsRead
  <2> QED
    BY <2>2, <2>3
<1> QED
  BY <1>7, <1>8 DEF FilesSound

LEMMA FilesApply ==
    ASSUME TypeOK, Running, FilesSound, DiskKnown, NEW p \in Procs, MigrateApply(p)
    PROVE  FilesSound'
<1> DEFINE f == NextFile(p)
<1>1. /\ At(p, "migrate", "apply") /\ PastRead(p) /\ Migrates(p) /\ proc[p].stage = "apply"
      /\ recorded' = recorded /\ late' = late /\ proc[p].applied = Done /\ Done' = Done
  <2>1. At(p, "migrate", "apply") /\ PastRead(p) /\ Migrates(p) /\ proc[p].stage = "apply"
    BY MigrateAt DEF MigrateApply, PastRead
  <2> QED
    BY <2>1 DEF MigrateApply, FilesSound, RunSound, Done, history
<1>2. CASE Pending(p) = {}
  <2>1. Goto(p, "record") /\ effect' = effect /\ broken' = broken
    BY <1>2 DEF MigrateApply
  <2>2. /\ \A q \in Procs \ {p} : proc'[q] = proc[q]
        /\ proc'[p].stage = "record" /\ proc'[p].applied = proc[p].applied
    BY <1>1, <2>1, MigrateAt, GotoFacts
  <2>3. ~ Inserting(p) /\ ~ Inserting(p)'
    BY <1>1, <2>2 DEF Inserting
  <2> QED
    BY <1>1, <2>1, <2>2, <2>3, FilesQuiet
<1>3. CASE Pending(p) # {}
  <2>1. f \in Files /\ recorded[f] = None
    BY <1>1, <1>3, NextFileIsPending DEF Pending, Done
  \* no other run is recording: p holds the lock
  <2>2. \A q \in Procs : ~ Inserting(q)
    BY <1>1, OneRun DEF Inserting
  <2>3. \A g \in Files : FileSound(g)
    BY DEF FilesSound
  <2>4. effect[f].times \in Nat /\ (effect[f].times = 0 \/ f \in broken)
    BY <2>1, <2>2, <2>3 DEF FileSound, TypeOK
  <2>5. CASE Applied(p, f)
    <3>1. effect' = (IF f \in Ddl THEN [effect EXCEPT ![f] = Run(f, Content(p, f))] ELSE effect) /\ broken' = broken
      BY <2>5 DEF Applied
    <3>2. /\ \A q \in Procs \ {p} : proc'[q] = proc[q]
          /\ proc'[p].stage = "insert" /\ proc'[p].kind = "migrate" /\ proc'[p] # Idle
          /\ proc'[p].applied = proc[p].applied /\ proc'[p].sql = proc[p].sql /\ proc'[p].ran = Content(p, f)
      BY <1>1, <1>3, <2>5, ApplyCases, AppliedMoves
    <3>3. Inserting(p)' /\ NextFile(p)' = f
      BY <3>2, NextSame DEF Inserting, Migrates
    <3>4. \A q \in Procs \ {p} : ~ Inserting(q)' /\ PastRead(q)' = PastRead(q) /\ Migrates(q)' = Migrates(q)
      BY <2>2, <3>2, OthersSame
    <3>5. /\ f \in Ddl => /\ effect'[f].state = "whole" /\ effect'[f].sql = Content(p, f)
                          /\ effect'[f].times = effect[f].times + 1
          /\ f \notin Ddl => effect'[f] = effect[f]
          /\ \A g \in Files \ {f} : effect'[g] = effect[g]
      BY <2>1, <3>1 DEF Run, TypeOK
    <3>6. ASSUME NEW g \in Files
          PROVE  FileSound(g)'
      <4>1. CASE g = f
        <5>1. effect'[f].times > 1 => f \in broken'
          BY <2>1, <2>3, <2>4, <3>1, <3>5 DEF FileSound
        <5>2. recorded'[f] = None /\ (f \notin Ddl => effect'[f].times = 0)
          BY <1>1, <2>1, <2>3, <3>5 DEF FileSound
        <5> QED
          BY <3>3, <4>1, <5>1, <5>2 DEF FileSound, RunAsRecorded
      <4>2. CASE g # f
        BY <1>1, <2>2, <2>3, <3>1, <3>5, <4>2 DEF FileSound, RunAsRecorded
      <4> QED
        BY <4>1, <4>2
    <3>7. ASSUME NEW q \in Procs
          PROVE  RunSound(q)'
      <4>1. CASE q = p
        \* a module that is not as the run read it was edited since
        <5>1. proc'[p].ran = proc'[p].sql[f] \/ f \in Modules \cap late
          BY <1>1, <2>1, <3>2 DEF DiskKnown, Content, Done
        <5> QED
          BY <1>1, <3>2, <3>3, <3>5, <4>1, <5>1 DEF RunSound, RanAsRead
      <4>2. CASE q # p
        <5>1. RunSound(q)
          BY DEF FilesSound
        <5> QED
          BY <1>1, <3>2, <3>4, <4>2, <5>1 DEF RunSound
      <4> QED
        BY <4>1, <4>2
    <3> QED
      BY <3>6, <3>7 DEF FilesSound
  <2>6. CASE BrokenOff(p, f)
    <3>1. /\ f \in Ddl /\ broken' = broken \cup {f}
          /\ effect' = IF effect[f].state = "none" THEN [effect EXCEPT ![f].state = "part"] ELSE effect
      BY <2>6 DEF BrokenOff
    <3>2. (\A q \in Procs \ {p} : proc'[q] = proc[q]) /\ proc'[p] = Idle
      BY <2>6, EndFacts DEF BrokenOff
    <3>3. /\ \A g \in Files : effect'[g].times = effect[g].times /\ effect'[g].sql = effect[g].sql
          /\ \A g \in Files \ {f} : effect'[g] = effect[g]
      BY <2>1, <3>1 DEF TypeOK
    <3>4. \A q \in Procs \ {p} : ~ Inserting(q)' /\ PastRead(q)' = PastRead(q) /\ Migrates(q)' = Migrates(q)
      BY <2>2, <3>2, OthersSame
    <3>5. ASSUME NEW g \in Files
          PROVE  FileSound(g)'
      <4>1. CASE g = f
        BY <1>1, <2>1, <2>3, <2>4, <3>1, <3>3, <4>1 DEF FileSound, RunAsRecorded
      <4>2. CASE g # f
        BY <1>1, <2>2, <2>3, <3>1, <3>3, <4>2 DEF FileSound, RunAsRecorded
      <4> QED
        BY <4>1, <4>2
    <3>6. ASSUME NEW q \in Procs
          PROVE  RunSound(q)'
      <4>1. CASE q = p
        BY <3>2, <4>1 DEF RunSound, PastRead, Inserting, Migrates
      <4>2. CASE q # p
        <5>1. RunSound(q)
          BY DEF FilesSound
        <5> QED
          BY <1>1, <3>2, <3>4, <4>2, <5>1 DEF RunSound
      <4> QED
        BY <4>1, <4>2
    <3> QED
      BY <3>5, <3>6 DEF FilesSound
  <2> QED
    BY <1>3, <2>5, <2>6, ApplyCases
<1> QED
  BY <1>2, <1>3

LEMMA FilesInsert ==
    ASSUME TypeOK, Running, FilesSound, NEW p \in Procs, MigrateInsert(p)
    PROVE  FilesSound'
<1> DEFINE f == NextFile(p)
<1>1. /\ PastRead(p) /\ Inserting(p) /\ proc[p] \in MigrateRun /\ proc[p].sql \in [Files -> Sql]
      /\ recorded[f] = None /\ broken' = broken /\ late' = late
      /\ recorded' = [recorded EXCEPT ![f] = proc[p].sql[f]]
      /\ effect' = IF f \in Ddl THEN effect ELSE [effect EXCEPT ![f] = Run(f, proc[p].ran)]
  BY MigrateAt DEF MigrateInsert, Checksum, PastRead, Inserting, history
<1>2. f \in Files
  BY <1>1, NextFileIsPending DEF Running, Inserting
<1>3. proc[p].applied = Done /\ Done' = Done \cup {f}
  <2>1. proc[p].sql[f] \in Sql /\ None \notin Sql
    BY <1>1, <1>2 DEF Sql, None
  <2> QED
    BY <1>1, <1>2, <2>1 DEF FilesSound, RunSound, Done, TypeOK
<1>4. proc'[p].stage = "apply" /\ proc'[p].applied = Done' /\ \A q \in Procs \ {p} : proc'[q] = proc[q]
  BY <1>1, <1>3 DEF MigrateInsert, TypeOK, MigrateRun
<1>5. \A q \in Procs \ {p} : ~ Inserting(q)' /\ ~ PastRead(q)'
  <2>1. \A q \in Procs \ {p} : ~ Inserting(q) /\ ~ PastRead(q)
    BY <1>1, OneRun
  <2> QED
    BY <1>4, <2>1, OthersSame
<1>6. \A g \in Files : FileSound(g)
  BY DEF FilesSound
<1>7. /\ effect'[f].state = "whole" /\ (effect'[f].sql = recorded'[f] \/ f \in Modules \cap late)
      /\ effect'[f].times > 1 => f \in broken'
  <2>0. RunSound(p) /\ recorded'[f] = proc[p].sql[f]
    BY <1>1, <1>2 DEF FilesSound, TypeOK
  <2>1. CASE f \in Ddl
    BY <1>1, <1>2, <1>6, <2>0, <2>1 DEF RunSound, RanAsRead, FileSound
  <2>2. CASE f \notin Ddl
    <3>1. effect[f].times = 0
      BY <1>1, <1>2, <1>6, <2>2 DEF FileSound
    <3> QED
      BY <1>1, <1>2, <2>0, <2>2, <3>1 DEF RunSound, RanAsRead, Run, TypeOK
  <2> QED
    BY <2>1, <2>2
<1>8. \A g \in Files \ {f} : effect'[g] = effect[g] /\ recorded'[g] = recorded[g]
  BY <1>1, <1>2 DEF TypeOK
<1>9. ASSUME NEW g \in Files
      PROVE  FileSound(g)'
  <2>1. CASE g = f
    <3>1. recorded'[f] # None
      BY <1>2, <1>3 DEF Done
    <3> QED
      BY <1>1, <1>7, <2>1, <3>1 DEF FileSound, RunAsRecorded
  <2>2. CASE g # f
    <3>1. ~ \E q \in Procs : Inserting(q) /\ NextFile(q) = g
      BY <1>1, <2>2, OneRun
    <3> QED
      BY <1>1, <1>6, <1>8, <2>2, <3>1 DEF FileSound, RunAsRecorded
  <2> QED
    BY <2>1, <2>2
<1>10. ASSUME NEW q \in Procs
       PROVE  RunSound(q)'
  <2>1. CASE q = p
    BY <1>4, <2>1 DEF RunSound, Inserting
  <2>2. CASE q # p
    <3>1. Migrates(q)' => proc'[q].applied \subseteq Done'
      BY <1>3, <1>4, <2>2, OthersSame DEF FilesSound, RunSound
    <3> QED
      BY <1>5, <2>2, <3>1 DEF RunSound
  <2> QED
    BY <2>1, <2>2
<1> QED
  BY <1>9, <1>10 DEF FilesSound

LEMMA FilesInit == Init => FilesSound
<1> SUFFICES ASSUME Init PROVE FilesSound
  OBVIOUS
<1>1. proc = [p \in Procs |-> Idle]
  BY DEF Init
<1>2. PICK old \in SUBSET {1} :
        /\ effect = [f \in Files |-> [state |-> IF f \in old THEN "whole" ELSE "none", sql |-> "null",
                                      times |-> IF f \in old THEN 1 ELSE 0]]
        /\ recorded = [f \in Files |-> IF f \in old THEN "null" ELSE None]
  BY DEF Init
<1>3. \A p \in Procs : RunSound(p)
  BY <1>1 DEF RunSound, PastRead, Inserting, Migrates
<1>4. \A f \in Files : FileSound(f)
  BY <1>2 DEF FileSound, RunAsRecorded, None
<1> QED
  BY <1>3, <1>4 DEF FilesSound

LEMMA FilesStay ==
    ASSUME TypeOK, Running, FilesSound, DiskKnown, [Next]_vars
    PROVE  FilesSound'
<1>1. ASSUME NEW p \in Procs, Migrating(p)
      PROVE  FilesSound'
  <2>1. ASSUME NEW k \in Keys \cup {None}, MigrateStart(p, k)
        PROVE  FilesSound'
    <3> DEFINE record == [kind |-> "migrate", stage |-> "lock", key |-> k, sql |-> disk, applied |-> {}, ran |-> "null"]
    <3>1. record \in Proc /\ record.stage = "lock" /\ record.applied = {}
      BY DEF TypeOK, Proc
    <3>2. Start(p, record) /\ UNCHANGED <<effect, recorded, broken, late>>
      BY <2>1 DEF MigrateStart, schema, history
    <3> HIDE DEF record
    <3>3. /\ \A q \in Procs \ {p} : proc'[q] = proc[q]
          /\ ~ PastRead(p)' /\ ~ Inserting(p)' /\ ~ Inserting(p) /\ proc'[p].applied = {}
      BY <3>1, <3>2, StartFacts DEF PastRead, Inserting, Migrates
    <3> QED
      BY <3>2, <3>3, FilesQuiet
  <2>2. ASSUME NEW from \in {"lock", "key", "record"}, At(p, "migrate", from),
               \/ \E to \in {"read", "apply"} : Goto(p, to) /\ (to = "apply" => from = "key")
               \/ End(p),
               UNCHANGED <<effect, recorded, broken, late>>
        PROVE  FilesSound'
    <3>1. Migrates(p) /\ proc[p].stage = from
      BY <2>2, MigrateAt
    <3>2. /\ \A q \in Procs \ {p} : proc'[q] = proc[q]
          /\ ~ Inserting(p)' /\ ~ Inserting(p)
          /\ PastRead(p)' => PastRead(p)
          /\ Migrates(p)' => proc'[p].applied = proc[p].applied
      <4>1. CASE End(p)
        BY <3>1, <4>1, EndFacts DEF Inserting, PastRead, Migrates
      <4>2. ASSUME NEW to \in {"read", "apply"}, Goto(p, to), to = "apply" => from = "key"
            PROVE  /\ \A q \in Procs \ {p} : proc'[q] = proc[q]
                   /\ ~ Inserting(p)' /\ ~ Inserting(p)
                   /\ PastRead(p)' => PastRead(p)
                   /\ Migrates(p)' => proc'[p].applied = proc[p].applied
        BY <2>2, <3>1, <4>2, MigrateAt, GotoFacts DEF Inserting, PastRead
      <4> QED
        BY <2>2, <4>1, <4>2
    <3>3. (PastRead(p) => proc[p].applied = Done) /\ proc[p].applied \subseteq Done
      BY <3>1 DEF FilesSound, RunSound
    <3> QED
      BY <2>2, <3>2, <3>3, FilesQuiet DEF PastRead
  <2>3. ASSUME MigrateLock(p) \/ MigrateKey(p) \/ MigrateRecord(p)
        PROVE  FilesSound'
    BY <2>2, <2>3 DEF MigrateLock, MigrateKey, MigrateRecord, schema, history
  <2>4. ASSUME MigrateRead(p)
        PROVE  FilesSound'
    <3>1. proc[p] \in MigrateRun /\ proc[p].stage = "read" /\ UNCHANGED <<effect, recorded, broken, late>>
      BY <2>4, MigrateAt DEF MigrateRead, schema, history
    <3>2. proc' = [proc EXCEPT ![p].stage = "verify", ![p].applied = Done]
      BY <2>4 DEF MigrateRead, Done
    <3>3. /\ \A q \in Procs \ {p} : proc'[q] = proc[q]
          /\ proc'[p].stage = "verify" /\ proc'[p].applied = Done
      BY <3>1, <3>2 DEF TypeOK, MigrateRun
    <3> QED
      BY <3>1, <3>3, FilesQuiet DEF Inserting
  <2> QED
    BY <1>1, <2>1, <2>3, <2>4, FilesVerify, FilesApply, FilesInsert DEF Migrating
<1>2. ASSUME NEW p \in Procs, Booting(p)
      PROVE  FilesSound'
  <2>1. ~ Migrates(p)' /\ \A q \in Procs \ {p} : proc'[q] = proc[q]
    BY <1>2, ServerTypes
  <2>2. UNCHANGED <<effect, recorded, broken, late>>
    BY <1>2 DEF Booting, BootStart, BootCheck, BootRecord, BootAdmin, BootCreate,
       StorePassword, schema, history
  <2>3. ~ Migrates(p)
    BY <1>2, ServerAt, ProcKinds DEF Booting, BootStart, Start, BootCheck, BootRecord, BootAdmin, BootCreate,
       StorePassword, Serves, Migrates, MigrateRun
  <2> QED
    BY <2>1, <2>2, <2>3, FilesQuiet DEF PastRead, Inserting
<1>3. ASSUME NEW p \in Procs, Stop(p)
      PROVE  FilesSound'
  <2>1. /\ UNCHANGED <<effect, recorded>> /\ End(p)
        /\ broken' = IF At(p, "migrate", "insert") /\ NextFile(p) \in Ddl THEN broken \cup {NextFile(p)} ELSE broken
    BY <1>3 DEF Stop, schema
  <2>2. late' = late /\ (\A q \in Procs \ {p} : proc'[q] = proc[q]) /\ ~ PastRead(p)' /\ ~ Inserting(p)'
    BY <1>3, <2>1, EndFacts DEF PastRead, Inserting, Migrates, Stop
  <2>3. Inserting(p) => NextFile(p) \notin Ddl \/ NextFile(p) \in broken'
    BY <2>1 DEF Inserting, Migrates, At
  <2> QED
    BY <2>1, <2>2, <2>3, EndFacts, FilesQuiet DEF Migrates
<1>4. UNCHANGED <<effect, recorded, broken, proc>> /\ late \subseteq late' => FilesSound'
  <2> SUFFICES ASSUME UNCHANGED <<effect, recorded, broken, proc>>, late \subseteq late'
               PROVE  FilesSound'
    OBVIOUS
  <2>1. \A q \in Procs : /\ Inserting(q)' = Inserting(q) /\ PastRead(q)' = PastRead(q)
                         /\ Migrates(q)' = Migrates(q) /\ NextFile(q)' = NextFile(q)
    BY OthersSame
  <2>2. \A f \in Files : FileSound(f) => FileSound(f)'
    BY <2>1 DEF FileSound, RunAsRecorded
  <2>3. \A q \in Procs : RunSound(q) => RunSound(q)'
    BY <2>1 DEF RunSound, RanAsRead, Done
  <2> QED
    BY <2>2, <2>3 DEF FilesSound
<1>5. ASSUME NEW f \in Files, EditFile(f)
      PROVE  UNCHANGED <<effect, recorded, broken, proc>> /\ late \subseteq late'
  BY <1>5 DEF EditFile, schema
<1>6. UNCHANGED vars => UNCHANGED <<effect, recorded, broken, proc>> /\ late \subseteq late'
  BY DEF vars, schema, history
<1> QED
  BY <1>1, <1>2, <1>3, <1>4, <1>5, <1>6 DEF Next, Migrating, Booting

\* C29: however many runs overlap, a migration that is recorded has been run to its
\* end, with the content whose checksum is recorded, except for a module edited while a
\* run that had read it might yet apply it, which is imported again when it is applied;
\* none is run twice, unless its DDL was left behind by a run that stopped before
\* recording it (resolveMigrationFiles, acquireLock, verifyChecksums, applyPending).
THEOREM MigrationsRunOnce == Spec => []RecordedIsApplied
<1>1. Init => FilesSound /\ DiskKnown
  BY FilesInit DEF Init, DiskKnown, Migrates
<1>2. TypeOK /\ Running /\ FilesSound /\ DiskKnown /\ [Next]_vars => (FilesSound /\ DiskKnown)'
  BY FilesStay, KnownStays
<1>3. FilesSound => RecordedIsApplied
  BY DEF FilesSound, FileSound, RecordedIsApplied
<1> QED
  BY <1>1, <1>2, <1>3, RunningAlways, PTL DEF Spec
-----------------------------------------------------------------------------
(***************************************************************************)
(* Part 2: MailSettings                                                    *)
(***************************************************************************)

-----------------------------------------------------------------------------
(* Type correctness                                                        *)

Loaded == [stage : {"loaded"}, server : Servers, cols : SomeCols, at : Nat]
Compared == [stage : {"compared"}, server : Servers, cols : SomeCols, back : SUBSET Nat]
Saved == [stage : {"saved"}, server : Servers]

LEMMA PutKinds ==
    ASSUME MSTypeOK, NEW r \in Puts, put[r] # Quiet
    PROVE  /\ put[r] \in Loaded \cup Compared \cup Saved /\ put[r].server \in Servers
           /\ put[r].stage = "loaded" => put[r] \in Loaded
           /\ put[r].stage = "compared" => put[r] \in Compared
  BY DEF MSTypeOK, PutRecord, Loaded, Compared, Saved, Quiet

LEMMA MailKinds ==
    ASSUME MSTypeOK, NEW x \in Sends, mail[x] # Quiet
    PROVE  mail[x] \in MailRecord /\ mail[x].server \in Servers /\ mail[x].row \in Row
  BY DEF MSTypeOK, MailRecord, Quiet

LEMMA PartIsSome ==
    ASSUME NEW C \in SUBSET Columns, NEW f \in [C -> Values]
    PROVE  f \in SomeCols
  BY DEF SomeCols

LEMMA SomeIsPart ==
    ASSUME NEW f \in SomeCols
    PROVE  DOMAIN f \subseteq Columns /\ \A c \in DOMAIN f : f[c] \in Values
  BY DEF SomeCols

\* A call of update() that is changed into one of its next stage, or ended.
LEMMA PutMoves ==
    ASSUME MSTypeOK, NEW r \in Puts, NEW record \in Loaded \cup Compared \cup Saved \cup {Quiet},
           put' = [put EXCEPT ![r] = record]
    PROVE  put' \in [Puts -> PutRecord \cup {Quiet}] /\ put'[r] = record /\ \A q \in Puts \ {r} : put'[q] = put[q]
  BY DEF MSTypeOK, PutRecord, Loaded, Compared, Saved

\* The transport a mail uses is made from a row its server holds.
LEMMA TransportIsHeld ==
    ASSUME MSTypeOK, NEW x \in Sends, mail[x] # Quiet
    PROVE  \/ Transport(x) = mail[x].row
           \/ Transport(x) \in transport[mail[x].server] /\ Transport(x).at = mail[x].row.at
<1> DEFINE cached == {t \in transport[mail[x].server] : t.at = mail[x].row.at}
<1>1. CASE cached = {}
  BY <1>1 DEF Transport
<1>2. CASE cached # {}
  <2>1. Transport(x) = CHOOSE t \in cached : TRUE
    BY <1>2 DEF Transport
  <2>2. (CHOOSE t \in cached : TRUE) \in cached
    BY <1>2
  <2> QED
    BY <2>1, <2>2
<1> QED
  BY <1>1, <1>2

LEMMA StampTypes ==
    ASSUME MSTypeOK, NEW cols \in [Columns -> Values], StampedRow(cols)
    PROVE  /\ settings' \in Row /\ clock' \in Nat /\ reused' \in [Servers -> SUBSET Nat]
           /\ sameTick' \in 0..MaxSameTick
           /\ settings'.at = clock' /\ clock <= clock'
           /\ \/ clock < clock' /\ reused' = reused
              \/ clock' = clock /\ reused' = [s \in Servers |-> reused[s] \cup {clock}]
  BY MailSettingsConstants DEF StampedRow, Reuse, MSTypeOK, Row

LEMMA MSTypesInit == MSInit => MSTypeOK
  BY MailSettingsConstants DEF MSInit, MSTypeOK, Row, Values

LEMMA LoadPutTypes ==
    ASSUME MSTypeOK, NEW r \in Puts, NEW s \in Servers, LoadPut(r, s)
    PROVE  /\ MSTypeOK'
           /\ put'[r] \in Loaded /\ put'[r].at = settings.at /\ \A q \in Puts \ {r} : put'[q] = put[q]
<1>1. PICK given \in SUBSET Columns, emptied \in BOOLEAN :
        put' = [put EXCEPT ![r] =
             [stage |-> "loaded", server |-> s, at |-> settings.at,
              cols |-> [c \in given \cup (Columns \ {Password}) |->
                          IF c \notin given THEN settings.cols[c]
                          ELSE IF c = Host /\ emptied THEN 0 ELSE puts + 2]]]
  BY DEF LoadPut
<1> DEFINE cols == [c \in given \cup (Columns \ {Password}) |->
                      IF c \notin given THEN settings.cols[c]
                      ELSE IF c = Host /\ emptied THEN 0 ELSE puts + 2]
           record == [stage |-> "loaded", server |-> s, at |-> settings.at, cols |-> cols]
<1>2. cols \in [given \cup (Columns \ {Password}) -> Values]
  BY MailSettingsConstants DEF LoadPut, MSTypeOK, Row, Values
<1>3. cols \in SomeCols
  <2> HIDE DEF cols
  <2> QED
    BY <1>2, PartIsSome
<1>4. record \in Loaded /\ record.at = settings.at
  <2> HIDE DEF cols
  <2> QED
    BY <1>3 DEF Loaded, MSTypeOK, Row
<1>5. put' = [put EXCEPT ![r] = record]
  BY <1>1
<1> HIDE DEF record
<1>6. put' \in [Puts -> PutRecord \cup {Quiet}] /\ put'[r] = record /\ \A q \in Puts \ {r} : put'[q] = put[q]
  BY <1>4, <1>5, PutMoves
<1>7. puts' \in 0..MaxPuts /\ UNCHANGED <<settings, clock, transport, mail, tests, sameTick, reused>>
  BY MailSettingsConstants DEF LoadPut, MSTypeOK
<1> QED
  BY <1>4, <1>6, <1>7 DEF MSTypeOK

LEMMA ComparePutTypes ==
    ASSUME MSTypeOK, NEW r \in Puts, ComparePut(r)
    PROVE  /\ MSTypeOK' /\ \A q \in Puts \ {r} : put'[q] = put[q]
           /\ put[r] \in Loaded
           /\ put'[r] \in Saved \/ (put'[r] \in Compared /\ put'[r].back \subseteq {put[r].at})
<1> DEFINE entity == put[r]
           changed == {c \in DOMAIN entity.cols : c = Password \/ entity.cols[c] # settings.cols[c]}
           stale == {entity.at} \ {settings.at}
           saved == [stage |-> "saved", server |-> entity.server]
           update == [stage |-> "compared", server |-> entity.server, back |-> stale,
                      cols |-> [c \in changed |-> entity.cols[c]]]
<1>1. put[r] \in Loaded
  BY PutKinds DEF ComparePut, Quiet
<1>2. [c \in changed |-> entity.cols[c]] \in SomeCols
  <2>1. changed \in SUBSET Columns /\ \A c \in changed : entity.cols[c] \in Values
    BY <1>1, SomeIsPart DEF Loaded
  <2> HIDE DEF changed
  <2> QED
    BY <2>1, PartIsSome
<1>3. update \in Compared /\ update.back \subseteq {put[r].at} /\ saved \in Saved
  <2> HIDE DEF changed
  <2> QED
    BY <1>1, <1>2 DEF Compared, Saved, Loaded
<1>4. put' = [put EXCEPT ![r] = saved] \/ put' = [put EXCEPT ![r] = update]
  BY DEF ComparePut
<1>5. UNCHANGED <<settings, clock, transport, mail, msCounters, reused>>
  BY DEF ComparePut
<1> HIDE DEF saved, update
<1>6. PICK record \in Saved \cup Compared :
        put' = [put EXCEPT ![r] = record] /\ (record \in Saved \/ record = update)
  BY <1>3, <1>4
<1>7. put' \in [Puts -> PutRecord \cup {Quiet}] /\ put'[r] = record /\ \A q \in Puts \ {r} : put'[q] = put[q]
  BY <1>6, PutMoves
<1> QED
  BY <1>1, <1>3, <1>5, <1>6, <1>7 DEF MSTypeOK, msCounters

LEMMA WritePutTypes ==
    ASSUME MSTypeOK, NEW r \in Puts, WritePut(r)
    PROVE  /\ MSTypeOK' /\ UNCHANGED <<transport, mail>>
           /\ put'[r] \in Saved /\ \A q \in Puts \ {r} : put'[q] = put[q]
           /\ put[r] \in Compared
           /\ \/ /\ settings'.at \in put[r].back /\ clock' = clock
                 /\ reused' = [s \in Servers |-> reused[s] \cup {settings'.at}]
              \/ /\ settings'.at = clock' /\ clock < clock' /\ reused' = reused
              \/ /\ settings'.at = clock' /\ clock' = clock
                 /\ reused' = [s \in Servers |-> reused[s] \cup {clock}]
<1> DEFINE cols == [c \in Columns |-> IF c \in DOMAIN put[r].cols THEN put[r].cols[c] ELSE settings.cols[c]]
           saved == [stage |-> "saved", server |-> put[r].server]
<1>1. put[r] \in Compared
  BY PutKinds DEF WritePut, Quiet
<1>2. cols \in [Columns -> Values]
  BY <1>1, SomeIsPart DEF Compared, MSTypeOK, Row
<1>3. saved \in Saved /\ put' = [put EXCEPT ![r] = saved]
  BY <1>1 DEF Compared, Saved, WritePut
<1> HIDE DEF saved
<1>4. put' \in [Puts -> PutRecord \cup {Quiet}] /\ put'[r] = saved /\ \A q \in Puts \ {r} : put'[q] = put[q]
  BY <1>3, PutMoves
<1>5. UNCHANGED <<transport, mail, puts, tests>>
  BY DEF WritePut
<1>6. ASSUME NEW at \in put[r].back, settings' = [cols |-> cols, at |-> at], Reuse(at), UNCHANGED <<clock, sameTick>>
      PROVE  /\ settings' \in Row /\ clock' \in Nat /\ reused' \in [Servers -> SUBSET Nat]
             /\ sameTick' \in 0..MaxSameTick
             /\ settings'.at \in put[r].back /\ clock' = clock
             /\ reused' = [s \in Servers |-> reused[s] \cup {settings'.at}]
  <2> HIDE DEF cols
  <2> QED
    BY <1>1, <1>2, <1>6 DEF MSTypeOK, Row, Reuse, Compared
<1>7. (\E at \in put[r].back : settings' = [cols |-> cols, at |-> at] /\ Reuse(at) /\ UNCHANGED <<clock, sameTick>>)
      \/ StampedRow(cols)
  BY DEF WritePut
<1> HIDE DEF cols
<1>8. CASE StampedRow(cols)
  BY <1>1, <1>2, <1>3, <1>4, <1>5, <1>8, StampTypes DEF MSTypeOK
<1> QED
  BY <1>1, <1>3, <1>4, <1>5, <1>6, <1>7, <1>8 DEF MSTypeOK

LEMMA InvalidateTypes ==
    ASSUME MSTypeOK, NEW r \in Puts, Invalidate(r)
    PROVE  /\ MSTypeOK' /\ UNCHANGED <<settings, clock, mail>> /\ put[r].server \in Servers
           /\ put'[r] = Quiet /\ \A q \in Puts \ {r} : put'[q] = put[q]
           /\ transport' = [transport EXCEPT ![put[r].server] = {}]
           /\ reused' = [reused EXCEPT ![put[r].server] = {t \in @ : \E row \in ReadRows(put[r].server) : row.at = t}]
<1>1. put[r] # Quiet /\ put' = [put EXCEPT ![r] = Quiet]
  BY DEF Invalidate, Quiet
<1>2. put[r].server \in Servers
  BY <1>1, PutKinds
<1>3. put' \in [Puts -> PutRecord \cup {Quiet}] /\ put'[r] = Quiet /\ \A q \in Puts \ {r} : put'[q] = put[q]
  BY <1>1, PutMoves
<1> QED
  BY <1>2, <1>3 DEF Invalidate, MSTypeOK, msCounters

LEMMA FailPutTypes ==
    ASSUME MSTypeOK, NEW r \in Puts, FailPut(r)
    PROVE  /\ MSTypeOK' /\ UNCHANGED <<settings, clock, transport, mail, reused>>
           /\ put'[r] = Quiet /\ \A q \in Puts \ {r} : put'[q] = put[q]
<1>1. put' \in [Puts -> PutRecord \cup {Quiet}] /\ put'[r] = Quiet /\ \A q \in Puts \ {r} : put'[q] = put[q]
  BY PutMoves DEF FailPut
<1> QED
  BY <1>1 DEF FailPut, MSTypeOK, msCounters

LEMMA MailTypes ==
    ASSUME MSTypeOK, NEW x \in Sends,
           \/ \E s \in Servers, test \in BOOLEAN : ReadSettings(x, s, test)
           \/ UseTransport(x) \/ RecordTest(x) \/ FailSend(x)
    PROVE  MSTypeOK' /\ put' = put /\ \A y \in Sends \ {x} : mail'[y] = mail[y]
<1>1. ASSUME NEW s \in Servers, NEW test \in BOOLEAN, ReadSettings(x, s, test)
      PROVE  MSTypeOK' /\ put' = put /\ \A y \in Sends \ {x} : mail'[y] = mail[y]
  <2> DEFINE record == [stage |-> "read", server |-> s, row |-> settings, test |-> test]
  <2>1. record \in MailRecord /\ mail' = [mail EXCEPT ![x] = record]
    BY <1>1 DEF ReadSettings, MailRecord, MSTypeOK
  <2> HIDE DEF record
  <2> QED
    BY <1>1, <2>1 DEF ReadSettings, MSTypeOK, msCounters
<1>2. ASSUME UseTransport(x)
      PROVE  MSTypeOK' /\ put' = put /\ \A y \in Sends \ {x} : mail'[y] = mail[y]
  <2>1. mail[x] # Quiet /\ mail[x] \in MailRecord /\ mail[x].server \in Servers /\ mail[x].row \in Row
    BY <1>2, MailKinds DEF UseTransport, Quiet
  <2>2. Transport(x) \in Row
    BY <2>1, TransportIsHeld DEF MSTypeOK
  <2>3. transport' \in [Servers -> SUBSET Row] /\ \A s \in Servers : \A a, b \in transport'[s] : a = b
    BY <1>2, <2>1, <2>2 DEF UseTransport, MSTypeOK
  <2>4. mail' \in [Sends -> MailRecord \cup {Quiet}] /\ \A y \in Sends \ {x} : mail'[y] = mail[y]
    <3>1. [mail[x] EXCEPT !.stage = "tested"] \in MailRecord
      BY <2>1 DEF MailRecord
    <3>2. mail' = [mail EXCEPT ![x] = IF mail[x].test THEN [mail[x] EXCEPT !.stage = "tested"] ELSE Quiet]
      BY <1>2 DEF UseTransport, MSTypeOK
    <3> QED
      BY <3>1, <3>2 DEF MSTypeOK
  <2> QED
    BY <1>2, <2>3, <2>4 DEF UseTransport, MSTypeOK, msCounters
<1>3. ASSUME RecordTest(x)
      PROVE  MSTypeOK' /\ put' = put /\ \A y \in Sends \ {x} : mail'[y] = mail[y]
  <2>1. settings.cols \in [Columns -> Values] /\ StampedRow(settings.cols)
    BY <1>3 DEF RecordTest, MSTypeOK, Row
  <2>2. tests' \in 0..MaxTests
    BY <1>3, MailSettingsConstants DEF RecordTest, MSTypeOK
  <2> QED
    BY <1>3, <2>1, <2>2, StampTypes DEF RecordTest, MSTypeOK
<1>4. ASSUME FailSend(x)
      PROVE  MSTypeOK' /\ put' = put /\ \A y \in Sends \ {x} : mail'[y] = mail[y]
  BY <1>4 DEF FailSend, MSTypeOK, msCounters
<1> QED
  BY <1>1, <1>2, <1>3, <1>4

LEMMA RestartTypes ==
    ASSUME MSTypeOK, NEW s \in Servers, RestartServer(s)
    PROVE  /\ MSTypeOK' /\ UNCHANGED <<settings, clock>>
           /\ \A r \in Puts : put'[r] \in {put[r], Quiet}
           /\ \A x \in Sends : mail'[x] \in {mail[x], Quiet}
           /\ \A x \in Sends : mail'[x] # Quiet => mail[x].server # s
           /\ transport' = [transport EXCEPT ![s] = {}]
           /\ reused' = [reused EXCEPT ![s] = {}]
  BY DEF RestartServer, MSTypeOK, msCounters

LEMMA MSTypesStay == MSTypeOK /\ [MSNext]_msVars => MSTypeOK'
<1> SUFFICES ASSUME MSTypeOK, [MSNext]_msVars
             PROVE  MSTypeOK'
  OBVIOUS
<1>1. UNCHANGED msVars => MSTypeOK'
  BY DEF msVars, msCounters, MSTypeOK
<1> QED
  BY <1>1, LoadPutTypes, ComparePutTypes, WritePutTypes, InvalidateTypes, FailPutTypes, MailTypes, RestartTypes
     DEF MSNext

\* The types of mail_settings, of the transports and of the calls under way.
THEOREM MailSettingsTypeCorrect == MSSpec => []MSTypeOK
  BY MSTypesInit, MSTypesStay, PTL DEF MSSpec

-----------------------------------------------------------------------------
(* A send uses the settings it has read                                    *)

\* What a server holds of the row: the row its transport is made from, and those that
\* mails have read.
Copies(s) == transport[s] \cup ReadRows(s)

\* Of one updated_at a server holds one content, that of the row if it is the row's,
\* except for those that the row was given a second time; no time is yet to come.
CopiesAgree ==
    /\ settings.at <= clock
    /\ \A s \in Servers : \A c \in Copies(s) :
          /\ c.at <= clock
          /\ c.at = settings.at /\ c.at \notin reused[s] => c.cols = settings.cols
          /\ \A d \in Copies(s) : c.at = d.at /\ c.at \notin reused[s] => c.cols = d.cols
StampsArePast ==
    \A r \in Puts : /\ put[r].stage = "loaded" => put[r].at <= clock
                    /\ put[r].stage = "compared" => \A t \in put[r].back : t <= clock

LEMMA CopyTypes ==
    ASSUME MSTypeOK, NEW s \in Servers, NEW c \in Copies(s)
    PROVE  c \in Row /\ c.at \in Nat
<1>1. c \in Row
  BY MailKinds DEF Copies, ReadRows, MSTypeOK
<1> QED
  BY <1>1 DEF Row

LEMMA PastStay ==
    ASSUME MSTypeOK, MSTypeOK', StampsArePast, clock <= clock',
           \A r \in Puts :
              \/ put'[r] = put[r] \/ put'[r] \in Saved \cup {Quiet}
              \/ put'[r] \in Loaded /\ put'[r].at <= clock
              \/ put'[r] \in Compared /\ \A t \in put'[r].back : t <= clock
    PROVE  StampsArePast'
<1> SUFFICES ASSUME NEW r \in Puts
             PROVE  /\ put'[r].stage = "loaded" => put'[r].at <= clock'
                    /\ put'[r].stage = "compared" => \A t \in put'[r].back : t <= clock'
  BY DEF StampsArePast
<1>1. clock \in Nat /\ clock' \in Nat
  BY DEF MSTypeOK
<1>2. put'[r].stage = "loaded" => put'[r] # Quiet /\ put'[r] \in Loaded
  BY DEF MSTypeOK, PutRecord, Loaded, Compared, Saved, Quiet
<1>3. put'[r].stage = "compared" => put'[r] # Quiet /\ put'[r] \in Compared
  BY DEF MSTypeOK, PutRecord, Loaded, Compared, Saved, Quiet
<1>4. CASE put'[r] = put[r]
  BY <1>1, <1>2, <1>3, <1>4 DEF StampsArePast, Loaded, Compared
<1>5. CASE put'[r] \in Saved \cup {Quiet}
  BY <1>5 DEF Saved, Quiet
<1>6. CASE put'[r] \in Loaded /\ put'[r].at <= clock
  BY <1>1, <1>6 DEF Loaded
<1>7. CASE put'[r] \in Compared /\ \A t \in put'[r].back : t <= clock
  BY <1>1, <1>7 DEF Compared
<1> QED
  BY <1>4, <1>5, <1>6, <1>7

\* A step after which servers hold what they held before, or the row as it is, and of
\* what they hold know at least what they knew to be reused.
LEMMA CopiesStay ==
    ASSUME MSTypeOK, MSTypeOK', CopiesAgree, clock <= clock', settings'.at <= clock',
           \A s \in Servers : \A c \in Copies(s)' : c.at \in reused[s] => c.at \in reused'[s],
           \/ settings' = settings /\ \A s \in Servers : Copies(s)' \subseteq Copies(s) \cup {settings}
           \/ /\ \A s \in Servers : Copies(s)' \subseteq Copies(s)
              /\ clock < settings'.at \/ \A s \in Servers : settings'.at \in reused'[s]
    PROVE  CopiesAgree'
<1>1. clock \in Nat /\ clock' \in Nat /\ settings.at \in Nat /\ settings'.at \in Nat
  BY DEF MSTypeOK, Row
<1>2. ASSUME NEW s \in Servers, NEW c \in Copies(s)'
      PROVE  /\ c.at <= clock'
             /\ c.at = settings'.at /\ c.at \notin reused'[s] => c.cols = settings'.cols
             /\ \A d \in Copies(s)' : c.at = d.at /\ c.at \notin reused'[s] => c.cols = d.cols
  <2>1. c \in Copies(s) \cup {settings} /\ c.at \in Nat
    BY <1>1, <1>2, CopyTypes
  <2>2. c.at <= clock
    BY <2>1 DEF CopiesAgree
  <2>3. c.at = settings'.at /\ c.at \notin reused'[s] => settings' = settings
    BY <1>1, <1>2, <2>1, <2>2
  <2>4. c.at = settings.at /\ c.at \notin reused'[s] => c.cols = settings.cols
    BY <1>2, <2>1 DEF CopiesAgree
  <2>5. ASSUME NEW d \in Copies(s)', c.at = d.at, c.at \notin reused'[s]
        PROVE  c.cols = d.cols
    <3>1. d \in Copies(s) \cup {settings} /\ c.at \notin reused[s] /\ d.at \notin reused[s]
      BY <1>2, <2>5
    <3> QED
      BY <2>1, <2>5, <3>1 DEF CopiesAgree
  <2> QED
    BY <1>1, <2>1, <2>2, <2>3, <2>4, <2>5
<1> QED
  BY <1>2 DEF CopiesAgree

LEMMA ReadRowsSame ==
    ASSUME NEW s, mail' = mail
    PROVE  ReadRows(s)' = ReadRows(s)
  BY DEF ReadRows

\* Mails that end or go on hold what they held.
LEMMA ReadRowsShrink ==
    ASSUME MSTypeOK, MSTypeOK', NEW s,
           \A x \in Sends : \/ mail'[x] = mail[x] \/ mail'[x] = Quiet
                            \/ /\ mail[x] # Quiet
                               /\ mail'[x].server = mail[x].server /\ mail'[x].row = mail[x].row
    PROVE  ReadRows(s)' \subseteq ReadRows(s)
<1> SUFFICES ASSUME NEW x \in Sends, mail'[x] # Quiet, mail'[x].server = s
             PROVE  mail'[x].row \in ReadRows(s)
  BY DEF ReadRows
<1>1. mail[x] # Quiet /\ mail[x].server = s /\ mail'[x].row = mail[x].row
  OBVIOUS
<1> QED
  BY <1>1 DEF ReadRows

LEMMA AgreeOnPuts ==
    ASSUME MSTypeOK, CopiesAgree, StampsArePast, NEW r \in Puts,
           \/ \E s \in Servers : LoadPut(r, s)
           \/ ComparePut(r) \/ WritePut(r) \/ Invalidate(r) \/ FailPut(r)
    PROVE  CopiesAgree' /\ StampsArePast'
<1>0. clock \in Nat /\ settings.at \in Nat /\ settings.at <= clock
  BY DEF MSTypeOK, Row, CopiesAgree
<1>1. ASSUME UNCHANGED <<settings, clock, transport, mail, reused>>, MSTypeOK'
      PROVE  CopiesAgree'
  <2>1. \A s \in Servers : Copies(s)' = Copies(s)
    BY <1>1, ReadRowsSame DEF Copies
  <2> QED
    BY <1>0, <1>1, <2>1, CopiesStay
<1>2. ASSUME NEW s \in Servers, LoadPut(r, s)
      PROVE  CopiesAgree' /\ StampsArePast'
  <2>1. UNCHANGED <<settings, clock, transport, mail, reused>>
    BY <1>2 DEF LoadPut
  <2> QED
    BY <1>0, <1>1, <1>2, <2>1, LoadPutTypes, PastStay
<1>3. ASSUME ComparePut(r)
      PROVE  CopiesAgree' /\ StampsArePast'
  <2>1. UNCHANGED <<settings, clock, transport, mail, reused>>
    BY <1>3 DEF ComparePut
  <2>2. MSTypeOK' /\ put[r].at <= clock
    BY <1>3, ComparePutTypes DEF StampsArePast, Loaded
  <2> QED
    BY <1>0, <1>1, <1>3, <2>1, <2>2, ComparePutTypes, PastStay
<1>4. ASSUME WritePut(r)
      PROVE  CopiesAgree' /\ StampsArePast'
  <2>1. MSTypeOK' /\ clock' \in Nat /\ \A s \in Servers : Copies(s)' = Copies(s)
    BY <1>4, WritePutTypes, ReadRowsSame DEF Copies, MSTypeOK
  <2>2. \A t \in put[r].back : t <= clock
    BY <1>4 DEF StampsArePast, WritePut
  <2>3. /\ clock <= clock' /\ settings'.at <= clock'
        /\ \A s \in Servers : reused[s] \subseteq reused'[s]
        /\ clock < settings'.at \/ \A s \in Servers : settings'.at \in reused'[s]
    BY <1>0, <1>4, <2>1, <2>2, WritePutTypes
  <2> QED
    BY <1>4, <2>1, <2>3, WritePutTypes, CopiesStay, PastStay
<1>5. ASSUME Invalidate(r)
      PROVE  CopiesAgree' /\ StampsArePast'
  <2>0. PICK s \in Servers : s = put[r].server
    BY <1>5, InvalidateTypes
  <2>1. MSTypeOK' /\ transport \in [Servers -> SUBSET Row] /\ reused \in [Servers -> SUBSET Nat]
    BY <1>5, InvalidateTypes DEF MSTypeOK
  <2>2. /\ UNCHANGED <<settings, clock, mail>>
        /\ transport' = [transport EXCEPT ![s] = {}]
        /\ reused' = [reused EXCEPT ![s] = {t \in @ : \E row \in ReadRows(s) : row.at = t}]
    BY <1>5, <2>0, InvalidateTypes
  <2>3. \A q \in Servers : Copies(q)' \subseteq Copies(q)
    BY <2>1, <2>2, ReadRowsSame DEF Copies
  <2>4. \A c \in Copies(s)' : c \in ReadRows(s)
    BY <2>1, <2>2, ReadRowsSame DEF Copies
  <2>5. ASSUME NEW q \in Servers, NEW c \in Copies(q)', c.at \in reused[q]
        PROVE  c.at \in reused'[q]
    BY <2>1, <2>2, <2>4, <2>5
  <2> QED
    <3>1. CopiesAgree'
      BY <1>0, <2>1, <2>2, <2>3, <2>5, CopiesStay
    <3>2. put'[r] = Quiet /\ \A q \in Puts \ {r} : put'[q] = put[q]
      BY <1>5, InvalidateTypes
    <3> QED
      BY <1>0, <2>1, <2>2, <3>1, <3>2, PastStay
<1>6. ASSUME FailPut(r)
      PROVE  CopiesAgree' /\ StampsArePast'
  BY <1>0, <1>1, <1>6, FailPutTypes, PastStay
<1> QED
  BY <1>2, <1>3, <1>4, <1>5, <1>6

LEMMA AgreeOnMails ==
    ASSUME MSTypeOK, CopiesAgree, StampsArePast, NEW x \in Sends,
           \/ \E s \in Servers, test \in BOOLEAN : ReadSettings(x, s, test)
           \/ UseTransport(x) \/ RecordTest(x) \/ FailSend(x)
    PROVE  CopiesAgree' /\ StampsArePast'
<1>0. /\ clock \in Nat /\ settings.at \in Nat /\ settings.at <= clock
      /\ MSTypeOK' /\ put' = put /\ \A y \in Sends \ {x} : mail'[y] = mail[y]
  BY MailTypes DEF MSTypeOK, Row, CopiesAgree
<1>1. ASSUME NEW s \in Servers, NEW test \in BOOLEAN, ReadSettings(x, s, test)
      PROVE  CopiesAgree' /\ StampsArePast'
  <2>1. UNCHANGED <<settings, clock, transport, reused>> /\ mail'[x].row = settings
    BY <1>1 DEF ReadSettings, MSTypeOK
  <2>2. \A q \in Servers : ReadRows(q)' \subseteq ReadRows(q) \cup {settings}
    BY <1>0, <2>1 DEF ReadRows
  <2>3. \A q \in Servers : Copies(q)' \subseteq Copies(q) \cup {settings}
    BY <2>1, <2>2 DEF Copies
  <2> QED
    BY <1>0, <2>1, <2>3, CopiesStay, PastStay
<1>2. ASSUME UseTransport(x)
      PROVE  CopiesAgree' /\ StampsArePast'
  <2>0. PICK s \in Servers : s = mail[x].server
    BY <1>2, MailKinds DEF UseTransport, Quiet
  <2>1. mail[x] # Quiet /\ mail[x] \in MailRecord
    BY <1>2, MailKinds DEF UseTransport, Quiet
  <2>2. /\ UNCHANGED <<settings, clock, reused>>
        /\ transport' = [transport EXCEPT ![s] = {t \in {Transport(x)} : t.cols[Host] # 0}]
        /\ mail' = [mail EXCEPT ![x] = IF mail[x].test THEN [mail[x] EXCEPT !.stage = "tested"] ELSE Quiet]
    BY <1>2, <2>0 DEF UseTransport, MSTypeOK
  <2>3. \/ mail'[x] = Quiet
        \/ mail'[x].server = mail[x].server /\ mail'[x].row = mail[x].row
    BY <2>1, <2>2 DEF MSTypeOK, MailRecord
  <2>4. \A q \in Servers : ReadRows(q)' \subseteq ReadRows(q)
    BY <1>0, <2>1, <2>3, ReadRowsShrink
  <2>5. Transport(x) \in Copies(s)
    BY <2>0, <2>1, TransportIsHeld DEF Copies, ReadRows
  <2>6. \A q \in Servers : transport'[q] \subseteq Copies(q)
    BY <2>1, <2>2, <2>5 DEF Copies, MSTypeOK
  <2>7. \A q \in Servers : Copies(q)' \subseteq Copies(q)
    BY <2>4, <2>6 DEF Copies
  <2> QED
    BY <1>0, <2>2, <2>7, CopiesStay, PastStay
<1>3. ASSUME RecordTest(x)
      PROVE  CopiesAgree' /\ StampsArePast'
  <2>1. settings.cols \in [Columns -> Values] /\ StampedRow(settings.cols) /\ transport' = transport
        /\ mail'[x] = Quiet
    BY <1>3 DEF RecordTest, MSTypeOK, Row
  <2>2. \A q \in Servers : ReadRows(q)' \subseteq ReadRows(q)
    BY <1>0, <2>1, ReadRowsShrink
  <2>3. \A q \in Servers : Copies(q)' \subseteq Copies(q)
    BY <2>1, <2>2 DEF Copies
  <2>4. /\ clock' \in Nat /\ clock <= clock' /\ settings'.at = clock'
        /\ \A q \in Servers : reused[q] \subseteq reused'[q]
        /\ clock < settings'.at \/ \A q \in Servers : settings'.at \in reused'[q]
    BY <2>1, StampTypes
  <2> QED
    BY <1>0, <2>3, <2>4, CopiesStay, PastStay
<1>4. ASSUME FailSend(x)
      PROVE  CopiesAgree' /\ StampsArePast'
  <2>1. UNCHANGED <<settings, clock, transport, reused>> /\ mail'[x] = Quiet
    BY <1>4 DEF FailSend, MSTypeOK
  <2>2. \A q \in Servers : Copies(q)' \subseteq Copies(q)
    BY <1>0, <2>1, ReadRowsShrink DEF Copies
  <2> QED
    BY <1>0, <2>1, <2>2, CopiesStay, PastStay
<1> QED
  BY <1>1, <1>2, <1>3, <1>4

LEMMA AgreeOnRestart ==
    ASSUME MSTypeOK, CopiesAgree, StampsArePast, NEW s \in Servers, RestartServer(s)
    PROVE  CopiesAgree' /\ StampsArePast'
<1>1. clock \in Nat /\ settings.at <= clock /\ transport \in [Servers -> SUBSET Row]
      /\ reused \in [Servers -> SUBSET Nat]
  BY DEF MSTypeOK, CopiesAgree
<1>2. \A q \in Servers : ReadRows(q)' \subseteq ReadRows(q)
  BY RestartTypes, ReadRowsShrink
<1>3. ReadRows(s)' = {}
  BY RestartTypes DEF ReadRows
<1>4. Copies(s)' = {} /\ \A q \in Servers : Copies(q)' \subseteq Copies(q)
  BY <1>1, <1>2, <1>3, RestartTypes DEF Copies
<1>5. \A q \in Servers : \A c \in Copies(q)' : c.at \in reused[q] => c.at \in reused'[q]
  BY <1>1, <1>4, RestartTypes
<1> QED
  BY <1>1, <1>4, <1>5, RestartTypes, CopiesStay, PastStay

LEMMA CopiesMakeCurrent == MSTypeOK /\ CopiesAgree => SendsUseCurrentSettings
<1> SUFFICES ASSUME MSTypeOK, CopiesAgree, NEW x \in Sends, Reading(x),
                    mail[x].row.at \notin reused[mail[x].server]
             PROVE  Transport(x).cols = mail[x].row.cols
  BY DEF SendsUseCurrentSettings
<1>1. mail[x] # Quiet /\ mail[x].server \in Servers
  BY MailKinds DEF Reading
<1>2. mail[x].row \in Copies(mail[x].server)
  BY <1>1 DEF Copies, ReadRows
<1>3. Transport(x) \in Copies(mail[x].server) /\ Transport(x).at = mail[x].row.at
  BY <1>1, <1>2, TransportIsHeld DEF Copies
<1> QED
  BY <1>1, <1>2, <1>3 DEF CopiesAgree

\* A changed host, port or password takes effect on the next send of every server: the
\* transport a send uses is made from the settings it has just read (getTransporter,
\* invalidate), unless their updated_at was given to the row a second time, by a save of
\* a stale entity or by two writes in one tick, since the server last dropped what it had
\* from before.
THEOREM SendsAreCurrent == MSSpec => []SendsUseCurrentSettings
<1>1. MSInit => CopiesAgree /\ StampsArePast
  BY DEF MSInit, CopiesAgree, StampsArePast, Copies, ReadRows, Quiet
<1>2. MSTypeOK /\ CopiesAgree /\ StampsArePast /\ [MSNext]_msVars => (CopiesAgree /\ StampsArePast)'
  <2> SUFFICES ASSUME MSTypeOK, CopiesAgree, StampsArePast, [MSNext]_msVars
               PROVE  CopiesAgree' /\ StampsArePast'
    OBVIOUS
  <2>1. UNCHANGED msVars => CopiesAgree' /\ StampsArePast'
    BY DEF msVars, CopiesAgree, StampsArePast, Copies, ReadRows
  <2> QED
    BY <2>1, AgreeOnPuts, AgreeOnMails, AgreeOnRestart DEF MSNext
<1> QED
  BY <1>1, <1>2, CopiesMakeCurrent, MailSettingsTypeCorrect, PTL DEF MSSpec

=============================================================================
