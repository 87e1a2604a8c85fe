----------------------------- MODULE Deployment -----------------------------
(***************************************************************************)
(* Processes started on one database: the migration runner                 *)
(* (scripts/migrate.mjs) and servers (the boot checks, then the mail       *)
(* password, which a server encrypts).  Each has the key its environment   *)
(* gives it.                                                               *)
(*                                                                         *)
(* Each awaited statement, with the code that runs when it returns, is one *)
(* step, except that looking at the tracking tables, filling in missing    *)
(* checksums and assertEncryptionKey are one step each: they run under the *)
(* lock and can be repeated.  A process may stop before any step; a        *)
(* statement that fails stops it too.  Of a migration counts whether it is *)
(* DDL, which MySQL commits at once, and whether it is a module (.mjs),    *)
(* which is imported when it is applied, or SQL, which is run as it was    *)
(* read.  Left out: --status, the development fixtures, the UTC session    *)
(* check, and texts.                                                       *)
(***************************************************************************)
EXTENDS Naturals

CONSTANTS
    Procs,      \* processes, started over and over
    Keys,       \* values of APP_ENCRYPTION_KEY
    Last,       \* the migrations are 1..Last
    Ddl,        \* those that commit implicitly
    Modules,    \* those that are .mjs files
    KeyFile,    \* the one that adds site_settings.encryption_key_check
    MaxRuns     \* bound: processes started

None == "none"
Files == 1..Last

ASSUME DeploymentConstants ==
    /\ {Last, MaxRuns} \subseteq Nat /\ KeyFile \in Ddl /\ Ddl \cup Modules \subseteq Files
    /\ None \notin Procs \cup Keys

VARIABLES
    disk,       \* content of the migration files
    effect,     \* what the migrations have done to the schema
    recorded,   \* schema_migrations: the checksum, per version
    lock,       \* GET_LOCK('safeer_migrate')
    kcv,        \* site_settings.encryption_key_check, or "none" for NULL
    admin,      \* the bootstrap admin has a row in users
    secret,     \* the key of mail_settings.password_encrypted, or "none" for NULL
    proc,       \* processes
    runs,       \* processes started
    broken,     \* history: files whose run stopped after their DDL
    late,       \* history: files edited while a run that had read them might yet apply them
    mixed       \* history: processes with different keys passed the check before one was stored

schema == <<effect, recorded>>
history == <<broken, late, mixed>>
vars == <<disk, schema, lock, kcv, admin, secret, proc, runs, history>>

Sql == {"first", "edited"}    \* for a content or its checksum; "null" for one unknown
Idle == [stage |-> "idle"]
Proc ==
    [kind : {"migrate"}, stage : {"lock", "read", "verify", "key", "apply", "insert", "record"},
     key : Keys \cup {None}, sql : [Files -> Sql], applied : SUBSET Files,
     ran : Sql \cup {"null"}]   \* the content being applied
    \cup [kind : {"server"}, stage : {"check", "record", "admin", "create", "serve"}, key : Keys]

TypeOK ==
    /\ disk \in [Files -> Sql]
    /\ effect \in [Files -> [state : {"none", "part", "whole"}, sql : Sql \cup {"null"}, times : Nat]]
    /\ recorded \in [Files -> Sql \cup {"null", None}]
    /\ lock \in Procs \cup {None} /\ {kcv, secret} \subseteq Keys \cup {None}
    /\ proc \in [Procs -> Proc \cup {Idle}]
    /\ runs \in 0..MaxRuns /\ broken \cup late \subseteq Files
    /\ {admin, mixed} \subseteq BOOLEAN
    \* one run at a time is past the lock
    /\ \A p \in Procs : proc[p] # Idle /\ proc[p].kind = "migrate" /\ proc[p].stage # "lock" => lock = p

\* A fresh database, or one where the older runner, which kept no checksums, has
\* applied the first file and a server has stored a mail password.
Init ==
    /\ disk = [f \in Files |-> "first"]
    /\ \E old \in SUBSET {1} :
          /\ effect = [f \in Files |-> [state |-> IF f \in old THEN "whole" ELSE "none", sql |-> "null",
                                        times |-> IF f \in old THEN 1 ELSE 0]]
          /\ recorded = [f \in Files |-> IF f \in old THEN "null" ELSE None]
          /\ secret \in IF old = {} THEN {None} ELSE Keys \cup {None}
    /\ lock = None /\ kcv = None /\ admin = FALSE
    /\ proc = [p \in Procs |-> Idle]
    /\ runs = 0 /\ broken = {} /\ late = {} /\ mixed = FALSE

-----------------------------------------------------------------------------
(* Processes                                                               *)

At(p, kind, stage) == proc[p].stage = stage /\ proc[p].kind = kind
Goto(p, stage) == proc' = [proc EXCEPT ![p].stage = stage]
Start(p, record) ==
    /\ proc[p] = Idle /\ runs < MaxRuns
    /\ runs' = runs + 1
    /\ proc' = [proc EXCEPT ![p] = record]

\* The process ends; its connection with its lock and its open transaction goes.
End(p) ==
    /\ proc' = [proc EXCEPT ![p] = Idle]
    /\ lock' = IF lock = p THEN None ELSE lock

HasColumn == effect[KeyFile].state = "whole"

\* Mutant: the stored password is not tried.
KeyFits_NoProbe(k) == IF HasColumn /\ kcv # None THEN kcv = k ELSE TRUE

\* What both checks say of a key: it is the stored one; before one is stored, it
\* decrypts the mail password, if there is one.
KeyFits(k) == IF HasColumn /\ kcv # None THEN kcv = k ELSE secret \in {None, k}

\* Processes that have passed the check with another key.
Rivals(p, k) ==
    \E q \in Procs \ {p} :
        /\ proc[q] # Idle /\ proc[q].key \notin {None, k}
        /\ proc[q].stage \notin {"lock", "read", "verify", "key", "check"}

\* UPDATE ... WHERE encryption_key_check IS NULL
StoreKey(k) == kcv' = IF HasColumn /\ kcv = None THEN k ELSE kcv

-----------------------------------------------------------------------------
(* migrate.mjs                                                             *)

\* resolveMigrationFiles: the files are read before the lock is asked for.
MigrateStart(p, k) ==
    /\ Start(p, [kind |-> "migrate", stage |-> "lock", key |-> k, sql |-> disk, applied |-> {}, ran |-> "null"])
    /\ UNCHANGED <<disk, schema, lock, kcv, admin, secret, history>>

\* Mutant: the lock is not asked for.
Acquire_Free(p) == lock' = lock

Acquire(p) == lock = None /\ lock' = p

\* acquireLock; its timeout is End.
MigrateLock(p) ==
    /\ At(p, "migrate", "lock")
    /\ Acquire(p)
    /\ Goto(p, "read")
    /\ UNCHANGED <<disk, schema, kcv, admin, secret, runs, history>>

\* ensureTrackingTables, readApplied
MigrateRead(p) ==
    /\ At(p, "migrate", "read")
    /\ proc' = [proc EXCEPT ![p].stage = "verify", ![p].applied = {f \in Files : recorded[f] # None}]
    /\ UNCHANGED <<disk, schema, lock, kcv, admin, secret, runs, history>>

\* verifyChecksums
Changed(p) == {f \in proc[p].applied : recorded[f] \notin {"null", proc[p].sql[f]}}

MigrateVerify(p) ==
    /\ At(p, "migrate", "verify")
    /\ recorded' = [f \in Files |-> IF f \in proc[p].applied /\ recorded[f] = "null"
                                    THEN proc[p].sql[f] ELSE recorded[f]]
    /\ IF Changed(p) = {} THEN Goto(p, "key") /\ lock' = lock ELSE End(p)
    /\ UNCHANGED <<disk, effect, kcv, admin, secret, runs, history>>

\* assertEncryptionKey, unless the environment has no key
MigrateKey(p) ==
    LET k == proc[p].key IN
    /\ At(p, "migrate", "key")
    /\ IF k = None \/ KeyFits(k) THEN Goto(p, "apply") /\ lock' = lock ELSE End(p)
    /\ mixed' = (mixed \/ (k # None /\ KeyFits(k) /\ Rivals(p, k)))
    /\ UNCHANGED <<disk, schema, kcv, admin, secret, runs, broken, late>>

Pending(p) == Files \ proc[p].applied
NextFile(p) == CHOOSE f \in Pending(p) : \A g \in Pending(p) : f <= g

Run(f, sql) == [state |-> "whole", sql |-> sql, times |-> effect[f].times + 1]

\* What is run: of a module what is on disk when it is imported.
Content(p, f) == IF f \in Modules THEN disk[f] ELSE proc[p].sql[f]

\* The file is run.  DDL stays whatever happens next; over leftovers of an earlier
\* run it may fail or not.
MigrateApply(p) ==
    LET f == NextFile(p) IN
    /\ At(p, "migrate", "apply")
    /\ IF Pending(p) = {} THEN Goto(p, "record") /\ UNCHANGED <<effect, broken, lock>>
       ELSE \/ /\ proc' = [proc EXCEPT ![p].stage = "insert", ![p].ran = Content(p, f)]
               /\ effect' = IF f \in Ddl THEN [effect EXCEPT ![f] = Run(f, Content(p, f))] ELSE effect
               /\ UNCHANGED <<broken, lock>>
            \/ /\ End(p)
               /\ f \in Ddl
               /\ effect' = IF effect[f].state = "none" THEN [effect EXCEPT ![f].state = "part"] ELSE effect
               /\ broken' = broken \cup {f}
    /\ UNCHANGED <<disk, recorded, kcv, admin, secret, runs, late, mixed>>

\* Mutant: the checksum is that of the file as it is when the run has ended.
Checksum_Recomputed(p, f) == disk[f]

\* file.checksum: of the content read before the lock was asked for.
Checksum(p, f) == proc[p].sql[f]

\* The row of schema_migrations, and COMMIT.  version is the primary key.
MigrateInsert(p) ==
    LET f == NextFile(p) IN
    /\ At(p, "migrate", "insert")
    /\ recorded[f] = None
    /\ recorded' = [recorded EXCEPT ![f] = Checksum(p, f)]
    /\ effect' = IF f \in Ddl THEN effect ELSE [effect EXCEPT ![f] = Run(f, proc[p].ran)]
    /\ proc' = [proc EXCEPT ![p].stage = "apply", ![p].applied = @ \cup {f}, ![p].ran = "null"]
    /\ UNCHANGED <<disk, lock, kcv, admin, secret, runs, history>>

\* recordEncryptionKey, RELEASE_LOCK
MigrateRecord(p) ==
    /\ At(p, "migrate", "record") /\ End(p)
    /\ IF proc[p].key = None THEN kcv' = kcv ELSE StoreKey(proc[p].key)
    /\ UNCHANGED <<disk, schema, admin, secret, runs, history>>

-----------------------------------------------------------------------------
(* A server boots: assertAndRecordEncryptionKey, the bootstrap admin       *)

BootStart(p, k) ==
    /\ Start(p, [kind |-> "server", stage |-> "check", key |-> k])
    /\ UNCHANGED <<disk, schema, lock, kcv, admin, secret, history>>

\* Without the column the query fails.
BootCheck(p) ==
    LET k == proc[p].key IN
    /\ At(p, "server", "check")
    /\ IF HasColumn /\ KeyFits(k)
       THEN Goto(p, IF kcv = None THEN "record" ELSE "admin") /\ lock' = lock
       ELSE End(p)
    /\ mixed' = (mixed \/ (HasColumn /\ KeyFits(k) /\ Rivals(p, k)))
    /\ UNCHANGED <<disk, schema, kcv, admin, secret, runs, broken, late>>

BootRecord(p) ==
    /\ At(p, "server", "record")
    /\ StoreKey(proc[p].key)
    /\ Goto(p, "admin")
    /\ UNCHANGED <<disk, schema, lock, admin, secret, runs, history>>

BootAdmin(p) ==
    /\ At(p, "server", "admin")
    /\ Goto(p, IF admin THEN "serve" ELSE "create")
    /\ UNCHANGED <<disk, schema, lock, kcv, admin, secret, runs, history>>

\* uq_users_email: of two servers that found no admin, the second does not boot.
BootCreate(p) ==
    /\ At(p, "server", "create")
    /\ admin' = TRUE
    /\ IF admin THEN End(p) ELSE Goto(p, "serve") /\ lock' = lock
    /\ UNCHANGED <<disk, schema, kcv, secret, runs, history>>

-----------------------------------------------------------------------------

Serves(p) == At(p, "server", "serve")

\* MailSettingsService.update with a password: encrypted with the server's key.
StorePassword(p) ==
    /\ Serves(p)
    /\ secret' = proc[p].key
    /\ UNCHANGED <<disk, schema, lock, kcv, admin, proc, runs, history>>

\* A process stops, also because a statement failed or the lock was not to be had.
Stop(p) ==
    /\ proc[p] # Idle /\ End(p)
    /\ broken' = IF At(p, "migrate", "insert") /\ NextFile(p) \in Ddl THEN broken \cup {NextFile(p)} ELSE broken
    /\ UNCHANGED <<disk, schema, kcv, admin, secret, runs, late, mixed>>

\* Somebody edits a migration, applied or not.
EditFile(f) ==
    /\ disk[f] = "first" /\ disk' = [disk EXCEPT ![f] = "edited"]
    /\ late' = IF \E p \in Procs : proc[p] # Idle /\ proc[p].kind = "migrate" /\ f \notin proc[p].applied
               THEN late \cup {f} ELSE late
    /\ UNCHANGED <<schema, lock, kcv, admin, secret, proc, runs, broken, mixed>>

Next ==
    \/ \E p \in Procs :
          \/ \E k \in Keys \cup {None} : MigrateStart(p, k)
          \/ MigrateLock(p) \/ MigrateRead(p) \/ MigrateVerify(p) \/ MigrateKey(p)
          \/ MigrateApply(p) \/ MigrateInsert(p) \/ MigrateRecord(p)
          \/ \E k \in Keys : BootStart(p, k)
          \/ BootCheck(p) \/ BootRecord(p) \/ BootAdmin(p) \/ BootCreate(p)
          \/ StorePassword(p) \/ Stop(p)
    \/ \E f \in Files : EditFile(f)

Spec == Init /\ [][Next]_vars

-----------------------------------------------------------------------------
(* Properties                                                              *)

\* C29: however many runs overlap, a migration that is recorded has been run to its
\* end, with the content whose checksum is recorded (a backfilled checksum is that
\* of the file found on disk), except for a module edited while a run that had read
\* it might yet apply it; none is run twice, unless its DDL was left behind by a run
\* that stopped before recording it.
RunAsRecorded(f) == recorded[f] # None => effect[f].sql \in {"null", recorded[f]}

RecordedIsApplied ==
    \A f \in Files :
        /\ recorded[f] # None => effect[f].state = "whole"
        /\ RunAsRecorded(f) \/ f \in Modules \cap late
        /\ effect[f].times > 1 => f \in broken

\* migrate.mjs:82-84: a numbered .mjs migration "is checksummed and run in a
\* transaction exactly like a `.sql` file", whose recorded checksum is that of the
\* content that was run.  The code does not keep this (README, section 5).
ModulesRunAsRecorded == \A f \in Modules : RunAsRecorded(f)

\* A7: the stored password can be read with the key the database is said to belong
\* to, and by every server, unless processes with different keys started side by
\* side while no key was stored.
PasswordReadable ==
    mixed \/ \A k \in {secret} \ {None} :
                /\ kcv \in {None, k}
                /\ \A p \in Procs : Serves(p) => proc[p].key = k
=============================================================================
