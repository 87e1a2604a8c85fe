---------------------------- MODULE MailSettings ----------------------------
(***************************************************************************)
(* The single row of mail_settings and the transport each server keeps     *)
(* (mail-settings.service.ts, mail-transport.service.ts).  A PUT loads the *)
(* row, puts the body over it and saves the entity: save() reads the row   *)
(* again and writes the columns that differ, updated_at among them when    *)
(* the entity is stale.  A send builds a transport from the row it reads,  *)
(* unless the one it finds was built for the same updated_at.              *)
(*                                                                         *)
(* Each awaited statement, with the code that runs when it returns, is one *)
(* step.  The columns are those a transport is built from; of the others   *)
(* counts that a PUT may change one (updated_by).  A value is the number   *)
(* of the PUT that set it, 0 for NULL.  updated_at counts ticks: of a      *)
(* millisecond, or of a second if CURRENT_TIMESTAMP is written without the *)
(* column's precision.  Left out: GET, the row's other columns, texts.     *)
(***************************************************************************)
EXTENDS Naturals

CONSTANTS
    Servers,
    Puts, Sends,        \* requests and mails under way at a time
    Columns,
    Host,               \* without it there is no transport
    Password,           \* password_encrypted, which findSingleton does not select
    MaxPuts,            \* bound: PUTs
    MaxTests,           \* bound: test mails whose outcome is recorded
    MaxSameTick         \* bound: writes in the tick of an earlier one

ASSUME MailSettingsConstants ==
    /\ {Host, Password} \subseteq Columns /\ Host # Password
    /\ {MaxPuts, MaxTests, MaxSameTick} \subseteq Nat

VARIABLES
    settings,   \* the row of mail_settings
    clock,      \* the tick of the latest write that was given the time
    transport,  \* MailTransportService: at most one transport per server
    put,        \* calls of update()
    mail,       \* calls of getTransporter() by a send or a test
    puts, tests, sameTick,  \* PUTs, tests and writes in one tick so far
    reused      \* history: values of updated_at the row was given a second time, as long
                \* as a server may hold a transport or a row from before

msCounters == <<puts, tests, sameTick>>
msVars == <<settings, clock, transport, put, mail, msCounters, reused>>

Values == 0..MaxPuts + 1
Row == [cols : [Columns -> Values], at : Nat]
SomeCols == UNION {[C -> Values] : C \in SUBSET Columns}
Quiet == [stage |-> "quiet"]
PutRecord ==
    [stage : {"loaded"}, server : Servers, cols : SomeCols, at : Nat]    \* the entity
    \cup [stage : {"compared"}, server : Servers, cols : SomeCols, back : SUBSET Nat]    \* the UPDATE
    \cup [stage : {"saved"}, server : Servers]
MailRecord == [stage : {"read", "tested"}, server : Servers, row : Row, test : BOOLEAN]

MSTypeOK ==
    /\ settings \in Row /\ clock \in Nat
    /\ transport \in [Servers -> SUBSET Row]
    /\ \A s \in Servers : \A a, b \in transport[s] : a = b
    /\ put \in [Puts -> PutRecord \cup {Quiet}]
    /\ mail \in [Sends -> MailRecord \cup {Quiet}]
    /\ puts \in 0..MaxPuts /\ tests \in 0..MaxTests /\ sameTick \in 0..MaxSameTick
    /\ reused \in [Servers -> SUBSET Nat]

\* As the seed leaves it, or as an earlier save did.
MSInit ==
    /\ \E old \in {0, 1} : settings = [cols |-> [c \in Columns |-> old], at |-> 0]
    /\ clock = 0 /\ puts = 0 /\ tests = 0 /\ sameTick = 0
    /\ transport = [s \in Servers |-> {}]
    /\ put = [r \in Puts |-> Quiet] /\ mail = [x \in Sends |-> Quiet]
    /\ reused = [s \in Servers |-> {}]

-----------------------------------------------------------------------------
(* Writing the row                                                         *)

Reuse(at) == reused' = [s \in Servers |-> reused[s] \cup {at}]

\* An UPDATE that does not set updated_at is given the time.
StampedRow(cols) ==
    /\ \/ clock' = clock + 1 /\ UNCHANGED <<sameTick, reused>>
       \/ /\ sameTick < MaxSameTick /\ sameTick' = sameTick + 1
          /\ clock' = clock /\ Reuse(clock)
    /\ settings' = [cols |-> cols, at |-> clock']

\* findSingleton, hasPassword; the body is put over the entity, which has a password
\* only if one is given.
LoadPut(r, s) ==
    /\ put[r] = Quiet /\ puts < MaxPuts
    /\ puts' = puts + 1
    /\ \E given \in SUBSET Columns, emptied \in BOOLEAN :
          put' = [put EXCEPT ![r] =
             [stage |-> "loaded", server |-> s, at |-> settings.at,
              cols |-> [c \in given \cup (Columns \ {Password}) |->
                          IF c \notin given THEN settings.cols[c]
                          ELSE IF c = Host /\ emptied THEN 0 ELSE puts + 2]]]
    /\ UNCHANGED <<settings, clock, transport, mail, tests, sameTick, reused>>

\* save() reads the row again; it finds no password to compare with.  Without a
\* difference nothing is written.
ComparePut(r) ==
    LET entity == put[r]
        changed == {c \in DOMAIN entity.cols : c = Password \/ entity.cols[c] # settings.cols[c]}
        stale == {entity.at} \ {settings.at}
    IN  /\ put[r].stage = "loaded"
        /\ \E updatedBy \in BOOLEAN :
              put' = [put EXCEPT ![r] =
                 IF changed = {} /\ stale = {} /\ ~ updatedBy THEN [stage |-> "saved", server |-> entity.server]
                 ELSE [stage |-> "compared", server |-> entity.server, back |-> stale,
                       cols |-> [c \in changed |-> entity.cols[c]]]]
        /\ UNCHANGED <<settings, clock, transport, mail, msCounters, reused>>

\* The UPDATE, and COMMIT.
WritePut(r) ==
    LET update == put[r]
        cols == [c \in Columns |-> IF c \in DOMAIN update.cols THEN update.cols[c] ELSE settings.cols[c]]
    IN  /\ put[r].stage = "compared"
        /\ \/ \E at \in update.back :
                 /\ settings' = [cols |-> cols, at |-> at]
                 /\ Reuse(at)
                 /\ UNCHANGED <<clock, sameTick>>
           \/ update.back = {} /\ StampedRow(cols)
        /\ put' = [put EXCEPT ![r] = [stage |-> "saved", server |-> update.server]]
        /\ UNCHANGED <<transport, mail, puts, tests>>

\* The rows that mails under way on s have read.
ReadRows(s) == {mail[x].row : x \in {y \in Sends : mail[y] # Quiet /\ mail[y].server = s}}

\* invalidate(), when save() has returned
Invalidate(r) ==
    LET s == put[r].server IN
    /\ put[r].stage = "saved"
    /\ put' = [put EXCEPT ![r] = Quiet]
    /\ transport' = [transport EXCEPT ![s] = {}]
    /\ reused' = [reused EXCEPT ![s] = {t \in @ : \E row \in ReadRows(s) : row.at = t}]
    /\ UNCHANGED <<settings, clock, mail, msCounters>>

\* A statement fails, or its answer is lost: update() throws, and invalidates nothing.
FailPut(r) ==
    /\ put[r] # Quiet
    /\ put' = [put EXCEPT ![r] = Quiet]
    /\ UNCHANGED <<settings, clock, transport, mail, msCounters, reused>>

-----------------------------------------------------------------------------
(* Sends                                                                   *)

\* getTransporter: the query
ReadSettings(x, s, test) ==
    /\ mail[x] = Quiet
    /\ mail' = [mail EXCEPT ![x] = [stage |-> "read", server |-> s, row |-> settings, test |-> test]]
    /\ UNCHANGED <<settings, clock, transport, put, msCounters, reused>>

\* Mutant: invalidate() alone keeps the transport current.
Transport_Cached(x) ==
    IF transport[mail[x].server] # {} THEN CHOOSE t \in transport[mail[x].server] : TRUE ELSE mail[x].row

\* The row the transport is made from: the cached one's, if it was built for the same
\* updated_at, or else the one just read.
Transport(x) ==
    LET cached == {t \in transport[mail[x].server] : t.at = mail[x].row.at} IN
    IF cached # {} THEN CHOOSE t \in cached : TRUE ELSE mail[x].row

\* getTransporter goes on; without a host nothing is kept.  test() then records how the
\* mail went.
UseTransport(x) ==
    LET s == mail[x].server IN
    /\ mail[x].stage = "read"
    /\ transport' = [transport EXCEPT ![s] = {t \in {Transport(x)} : t.cols[Host] # 0}]
    /\ mail' = [mail EXCEPT ![x] = IF mail[x].test THEN [@ EXCEPT !.stage = "tested"] ELSE Quiet]
    /\ UNCHANGED <<settings, clock, put, msCounters, reused>>

\* recordTestResult: an UPDATE of three other columns.
RecordTest(x) ==
    /\ mail[x].stage = "tested" /\ tests < MaxTests
    /\ tests' = tests + 1
    /\ StampedRow(settings.cols)
    /\ mail' = [mail EXCEPT ![x] = Quiet]
    /\ UNCHANGED <<transport, put, puts>>

\* The password cannot be decrypted (nothing is kept in place of the transport), or
\* recording the test fails.
FailSend(x) ==
    /\ mail[x] # Quiet
    /\ mail' = [mail EXCEPT ![x] = Quiet]
    /\ UNCHANGED <<settings, clock, transport, put, msCounters, reused>>

\* A server stops, and starts again.
RestartServer(s) ==
    /\ put' = [r \in Puts |-> IF put[r] # Quiet /\ put[r].server = s THEN Quiet ELSE put[r]]
    /\ mail' = [x \in Sends |-> IF mail[x] # Quiet /\ mail[x].server = s THEN Quiet ELSE mail[x]]
    /\ transport' = [transport EXCEPT ![s] = {}]
    /\ reused' = [reused EXCEPT ![s] = {}]
    /\ UNCHANGED <<settings, clock, msCounters>>

MSNext ==
    \/ \E r \in Puts :
          \/ \E s \in Servers : LoadPut(r, s)
          \/ ComparePut(r) \/ WritePut(r) \/ Invalidate(r) \/ FailPut(r)
    \/ \E x \in Sends :
          \/ \E s \in Servers, test \in BOOLEAN : ReadSettings(x, s, test)
          \/ UseTransport(x) \/ RecordTest(x) \/ FailSend(x)
    \/ \E s \in Servers : RestartServer(s)

MSSpec == MSInit /\ [][MSNext]_msVars

-----------------------------------------------------------------------------
(* Properties                                                              *)

Reading(x) == mail[x] # Quiet /\ mail[x].stage = "read"

\* A changed host, port or password takes effect on the next send of every server: the
\* transport a send uses is made from the settings it has just read (getTransporter,
\* invalidate), unless their updated_at was given to the row a second time, by a save of
\* a stale entity or by two writes in one tick, since the server last dropped what it
\* had from before.
SendsUseCurrentSettings ==
    \A x \in Sends : Reading(x) =>
        \/ Transport(x).cols = mail[x].row.cols
        \/ mail[x].row.at \in reused[mail[x].server]

\* mail-transport.service.ts:18-22: the transport is "cached until something calls
\* `invalidate()` [...] so a changed host/port/password takes effect on the very next
\* send without restarting the process".  The code does not keep this (README, section 5).
NextSendIsCurrent == \A x \in Sends : Reading(x) => Transport(x).cols = mail[x].row.cols
=============================================================================
