--------------------------- MODULE DatabaseHandler ---------------------------
(***************************************************************************)
(* The preference and update store: DatabaseHandler with its two static    *)
(* fields, NamelessTable read and written through PreferenceHelper,        *)
(* UpdateTable, and the SQLite file behind them.                           *)
(*                                                                         *)
(* The main thread reads and writes preferences and tears the handler down *)
(* (UpdateCheckReceiver.onReceive, MainActivity.onDestroy).  The pool      *)
(* threads of DownloadService read preferences and store the update they   *)
(* download.  getInstance, getDatabase and tearDown are synchronized on    *)
(* the class; the statements in between read sDb without the lock, one     *)
(* step per read of the field and one per statement that SQLite executes.  *)
(***************************************************************************)
EXTENDS Integers, Sequences, FiniteSets

CONSTANTS
  Main,       \* the main thread
  Pool,       \* the pool threads of DownloadService
  Prefs,      \* preference names, rows of NamelessTable
  Updates,    \* update names, rows of UpdateTable
  Info,       \* an UpdateInfo as JSON
  Versions,   \* the versions a database file may have when the app starts
  Max         \* how often the environment does each of Kinds

Threads == Pool \cup {Main}
Names == Prefs \cup Updates
Kinds == {"call", "tearDown", "death"}

ASSUME ThreadsAssumption == Main \notin Pool
ASSUME NamesAssumption == Prefs \cap Updates = {} /\ "null" \notin Names
ASSUME InfoAssumption == Info \notin {"0", "1", "null"}
ASSUME VersionsAssumption == Versions \subseteq Nat
ASSUME MaxAssumption == Max \in [Kinds -> Nat]

DATABASE_VERSION == 2
Null == "null"                         \* what getValueByName returns for no row
Values == {"0", "1", Info}             \* setBoolean stores "1" or "0"
NoConnection == 0                      \* a null sDb

VARIABLES
  sDatabaseHandler, \* is the static DatabaseHandler set?
  sDb,              \* the static connection
  opened,           \* connections opened so far, numbered from 1
  open,             \* the connections that are not closed
  version,          \* the version of the file
  tables,           \* its tables
  rows,             \* the values stored for each name, in rowid order
  call,             \* what each thread is doing
  used              \* what the environment has used up of Max

handle == <<sDatabaseHandler, sDb, opened, open>>
file == <<version, tables, rows>>
vars == <<handle, file, call, used>>

(* op is the method called, todo the statements it has still to execute,     *)
(* conn the connection it loaded for the next one.  Two fields are history:  *)
(* seen holds every value the row had since the call began, torn tells that  *)
(* the handler was torn down meanwhile.                                      *)
Calls ==
  [op : {"none", "get", "set", "put"}, name : Names \cup {Null},
   value : Values,
   at : {"idle", "entry", "check", "load", "exec", "crashed"},
   todo : Seq({"query", "delete", "insert"}), conn : Nat,
   result : Values \cup {Null}, seen : SUBSET (Values \cup {Null}),
   torn : BOOLEAN]

(* A thread that has not called anything yet. *)
Idle == [op |-> "none", name |-> Null, value |-> "0", at |-> "idle",
         todo |-> <<>>, conn |-> NoConnection, result |-> Null,
         seen |-> {}, torn |-> FALSE]

SchemaTables == {"nameless", "updates"}
Failure == {"SQLiteException"}         \* what a failed statement leaves

TypeOK ==
  /\ sDatabaseHandler \in BOOLEAN /\ sDb \in Nat /\ opened \in Nat
  /\ open \in SUBSET Nat
  /\ version \in Nat /\ tables \in SUBSET SchemaTables
  /\ rows \in [Names -> Seq(Values)]
  /\ call \in [Threads -> Calls]
  /\ used \in [Kinds -> Nat]

-----------------------------------------------------------------------------
(* SQLite runs the statements of one opening in a transaction, so a failure  *)
(* undoes all of them.  CREATE TABLE fails when the table exists.            *)
CreateTable(ts, t) == IF ts = Failure \/ t \in ts THEN Failure ELSE ts \cup {t}

(* dropTable is static in BaseTable: both tables drop "base". *)
DropTable(ts) == ts \ {"base"}

OnCreate(ts) == CreateTable(CreateTable(ts, "nameless"), "updates")

WipeDb(ts) == OnCreate(DropTable(ts))

(* Mutant: the step to version 2 is guarded by the wrong number. *)
OnUpgradeOff(old, ts) ==
  IF old < 1 THEN CreateTable(DropTable(ts), "updates") ELSE ts

(* Every path of onUpgrade ends at DATABASE_VERSION, so it never wipes. *)
OnUpgrade(old, ts) ==
  LET one == IF old < 1 THEN CreateTable(DropTable(ts), "nameless") ELSE ts IN
  IF old < 2 THEN CreateTable(DropTable(one), "updates") ELSE one

(* SQLiteOpenHelper: a new file has version 0. *)
OpenedTables(v, ts) ==
  IF v = 0 THEN OnCreate(ts)
  ELSE IF v < DATABASE_VERSION THEN OnUpgrade(v, ts)
  ELSE IF v > DATABASE_VERSION THEN WipeDb(ts)
  ELSE ts

(* Mutant: the exception of a failed statement is swallowed. *)
OpenFailsNever == FALSE

OpenFails == OpenedTables(version, tables) = Failure

(* Mutant: the constructor does not open the database. *)
GetInstanceClosed ==
  /\ sDatabaseHandler' = TRUE
  /\ UNCHANGED <<sDb, opened, open, file>>

(* getInstance, whose constructor opens the database and sets sDb. *)
GetInstance ==
  /\ sDatabaseHandler' = TRUE
  /\ IF sDatabaseHandler
       THEN UNCHANGED <<sDb, opened, open, file>>
       ELSE /\ opened' = opened + 1
            /\ sDb' = opened + 1
            /\ open' = open \cup {opened + 1}
            /\ version' = DATABASE_VERSION
            /\ tables' = OpenedTables(version, tables)
            /\ UNCHANGED rows

(* getDatabase: a null sDb comes with a null sDatabaseHandler, so getInstance *)
(* opens the connection that getWritableDatabase then returns.               *)
GetDatabase ==
  IF sDb = NoConnection THEN GetInstance ELSE UNCHANGED <<handle, file>>

-----------------------------------------------------------------------------
Alive == \A t \in Threads : call[t].at # "crashed"
Use(k) == used[k] < Max[k] /\ used' = [used EXCEPT ![k] = @ + 1]

Becomes(t, c) == call' = [call EXCEPT ![t] = c]
Returns(t, v) == Becomes(t, [call[t] EXCEPT !.at = "idle", !.result = v])

(* moveToFirst and getString: the first row, null when there is none. *)
First(s) == IF s = <<>> THEN Null ELSE s[1]

(* Mutant: insertOrUpdate is not synchronized. *)
SynchronizedNot(t) == TRUE

(* UpdateTable.insertOrUpdate holds the lock of the class UpdateTable. *)
Synchronized(t) ==
  \A u \in Threads : call[u].op = "put" => call[u].at \in {"idle", "crashed"}

(* What a thread calls: the main thread reads and writes preferences, a pool *)
(* thread stores its update and reads preferences.                           *)
Callable(t) ==
  [op : {"get"}, name : Prefs, value : {"0"}, todo : {<<"query">>}]
    \cup (IF t = Main
            THEN [op : {"set"}, name : Prefs, value : {"0", "1"},
                  todo : {<<"delete", "insert">>}]
            ELSE [op : {"put"}, name : Updates, value : {Info},
                  todo : {<<"delete", "insert">>}])

Begin(t, c) ==
  /\ Alive /\ call[t].at = "idle" /\ Use("call")
  /\ c.op = "put" => Synchronized(t)
  /\ Becomes(t, [op |-> c.op, name |-> c.name, value |-> c.value,
                 at |-> IF c.op = "put" THEN "check" ELSE "entry",
                 todo |-> c.todo, conn |-> NoConnection, result |-> Null,
                 seen |-> {First(rows[c.name])}, torn |-> FALSE])
  /\ UNCHANGED <<handle, file>>

Goes(t, at) == Becomes(t, [call[t] EXCEPT !.at = at])

(* DatabaseHandler.getInstance() of a PreferenceHelper method. *)
Entry(t) ==
  /\ Alive /\ call[t].at = "entry" /\ (sDatabaseHandler \/ ~OpenFails)
  /\ GetInstance
  /\ Goes(t, "check")
  /\ UNCHANGED used

(* The test for a null database that begins the methods of DatabaseHandler. *)
Check(t) ==
  /\ Alive /\ call[t].at = "check" /\ call[t].op # "put"
  /\ IF sDb = NoConnection THEN Returns(t, Null) ELSE Goes(t, "load")
  /\ UNCHANGED <<handle, file, used>>

(* sDb is read once more, without the lock, for the next statement. *)
Load(t) ==
  /\ Alive /\ call[t].at = "load" /\ call[t].op # "put"
  /\ IF sDb = NoConnection THEN Goes(t, "crashed")
     ELSE Becomes(t, [call[t] EXCEPT !.at = "exec", !.conn = sDb])
  /\ UNCHANGED <<handle, file, used>>

(* UpdateTable.insertOrUpdate calls getDatabase for its test and again for   *)
(* each statement.                                                           *)
CheckUpdate(t) ==
  /\ Alive /\ call[t].at = "check" /\ call[t].op = "put"
  /\ sDb # NoConnection \/ ~OpenFails
  /\ GetDatabase
  /\ Goes(t, "load")
  /\ UNCHANGED used

LoadUpdate(t) ==
  /\ Alive /\ call[t].at = "load" /\ call[t].op = "put"
  /\ sDb # NoConnection \/ ~OpenFails
  /\ GetDatabase
  /\ Becomes(t, [call[t] EXCEPT !.at = "exec", !.conn = sDb'])
  /\ UNCHANGED used

(* Opening fails: the exception reaches the caller and nothing changes. *)
OpenThrows(t) ==
  /\ Alive /\ OpenFails
  /\ \/ call[t].at = "entry" /\ ~sDatabaseHandler
     \/ call[t].at \in {"check", "load"} /\ call[t].op = "put" /\ sDb = NoConnection
  /\ Goes(t, "crashed")
  /\ UNCHANGED <<handle, file, used>>

(* The rows after the next statement of call c. *)
Executed(c) ==
  CASE Head(c.todo) = "query" -> rows
    [] Head(c.todo) = "delete" -> [rows EXCEPT ![c.name] = <<>>]
    [] Head(c.todo) = "insert" -> [rows EXCEPT ![c.name] = Append(@, c.value)]

(* Call c after that statement; the last one ends the call. *)
Advanced(c) ==
  [c EXCEPT !.todo = Tail(@), !.at = IF Len(c.todo) = 1 THEN "idle" ELSE "load",
            !.result = IF c.op = "get" THEN First(rows[c.name]) ELSE @]

(* A running call takes note of the value its row has in rs. *)
Noting(c, rs) ==
  [c EXCEPT !.seen = IF c.at = "idle" THEN @ ELSE @ \cup {First(rs[c.name])}]

(* SQLite executes a statement, or throws if the connection is closed. *)
Exec(t) ==
  /\ Alive /\ call[t].at = "exec"
  /\ IF call[t].conn \in open
       THEN /\ rows' = Executed(call[t])
            /\ call' = [u \in Threads |->
                 Noting(IF u = t THEN Advanced(call[t]) ELSE call[u], rows')]
       ELSE Goes(t, "crashed") /\ UNCHANGED rows
  /\ UNCHANGED <<handle, version, tables, used>>

(* Mutant: sDb is closed but keeps its value. *)
CloseDatabaseKeeps ==
  /\ open' = open \ {sDb}
  /\ UNCHANGED sDb

CloseDatabase ==
  /\ open' = open \ {sDb}
  /\ sDb' = NoConnection

(* Mutant: the static handler survives its database. *)
TearDownKeepsHandler ==
  /\ Alive /\ call[Main].at = "idle" /\ Use("tearDown")
  /\ CloseDatabase
  /\ call' = [t \in Threads |-> [call[t] EXCEPT !.torn = @ \/ call[t].at # "idle"]]
  /\ UNCHANGED <<sDatabaseHandler, opened, file>>

(* tearDown, at the end of a broadcast or of the activity. *)
TearDown ==
  /\ Alive /\ call[Main].at = "idle" /\ Use("tearDown")
  /\ CloseDatabase
  /\ sDatabaseHandler' = FALSE
  /\ call' = [t \in Threads |-> [call[t] EXCEPT !.torn = @ \/ call[t].at # "idle"]]
  /\ UNCHANGED <<opened, file>>

(* The process dies, after an uncaught exception or killed; the file stays. *)
ProcessDeath ==
  /\ Use("death")
  /\ sDatabaseHandler' = FALSE /\ sDb' = NoConnection /\ open' = {}
  /\ call' = [t \in Threads |-> Idle]
  /\ UNCHANGED <<opened, file>>

(* A file that this or another version of the app left; version 1 had no     *)
(* UpdateTable.                                                              *)
FileTables(v) ==
  IF v = 0 THEN {} ELSE IF v = 1 THEN {"nameless"} ELSE SchemaTables

Init ==
  /\ sDatabaseHandler = FALSE /\ sDb = NoConnection
  /\ opened = 0 /\ open = {}
  /\ version \in Versions /\ tables = FileTables(version)
  /\ rows \in [Names -> {<<>>, <<"0">>, <<"1">>, <<Info>>}]
  /\ \A n \in Names : rows[n] # <<>> =>
       /\ version >= (IF n \in Prefs THEN 1 ELSE 2)
       /\ n \in Updates <=> rows[n] = <<Info>>
  /\ call = [t \in Threads |-> Idle]
  /\ used = [k \in Kinds |-> 0]

Next ==
  \/ \E t \in Threads :
       \/ \E c \in Callable(t) : Begin(t, c)
       \/ Entry(t) \/ Check(t) \/ Load(t) \/ Exec(t)
       \/ CheckUpdate(t) \/ LoadUpdate(t) \/ OpenThrows(t)
  \/ TearDown \/ ProcessDeath

Spec == Init /\ [][Next]_vars

-----------------------------------------------------------------------------
(* The two static fields agree and no connection leaks: sDb is null exactly  *)
(* when the handler is, and the only open connection is sDb.                 *)
HandleConsistent ==
  /\ sDatabaseHandler <=> sDb # NoConnection
  /\ open = IF sDb = NoConnection THEN {} ELSE {sDb}

(* No name has two rows: insertOrUpdate is a delete and an insert without a  *)
(* transaction, and two of them on one name never interleave.                *)
OneRowPerName == \A n \in Names : Len(rows[n]) <= 1

(* A finished read returns a value its row had during the read; it may       *)
(* return null instead only when tearDown came between its steps.            *)
ReadsAreCurrent ==
  \A t \in Threads : call[t].op = "get" /\ call[t].at = "idle" =>
    \/ call[t].result \in call[t].seen
    \/ call[t].torn /\ call[t].result = Null

(* Only a pool thread overtaken by tearDown uses a null or closed            *)
(* connection; the main thread crashes on a file of a newer version only.    *)
CrashOnlyByTearDown ==
  \A t \in Threads : call[t].at = "crashed" =>
    OpenFails \/ (call[t].torn /\ t # Main)

(* Statements run on a file of the current version that has both tables. *)
SchemaComplete ==
  \A t \in Threads : call[t].at = "exec" =>
    version = DATABASE_VERSION /\ tables = SchemaTables

-----------------------------------------------------------------------------
(* PreferenceHelper.getBoolean *)
GetBoolean(v, default) == IF v = Null THEN default ELSE v = "1"

(* "Post error if the user has forbidden it": while pref_update_metered is   *)
(* stored as forbidden, enqueueDownload reads it as forbidden.               *)
ForbiddenIsRefused ==
  \A t \in Pool : call[t].op = "get" /\ call[t].at = "idle" =>
    (call[t].seen = {"0"} => ~GetBoolean(call[t].result, TRUE))
=============================================================================
