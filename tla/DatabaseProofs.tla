--------------------------- MODULE DatabaseProofs ---------------------------
(***************************************************************************)
(* Proofs about DatabaseHandler, for every set of pool threads, names and  *)
(* file versions and every bound on the environment.                       *)
(***************************************************************************)
EXTENDS DatabaseHandler, TLAPS

Places == {"idle", "entry", "check", "load", "exec", "crashed"}
Statements == {"query", "delete", "insert"}
Busy(c) == c.at \in {"entry", "check", "load", "exec"}

(* What thread t may be doing: its caller, its name and its statements. *)
Shape(t, c) ==
  /\ c.op = "set" => t = Main
  /\ c.op = "put" => t # Main
  /\ c.op \in {"get", "set"} => c.name \in Prefs
  /\ c.op = "put" => c.name \in Updates
  /\ Busy(c) => c.op # "none"
  /\ Busy(c) /\ c.op = "get" => c.todo = <<"query">>
  /\ Busy(c) /\ c.op # "get" => c.todo \in {<<"delete", "insert">>, <<"insert">>}
  /\ c.at = "entry" => c.op # "put"

(* A call past its null test has seen the file at the current version, and   *)
(* unless it was overtaken by tearDown, sDb is still the connection it saw.  *)
Past(c) == c.at \in {"load", "exec"} \/ (c.at = "check" /\ c.op # "put")
Linked(t, c, db, v) ==
  /\ Past(c) => v = DATABASE_VERSION
  /\ Past(c) /\ c.torn = FALSE => db # NoConnection
  /\ c.at = "exec" /\ c.torn = FALSE => c.conn = db
  /\ t = Main => c.torn = FALSE

(* What a call knows of its row: it has noted the present value, and a       *)
(* writer between its statements has left no row.                            *)
Noted(c, rs) ==
  /\ Busy(c) => First(rs[c.name]) \in c.seen
  /\ c.op = "get" /\ c.at = "idle" =>
       c.result \in c.seen \/ (c.torn = TRUE /\ c.result = Null)
  /\ Busy(c) /\ c.todo = <<"insert">> => rs[c.name] = <<>>

ThreadInv(t, c, db, v, rs) == Shape(t, c) /\ Linked(t, c, db, v) /\ Noted(c, rs)

(* The file has the tables of its version; an open one is up to date. *)
FileInv ==
  /\ tables = FileTables(version)
  /\ sDb # NoConnection => version = DATABASE_VERSION

(* The lock of UpdateTable: at most one thread is storing an update. *)
Storing(c) == Busy(c) /\ c.op = "put"
LockInv ==
  \A t, u \in Threads : Storing(call[t]) /\ Storing(call[u]) => t = u

CallsInv == \A t \in Threads : ThreadInv(t, call[t], sDb, version, rows)

Inv ==
  /\ TypeOK /\ FileInv /\ HandleConsistent /\ OneRowPerName /\ LockInv
  /\ CallsInv /\ CrashOnlyByTearDown

-----------------------------------------------------------------------------
(* Calls. *)

(* The statements of the three methods. *)
LEMMA TodoFacts ==
  /\ <<"query">> \in Seq(Statements) /\ <<"insert">> \in Seq(Statements)
  /\ <<"delete", "insert">> \in Seq(Statements) /\ <<>> \in Seq(Statements)
  /\ Head(<<"query">>) = "query" /\ Tail(<<"query">>) = <<>> /\ Len(<<"query">>) = 1
  /\ Head(<<"insert">>) = "insert" /\ Tail(<<"insert">>) = <<>> /\ Len(<<"insert">>) = 1
  /\ Head(<<"delete", "insert">>) = "delete"
  /\ Tail(<<"delete", "insert">>) = <<"insert">> /\ Len(<<"delete", "insert">>) = 2
  /\ <<"query">> # <<"insert">> /\ <<"delete", "insert">> # <<"insert">>
  /\ <<"delete", "insert">> # <<"query">>
  BY DEF Statements

(* The fields of a call. *)
LEMMA CallFields ==
  ASSUME NEW c \in Calls
  PROVE  /\ c.op \in {"none", "get", "set", "put"} /\ c.name \in Names \cup {Null}
         /\ c.value \in Values /\ c.at \in Places /\ c.todo \in Seq(Statements)
         /\ c.conn \in Nat /\ c.result \in Values \cup {Null}
         /\ c.seen \in SUBSET (Values \cup {Null}) /\ c.torn \in BOOLEAN
  BY DEF Calls, Places, Statements

(* A call that moves on keeps everything but its place. *)
LEMMA MoveFacts ==
  ASSUME NEW c \in Calls, NEW a \in Places
  PROVE  LET d == [c EXCEPT !.at = a] IN
         /\ d \in Calls /\ d.at = a /\ d.op = c.op /\ d.name = c.name
         /\ d.todo = c.todo /\ d.conn = c.conn /\ d.torn = c.torn
         /\ d.seen = c.seen /\ d.result = c.result
  BY DEF Calls, Places

(* One that ends has a result. *)
LEMMA ReturnFacts ==
  ASSUME NEW c \in Calls, NEW v \in Values \cup {Null}
  PROVE  LET d == [c EXCEPT !.at = "idle", !.result = v] IN
         /\ d \in Calls /\ d.at = "idle" /\ d.op = c.op /\ d.name = c.name
         /\ d.torn = c.torn /\ d.seen = c.seen /\ d.result = v
  BY DEF Calls

(* One that loads sDb has a connection. *)
LEMMA LoadFacts ==
  ASSUME NEW c \in Calls, NEW k \in Nat
  PROVE  LET d == [c EXCEPT !.at = "exec", !.conn = k] IN
         /\ d \in Calls /\ d.at = "exec" /\ d.op = c.op /\ d.name = c.name
         /\ d.todo = c.todo /\ d.conn = k /\ d.torn = c.torn
         /\ d.seen = c.seen /\ d.result = c.result
  BY DEF Calls

(* One that takes note of a value. *)
LEMMA SeenFacts ==
  ASSUME NEW c \in Calls, NEW S \in SUBSET (Values \cup {Null})
  PROVE  LET d == [c EXCEPT !.seen = S] IN
         /\ d \in Calls /\ d.at = c.at /\ d.op = c.op /\ d.name = c.name
         /\ d.todo = c.todo /\ d.conn = c.conn /\ d.torn = c.torn
         /\ d.seen = S /\ d.result = c.result
  BY DEF Calls

(* One that is overtaken. *)
LEMMA TornFacts ==
  ASSUME NEW c \in Calls, NEW b \in BOOLEAN
  PROVE  LET d == [c EXCEPT !.torn = b] IN
         /\ d \in Calls /\ d.at = c.at /\ d.op = c.op /\ d.name = c.name
         /\ d.todo = c.todo /\ d.conn = c.conn /\ d.torn = b
         /\ d.seen = c.seen /\ d.result = c.result
  BY DEF Calls

(* A thread that has not called anything. *)
LEMMA IdleFacts ==
  /\ Idle \in Calls /\ Idle.at = "idle" /\ Idle.op = "none" /\ Idle.torn = FALSE
  /\ \A t, db, v, rs : ThreadInv(t, Idle, db, v, rs)
  BY DEF Idle, Calls, Values, NoConnection, ThreadInv, Shape, Linked, Noted, Busy, Past

(* The value of a row is a value or null. *)
LEMMA FirstType ==
  ASSUME NEW s \in Seq(Values)
  PROVE  First(s) \in Values \cup {Null}
  BY DEF First

(* What a call knows survives the opening of the database. *)
LEMMA Steady ==
  ASSUME NEW t, NEW c, NEW db, NEW v, NEW rs, NEW db2, NEW v2,
         ThreadInv(t, c, db, v, rs),
         db # NoConnection => db2 = db,
         v = DATABASE_VERSION => v2 = DATABASE_VERSION
  PROVE  ThreadInv(t, c, db2, v2, rs)
  BY DEF ThreadInv, Linked, Past

-----------------------------------------------------------------------------
(* Opening the database. *)

(* An opening that does not fail leaves both tables. *)
LEMMA OpenedComplete ==
  ASSUME NEW v \in Nat
  PROVE  /\ OpenedTables(v, FileTables(v)) \in {Failure, SchemaTables}
         /\ FileTables(DATABASE_VERSION) = SchemaTables
         /\ FileTables(v) \in SUBSET SchemaTables
<1> USE DEF OpenedTables, FileTables, CreateTable, DropTable, OnCreate, WipeDb,
            OnUpgrade, Failure, SchemaTables, DATABASE_VERSION
<1>1. CASE v = 0
  BY <1>1
<1>2. CASE v = 1
  BY <1>2
<1>3. CASE v = 2
  BY <1>3
<1>4. CASE v > 2
  BY <1>4
<1> QED BY <1>1, <1>2, <1>3, <1>4

(* getInstance sets both fields, keeps a connection that is open, and leaves *)
(* the file at the current version.                                          *)
LEMMA GetInstanceOpens ==
  ASSUME TypeOK, FileInv, HandleConsistent, sDatabaseHandler \/ ~OpenFails,
         GetInstance
  PROVE  /\ sDatabaseHandler' \in BOOLEAN /\ sDb' \in Nat /\ opened' \in Nat
         /\ open' \in SUBSET Nat /\ version' \in Nat
         /\ tables' \in SUBSET SchemaTables
         /\ FileInv' /\ HandleConsistent'
         /\ sDb' # NoConnection /\ version' = DATABASE_VERSION /\ rows' = rows
         /\ sDb # NoConnection => sDb' = sDb
<1>1. CASE sDatabaseHandler
  BY <1>1 DEF TypeOK, FileInv, HandleConsistent, GetInstance, file, NoConnection
<1>2. CASE ~sDatabaseHandler
  <2>1. sDb = NoConnection /\ open = {}
    BY <1>2 DEF HandleConsistent
  <2>2. /\ sDatabaseHandler' = TRUE /\ opened' = opened + 1 /\ sDb' = opened + 1
        /\ open' = open \cup {opened + 1} /\ version' = DATABASE_VERSION
        /\ tables' = OpenedTables(version, tables) /\ rows' = rows
    BY <1>2 DEF GetInstance
  <2>3. tables' = SchemaTables /\ FileTables(DATABASE_VERSION) = SchemaTables
    BY <1>2, <2>2, OpenedComplete DEF OpenFails, FileInv, TypeOK
  <2>4. opened \in Nat
    BY DEF TypeOK
  <2>5. FileInv'
    BY <2>2, <2>3 DEF FileInv
  <2>6. HandleConsistent'
    BY <2>1, <2>2, <2>4 DEF HandleConsistent, NoConnection
  <2> QED BY <2>1, <2>2, <2>3, <2>4, <2>5, <2>6 DEF NoConnection, DATABASE_VERSION
<1> QED BY <1>1, <1>2

(* So does getDatabase. *)
LEMMA GetDatabaseOpens ==
  ASSUME TypeOK, FileInv, HandleConsistent, sDb # NoConnection \/ ~OpenFails,
         GetDatabase
  PROVE  /\ sDatabaseHandler' \in BOOLEAN /\ sDb' \in Nat /\ opened' \in Nat
         /\ open' \in SUBSET Nat /\ version' \in Nat
         /\ tables' \in SUBSET SchemaTables
         /\ FileInv' /\ HandleConsistent'
         /\ sDb' # NoConnection /\ version' = DATABASE_VERSION /\ rows' = rows
         /\ sDb # NoConnection => sDb' = sDb
<1>1. CASE sDb = NoConnection
  BY <1>1, GetInstanceOpens DEF GetDatabase
<1>2. CASE sDb # NoConnection
  BY <1>2 DEF GetDatabase, handle, file, TypeOK, FileInv, HandleConsistent
<1> QED BY <1>1, <1>2

-----------------------------------------------------------------------------
(* Steps. *)

(* A step of one thread that executes no statement. *)
LEMMA CallStep ==
  ASSUME Inv, Alive, NEW t \in Threads, NEW c \in Calls, Becomes(t, c),
         rows' = rows, sDb # NoConnection => sDb' = sDb,
         version = DATABASE_VERSION => version' = DATABASE_VERSION,
         ThreadInv(t, c, sDb', version', rows'),
         Storing(c) => Storing(call[t]) \/ Synchronized(t),
         c.at = "crashed" => OpenFails' \/ (c.torn /\ t # Main)
  PROVE  /\ call' \in [Threads -> Calls] /\ rows' \in [Names -> Seq(Values)]
         /\ CallsInv' /\ LockInv' /\ CrashOnlyByTearDown' /\ OneRowPerName'
<1>1. call \in [Threads -> Calls] /\ rows \in [Names -> Seq(Values)]
  BY DEF Inv, TypeOK
<1>2. /\ call' \in [Threads -> Calls] /\ call'[t] = c
      /\ \A u \in Threads : u # t => call'[u] = call[u]
  BY <1>1 DEF Becomes
<1>3. CallsInv'
  <2> SUFFICES ASSUME NEW u \in Threads
               PROVE  ThreadInv(u, call'[u], sDb', version', rows')
    BY DEF CallsInv
  <2>1. CASE u = t
    BY <1>2, <2>1
  <2>2. CASE u # t
    <3>1. ThreadInv(u, call[u], sDb, version, rows)
      BY DEF Inv, CallsInv
    <3>2. ThreadInv(u, call[u], sDb', version', rows)
      BY <3>1, Steady
    <3> QED BY <1>2, <2>2, <3>2
  <2> QED BY <2>1, <2>2
<1>4. LockInv'
  <2> SUFFICES ASSUME NEW u \in Threads, NEW w \in Threads,
                      Storing(call'[u]), Storing(call'[w])
               PROVE  u = w
    BY DEF LockInv
  <2>1. \A x \in Threads : Synchronized(t) => ~Storing(call[x])
    BY DEF Synchronized, Storing, Busy
  <2>2. \A x, y \in Threads : Storing(call[x]) /\ Storing(call[y]) => x = y
    BY DEF Inv, LockInv
  <2> QED BY <1>2, <2>1, <2>2
<1>5. CrashOnlyByTearDown'
  BY <1>2 DEF CrashOnlyByTearDown, Alive
<1>6. OneRowPerName'
  BY DEF Inv, OneRowPerName
<1> QED BY <1>1, <1>2, <1>3, <1>4, <1>5, <1>6

(* The call of a thread, typed. *)
LEMMA CallOf ==
  ASSUME Inv, NEW t \in Threads
  PROVE  /\ call[t] \in Calls /\ rows \in [Names -> Seq(Values)]
         /\ ThreadInv(t, call[t], sDb, version, rows)
  BY DEF Inv, TypeOK, CallsInv

(* Everything but the calls and rows stays as it is. *)
LEMMA HandleSame ==
  ASSUME Inv, UNCHANGED handle, UNCHANGED version, UNCHANGED tables
  PROVE  /\ sDatabaseHandler' \in BOOLEAN /\ sDb' \in Nat /\ opened' \in Nat
         /\ open' \in SUBSET Nat /\ version' \in Nat
         /\ tables' \in SUBSET SchemaTables
         /\ FileInv' /\ HandleConsistent'
  BY DEF Inv, TypeOK, FileInv, HandleConsistent, handle

(* The environment's counters count. *)
LEMMA UseType ==
  ASSUME Inv, NEW k \in Kinds, Use(k)
  PROVE  used' \in [Kinds -> Nat]
<1>1. used \in [Kinds -> Nat]
  BY DEF Inv, TypeOK
<1> QED BY <1>1 DEF Use

(* A thread calls a method. *)
LEMMA BeginStep ==
  ASSUME Inv, NEW t \in Threads, NEW b \in Callable(t), Begin(t, b)
  PROVE  Inv'
<1> DEFINE c == [op |-> b.op, name |-> b.name, value |-> b.value,
                 at |-> IF b.op = "put" THEN "check" ELSE "entry",
                 todo |-> b.todo, conn |-> NoConnection, result |-> Null,
                 seen |-> {First(rows[b.name])}, torn |-> FALSE]
<1>1. /\ b.op = "get" => b.name \in Prefs /\ b.todo = <<"query">>
      /\ b.op = "set" => b.name \in Prefs /\ b.todo = <<"delete", "insert">> /\ t = Main
      /\ b.op = "put" => b.name \in Updates /\ b.todo = <<"delete", "insert">> /\ t # Main
      /\ b.op \in {"get", "set", "put"} /\ b.value \in Values
  BY DEF Callable, Values
<1>2. b.name \in Names /\ b.todo \in Seq(Statements)
  BY <1>1, TodoFacts DEF Names
<1>3. First(rows[b.name]) \in Values \cup {Null}
  BY <1>2, FirstType, CallOf
<1>4. c \in Calls
  BY <1>1, <1>2, <1>3 DEF Calls, Statements, NoConnection
<1>5. /\ c.op = b.op /\ c.name = b.name /\ c.todo = b.todo /\ c.torn = FALSE
      /\ c.at = (IF b.op = "put" THEN "check" ELSE "entry")
      /\ c.seen = {First(rows[b.name])}
  OBVIOUS
<1>6. /\ Alive /\ Becomes(t, c) /\ UNCHANGED <<handle, file>>
      /\ b.op = "put" => Synchronized(t)
      /\ Use("call")
  BY DEF Begin
<1> HIDE DEF c
<1>7. ThreadInv(t, c, sDb, version, rows)
  BY <1>1, <1>5, TodoFacts DEF ThreadInv, Shape, Linked, Noted, Busy, Past
<1>8. UNCHANGED <<sDb, version, tables, rows>>
  BY <1>6 DEF handle, file
<1>9. /\ call' \in [Threads -> Calls] /\ rows' \in [Names -> Seq(Values)]
      /\ CallsInv' /\ LockInv' /\ CrashOnlyByTearDown' /\ OneRowPerName'
  BY <1>4, <1>5, <1>6, <1>7, <1>8, CallStep DEF Storing
<1>10. used' \in [Kinds -> Nat]
  BY <1>6, UseType DEF Kinds
<1> QED BY <1>6, <1>8, <1>9, <1>10, HandleSame DEF Inv, TypeOK

(* getInstance of a PreferenceHelper method. *)
LEMMA EntryStep ==
  ASSUME Inv, NEW t \in Threads, Entry(t)
  PROVE  Inv'
<1> DEFINE c == [call[t] EXCEPT !.at = "check"]
<1>1. /\ Alive /\ call[t].at = "entry" /\ GetInstance /\ Becomes(t, c)
      /\ sDatabaseHandler \/ ~OpenFails
      /\ used' = used
  BY DEF Entry, Goes
<1>2. /\ c \in Calls /\ c.at = "check" /\ c.op = call[t].op /\ c.name = call[t].name
      /\ c.todo = call[t].todo /\ c.torn = call[t].torn /\ c.seen = call[t].seen
  BY CallOf, MoveFacts DEF Places
<1> HIDE DEF c
<1>3. /\ sDatabaseHandler' \in BOOLEAN /\ sDb' \in Nat /\ opened' \in Nat
      /\ open' \in SUBSET Nat /\ version' \in Nat
      /\ tables' \in SUBSET SchemaTables
      /\ FileInv' /\ HandleConsistent'
      /\ sDb' # NoConnection /\ version' = DATABASE_VERSION /\ rows' = rows
      /\ sDb # NoConnection => sDb' = sDb
  BY <1>1, GetInstanceOpens DEF Inv
<1>4. ThreadInv(t, c, sDb', version', rows')
  BY <1>1, <1>2, <1>3, CallOf DEF ThreadInv, Shape, Linked, Noted, Busy, Past
<1>5. Storing(c) => Storing(call[t]) \/ Synchronized(t)
  BY <1>1, <1>2 DEF Storing, Busy
<1>6. /\ call' \in [Threads -> Calls] /\ rows' \in [Names -> Seq(Values)]
      /\ CallsInv' /\ LockInv' /\ CrashOnlyByTearDown' /\ OneRowPerName'
  BY <1>1, <1>2, <1>3, <1>4, <1>5, CallStep
<1> QED BY <1>1, <1>3, <1>6 DEF Inv, TypeOK

(* The null test of a method of DatabaseHandler. *)
LEMMA CheckStep ==
  ASSUME Inv, NEW t \in Threads, Check(t)
  PROVE  Inv'
<1>1. /\ Alive /\ call[t].at = "check" /\ call[t].op # "put"
      /\ UNCHANGED <<handle, file, used>>
  BY DEF Check
<1>2. UNCHANGED <<sDb, version, tables, rows>>
  BY <1>1 DEF handle, file
<1>3. PICK c \in Calls : /\ Becomes(t, c) /\ c.at \in {"idle", "load"}
                         /\ c.op = call[t].op
                         /\ ThreadInv(t, c, sDb, version, rows)
  <2>1. CASE sDb = NoConnection
    <3> DEFINE d == [call[t] EXCEPT !.at = "idle", !.result = Null]
    <3>1. Becomes(t, d)
      BY <2>1 DEF Check, Returns
    <3>2. /\ d \in Calls /\ d.at = "idle" /\ d.op = call[t].op
          /\ d.name = call[t].name /\ d.torn = call[t].torn /\ d.result = Null
      <4>1. call[t] \in Calls /\ Null \in Values \cup {Null}
        BY CallOf
      <4> HIDE DEF d
      <4>2. \A v \in Values \cup {Null} :
              LET e == [call[t] EXCEPT !.at = "idle", !.result = v] IN
              /\ e \in Calls /\ e.at = "idle" /\ e.op = call[t].op
              /\ e.name = call[t].name /\ e.torn = call[t].torn /\ e.result = v
        BY <4>1, ReturnFacts
      <4> QED BY <4>1, <4>2, Zenon DEF d
    <3> HIDE DEF d
    <3>3. call[t].torn \in BOOLEAN
      BY CallOf, CallFields
    <3>4. ThreadInv(t, d, sDb, version, rows)
      BY <1>1, <2>1, <3>2, <3>3, CallOf DEF ThreadInv, Shape, Linked, Noted, Busy, Past
    <3> QED BY <3>1, <3>2, <3>4
  <2>2. CASE sDb # NoConnection
    <3> DEFINE d == [call[t] EXCEPT !.at = "load"]
    <3>1. Becomes(t, d)
      BY <2>2 DEF Check, Goes
    <3>2. /\ d \in Calls /\ d.at = "load" /\ d.op = call[t].op
          /\ d.name = call[t].name /\ d.torn = call[t].torn
          /\ d.todo = call[t].todo /\ d.seen = call[t].seen
      BY CallOf, MoveFacts DEF Places
    <3> HIDE DEF d
    <3>3. ThreadInv(t, d, sDb, version, rows)
      BY <1>1, <2>2, <3>2, CallOf DEF ThreadInv, Shape, Linked, Noted, Busy, Past
    <3> QED BY <3>1, <3>2, <3>3
  <2> QED BY <2>1, <2>2
<1>4. /\ call' \in [Threads -> Calls] /\ rows' \in [Names -> Seq(Values)]
      /\ CallsInv' /\ LockInv' /\ CrashOnlyByTearDown' /\ OneRowPerName'
  BY <1>1, <1>2, <1>3, CallStep DEF Storing
<1> QED BY <1>1, <1>2, <1>4, HandleSame DEF Inv, TypeOK

(* The second read of sDb. *)
LEMMA LoadStep ==
  ASSUME Inv, NEW t \in Threads, Load(t)
  PROVE  Inv'
<1>1. /\ Alive /\ call[t].at = "load" /\ call[t].op # "put"
      /\ UNCHANGED <<handle, file, used>>
  BY DEF Load
<1>2. UNCHANGED <<sDb, version, tables, rows>>
  BY <1>1 DEF handle, file
<1>3. call[t].torn \in BOOLEAN /\ sDb \in Nat
  BY CallOf, CallFields DEF Inv, TypeOK
<1>4. PICK c \in Calls : /\ Becomes(t, c) /\ c.op = call[t].op
                         /\ ThreadInv(t, c, sDb, version, rows)
                         /\ c.at = "crashed" => c.torn /\ t # Main
  <2>1. CASE sDb = NoConnection
    <3> DEFINE d == [call[t] EXCEPT !.at = "crashed"]
    <3>1. Becomes(t, d)
      BY <2>1 DEF Load, Goes
    <3>2. /\ d \in Calls /\ d.at = "crashed" /\ d.op = call[t].op
          /\ d.name = call[t].name /\ d.torn = call[t].torn
      BY CallOf, MoveFacts DEF Places
    <3> HIDE DEF d
    <3>3. ThreadInv(t, d, sDb, version, rows)
      BY <1>1, <3>2, CallOf DEF ThreadInv, Shape, Linked, Noted, Busy, Past
    <3>4. call[t].torn # FALSE /\ t # Main
      BY <1>1, <2>1, CallOf DEF ThreadInv, Linked, Past
    <3>5. call[t].torn
      BY <1>3, <3>4, Zenon
    <3> QED BY <3>1, <3>2, <3>3, <3>4, <3>5
  <2>2. CASE sDb # NoConnection
    <3> DEFINE d == [call[t] EXCEPT !.at = "exec", !.conn = sDb]
    <3>1. Becomes(t, d)
      BY <2>2 DEF Load
    <3>2. /\ d \in Calls /\ d.at = "exec" /\ d.op = call[t].op
          /\ d.name = call[t].name /\ d.torn = call[t].torn /\ d.conn = sDb
          /\ d.todo = call[t].todo /\ d.seen = call[t].seen
      BY <1>3, CallOf, LoadFacts
    <3> HIDE DEF d
    <3>3. ThreadInv(t, d, sDb, version, rows)
      BY <1>1, <2>2, <3>2, CallOf DEF ThreadInv, Shape, Linked, Noted, Busy, Past
    <3> QED BY <3>1, <3>2, <3>3
  <2> QED BY <2>1, <2>2
<1>5. /\ call' \in [Threads -> Calls] /\ rows' \in [Names -> Seq(Values)]
      /\ CallsInv' /\ LockInv' /\ CrashOnlyByTearDown' /\ OneRowPerName'
  BY <1>1, <1>2, <1>4, CallStep DEF Storing
<1> QED BY <1>1, <1>2, <1>5, HandleSame DEF Inv, TypeOK

(* The first use of getDatabase in UpdateTable.insertOrUpdate. *)
LEMMA CheckUpdateStep ==
  ASSUME Inv, NEW t \in Threads, CheckUpdate(t)
  PROVE  Inv'
<1> DEFINE c == [call[t] EXCEPT !.at = "load"]
<1>1. /\ Alive /\ call[t].at = "check" /\ call[t].op = "put" /\ GetDatabase
      /\ sDb # NoConnection \/ ~OpenFails
      /\ Becomes(t, c) /\ used' = used
  BY DEF CheckUpdate, Goes
<1>2. /\ c \in Calls /\ c.at = "load" /\ c.op = call[t].op /\ c.name = call[t].name
      /\ c.todo = call[t].todo /\ c.torn = call[t].torn /\ c.seen = call[t].seen
  BY CallOf, MoveFacts DEF Places
<1> HIDE DEF c
<1>3. /\ sDatabaseHandler' \in BOOLEAN /\ sDb' \in Nat /\ opened' \in Nat
      /\ open' \in SUBSET Nat /\ version' \in Nat
      /\ tables' \in SUBSET SchemaTables
      /\ FileInv' /\ HandleConsistent'
      /\ sDb' # NoConnection /\ version' = DATABASE_VERSION /\ rows' = rows
      /\ sDb # NoConnection => sDb' = sDb
  BY <1>1, GetDatabaseOpens DEF Inv
<1>4. ThreadInv(t, c, sDb', version', rows')
  BY <1>1, <1>2, <1>3, CallOf DEF ThreadInv, Shape, Linked, Noted, Busy, Past
<1>5. Storing(c) => Storing(call[t]) \/ Synchronized(t)
  BY <1>1, <1>2 DEF Storing, Busy
<1>6. /\ call' \in [Threads -> Calls] /\ rows' \in [Names -> Seq(Values)]
      /\ CallsInv' /\ LockInv' /\ CrashOnlyByTearDown' /\ OneRowPerName'
  BY <1>1, <1>2, <1>3, <1>4, <1>5, CallStep
<1> QED BY <1>1, <1>3, <1>6 DEF Inv, TypeOK

(* Its second use, for a statement. *)
LEMMA LoadUpdateStep ==
  ASSUME Inv, NEW t \in Threads, LoadUpdate(t)
  PROVE  Inv'
<1>0. PICK k : k = sDb'
  OBVIOUS
<1> DEFINE c == [call[t] EXCEPT !.at = "exec", !.conn = k]
<1>1. /\ Alive /\ call[t].at = "load" /\ call[t].op = "put" /\ GetDatabase
      /\ sDb # NoConnection \/ ~OpenFails
      /\ Becomes(t, c) /\ used' = used
  BY <1>0 DEF LoadUpdate
<1>2. /\ sDatabaseHandler' \in BOOLEAN /\ sDb' \in Nat /\ opened' \in Nat
      /\ open' \in SUBSET Nat /\ version' \in Nat
      /\ tables' \in SUBSET SchemaTables
      /\ FileInv' /\ HandleConsistent'
      /\ sDb' # NoConnection /\ version' = DATABASE_VERSION /\ rows' = rows
      /\ sDb # NoConnection => sDb' = sDb
  BY <1>1, GetDatabaseOpens DEF Inv
<1>3. /\ c \in Calls /\ c.at = "exec" /\ c.op = call[t].op /\ c.name = call[t].name
      /\ c.todo = call[t].todo /\ c.torn = call[t].torn /\ c.seen = call[t].seen
      /\ c.conn = sDb'
  <2>1. call[t] \in Calls /\ k \in Nat
    BY <1>0, <1>2, CallOf
  <2>2. /\ c \in Calls /\ c.at = "exec" /\ c.op = call[t].op /\ c.name = call[t].name
        /\ c.todo = call[t].todo /\ c.torn = call[t].torn /\ c.seen = call[t].seen
        /\ c.conn = k
    BY <2>1, LoadFacts
  <2> QED BY <1>0, <2>2
<1> HIDE DEF c
<1>4. ThreadInv(t, c, sDb', version', rows')
  BY <1>1, <1>2, <1>3, CallOf DEF ThreadInv, Shape, Linked, Noted, Busy, Past
<1>5. Storing(c) => Storing(call[t]) \/ Synchronized(t)
  BY <1>1, <1>3 DEF Storing, Busy
<1>6. /\ call' \in [Threads -> Calls] /\ rows' \in [Names -> Seq(Values)]
      /\ CallsInv' /\ LockInv' /\ CrashOnlyByTearDown' /\ OneRowPerName'
  BY <1>1, <1>2, <1>3, <1>4, <1>5, CallStep
<1> QED BY <1>1, <1>2, <1>6 DEF Inv, TypeOK

(* An opening that fails. *)
LEMMA OpenThrowsStep ==
  ASSUME Inv, NEW t \in Threads, OpenThrows(t)
  PROVE  Inv'
<1> DEFINE c == [call[t] EXCEPT !.at = "crashed"]
<1>1. /\ Alive /\ OpenFails /\ Becomes(t, c) /\ UNCHANGED <<handle, file, used>>
      /\ call[t].at \in {"entry", "check", "load"}
  BY DEF OpenThrows, Goes
<1>2. /\ c \in Calls /\ c.at = "crashed" /\ c.op = call[t].op /\ c.name = call[t].name
      /\ c.torn = call[t].torn
  BY CallOf, MoveFacts DEF Places
<1> HIDE DEF c
<1>3. UNCHANGED <<sDb, version, tables, rows>> /\ OpenFails'
  BY <1>1 DEF handle, file, OpenFails
<1>4. ThreadInv(t, c, sDb, version, rows)
  BY <1>1, <1>2, CallOf DEF ThreadInv, Shape, Linked, Noted, Busy, Past
<1>5. /\ call' \in [Threads -> Calls] /\ rows' \in [Names -> Seq(Values)]
      /\ CallsInv' /\ LockInv' /\ CrashOnlyByTearDown' /\ OneRowPerName'
  BY <1>1, <1>2, <1>3, <1>4, CallStep DEF Storing, Busy
<1> QED BY <1>1, <1>3, <1>5, HandleSame DEF Inv, TypeOK

-----------------------------------------------------------------------------
(* Statements. *)

(* The rows after a statement: at most one each, and only the row of the     *)
(* call changes, if it is a writer.                                          *)
LEMMA ExecutedFacts ==
  ASSUME Inv, NEW t \in Threads, call[t].at = "exec"
  PROVE  LET rs == Executed(call[t]) IN
         /\ rs \in [Names -> Seq(Values)]
         /\ \A n \in Names : Len(rs[n]) <= 1
         /\ call[t].op = "get" => rs = rows
         /\ \A n \in Names : n # call[t].name => rs[n] = rows[n]
         /\ call[t].todo = <<"delete", "insert">> => rs[call[t].name] = <<>>
<1> DEFINE c == call[t]
<1>1. /\ c \in Calls /\ rows \in [Names -> Seq(Values)] /\ c.value \in Values
      /\ \A n \in Names : Len(rows[n]) <= 1
  BY CallOf, CallFields DEF Inv, OneRowPerName
<1>2. Shape(t, c) /\ Noted(c, rows) /\ Busy(c)
  BY CallOf DEF ThreadInv, Busy
<1>3. /\ c.name \in Names
      /\ c.op = "get" => c.todo = <<"query">>
      /\ c.op # "get" => c.todo \in {<<"delete", "insert">>, <<"insert">>}
      /\ c.todo = <<"insert">> => rows[c.name] = <<>>
  BY <1>1, <1>2, CallFields DEF Shape, Noted, Names
<1> HIDE DEF c
<1>4. CASE c.todo = <<"query">>
  <2>1. Executed(c) = rows
    BY <1>4, TodoFacts DEF Executed
  <2> QED BY <1>1, <1>3, <1>4, <2>1, TodoFacts DEF c
<1>5. CASE c.todo = <<"delete", "insert">>
  <2>1. Executed(c) = [rows EXCEPT ![c.name] = <<>>]
    BY <1>5, TodoFacts DEF Executed
  <2>2. <<>> \in Seq(Values) /\ Len(<<>>) = 0
    OBVIOUS
  <2> QED BY <1>1, <1>3, <1>5, <2>1, <2>2, TodoFacts DEF c
<1>6. CASE c.todo = <<"insert">>
  <2> DEFINE s == <<c.value>>
  <2>1. Executed(c) = [rows EXCEPT ![c.name] = Append(rows[c.name], c.value)]
    BY <1>6, TodoFacts DEF Executed
  <2>2. Append(rows[c.name], c.value) = s
    <3>1. rows[c.name] = <<>>
      BY <1>3, <1>6
    <3>2. Append(<<>>, c.value) = s
      OBVIOUS
    <3> QED BY <3>1, <3>2, Zenon
  <2>3. s \in Seq(Values) /\ Len(s) = 1
    BY <1>1
  <2> HIDE DEF s
  <2>4. Executed(c) = [rows EXCEPT ![c.name] = s]
    BY <2>1, <2>2
  <2> DEFINE rs == Executed(c)
  <2>5. /\ rs \in [Names -> Seq(Values)] /\ rs[c.name] = s
        /\ \A n \in Names : n # c.name => rs[n] = rows[n]
    BY <1>1, <1>3, <2>3, <2>4
  <2>6. c.op # "get" /\ c.todo # <<"delete", "insert">>
    BY <1>3, <1>6, TodoFacts
  <2> HIDE DEF rs
  <2>7. \A n \in Names : Len(rs[n]) <= 1
    <3> SUFFICES ASSUME NEW n \in Names PROVE Len(rs[n]) <= 1
      OBVIOUS
    <3>1. CASE n = c.name
      <4>1. Len(rs[n]) = 1
        BY <2>3, <2>5, <3>1, Zenon
      <4> QED BY <4>1
    <3>2. CASE n # c.name
      <4>1. rs[n] = rows[n]
        BY <2>5, <3>2
      <4> QED BY <1>1, <4>1
    <3> QED BY <3>1, <3>2
  <2> QED BY <2>5, <2>6, <2>7 DEF rs, c
<1> QED BY <1>3, <1>4, <1>5, <1>6

(* The call after its statement. *)
LEMMA AdvancedFacts ==
  ASSUME Inv, NEW t \in Threads, call[t].at = "exec"
  PROVE  LET d == Advanced(call[t])
             c == call[t] IN
         /\ d \in Calls /\ d.op = c.op /\ d.name = c.name /\ d.torn = c.torn
         /\ d.seen = c.seen
         /\ \/ d.at = "idle" /\ (c.op = "get" => d.result \in d.seen)
            \/ /\ d.at = "load" /\ d.todo = <<"insert">> /\ c.op # "get"
               /\ c.todo = <<"delete", "insert">>
<1> DEFINE c == call[t]
           a == IF Len(c.todo) = 1 THEN "idle" ELSE "load"
           v == IF c.op = "get" THEN First(rows[c.name]) ELSE c.result
           w == Tail(c.todo)
<1>1. /\ c \in Calls /\ rows \in [Names -> Seq(Values)] /\ c.at = "exec"
  BY CallOf
<1>2. Shape(t, c) /\ Noted(c, rows) /\ Busy(c)
  BY CallOf DEF ThreadInv, Busy
<1>3. Advanced(c) = [c EXCEPT !.todo = w, !.at = a, !.result = v]
  BY DEF Advanced
<1> HIDE DEF c
<1>4. /\ c.name \in Names
      /\ c.op = "get" => c.todo = <<"query">>
      /\ c.op # "get" => c.todo \in {<<"delete", "insert">>, <<"insert">>}
      /\ c.op = "get" => First(rows[c.name]) \in c.seen
  BY <1>1, <1>2, CallFields DEF Shape, Noted, Names
<1>5. a \in Places /\ w \in Seq(Statements)
  BY <1>4, TodoFacts DEF Places
<1>6. v \in Values \cup {Null}
  BY <1>1, <1>4, CallFields, FirstType
<1>7. \/ a = "idle" /\ (c.op = "get" => v \in c.seen)
      \/ a = "load" /\ w = <<"insert">> /\ c.op # "get" /\ c.todo = <<"delete", "insert">>
  BY <1>4, TodoFacts
<1> HIDE DEF a, v, w
<1>8. LET d == [c EXCEPT !.todo = w, !.at = a, !.result = v] IN
      /\ d \in Calls /\ d.at = a /\ d.op = c.op /\ d.name = c.name
      /\ d.todo = w /\ d.torn = c.torn /\ d.seen = c.seen /\ d.result = v
  BY <1>1, <1>5, <1>6 DEF Calls, Places, Statements
<1> DEFINE d == [c EXCEPT !.todo = w, !.at = a, !.result = v]
<1>9. /\ d \in Calls /\ d.at = a /\ d.op = c.op /\ d.name = c.name
      /\ d.todo = w /\ d.torn = c.torn /\ d.seen = c.seen /\ d.result = v
  BY <1>8
<1>10. Advanced(c) = d
  BY <1>3
<1> HIDE DEF d
<1> QED BY <1>7, <1>9, <1>10 DEF c

(* A running call takes note of its row. *)
LEMMA NotingFacts ==
  ASSUME NEW c \in Calls, NEW rs \in [Names -> Seq(Values)],
         c.at # "idle" => c.name \in Names
  PROVE  LET d == Noting(c, rs) IN
         /\ d \in Calls /\ d.at = c.at /\ d.op = c.op /\ d.name = c.name
         /\ d.todo = c.todo /\ d.conn = c.conn /\ d.torn = c.torn
         /\ d.result = c.result /\ (c.at = "idle" => d.seen = c.seen)
         /\ c.at # "idle" => First(rs[c.name]) \in d.seen
<1> DEFINE S == IF c.at = "idle" THEN c.seen ELSE c.seen \cup {First(rs[c.name])}
<1>1. S \in SUBSET (Values \cup {Null})
  BY CallFields, FirstType
<1>2. /\ c.at = "idle" => S = c.seen
      /\ c.at # "idle" => First(rs[c.name]) \in S
  OBVIOUS
<1> DEFINE d == [c EXCEPT !.seen = S]
<1>3. Noting(c, rs) = d
  BY DEF Noting
<1> HIDE DEF S
<1>4. /\ d \in Calls /\ d.at = c.at /\ d.op = c.op /\ d.name = c.name
      /\ d.todo = c.todo /\ d.conn = c.conn /\ d.torn = c.torn
      /\ d.seen = S /\ d.result = c.result
  BY <1>1, SeenFacts
<1> HIDE DEF d
<1> QED BY <1>2, <1>3, <1>4

(* A call that is running has a name. *)
LEMMA BusyName ==
  ASSUME Inv, NEW t \in Threads, Busy(call[t])
  PROVE  /\ call[t].name \in Names
         /\ call[t].op # "get" => call[t].op \in {"set", "put"}
  BY CallOf, CallFields DEF ThreadInv, Shape, Names

(* Two writers do not write the same row. *)
LEMMA WritersApart ==
  ASSUME Inv, NEW t \in Threads, NEW u \in Threads, t # u,
         Busy(call[t]), Busy(call[u]), call[t].op # "get", call[u].op # "get"
  PROVE  call[t].name # call[u].name
<1>1. /\ Shape(t, call[t]) /\ Shape(u, call[u])
      /\ call[t].op \in {"set", "put"} /\ call[u].op \in {"set", "put"}
  BY CallOf, BusyName DEF ThreadInv
<1>2. ~(call[t].op = "put" /\ call[u].op = "put")
  BY DEF Inv, LockInv, Storing
<1> QED BY <1>1, <1>2, NamesAssumption DEF Shape

(* A statement on an open connection. *)
LEMMA ExecOpen ==
  ASSUME Inv, NEW t \in Threads, Exec(t), call[t].conn \in open
  PROVE  /\ call' \in [Threads -> Calls] /\ rows' \in [Names -> Seq(Values)]
         /\ CallsInv' /\ LockInv' /\ CrashOnlyByTearDown' /\ OneRowPerName'
<1>1. /\ Alive /\ call[t].at = "exec" /\ rows' = Executed(call[t])
      /\ call' = [u \in Threads |->
           Noting(IF u = t THEN Advanced(call[t]) ELSE call[u], rows')]
      /\ UNCHANGED <<sDb, version>>
  BY DEF Exec, handle
<1>2. /\ rows' \in [Names -> Seq(Values)]
      /\ \A n \in Names : Len(rows'[n]) <= 1
      /\ call[t].op = "get" => rows' = rows
      /\ \A n \in Names : n # call[t].name => rows'[n] = rows[n]
      /\ call[t].todo = <<"delete", "insert">> => rows'[call[t].name] = <<>>
  BY <1>1, ExecutedFacts
<1>3. ASSUME NEW u \in Threads, u # t
      PROVE  /\ call'[u] \in Calls /\ call'[u].at = call[u].at
             /\ call'[u].op = call[u].op
             /\ ThreadInv(u, call'[u], sDb', version', rows')
  <2> DEFINE c == call[u]
             d == Noting(c, rows')
  <2>1. call'[u] = d
    BY <1>1, <1>3
  <2>2. /\ c \in Calls /\ ThreadInv(u, c, sDb, version, rows)
        /\ c.at \in Places /\ c.at # "crashed"
    BY <1>1, CallOf, CallFields DEF Alive
  <2>3. Busy(c) \/ c.at = "idle"
    BY <2>2 DEF Busy, Places
  <2>4. Busy(c) => c.name \in Names
    BY BusyName
  <2>5. Busy(c) /\ c.todo = <<"insert">> => rows'[c.name] = <<>>
    <3> SUFFICES ASSUME Busy(c), c.todo = <<"insert">>
                 PROVE  rows'[c.name] = <<>>
      OBVIOUS
    <3>1. c.op # "get" /\ rows[c.name] = <<>>
      BY <2>2, TodoFacts DEF ThreadInv, Shape, Noted
    <3>2. CASE call[t].op = "get"
      BY <1>2, <3>1, <3>2
    <3>3. CASE call[t].op # "get"
      <4>1. c.name # call[t].name
        BY <1>1, <1>3, <3>1, <3>3, WritersApart DEF Busy
      <4> QED BY <1>2, <2>4, <3>1, <4>1
    <3> QED BY <3>2, <3>3
  <2> HIDE DEF c
  <2>6. /\ d \in Calls /\ d.at = c.at /\ d.op = c.op /\ d.name = c.name
        /\ d.todo = c.todo /\ d.conn = c.conn /\ d.torn = c.torn
        /\ d.result = c.result /\ (c.at = "idle" => d.seen = c.seen)
        /\ c.at # "idle" => First(rows'[c.name]) \in d.seen
    BY <1>2, <2>2, <2>3, <2>4, NotingFacts
  <2> HIDE DEF d
  <2>7. ThreadInv(u, d, sDb', version', rows')
    BY <1>1, <2>2, <2>3, <2>5, <2>6
       DEF ThreadInv, Shape, Linked, Noted, Busy, Past
  <2> QED BY <2>1, <2>6, <2>7 DEF c
<1>4. /\ call'[t] \in Calls /\ call'[t].at \in {"idle", "load"}
      /\ call'[t].op = call[t].op
      /\ ThreadInv(t, call'[t], sDb', version', rows')
  <2> DEFINE c == call[t]
             e == Advanced(c)
             d == Noting(e, rows')
  <2>1. call'[t] = d
    BY <1>1
  <2>2. /\ c \in Calls /\ ThreadInv(t, c, sDb, version, rows) /\ c.at = "exec"
        /\ c.name \in Names /\ (c.op # "get" => c.op \in {"set", "put"})
    BY <1>1, CallOf, BusyName DEF Busy
  <2>3. /\ e \in Calls /\ e.op = c.op /\ e.name = c.name /\ e.torn = c.torn
        /\ e.seen = c.seen
        /\ \/ e.at = "idle" /\ (c.op = "get" => e.result \in e.seen)
           \/ /\ e.at = "load" /\ e.todo = <<"insert">> /\ c.op # "get"
              /\ c.todo = <<"delete", "insert">>
    BY <1>1, AdvancedFacts
  <2>4. c.todo = <<"delete", "insert">> => rows'[c.name] = <<>>
    BY <1>2
  <2> HIDE DEF c, e
  <2>5. /\ d \in Calls /\ d.at = e.at /\ d.op = e.op /\ d.name = e.name
        /\ d.todo = e.todo /\ d.conn = e.conn /\ d.torn = e.torn
        /\ d.result = e.result /\ (e.at = "idle" => d.seen = e.seen)
        /\ e.at # "idle" => First(rows'[e.name]) \in d.seen
    BY <1>2, <2>2, <2>3, NotingFacts
  <2> HIDE DEF d
  <2>6. ThreadInv(t, d, sDb', version', rows')
    <3>1. CASE e.at = "idle" /\ (c.op = "get" => e.result \in e.seen)
      BY <1>1, <2>2, <2>3, <2>5, <3>1 DEF ThreadInv, Shape, Linked, Noted, Busy, Past
    <3>2. CASE /\ e.at = "load" /\ e.todo = <<"insert">> /\ c.op # "get"
               /\ c.todo = <<"delete", "insert">>
      BY <1>1, <2>2, <2>3, <2>4, <2>5, <3>2
         DEF ThreadInv, Shape, Linked, Noted, Busy, Past
    <3> QED BY <2>3, <3>1, <3>2
  <2> QED BY <2>1, <2>3, <2>5, <2>6 DEF c
<1>5. call' \in [Threads -> Calls]
  <2>1. \A u \in Threads : call'[u] \in Calls
    BY <1>3, <1>4
  <2> QED BY <1>1, <2>1
<1>6. CallsInv'
  <2>1. \A u \in Threads : ThreadInv(u, call'[u], sDb', version', rows')
    BY <1>3, <1>4
  <2> QED BY <2>1 DEF CallsInv
<1>7. LockInv'
  <2>1. \A u \in Threads : Storing(call'[u]) => Storing(call[u])
    BY <1>1, <1>3, <1>4 DEF Storing, Busy
  <2>2. \A x, y \in Threads : Storing(call[x]) /\ Storing(call[y]) => x = y
    BY DEF Inv, LockInv
  <2>3. \A x, y \in Threads : Storing(call'[x]) /\ Storing(call'[y]) => x = y
    BY <2>1, <2>2
  <2> QED BY <2>3 DEF LockInv
<1>8. CrashOnlyByTearDown'
  <2>1. \A u \in Threads : call'[u].at # "crashed"
    BY <1>1, <1>3, <1>4 DEF Alive
  <2> QED BY <2>1 DEF CrashOnlyByTearDown
<1> QED BY <1>2, <1>5, <1>6, <1>7, <1>8 DEF OneRowPerName

(* SQLite executes a statement, or the connection is closed. *)
LEMMA ExecStep ==
  ASSUME Inv, NEW t \in Threads, Exec(t)
  PROVE  Inv'
<1>1. /\ Alive /\ call[t].at = "exec" /\ UNCHANGED <<handle, version, tables, used>>
  BY DEF Exec
<1>2. /\ call' \in [Threads -> Calls] /\ rows' \in [Names -> Seq(Values)]
      /\ CallsInv' /\ LockInv' /\ CrashOnlyByTearDown' /\ OneRowPerName'
  <2>1. CASE call[t].conn \in open
    BY <2>1, ExecOpen
  <2>2. CASE call[t].conn \notin open
    <3> DEFINE c == [call[t] EXCEPT !.at = "crashed"]
    <3>1. Becomes(t, c) /\ rows' = rows
      BY <2>2 DEF Exec, Goes
    <3>2. /\ c \in Calls /\ c.at = "crashed" /\ c.op = call[t].op
          /\ c.name = call[t].name /\ c.torn = call[t].torn
      BY CallOf, MoveFacts DEF Places
    <3> HIDE DEF c
    <3>3. ThreadInv(t, c, sDb, version, rows)
      BY <1>1, <3>2, CallOf DEF ThreadInv, Shape, Linked, Noted, Busy, Past
    <3>4. call[t].torn # FALSE /\ t # Main
      BY <1>1, <2>2, CallOf DEF ThreadInv, Linked, Past, Inv, HandleConsistent
    <3>5. call[t].torn
      <4>1. call[t].torn \in BOOLEAN
        BY CallOf, CallFields
      <4> QED BY <3>4, <4>1, Zenon
    <3>6. UNCHANGED <<sDb, version>>
      BY <1>1 DEF handle
    <3> QED BY <1>1, <3>1, <3>2, <3>3, <3>4, <3>5, <3>6, CallStep DEF Storing, Busy
  <2> QED BY <2>1, <2>2
<1> QED BY <1>1, <1>2, HandleSame DEF Inv, TypeOK

-----------------------------------------------------------------------------
(* Teardown, death, beginning. *)

(* Closing leaves nothing open, because nothing but sDb was. *)
LEMMA ClosedFacts ==
  ASSUME Inv, sDatabaseHandler' = FALSE, sDb' = NoConnection, open' = {},
         UNCHANGED <<opened, file>>
  PROVE  /\ sDatabaseHandler' \in BOOLEAN /\ sDb' \in Nat /\ opened' \in Nat
         /\ open' \in SUBSET Nat /\ version' \in Nat
         /\ tables' \in SUBSET SchemaTables /\ rows' \in [Names -> Seq(Values)]
         /\ FileInv' /\ HandleConsistent' /\ OneRowPerName'
<1>1. UNCHANGED <<version, tables, rows>>
  BY DEF file
<1> QED BY <1>1 DEF Inv, TypeOK, FileInv, HandleConsistent, OneRowPerName, NoConnection

(* tearDown overtakes the calls that are running. *)
LEMMA TearDownStep ==
  ASSUME Inv, TearDown
  PROVE  Inv'
<1>1. /\ Alive /\ call[Main].at = "idle" /\ Use("tearDown")
      /\ open' = open \ {sDb} /\ sDb' = NoConnection /\ sDatabaseHandler' = FALSE
      /\ call' = [t \in Threads |-> [call[t] EXCEPT !.torn = @ \/ call[t].at # "idle"]]
      /\ UNCHANGED <<opened, file>>
  BY DEF TearDown, CloseDatabase
<1>2. open' = {}
  BY <1>1 DEF Inv, HandleConsistent
<1>3. UNCHANGED <<version, tables, rows>>
  BY <1>1 DEF file
<1>4. ASSUME NEW u \in Threads
      PROVE  /\ call'[u] \in Calls /\ call'[u].at = call[u].at
             /\ call'[u].op = call[u].op
             /\ ThreadInv(u, call'[u], sDb', version', rows')
  <2> DEFINE c == call[u]
             b == c.torn \/ c.at # "idle"
             d == [c EXCEPT !.torn = b]
  <2>1. call'[u] = d
    BY <1>1
  <2>2. /\ c \in Calls /\ ThreadInv(u, c, sDb, version, rows)
        /\ c.torn \in BOOLEAN /\ b \in BOOLEAN
    BY CallOf, CallFields
  <2>3. u = Main => c.at = "idle"
    BY <1>1
  <2> HIDE DEF c
  <2>4. /\ c.at # "idle" => b = TRUE
        /\ c.at = "idle" => b = c.torn
    <3>1. CASE c.at # "idle"
      BY <3>1, Zenon
    <3>2. CASE c.at = "idle"
      BY <2>2, <3>2, Zenon
    <3> QED BY <3>1, <3>2
  <2> HIDE DEF b
  <2>5. /\ d \in Calls /\ d.at = c.at /\ d.op = c.op /\ d.name = c.name
        /\ d.todo = c.todo /\ d.conn = c.conn /\ d.torn = b
        /\ d.seen = c.seen /\ d.result = c.result
    BY <2>2, TornFacts
  <2> HIDE DEF d
  <2>6. ThreadInv(u, d, sDb', version', rows')
    BY <1>3, <2>2, <2>3, <2>4, <2>5 DEF ThreadInv, Shape, Linked, Noted, Busy, Past
  <2> QED BY <2>1, <2>5, <2>6 DEF c
<1>5. call' \in [Threads -> Calls]
  <2>1. \A u \in Threads : call'[u] \in Calls
    BY <1>4
  <2> QED BY <1>1, <2>1
<1>6. CallsInv'
  BY <1>4 DEF CallsInv
<1>7. LockInv'
  <2>1. \A u \in Threads : Storing(call'[u]) => Storing(call[u])
    BY <1>4 DEF Storing, Busy
  <2>2. \A x, y \in Threads : Storing(call[x]) /\ Storing(call[y]) => x = y
    BY DEF Inv, LockInv
  <2>3. \A x, y \in Threads : Storing(call'[x]) /\ Storing(call'[y]) => x = y
    BY <2>1, <2>2
  <2> QED BY <2>3 DEF LockInv
<1>8. CrashOnlyByTearDown'
  BY <1>1, <1>4 DEF CrashOnlyByTearDown, Alive
<1>9. used' \in [Kinds -> Nat]
  BY <1>1, UseType DEF Kinds
<1> QED BY <1>1, <1>2, <1>5, <1>6, <1>7, <1>8, <1>9, ClosedFacts DEF Inv, TypeOK

(* Threads that have not called anything satisfy the invariants. *)
LEMMA AllIdle ==
  ASSUME call' = [t \in Threads |-> Idle]
  PROVE  /\ call' \in [Threads -> Calls]
         /\ CallsInv' /\ LockInv' /\ CrashOnlyByTearDown'
<1>1. \A t \in Threads : call'[t] = Idle
  OBVIOUS
<1> QED BY <1>1, IdleFacts DEF CallsInv, LockInv, Storing, Busy, CrashOnlyByTearDown

(* The process dies. *)
LEMMA DeathStep ==
  ASSUME Inv, ProcessDeath
  PROVE  Inv'
<1>1. /\ sDatabaseHandler' = FALSE /\ sDb' = NoConnection /\ open' = {}
      /\ call' = [t \in Threads |-> Idle] /\ UNCHANGED <<opened, file>>
      /\ Use("death")
  BY DEF ProcessDeath
<1>2. used' \in [Kinds -> Nat]
  BY <1>1, UseType DEF Kinds
<1> QED BY <1>1, <1>2, AllIdle, ClosedFacts DEF Inv, TypeOK

(* The app starts on a file of any version. *)
LEMMA InitInv == Init => Inv
<1> SUFFICES ASSUME Init PROVE Inv
  OBVIOUS
<1>1. version \in Nat /\ FileInv
  BY VersionsAssumption DEF Init, FileInv
<1>2. rows \in [Names -> Seq(Values)] /\ \A n \in Names : Len(rows[n]) <= 1
  <2> DEFINE S == {<<>>, <<"0">>, <<"1">>, <<Info>>}
  <2>1. \A x \in S : x \in Seq(Values) /\ Len(x) <= 1
    <3>1. "0" \in Values /\ "1" \in Values /\ Info \in Values
      BY DEF Values
    <3>2. <<>> \in Seq(Values) /\ Len(<<>>) <= 1
      OBVIOUS
    <3>3. \A v \in Values : <<v>> \in Seq(Values) /\ Len(<<v>>) <= 1
      OBVIOUS
    <3> QED BY <3>1, <3>2, <3>3, Zenon
  <2>2. rows \in [Names -> S]
    BY DEF Init
  <2> HIDE DEF S
  <2> QED BY <2>1, <2>2
<1>3. \A t \in Threads : call[t] = Idle
  BY DEF Init
<1>4. CallsInv /\ LockInv /\ CrashOnlyByTearDown
  BY <1>3, IdleFacts DEF CallsInv, LockInv, Storing, Busy, CrashOnlyByTearDown
<1>5. call \in [Threads -> Calls] /\ used \in [Kinds -> Nat]
  BY IdleFacts DEF Init
<1>6. HandleConsistent
  BY DEF Init, HandleConsistent
<1>7. tables \in SUBSET SchemaTables
  BY <1>1, OpenedComplete DEF FileInv
<1> QED BY <1>1, <1>2, <1>4, <1>5, <1>6, <1>7
        DEF Inv, TypeOK, OneRowPerName, Init, NoConnection

-----------------------------------------------------------------------------
(* Theorems. *)

(* Every step preserves the invariant. *)
LEMMA NextInv ==
  ASSUME Inv, [Next]_vars
  PROVE  Inv'
<1>1. CASE Next
  <2>1. ASSUME NEW t \in Threads, NEW b \in Callable(t), Begin(t, b)
        PROVE  Inv'
    BY <2>1, BeginStep
  <2>2. ASSUME NEW t \in Threads,
               \/ Entry(t) \/ Check(t) \/ Load(t) \/ Exec(t)
               \/ CheckUpdate(t) \/ LoadUpdate(t) \/ OpenThrows(t)
        PROVE  Inv'
    BY <2>2, EntryStep, CheckStep, LoadStep, ExecStep, CheckUpdateStep,
       LoadUpdateStep, OpenThrowsStep
  <2>3. CASE TearDown
    BY <2>3, TearDownStep
  <2>4. CASE ProcessDeath
    BY <2>4, DeathStep
  <2> QED BY <1>1, <2>1, <2>2, <2>3, <2>4 DEF Next
<1>2. CASE UNCHANGED vars
  BY <1>2 DEF vars, handle, file, Inv, TypeOK, FileInv, HandleConsistent,
     OneRowPerName, LockInv, CallsInv, CrashOnlyByTearDown, OpenFails
<1> QED BY <1>1, <1>2

(* The inductive invariant of the store. *)
THEOREM StoreInvCorrect == Spec => []Inv
<1>1. Init => Inv
  BY InitInv
<1>2. Inv /\ [Next]_vars => Inv'
  BY NextInv
<1> QED BY <1>1, <1>2, PTL DEF Spec

(* Every reachable state is typed. *)
THEOREM StoreTypeCorrect == Spec => []TypeOK
<1>1. Inv => TypeOK
  BY DEF Inv
<1> QED BY <1>1, StoreInvCorrect, PTL

(* sDatabaseHandler and sDb are set and null together, and getInstance,      *)
(* getDatabase and tearDown leak no connection, however they interleave.     *)
THEOREM HandleIsConsistent == Spec => []HandleConsistent
<1>1. Inv => HandleConsistent
  BY DEF Inv
<1> QED BY <1>1, StoreInvCorrect, PTL

(* The deletes and inserts of insertOrUpdate never leave two rows of a name. *)
THEOREM RowsAreUnique == Spec => []OneRowPerName
<1>1. Inv => OneRowPerName
  BY DEF Inv
<1> QED BY <1>1, StoreInvCorrect, PTL

(* getValueByName returns a value the row had during the call, or null when  *)
(* tearDown overtook it.                                                     *)
THEOREM ReadsReturnCurrent == Spec => []ReadsAreCurrent
<1>1. Inv => ReadsAreCurrent
  BY CallOf DEF ThreadInv, Noted, ReadsAreCurrent
<1> QED BY <1>1, StoreInvCorrect, PTL

(* A thread crashes because opening failed, or in the pool after a tearDown. *)
THEOREM CrashesExplained == Spec => []CrashOnlyByTearDown
<1>1. Inv => CrashOnlyByTearDown
  BY DEF Inv
<1> QED BY <1>1, StoreInvCorrect, PTL

(* No statement is executed on a file of another version or without tables.  *)
THEOREM SchemaIsComplete == Spec => []SchemaComplete
<1>1. ASSUME Inv PROVE SchemaComplete
  <2>1. version \in Nat /\ tables = FileTables(version)
    BY <1>1 DEF Inv, TypeOK, FileInv
  <2> QED BY <1>1, <2>1, CallOf, OpenedComplete
          DEF ThreadInv, Linked, Past, SchemaComplete
<1> QED BY <1>1, StoreInvCorrect, PTL
=============================================================================
