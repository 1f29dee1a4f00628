------------------------------ MODULE Download ------------------------------
(***************************************************************************)
(* The download subsystem of Nameless Center: DownloadService (a started   *)
(* Android service whose work list, thread pool and registration flag are  *)
(* static), the DownloadRunnables it creates, the pool threads that run    *)
(* them, the main looper that delivers every event, and the                *)
(* RomUpdateFragment that shows the progress.                              *)
(*                                                                         *)
(* The main thread takes one message at a time from the FIFO handler.      *)
(* Pool threads and Ion's network thread run at any time, also between two *)
(* statements of cancelDownload, which is split into one step per access   *)
(* to state they share.  Commands of startService travel through the       *)
(* activity manager (intents) to the same looper.                          *)
(***************************************************************************)
EXTENDS Integers, Sequences, FiniteSets

CONSTANTS
  Ids,          \* update timestamps, the identity of a download
  NoId,         \* the empty string: "every download"
  Threads,      \* the threads of the pool (4 in the code)
  NoThread,     \* the null mThread of a runnable that has not started
  Percentages,  \* the progress values a transfer may compute
  Max           \* how often the environment does each of Kinds

Kinds == {"start", "cancel", "attach", "destroy", "death", "progress"}

ASSUME IdsAssumption == NoId \notin Ids
ASSUME ThreadsAssumption == NoThread \notin Threads
ASSUME PercentagesAssumption == Percentages \subseteq Int \ {-1}
ASSUME MaxAssumption == Max \in [Kinds -> Nat]

Runnables == 1..Max["start"]    \* in the order of their creation
None == 0                       \* no runnable, a null array element
Done == 101                     \* the percentage that means "we are done"

(* DownloadErrorEvent *)
REASON_UNKNOWN == -1
REASON_OFFLINE == 0
REASON_METERED == 1
REASON_METERED_WARN == 2
REASON_ROAMING == 3

VARIABLES
  mRunnables,   \* DownloadService.mRunnables
  isRegistered, \* DownloadService.isRegistered
  producer,     \* is the service on the Otto bus?
  sticky,       \* did the last onStartCommand return START_STICKY?
  mWorkQueue,   \* DownloadService.mWorkQueue, the pool's queue
  mThreadPool,  \* "null", "running" or "shutdown"
  spawned,      \* the pool threads that exist
  task,         \* the runnable each pool thread executes, or None
  interrupted,  \* the interrupt flag of each pool thread
  run,          \* the fields of every DownloadRunnable
  handler,      \* the main looper's message queue
  intents,      \* commands on their way to the service
  main,         \* where the main thread is, with cancelDownload's locals
  attached,     \* is the RomUpdateFragment started?
  downloading,  \* its adapter's mDownloading: id -> percentage, -1: none
  used          \* what the environment has used up of Max

service == <<mRunnables, isRegistered, producer, sticky>>
pool == <<mWorkQueue, mThreadPool, spawned, task, interrupted>>
ui == <<attached, downloading>>
vars == <<service, pool, run, handler, intents, main, ui, used>>

(* A looper message: r is the runnable concerned, arg a percentage, an error *)
(* reason or an outcome, did the download that a start command names.        *)
Whats == {"start", "stop", "null", "startupService", "tearDownService",
          "startup", "progress", "error", "refresh", "dummy", "complete"}
Messages ==
  {m \in [what : Whats, r : Runnables \cup {None}, did : Ids \cup {NoId},
          arg : -1..3 \cup Percentages \cup {Done}] :
     /\ m.what \in {"startup", "progress", "complete"} => m.r # None
     /\ m.what = "progress" => m.arg \in Percentages \cup {0, Done}}
CommandMessages == [what : {"start", "stop", "null"}, r : {None}, arg : {0},
                    did : Ids \cup {NoId}]
Msg(what, r, arg) == [what |-> what, r |-> r, arg |-> arg, did |-> NoId]
Command(what, d) == [what |-> what, r |-> None, arg |-> 0, did |-> d]
If(cond, m) == IF cond THEN <<m>> ELSE <<>>

(* The life of a runnable; rejected by the pool, drained by shutdownNow,     *)
(* gone with its process.  bus is its registration with Otto, old its        *)
(* oldPercentage, -1 before the first.  premature tells that it posted a     *)
(* message that tears it down ahead of the end of its run: the warning of a  *)
(* metered network, or a progress that happens to be 101.                    *)
Records ==
  [pc : {"none", "queued", "ready", "begun", "enqueued", "waiting", "finished",
         "rejected", "drained", "gone"},
   id : Ids \cup {NoId}, mThread : Threads \cup {NoThread},
   future : {"null", "pending", "ok", "error", "cancelled"},
   transfer : {"idle", "active", "over"}, old : Percentages \cup {-1},
   premature : BOOLEAN, bus : {"never", "registered", "unregistered"}]
Fresh == [pc |-> "none", id |-> NoId, mThread |-> NoThread, future |-> "null",
          transfer |-> "idle", old |-> -1, premature |-> FALSE, bus |-> "never"]

Crashes == {"NullPointerException", "register", "unregister"}
MainStates ==
  {s \in [at : {"idle", "toArray", "runnables", "queued", "shutdownNow"} \cup Crashes,
          id : Ids \cup {NoId}, i : Nat \ {0}, len : Nat,
          array : Seq(Runnables \cup {None}), next : {"idle", "shutdownNow"}] :
     s.at = "queued" => s.len = Len(s.array)}
MainAt(at) == [at |-> at, id |-> NoId, i |-> 1, len |-> 0, array |-> <<>>,
               next |-> "idle"]

TypeOK ==
  /\ mRunnables \in Seq(Runnables) /\ mWorkQueue \in Seq(Runnables)
  /\ isRegistered \in BOOLEAN /\ producer \in BOOLEAN /\ sticky \in BOOLEAN
  /\ mThreadPool \in {"null", "running", "shutdown"}
  /\ spawned \in SUBSET Threads
  /\ task \in [Threads -> Runnables \cup {None}]
  /\ interrupted \in [Threads -> BOOLEAN]
  /\ run \in [Runnables -> Records]
  /\ handler \in Seq(Messages) /\ intents \in Seq(CommandMessages)
  /\ main \in MainStates
  /\ attached \in BOOLEAN
  /\ downloading \in [Ids -> Percentages \cup {-1, 0, Done}]
  /\ used \in [Kinds -> Nat]

(* A new process: every static field has its initial value. *)
Init ==
  /\ mRunnables = <<>> /\ isRegistered = FALSE /\ producer = FALSE
  /\ sticky = FALSE
  /\ mWorkQueue = <<>> /\ mThreadPool = "null" /\ spawned = {}
  /\ task = [t \in Threads |-> None]
  /\ interrupted = [t \in Threads |-> FALSE]
  /\ run = [r \in Runnables |-> Fresh]
  /\ handler = <<>> /\ intents = <<>>
  /\ main = MainAt("idle")
  /\ attached = FALSE /\ downloading = [d \in Ids |-> -1]
  /\ used = [k \in Kinds |-> 0]

-----------------------------------------------------------------------------
Alive == main.at \notin Crashes
Idle == main.at = "idle"
Use(k) == used[k] < Max[k] /\ used' = [used EXCEPT ![k] = @ + 1]

Becomes(r, rec) == run' = [run EXCEPT ![r] = rec]

(* The main thread takes the next message from its queue. *)
Dispatch(what) == Idle /\ handler # <<>> /\ Head(handler).what = what

(* DownloadService.start: the card's button, or the notification's action. *)
Start(d) ==
  /\ Idle /\ Use("start")
  /\ intents' = Append(intents, Command("start", d))
  /\ UNCHANGED <<service, pool, run, handler, main, ui>>

(* The activity manager hands the next command to the main looper. *)
DeliverCommand ==
  /\ Alive /\ intents # <<>>
  /\ handler' = Append(handler, Head(intents))
  /\ intents' = Tail(intents)
  /\ UNCHANGED <<service, pool, run, main, ui, used>>

(* onStartCommand of ACTION_STOP, or of the null intent that restarts the    *)
(* service, which is ignored while work is queued.                           *)
OnStopCommand ==
  LET stops == Head(handler).what = "stop" \/ mWorkQueue = <<>> IN
  /\ Dispatch("stop") \/ Dispatch("null")
  /\ handler' = Tail(handler) \o If(stops, Msg("tearDownService", None, 0))
  /\ sticky' = ~stops
  /\ UNCHANGED <<mRunnables, isRegistered, producer, pool, run, intents, main,
                 ui, used>>

(* getThreadPoolExecutor creates the pool once and never replaces it. *)
GetThreadPoolExecutor ==
  IF mThreadPool = "null" THEN "running" ELSE mThreadPool

(* ThreadPoolExecutor.execute with equal core and maximum size: a new thread *)
(* runs the task until there are that many, then tasks are queued; a pool    *)
(* that was shut down throws.                                                *)
Execute(r, d, pc) ==
  /\ Becomes(r, [run[r] EXCEPT !.pc = pc, !.id = d])
  /\ \/ /\ pc = "ready" /\ mThreadPool # "shutdown"
        /\ \E t \in Threads \ spawned :
             /\ spawned' = spawned \cup {t}
             /\ task' = [task EXCEPT ![t] = r]
        /\ UNCHANGED mWorkQueue
     \/ /\ pc = "queued" /\ mThreadPool # "shutdown" /\ spawned = Threads
        /\ mWorkQueue' = Append(mWorkQueue, r)
        /\ UNCHANGED <<spawned, task>>
     \/ /\ pc = "rejected" /\ mThreadPool = "shutdown"
        /\ UNCHANGED <<mWorkQueue, spawned, task>>

(* Mutant: the constructor forgets to post startup. *)
DownloadRunnableSilent(r) == <<>>

(* The constructor of DownloadRunnable posts its startup to the looper. *)
DownloadRunnable(r) == <<Msg("startup", r, 0)>>

(* onStartCommand of a download: posts the service's startup unless it is    *)
(* registered, creates a runnable, which posts its own startup, and executes *)
(* it, posting an error when the pool throws.                                *)
OnStartCommand(r) ==
  /\ Dispatch("start")
  /\ run[r].pc = "none" /\ \A q \in Runnables : q < r => run[q].pc # "none"
  /\ mRunnables' = Append(mRunnables, r)
  /\ \E pc \in {"ready", "queued", "rejected"} : Execute(r, Head(handler).did, pc)
  /\ mThreadPool' = GetThreadPoolExecutor
  /\ handler' = Tail(handler)
                  \o If(~isRegistered, Msg("startupService", None, 0))
                  \o DownloadRunnable(r)
                  \o If(mThreadPool = "shutdown", Msg("error", None, REASON_UNKNOWN))
  /\ sticky' = TRUE
  /\ UNCHANGED <<isRegistered, producer, interrupted, intents, main, ui, used>>

(* Mutant: startup does not look at isRegistered again. *)
StartupServiceUnchecked ==
  /\ Dispatch("startupService")
  /\ isRegistered' = TRUE /\ producer' = TRUE
  /\ main' = IF producer THEN MainAt("register") ELSE main
  /\ handler' = Tail(handler) \o If(attached, Msg("refresh", None, 0))
  /\ UNCHANGED <<mRunnables, sticky, pool, run, intents, ui, used>>

(* DownloadService.startup.  When producer and subscriber meet on the bus,   *)
(* Otto calls produceDownloadProgressEvent, which posts a refresh.           *)
StartupService ==
  /\ Dispatch("startupService")
  /\ isRegistered' = TRUE /\ producer' = TRUE
  /\ main' = IF ~isRegistered /\ producer THEN MainAt("register") ELSE main
  /\ handler' = Tail(handler) \o If(~isRegistered /\ attached, Msg("refresh", None, 0))
  /\ UNCHANGED <<mRunnables, sticky, pool, run, intents, ui, used>>

(* DownloadRunnable.startup *)
StartupRunnable ==
  /\ Dispatch("startup")
  /\ Becomes(Head(handler).r, [run[Head(handler).r] EXCEPT !.bus = "registered"])
  /\ handler' = Tail(handler)
  /\ UNCHANGED <<service, pool, intents, main, ui, used>>

(* DownloadRunnable.tearDown: Otto throws unless r is registered. *)
TearDownRunnable(r) ==
  IF run[r].bus = "registered"
    THEN Becomes(r, [run[r] EXCEPT !.bus = "unregistered"]) /\ UNCHANGED main
    ELSE main' = MainAt("unregister") /\ UNCHANGED run

(* postProgress's event for the fragment, and tearDown after the last one. *)
DispatchProgress ==
  LET m == Head(handler) IN
  /\ Dispatch("progress")
  /\ downloading' = IF attached THEN [downloading EXCEPT ![run[m.r].id] = m.arg]
                    ELSE downloading
  /\ IF m.arg = Done THEN TearDownRunnable(m.r) ELSE UNCHANGED <<run, main>>
  /\ handler' = Tail(handler)
  /\ UNCHANGED <<service, pool, intents, attached, used>>

(* The error event; a runnable's postError tears it down, onStartCommand's   *)
(* has no runnable.                                                          *)
DispatchError ==
  LET m == Head(handler) IN
  /\ Dispatch("error")
  /\ IF m.r # None THEN TearDownRunnable(m.r) ELSE UNCHANGED <<run, main>>
  /\ handler' = Tail(handler)
  /\ UNCHANGED <<service, pool, intents, ui, used>>

(* RefreshDownloadRunnablesEvent: every registered runnable, in the order of *)
(* registration, posts its actualPercentage.                                 *)
ActualPercentage(r) == IF run[r].old = -1 THEN 0 ELSE run[r].old

DispatchRefresh ==
  LET registered == {r \in Runnables : run[r].bus = "registered"} IN
  /\ Dispatch("refresh")
  /\ \E s \in [1..Cardinality(registered) -> registered] :
       /\ \A j, k \in DOMAIN s : j < k => s[j] < s[k]
       /\ handler' = Tail(handler) \o
            [k \in DOMAIN s |-> Msg("progress", s[k], ActualPercentage(s[k]))]
  /\ UNCHANGED <<service, pool, run, intents, main, ui, used>>

(* The dummy event with id "-1" only redraws the cards. *)
DispatchDummy ==
  /\ Dispatch("dummy")
  /\ handler' = Tail(handler)
  /\ UNCHANGED <<service, pool, run, intents, main, ui, used>>

(* A future settles once; a late outcome of a cancelled one is dropped. *)
Settle(r, outcome) ==
  Becomes(r, [run[r] EXCEPT !.future = IF @ = "pending" THEN outcome ELSE @])

(* Ion completes the future on the main thread. *)
DispatchComplete ==
  LET m == Head(handler) IN
  /\ Dispatch("complete")
  /\ Settle(m.r, IF m.arg = 0 THEN "ok" ELSE "error")
  /\ handler' = Tail(handler)
  /\ UNCHANGED <<service, pool, intents, main, ui, used>>

-----------------------------------------------------------------------------
(* Mutant: the last element of the work queue is left out. *)
BeginCancelShort(d, next) ==
  main' = [main EXCEPT !.at = "toArray", !.id = d, !.len = Len(mWorkQueue) - 1,
                       !.next = next]

(* cancelDownload(d) begins by reading the size of the work queue. *)
BeginCancel(d, next) ==
  main' = [main EXCEPT !.at = "toArray", !.id = d, !.len = Len(mWorkQueue),
                       !.next = next]

(* The button of a card that shows a running download. *)
ClickCancel(d) ==
  /\ Idle /\ attached /\ downloading[d] \notin {-1, Done}
  /\ Use("cancel")
  /\ BeginCancel(d, "idle")
  /\ UNCHANGED <<service, pool, run, handler, intents, ui>>

(* The service's tearDown begins with cancelDownload(""). *)
TearDownService ==
  /\ Dispatch("tearDownService")
  /\ handler' = Tail(handler)
  /\ BeginCancel(NoId, "shutdownNow")
  /\ UNCHANGED <<service, pool, run, intents, ui, used>>

(* toArray fills an array of the size read before: null elements remain if a *)
(* pool thread took a task meanwhile.  Then the loop over mRunnables begins. *)
CancelToArray ==
  /\ main.at = "toArray"
  /\ main' = [main EXCEPT
       !.at = "runnables", !.i = 1, !.len = Len(mRunnables),
       !.array = [k \in 1..main.len |->
                    IF Len(mWorkQueue) <= main.len /\ k <= Len(mWorkQueue)
                      THEN mWorkQueue[k] ELSE None]]
  /\ UNCHANGED <<service, pool, run, handler, intents, ui, used>>

Matches(r) == main.id \in {NoId, run[r].id}

(* remove(Object) of a list that holds no element twice. *)
Without(s, k) == SubSeq(s, 1, k - 1) \o SubSeq(s, k + 1, Len(s))
Remove(s, r) == IF \E k \in DOMAIN s : s[k] = r
                  THEN Without(s, CHOOSE k \in DOMAIN s : s[k] = r) ELSE s

Interrupt(t) ==
  interrupted' = IF t = NoThread THEN interrupted
                 ELSE [interrupted EXCEPT ![t] = TRUE]

(* Mutant: the runnable is removed and its transfer left running. *)
CancelFutureForgotten(r) == UNCHANGED run

(* fileResponseFuture.cancel(true) *)
CancelFuture(r) == Settle(r, "cancelled")

(* One iteration over mRunnables.  The list shrinks under the loop: the      *)
(* element after a removed one is skipped and an index past the end caught,  *)
(* but a null future is not.                                                 *)
CancelRunnable ==
  LET r == mRunnables[main.i]
      hit == main.i <= Len(mRunnables) /\ Matches(r)
  IN
  /\ main.at = "runnables" /\ main.i <= main.len
  /\ IF hit /\ run[r].future # "null"
       THEN /\ CancelFuture(r) /\ Interrupt(run[r].mThread)
            /\ mRunnables' = Remove(mRunnables, r)
       ELSE UNCHANGED <<run, interrupted, mRunnables>>
  /\ main' = IF hit /\ run[r].future = "null" THEN MainAt("NullPointerException")
             ELSE [main EXCEPT !.i = @ + 1]
  /\ UNCHANGED <<isRegistered, producer, sticky, mWorkQueue, mThreadPool, spawned,
                 task, handler, intents, ui, used>>

EndCancelRunnables ==
  /\ main.at = "runnables" /\ main.i > main.len
  /\ main' = [main EXCEPT !.at = "queued", !.i = 1, !.len = Len(main.array)]
  /\ UNCHANGED <<service, pool, run, handler, intents, ui, used>>

(* One iteration over the snapshot of the work queue: it cancels what was    *)
(* started since and matches; a null element is not caught, a null future is.*)
CancelQueued ==
  LET r == main.array[main.i]
      hit == r # None /\ run[r].mThread # NoThread /\ Matches(r)
  IN
  /\ main.at = "queued" /\ main.i <= main.len
  /\ IF hit /\ run[r].future # "null"
       THEN /\ CancelFuture(r) /\ Interrupt(run[r].mThread)
            /\ mWorkQueue' = Remove(mWorkQueue, r)
       ELSE UNCHANGED <<run, interrupted, mWorkQueue>>
  /\ main' = IF r = None THEN MainAt("NullPointerException")
             ELSE [main EXCEPT !.i = @ + 1]
  /\ UNCHANGED <<service, mThreadPool, spawned, task, handler, intents, ui, used>>

(* The end of cancelDownload: it posts a dummy progress event, and sends a   *)
(* stop command when no runnable is left.                                    *)
EndCancel ==
  /\ main.at = "queued" /\ main.i > main.len
  /\ mThreadPool' = GetThreadPoolExecutor
  /\ handler' = Append(handler, Msg("dummy", None, 0))
  /\ intents' = intents \o If(mRunnables = <<>>, Command("stop", NoId))
  /\ main' = MainAt(main.next)
  /\ UNCHANGED <<service, mWorkQueue, spawned, task, interrupted, run, ui, used>>

(* The rest of tearDown: shutdownNow drains the work queue and interrupts    *)
(* every thread, then the service leaves the bus.                            *)
ShutdownNow ==
  /\ main.at = "shutdownNow"
  /\ mThreadPool' = "shutdown" /\ mWorkQueue' = <<>>
  /\ run' = [r \in Runnables |-> IF run[r].pc = "queued"
                                   THEN [run[r] EXCEPT !.pc = "drained"] ELSE run[r]]
  /\ interrupted' = [t \in Threads |-> t \in spawned \/ interrupted[t]]
  /\ isRegistered' = FALSE /\ producer' = (producer /\ ~isRegistered)
  /\ main' = MainAt("idle")
  /\ UNCHANGED <<mRunnables, sticky, spawned, task, handler, intents, ui, used>>

-----------------------------------------------------------------------------
(* The pool threads. *)

(* An idle thread takes the next task of the queue. *)
Take(t) ==
  /\ Alive /\ mThreadPool = "running"
  /\ t \in spawned /\ task[t] = None /\ mWorkQueue # <<>>
  /\ task' = [task EXCEPT ![t] = Head(mWorkQueue)]
  /\ Becomes(Head(mWorkQueue), [run[Head(mWorkQueue)] EXCEPT !.pc = "ready"])
  /\ mWorkQueue' = Tail(mWorkQueue)
  /\ UNCHANGED <<service, mThreadPool, spawned, interrupted, handler, intents,
                 main, ui, used>>

At(t, pc) == Alive /\ task[t] # None /\ run[task[t]].pc = pc

(* The pool clears the interrupt flag unless it is shut down; run() stores   *)
(* the current thread.                                                       *)
BeginRun(t) ==
  /\ At(t, "ready")
  /\ interrupted' = [interrupted EXCEPT ![t] = (mThreadPool = "shutdown")]
  /\ Becomes(task[t], [run[task[t]] EXCEPT !.pc = "begun", !.mThread = t])
  /\ UNCHANGED <<service, mWorkQueue, mThreadPool, spawned, task, handler,
                 intents, main, ui, used>>

(* What enqueueDownload decides from the network and the preferences: which  *)
(* errors it posts, and whether it starts the transfer.                      *)
Networks == [online : BOOLEAN, metered : BOOLEAN, roaming : BOOLEAN]
Preferences == [metered : BOOLEAN, skipWarning : BOOLEAN, roaming : BOOLEAN]
Offline(n) == ~n.online
Metered(n, p) == n.online /\ n.metered /\ ~p.metered
Warns(n, p) == n.online /\ n.metered /\ p.metered /\ ~p.skipWarning

(* Mutant: a forbidden metered network does not end enqueueDownload. *)
RoamingToo(n, p) == n.online /\ n.roaming /\ ~p.roaming

Roaming(n, p) == n.online /\ ~Metered(n, p) /\ n.roaming /\ ~p.roaming
EnqueueOk(n, p) == ~Offline(n) /\ ~Metered(n, p) /\ ~Roaming(n, p)

Errors(r, n, p) ==
  If(Offline(n), Msg("error", r, REASON_OFFLINE))
    \o If(Metered(n, p), Msg("error", r, REASON_METERED))
    \o If(Warns(n, p), Msg("error", r, REASON_METERED_WARN))
    \o If(Roaming(n, p), Msg("error", r, REASON_ROAMING))

(* enqueueDownload, and the end of run() when its result is RESULT_ERROR. *)
EnqueueDownload(t, n, p) ==
  LET r == task[t] IN
  /\ At(t, "begun")
  /\ handler' = handler \o Errors(r, n, p)
  /\ IF EnqueueOk(n, p)
       THEN /\ Becomes(r, [run[r] EXCEPT !.pc = "enqueued", !.future = "pending",
                              !.transfer = "active", !.premature = @ \/ Warns(n, p)])
            /\ UNCHANGED task
       ELSE /\ Becomes(r, [run[r] EXCEPT !.pc = "finished", !.premature = @ \/ Warns(n, p)])
            /\ task' = [task EXCEPT ![t] = None]
  /\ UNCHANGED <<service, mWorkQueue, mThreadPool, spawned, interrupted, intents,
                 main, ui, used>>

(* run() posts progress 0, sets the callback and waits in get(). *)
PostStart(t) ==
  /\ At(t, "enqueued")
  /\ handler' = Append(handler, Msg("progress", task[t], 0))
  /\ Becomes(task[t], [run[task[t]] EXCEPT !.pc = "waiting"])
  /\ UNCHANGED <<service, pool, intents, main, ui, used>>

(* Mutant: 101 is not posted in the finally block but after get(). *)
FinishRunNoFinally(t) ==
  /\ At(t, "waiting")
  /\ run[task[t]].future # "pending" \/ interrupted[t]
  /\ handler' = handler \o If(run[task[t]].future # "pending",
                              Msg("progress", task[t], Done))
  /\ Becomes(task[t], [run[task[t]] EXCEPT !.pc = "finished"])
  /\ task' = [task EXCEPT ![t] = None]
  /\ interrupted' = [interrupted EXCEPT ![t] = FALSE]
  /\ UNCHANGED <<service, mWorkQueue, mThreadPool, spawned, intents, main, ui,
                 used>>

(* get() ends when the future has settled or the thread is interrupted; the  *)
(* finally block posts 101.                                                  *)
FinishRun(t) ==
  /\ At(t, "waiting")
  /\ run[task[t]].future # "pending" \/ interrupted[t]
  /\ handler' = Append(handler, Msg("progress", task[t], Done))
  /\ Becomes(task[t], [run[task[t]] EXCEPT !.pc = "finished"])
  /\ task' = [task EXCEPT ![t] = None]
  /\ interrupted' = [interrupted EXCEPT ![t] = FALSE]
  /\ UNCHANGED <<service, mWorkQueue, mThreadPool, spawned, intents, main, ui,
                 used>>

-----------------------------------------------------------------------------
(* onProgress, on Ion's network thread.  The percentage is not clamped: it   *)
(* is 0, -99, -199 and so on when the total is unknown (-1), and above 100,  *)
(* also Done, when more arrives than was announced.                          *)
OnProgress(r, p) ==
  /\ Alive /\ run[r].transfer = "active" /\ p # run[r].old /\ Use("progress")
  /\ Becomes(r, [run[r] EXCEPT !.old = p, !.premature = @ \/ p = Done])
  /\ handler' = Append(handler, Msg("progress", r, p))
  /\ UNCHANGED <<service, pool, intents, main, ui>>

(* The transfer ends, well or badly: Ion posts the outcome to the looper,    *)
(* unless the future was cancelled.                                          *)
TransferEnds(r) ==
  /\ Alive /\ run[r].transfer = "active"
  /\ Becomes(r, [run[r] EXCEPT !.transfer = "over"])
  /\ \E arg \in {0, 1} :
       handler' = handler \o If(run[r].future = "pending", Msg("complete", r, arg))
  /\ UNCHANGED <<service, pool, intents, main, ui, used>>

-----------------------------------------------------------------------------
(* RomUpdateFragment.onStart registers it, perhaps with a new adapter. *)
FragmentStart(newView) ==
  /\ Idle /\ ~attached /\ Use("attach")
  /\ attached' = TRUE
  /\ downloading' = IF newView THEN [d \in Ids |-> -1] ELSE downloading
  /\ handler' = handler \o If(producer, Msg("refresh", None, 0))
  /\ UNCHANGED <<service, pool, run, intents, main>>

(* RomUpdateFragment.onStop: events posted from now on do not reach it. *)
FragmentStop ==
  /\ Idle /\ attached
  /\ attached' = FALSE
  /\ UNCHANGED <<service, pool, run, handler, intents, main, downloading, used>>

(* The user stops the started service from the system settings: onDestroy. *)
ServiceDestroyed ==
  /\ Idle /\ sticky /\ Use("destroy")
  /\ handler' = Append(handler, Msg("tearDownService", None, 0))
  /\ sticky' = FALSE
  /\ UNCHANGED <<mRunnables, isRegistered, producer, pool, run, intents, main, ui>>

(* The process dies, by an uncaught exception or killed for its memory.  The *)
(* system delivers the commands it still holds to a new process, or a null   *)
(* intent when there are none and the service was sticky.                    *)
ProcessDeath ==
  /\ Use("death")
  /\ mRunnables' = <<>> /\ isRegistered' = FALSE /\ producer' = FALSE
  /\ mWorkQueue' = <<>> /\ mThreadPool' = "null" /\ spawned' = {}
  /\ task' = [t \in Threads |-> None]
  /\ interrupted' = [t \in Threads |-> FALSE]
  /\ run' = [r \in Runnables |->
               IF run[r].pc = "none" THEN Fresh ELSE [Fresh EXCEPT !.pc = "gone"]]
  /\ handler' = <<>>
  /\ intents' = intents \o If(intents = <<>> /\ sticky, Command("null", NoId))
  /\ main' = MainAt("idle")
  /\ attached' = FALSE /\ downloading' = [d \in Ids |-> -1]
  /\ UNCHANGED sticky

-----------------------------------------------------------------------------
Dispatcher ==
  \/ OnStopCommand \/ \E r \in Runnables : OnStartCommand(r)
  \/ StartupService \/ StartupRunnable \/ TearDownService
  \/ DispatchProgress \/ DispatchError \/ DispatchRefresh \/ DispatchDummy
  \/ DispatchComplete

CancelDownload ==
  \/ CancelToArray \/ CancelRunnable \/ EndCancelRunnables \/ CancelQueued
  \/ EndCancel \/ ShutdownNow

Worker(t) ==
  \/ Take(t) \/ BeginRun(t) \/ PostStart(t) \/ FinishRun(t)
  \/ \E n \in Networks, p \in Preferences : EnqueueDownload(t, n, p)

Environment ==
  \/ \E d \in Ids : Start(d) \/ ClickCancel(d)
  \/ \E newView \in BOOLEAN : FragmentStart(newView)
  \/ FragmentStop \/ ServiceDestroyed \/ ProcessDeath

Next ==
  \/ Dispatcher \/ CancelDownload \/ DeliverCommand
  \/ \E t \in Threads : Worker(t)
  \/ \E r \in Runnables : TransferEnds(r) \/ \E p \in Percentages : OnProgress(r, p)
  \/ Environment

(* The main looper runs, the activity manager delivers, the pool's threads   *)
(* are scheduled and every transfer ends or times out.  Nothing obliges the  *)
(* user, or the system, to do anything.                                      *)
Fairness ==
  /\ WF_vars(Dispatcher) /\ WF_vars(CancelDownload) /\ WF_vars(DeliverCommand)
  /\ \A t \in Threads : WF_vars(Worker(t))
  /\ \A r \in Runnables : WF_vars(TransferEnds(r))

Spec == Init /\ [][Next]_vars
FairSpec == Spec /\ Fairness

-----------------------------------------------------------------------------
Elements(s) == {s[k] : k \in DOMAIN s}

(* A download that runs can be cancelled: a runnable whose future has not    *)
(* settled is still in mRunnables, the only place cancelDownload looks at.   *)
NoOrphanTransfer ==
  \A r \in Runnables : run[r].future = "pending" => r \in Elements(mRunnables)

(* What a message queue q holds for runnable r: the message that registers   *)
(* it with the bus, and the messages that unregister it.                     *)
TearsDown(m, r) ==
  m.r = r /\ (m.what = "error" \/ (m.what = "progress" /\ m.arg = Done))
Starts(q, r) == \E k \in DOMAIN q : q[k] = Msg("startup", r, 0)
Ends(q, r) == \E k \in DOMAIN q : TearsDown(q[k], r)
StartsFirst(q, r) ==
  \A k \in DOMAIN q : TearsDown(q[k], r) =>
    \E j \in 1..(k - 1) : q[j] = Msg("startup", r, 0)
EndsOnce(q, r) ==
  \A j, k \in DOMAIN q : TearsDown(q[j], r) /\ TearsDown(q[k], r) => j = k

(* No runnable leaves the bus before it was registered: startup is queued    *)
(* on the looper before anything that unregisters.                           *)
StartupFirst ==
  \A r \in Runnables : run[r].bus = "never" => StartsFirst(handler, r)

(* A runnable is unregistered once, and Otto answers a second time with an   *)
(* exception on the main thread.  There are two exceptions, both in the      *)
(* code: a runnable that warned about a metered network, and one whose       *)
(* progress was 101, the value that stands for the end of the run.  Either   *)
(* tears it down in mid-transfer and the finally block tears it down again.  *)
TearDownOnce ==
  \A r \in Runnables : ~run[r].premature =>
    /\ EndsOnce(handler, r)
    /\ Ends(handler, r) => run[r].bus # "unregistered"

(* The bus knows the service exactly when isRegistered says so, however many *)
(* startups and tearDowns are queued: register never throws.                 *)
ProducerMatchesFlag == producer = isRegistered /\ main.at # "register"

(* Every download that the pool accepted comes to an end and leaves the bus, *)
(* unless the pool is shut down first or the process dies: no thread waits   *)
(* in get() for ever, no queued runnable is forgotten, no 101 is lost.       *)
EveryDownloadEnds ==
  \A r \in Runnables :
    run[r].pc \in {"queued", "ready"} ~>
      (run[r].bus = "unregistered" \/ run[r].pc \in {"drained", "gone"} \/ ~Alive)

=============================================================================
