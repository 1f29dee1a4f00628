----------------------------- MODULE UpdateCheck -----------------------------
(***************************************************************************)
(* The update check: UpdateCheckReceiver reacts to boot and connectivity   *)
(* broadcasts, Helper.scheduleUpdateService arms the alarm, the preference *)
(* screen changes the interval, and UpdateCheckService asks the server,    *)
(* stores what it did, notifies and posts the result to the update screen. *)
(*                                                                         *)
(* All code here runs on the main thread, one message of the FIFO looper   *)
(* at a time.  Requests are answered at any time and in any order, several *)
(* may be in flight, and stopSelf ends the service while others still are. *)
(* Time is abstracted: an armed alarm may go off at any moment.            *)
(***************************************************************************)
EXTENDS Integers, Sequences, FiniteSets

CONSTANTS
  Frequencies,  \* the values the preference screen offers, in seconds
  Timestamps,   \* the dates a server's answer may carry
  Unparsable,   \* a timestamp that is no number
  BuildDate,    \* ro.nameless.date of the running system
  MaxUpdates,   \* the length of a server's answer
  MaxEvents     \* how often the environment does each of Kinds

Kinds == {"boot", "connectivity", "preference", "appStart", "refresh", "alarm",
          "attach", "death"}

UPDATE_FREQ_NONE == -1
UPDATE_FREQ_AT_APP_START == -2
UPDATE_FREQ_AT_BOOT == -3
UPDATE_FREQ_WEEKLY == 604800
UPDATE_FREQ_BI_WEEKLY == 1209600
UPDATE_FREQ_MONTHLY == 2419200

ASSUME FrequenciesAssumption ==
  /\ Frequencies \subseteq Int
  /\ \A f \in Frequencies : f <= UPDATE_FREQ_BI_WEEKLY \/ f = UPDATE_FREQ_MONTHLY
ASSUME DatesAssumption == Timestamps \subseteq Nat /\ BuildDate \in Nat
ASSUME MaxAssumption == MaxUpdates \in Nat /\ MaxEvents \in [Kinds -> Nat]

(* Nothing sends ACTION_CANCEL_CHECK. *)
ACTION_CHECK == "CHECK"
ACTION_CHECK_UI == "CHECK_UI"
Actions == {ACTION_CHECK, ACTION_CHECK_UI}

VARIABLES
  freq,         \* the stored update interval
  bootDone,     \* BOOT_CHECK_COMPLETED
  alarm,        \* the alarm of the check's PendingIntent
  booting,      \* has BOOT_COMPLETED of this boot still to come?
  looper,       \* the main thread's message queue
  record,       \* the activity manager's record of the service, 0: stopped
  records,      \* how many records there have been
  mAction,      \* the field mAction of the service object of every record
  requests,     \* the requests sent to the server
  notification, \* the update notification shown
  attached,     \* is the update screen on the bus?
  awaiting,     \* does it show its progress view?
  used          \* what the environment has used up of MaxEvents

settings == <<freq, bootDone, alarm, booting>>
service == <<record, records, mAction, requests>>
ui == <<attached, awaiting>>
vars == <<settings, looper, service, notification, ui, used>>

(* An update as the server lists it.  raw: isDownloaded() of the parsed      *)
(* object, present: a file with the name that the app gives it exists.  The  *)
(* names differ when the server's name already ends in .zip.                 *)
UpdateInfos ==
  {u \in [timestamp : Timestamps \cup {Unparsable}, raw : BOOLEAN,
          present : BOOLEAN] : u.raw => u.present}
NoUpdate == [timestamp |-> BuildDate, raw |-> FALSE, present |-> FALSE]
Answers == UNION {[1..n -> UpdateInfos] : n \in 0..MaxUpdates}

(* count updates are announced; offer is the update of the download action. *)
Notifications == [count : Nat, offers : BOOLEAN, offer : UpdateInfos \cup {NoUpdate}]
NoNotification == [count |-> 0, offers |-> FALSE, offer |-> NoUpdate]

(* Every record begins with a startService. *)
Records == 1..(MaxEvents["boot"] + MaxEvents["connectivity"] + MaxEvents["appStart"]
             + MaxEvents["refresh"] + MaxEvents["alarm"])
Alarms == [set : BOOLEAN, interval : Int]
NoAlarm == [set |-> FALSE, interval |-> 0]

(* A command to the service of a record, or the answer to a request. *)
Messages ==
  [what : {"command", "null", "answer"}, action : Actions, to : Nat, ok : BOOLEAN]
Command(a, to) == [what |-> "command", action |-> a, to |-> to, ok |-> TRUE]
NullCommand(to) == [what |-> "null", action |-> ACTION_CHECK, to |-> to, ok |-> TRUE]
Answer(q, ok) == [what |-> "answer", action |-> ACTION_CHECK, to |-> q, ok |-> ok]

TypeOK ==
  /\ freq \in Frequencies \cup {UPDATE_FREQ_WEEKLY}
  /\ bootDone \in BOOLEAN /\ alarm \in Alarms /\ booting \in BOOLEAN
  /\ looper \in Seq(Messages)
  /\ records \in Nat /\ record \in 0..records
  /\ mAction \in [Records -> Actions]
  /\ requests \in Seq([record : Records, asked : Actions, flying : BOOLEAN])
  /\ notification \in Notifications
  /\ attached \in BOOLEAN /\ awaiting \in BOOLEAN
  /\ used \in [Kinds -> Nat]

Init ==
  /\ freq = UPDATE_FREQ_WEEKLY /\ bootDone = FALSE /\ alarm = NoAlarm
  /\ booting = FALSE
  /\ looper = <<>> /\ record = 0 /\ records = 0
  /\ mAction = [i \in Records |-> ACTION_CHECK]
  /\ requests = <<>> /\ notification = NoNotification
  /\ attached = FALSE /\ awaiting = FALSE
  /\ used = [k \in Kinds |-> 0]

-----------------------------------------------------------------------------
Use(k) == used[k] < MaxEvents[k] /\ used' = [used EXCEPT ![k] = @ + 1]

(* startService: a stopped service gets a new record and object. *)
StartService(a) ==
  LET to == IF record = 0 THEN records + 1 ELSE record IN
  /\ record' = to
  /\ records' = IF record = 0 THEN records + 1 ELSE records
  /\ looper' = Append(looper, Command(a, to))
NoService == UNCHANGED <<looper, record, records>>

(* value * 1000 as a 32-bit int, computed modulo 2^29 because 1000 = 8 * 125. *)
Millis(value) ==
  LET u == (value * 125) % 2^29 IN 8 * (IF u < 2^28 THEN u ELSE u - 2^29)

(* Mutant: an alarm that is armed already is kept. *)
ScheduleUpdateServiceKeeps(updateFreq) ==
  alarm' = IF alarm.set THEN alarm ELSE [set |-> TRUE, interval |-> updateFreq]

(* Helper.scheduleUpdateService: cancels the alarm, and arms it again unless *)
(* the interval in milliseconds is UPDATE_FREQ_NONE.                         *)
ScheduleUpdateService(updateFreq) ==
  alarm' = IF updateFreq # UPDATE_FREQ_NONE
             THEN [set |-> TRUE, interval |-> updateFreq] ELSE NoAlarm

(* onReceive after its early returns: an on-boot check unless one was        *)
(* completed, or a new alarm.                                                *)
HandleFrequency(bootCheckCompleted) ==
  /\ IF freq = UPDATE_FREQ_AT_BOOT /\ ~bootCheckCompleted
       THEN StartService(ACTION_CHECK) ELSE NoService
  /\ IF freq > 0 THEN ScheduleUpdateService(Millis(freq)) ELSE UNCHANGED alarm

(* onReceive of CONNECTIVITY_ACTION with a connection. *)
ConnectivityChange ==
  /\ Use("connectivity")
  /\ freq # UPDATE_FREQ_NONE
  /\ HandleFrequency(bootDone)
  /\ UNCHANGED <<freq, bootDone, booting, mAction, requests, notification, ui>>

(* onReceive of BOOT_COMPLETED; connectivity may have changed before. *)
BootCompleted ==
  /\ booting /\ booting' = FALSE
  /\ IF freq = UPDATE_FREQ_NONE
       THEN NoService /\ UNCHANGED <<alarm, bootDone>>
       ELSE bootDone' = FALSE /\ HandleFrequency(FALSE)
  /\ UNCHANGED <<freq, mAction, requests, notification, ui, used>>

(* The device boots: the alarm and everything in memory are lost. *)
Boot ==
  /\ Use("boot")
  /\ booting' = TRUE /\ alarm' = NoAlarm
  /\ record' = 0 /\ looper' = <<>> /\ requests' = <<>>
  /\ mAction' = [i \in Records |-> ACTION_CHECK]
  /\ notification' = NoNotification /\ attached' = FALSE /\ awaiting' = FALSE
  /\ UNCHANGED <<freq, bootDone, records>>

(* Mutant: the interval is stored in milliseconds. *)
OnPreferenceChangeMillis(value) ==
  /\ Use("preference")
  /\ freq' = Millis(value)
  /\ ScheduleUpdateService(Millis(value))
  /\ UNCHANGED <<bootDone, booting, looper, service, notification, ui>>

(* RomUpdatePreferenceFragment.onPreferenceChange of the update interval. *)
OnPreferenceChange(value) ==
  /\ Use("preference")
  /\ freq' = value
  /\ ScheduleUpdateService(Millis(value))
  /\ UNCHANGED <<bootDone, booting, looper, service, notification, ui>>

(* MainActivity.onCreate *)
AppStart ==
  /\ Use("appStart")
  /\ IF freq = UPDATE_FREQ_AT_APP_START THEN StartService(ACTION_CHECK) ELSE NoService
  /\ UNCHANGED <<settings, mAction, requests, notification, ui>>

(* The alarm goes off: one with an interval that is not positive only once. *)
AlarmFires ==
  /\ alarm.set /\ Use("alarm")
  /\ alarm' = IF alarm.interval > 0 THEN alarm ELSE NoAlarm
  /\ StartService(ACTION_CHECK)
  /\ UNCHANGED <<freq, bootDone, booting, mAction, requests, notification, ui>>

(* RomUpdateFragment: refreshUpdates, onStart and onStop. *)
RefreshUpdates ==
  /\ attached /\ Use("refresh")
  /\ awaiting' = TRUE
  /\ StartService(ACTION_CHECK_UI)
  /\ UNCHANGED <<settings, mAction, requests, notification, attached>>

FragmentStart ==
  /\ ~attached /\ Use("attach")
  /\ attached' = TRUE
  /\ UNCHANGED <<settings, looper, service, notification, awaiting>>

FragmentStop ==
  /\ attached
  /\ attached' = FALSE
  /\ UNCHANGED <<settings, looper, service, notification, awaiting, used>>

-----------------------------------------------------------------------------
Dispatch(what) == looper # <<>> /\ Head(looper).what = what

(* postBus of the service of record i: a screen that is on the bus shows the *)
(* result.  stopSelf stops record i, whatever other requests it has.         *)
PostBus(i) ==
  /\ awaiting' = (awaiting /\ ~attached)
  /\ record' = IF record = i THEN 0 ELSE record
  /\ looper' = Tail(looper)

Request(i, a) == [record |-> i, asked |-> a, flying |-> TRUE]

(* Mutant: without a connection the service just returns. *)
OnStartCommandSilent(online) ==
  LET m == Head(looper) IN
  /\ Dispatch("command")
  /\ mAction' = [mAction EXCEPT ![m.to] = m.action]
  /\ requests' = IF online THEN Append(requests, Request(m.to, m.action)) ELSE requests
  /\ looper' = Tail(looper)
  /\ UNCHANGED <<settings, record, records, notification, ui, used>>

(* UpdateCheckService.onStartCommand *)
OnStartCommand(online) ==
  LET m == Head(looper) IN
  /\ Dispatch("command")
  /\ mAction' = [mAction EXCEPT ![m.to] = m.action]
  /\ IF online
       THEN /\ requests' = Append(requests, Request(m.to, m.action))
            /\ looper' = Tail(looper)
            /\ UNCHANGED <<record, awaiting>>
       ELSE PostBus(m.to) /\ UNCHANGED requests
  /\ UNCHANGED <<settings, records, notification, attached, used>>

(* The null intent that restarts a sticky service is ignored. *)
OnNullCommand ==
  /\ Dispatch("null")
  /\ looper' = Tail(looper)
  /\ UNCHANGED <<settings, service, notification, ui, used>>

(* The server answers, or the request fails. *)
ServerAnswers(q, ok) ==
  /\ q \in DOMAIN requests /\ requests[q].flying
  /\ requests' = [requests EXCEPT ![q].flying = FALSE]
  /\ looper' = Append(looper, Answer(q, ok))
  /\ UNCHANGED <<settings, record, records, mAction, notification, ui, used>>

(* The record of the service that sent the request being answered. *)
Sender == requests[Head(looper).to].record

(* Ion may drop the answer to a service that is no longer running. *)
DropCallback ==
  /\ Dispatch("answer") /\ record = 0
  /\ looper' = Tail(looper)
  /\ UNCHANGED <<settings, service, notification, ui, used>>

(* onCompleted with an exception or no result. *)
CallbackError ==
  /\ Dispatch("answer") /\ ~Head(looper).ok
  /\ PostBus(Sender)
  /\ UNCHANGED <<settings, records, mAction, requests, notification, attached, used>>

(* Helper.parseDate *)
ParseDate(s) == IF s = Unparsable THEN 20140101 ELSE s
IsNew(u) == ParseDate(u.timestamp) > BuildDate

(* Where in the answer the updates are that get into the list: the newer     *)
(* ones and the downloaded ones.                                             *)
Listed(answer) == {k \in DOMAIN answer : IsNew(answer[k]) \/ answer[k].raw}
First(answer) == answer[CHOOSE k \in Listed(answer) : \A j \in Listed(answer) : k <= j]

(* Mutant: the action is offered whatever has been downloaded. *)
BuildNotificationBlind(answer, count) ==
  [count |-> count, offers |-> count = 1,
   offer |-> IF count = 1 THEN First(answer) ELSE NoUpdate]

(* A single new update gets a download action, for the first in the list     *)
(* unless that one is downloaded.                                            *)
BuildNotification(answer, count) ==
  LET offers == count = 1 /\ ~First(answer).present IN
  [count |-> count, offers |-> offers,
   offer |-> IF offers THEN First(answer) ELSE NoUpdate]

(* onCompleted with the server's answer. *)
Callback(answer) ==
  LET realUpdateCount == Cardinality({k \in Listed(answer) : IsNew(answer[k])})
      silent == mAction[Sender] = ACTION_CHECK_UI
  IN
  /\ Dispatch("answer") /\ Head(looper).ok
  /\ bootDone' = (bootDone \/ ~silent)
  /\ notification' = IF silent \/ realUpdateCount = 0 THEN notification
                     ELSE BuildNotification(answer, realUpdateCount)
  /\ PostBus(Sender)
  /\ UNCHANGED <<freq, alarm, booting, records, mAction, requests, attached, used>>

(* The commands of a queue that record i has not taken, in their order. *)
Pending(queue, i) ==
  LET kept[n \in 0..Len(queue)] ==
        IF n = 0 THEN <<>>
        ELSE IF queue[n].what = "command" /\ queue[n].to = i THEN Append(kept[n - 1], queue[n])
        ELSE kept[n - 1]
  IN kept[Len(queue)]

(* The process dies.  A service that was not stopped is started again, with  *)
(* the commands it had not taken or, without any, with a null intent.        *)
ProcessDeath ==
  LET pending == Pending(looper, record) IN
  /\ Use("death")
  /\ looper' = IF record # 0 /\ pending = <<>> THEN <<NullCommand(record)>> ELSE pending
  /\ requests' = <<>>
  /\ mAction' = [i \in Records |-> ACTION_CHECK]
  /\ attached' = FALSE /\ awaiting' = FALSE
  /\ UNCHANGED <<settings, record, records, notification>>

-----------------------------------------------------------------------------
Dispatcher ==
  \/ \E online \in BOOLEAN : OnStartCommand(online)
  \/ OnNullCommand
  \/ DropCallback \/ CallbackError \/ \E answer \in Answers : Callback(answer)

Environment ==
  \/ Boot \/ BootCompleted \/ ConnectivityChange \/ AppStart \/ AlarmFires
  \/ \E value \in Frequencies : OnPreferenceChange(value)
  \/ RefreshUpdates \/ FragmentStart \/ FragmentStop \/ ProcessDeath

Next ==
  \/ Dispatcher \/ Environment
  \/ \E q \in DOMAIN requests, ok \in BOOLEAN : ServerAnswers(q, ok)

(* The looper runs and every request is answered or fails. *)
Fairness ==
  /\ WF_vars(Dispatcher)
  /\ WF_vars(\E q \in DOMAIN requests, ok \in BOOLEAN : ServerAnswers(q, ok))

Spec == Init /\ [][Next]_vars
FairSpec == Spec /\ Fairness

-----------------------------------------------------------------------------
(* The alarm follows the preference: whatever boots, broadcasts and changes  *)
(* came before, an armed alarm has the interval that is stored now, and one  *)
(* for a positive interval repeats, except the monthly one, which overflows. *)
AlarmAsStored ==
  alarm.set =>
    /\ alarm.interval = Millis(freq)
    /\ freq > 0 /\ freq # UPDATE_FREQ_MONTHLY => alarm.interval > 0

(* The download action of the notification is for an update that is newer    *)
(* than the system and not downloaded, though it is taken from the head of a *)
(* list that also holds old, downloaded updates.                             *)
OfferIsNew ==
  notification.offers => IsNew(notification.offer) /\ ~notification.offer.present

(* The progress view of a started update screen goes away, or the screen is  *)
(* stopped, as long as a check service runs: with or without a connection,   *)
(* this check or another answers for it, also when the screen was stopped    *)
(* and started in between.  Without a service nothing answers: one that      *)
(* posted its result while the screen was off the bus has stopped itself,    *)
(* and the view of a screen that starts again stays until the next refresh.  *)
RefreshAnswered ==
  (awaiting /\ attached /\ record # 0) ~> (~awaiting \/ ~attached)

=============================================================================
