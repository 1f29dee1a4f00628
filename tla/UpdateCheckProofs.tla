-------------------------- MODULE UpdateCheckProofs --------------------------
(***************************************************************************)
(* Proofs about UpdateCheck, for every list of intervals the preference    *)
(* screen may offer and every bound on the environment.                    *)
(***************************************************************************)
EXTENDS UpdateCheck, CommonLemmas, FiniteSetTheorems, TLAPS

Intervals == Frequencies \cup {UPDATE_FREQ_WEEKLY}

(* AlarmAsStored with the types it needs. *)
AlarmInv == freq \in Intervals /\ AlarmAsStored

-----------------------------------------------------------------------------
(* Of the positive intervals that the screen offers only the monthly one     *)
(* overflows when it is converted to milliseconds.                           *)
LEMMA MillisPositive ==
  ASSUME NEW f \in Intervals, f > 0, f # UPDATE_FREQ_MONTHLY
  PROVE  Millis(f) > 0
<1>1. f \in Int /\ f <= 1209600
  BY FrequenciesAssumption
     DEF Intervals, UPDATE_FREQ_WEEKLY, UPDATE_FREQ_BI_WEEKLY, UPDATE_FREQ_MONTHLY
<1>2. 2^29 = 536870912 /\ 2^28 = 268435456
  OBVIOUS
<1> QED BY <1>1, <1>2 DEF Millis

(* scheduleUpdateService leaves no alarm, or one with the interval given. *)
LEMMA ScheduleFacts ==
  ASSUME NEW i, ScheduleUpdateService(i), alarm'.set
  PROVE  alarm'.interval = i
<1>1. CASE i # UPDATE_FREQ_NONE
  <2>1. alarm' = [set |-> TRUE, interval |-> i]
    BY <1>1 DEF ScheduleUpdateService
  <2> QED BY <2>1
<1>2. CASE i = UPDATE_FREQ_NONE
  <2>1. alarm' = [set |-> FALSE, interval |-> 0]
    BY <1>2 DEF ScheduleUpdateService, NoAlarm
  <2> QED BY <2>1
<1> QED BY <1>1, <1>2

(* A step that schedules the interval it leaves stored. *)
LEMMA Scheduled ==
  ASSUME freq' \in Intervals, ScheduleUpdateService(Millis(freq'))
  PROVE  AlarmInv'
<1>1. alarm'.set => alarm'.interval = Millis(freq')
  BY ScheduleFacts
<1>2. freq' > 0 /\ freq' # UPDATE_FREQ_MONTHLY => Millis(freq') > 0
  BY MillisPositive
<1> QED BY <1>1, <1>2 DEF AlarmInv, AlarmAsStored, Millis

(* A step that leaves no alarm. *)
LEMMA Unscheduled ==
  ASSUME AlarmInv, freq' = freq, alarm' = NoAlarm
  PROVE  AlarmInv'
<1>1. ~alarm'.set
  BY DEF NoAlarm
<1> QED BY <1>1 DEF AlarmInv, AlarmAsStored

(* A step that leaves interval and alarm as they are. *)
LEMMA Unchanged ==
  ASSUME AlarmInv, freq' = freq, alarm' = alarm
  PROVE  AlarmInv'
  BY DEF AlarmInv, AlarmAsStored, Millis

(* What onReceive does after its early returns. *)
LEMMA HandleFrequencyStep ==
  ASSUME AlarmInv, freq' = freq, NEW b, HandleFrequency(b)
  PROVE  AlarmInv'
<1>1. CASE freq > 0
  <2>1. ScheduleUpdateService(Millis(freq))
    BY <1>1 DEF HandleFrequency
  <2>2. ScheduleUpdateService(Millis(freq'))
    BY <2>1 DEF Millis, ScheduleUpdateService
  <2> QED BY <2>2, Scheduled DEF AlarmInv
<1>2. CASE ~(freq > 0)
  BY <1>2, Unchanged DEF HandleFrequency
<1> QED BY <1>1, <1>2

(* Every step keeps the alarm as stored. *)
LEMMA AlarmStep ==
  ASSUME AlarmInv, [Next]_vars
  PROVE  AlarmInv'
<1>1. CASE Dispatcher
  <2>1. UNCHANGED <<freq, alarm>>
    BY <1>1 DEF Dispatcher, OnStartCommand, OnNullCommand, DropCallback,
       CallbackError, Callback, settings
  <2> QED BY <2>1, Unchanged
<1>2. CASE \E q \in DOMAIN requests, ok \in BOOLEAN : ServerAnswers(q, ok)
  <2>1. UNCHANGED <<freq, alarm>>
    BY <1>2 DEF ServerAnswers, settings
  <2> QED BY <2>1, Unchanged
<1>3. CASE Environment
  <2>1. CASE Boot
    BY <2>1, Unscheduled DEF Boot
  <2>2. CASE BootCompleted
    <3>1. CASE freq = UPDATE_FREQ_NONE
      BY <2>2, <3>1, Unchanged DEF BootCompleted
    <3>2. CASE freq # UPDATE_FREQ_NONE
      BY <2>2, <3>2, HandleFrequencyStep DEF BootCompleted
    <3> QED BY <3>1, <3>2
  <2>3. CASE ConnectivityChange
    BY <2>3, HandleFrequencyStep DEF ConnectivityChange
  <2>4. CASE AppStart
    BY <2>4, Unchanged DEF AppStart, settings
  <2>5. CASE AlarmFires
    BY <2>5, Unchanged, Unscheduled DEF AlarmFires
  <2>6. ASSUME NEW value \in Frequencies, OnPreferenceChange(value)
        PROVE  AlarmInv'
    <3>1. freq' = value /\ ScheduleUpdateService(Millis(value))
      BY <2>6 DEF OnPreferenceChange
    <3>2. ScheduleUpdateService(Millis(freq'))
      BY <3>1 DEF Millis, ScheduleUpdateService
    <3> QED BY <3>1, <3>2, Scheduled DEF Intervals
  <2>7. CASE RefreshUpdates \/ FragmentStart \/ FragmentStop \/ ProcessDeath
    <3>1. UNCHANGED <<freq, alarm>>
      BY <2>7 DEF RefreshUpdates, FragmentStart, FragmentStop, ProcessDeath, settings
    <3> QED BY <3>1, Unchanged
  <2> QED BY <1>3, <2>1, <2>2, <2>3, <2>4, <2>5, <2>6, <2>7 DEF Environment
<1>4. CASE UNCHANGED vars
  BY <1>4, Unchanged DEF vars, settings
<1> QED BY <1>1, <1>2, <1>3, <1>4 DEF Next

-----------------------------------------------------------------------------
(* Whatever boots, broadcasts, alarms and changes of the preference came     *)
(* before, an alarm that is armed has the stored interval, and it repeats    *)
(* for every positive interval but the monthly one.                          *)
THEOREM AlarmFollowsPreference == Spec => []AlarmAsStored
<1>1. Init => AlarmInv
  <2> SUFFICES ASSUME Init PROVE AlarmInv
    OBVIOUS
  <2>1. freq \in Intervals
    BY DEF Init, Intervals
  <2>2. ~alarm.set
    BY DEF Init, NoAlarm
  <2> QED BY <2>1, <2>2 DEF AlarmInv, AlarmAsStored
<1>2. AlarmInv /\ [Next]_vars => AlarmInv'
  BY AlarmStep
<1>3. AlarmInv => AlarmAsStored
  BY DEF AlarmInv
<1> QED BY <1>1, <1>2, <1>3, PTL DEF Spec

-----------------------------------------------------------------------------
(* Types.  The queue only names records there are and requests that were   *)
(* sent, and there are no more records than there were starts.             *)

Starts == used["boot"] + used["connectivity"] + used["appStart"] + used["refresh"] + used["alarm"]
BoundInv ==
  /\ \A k \in Kinds : used[k] <= MaxEvents[k]
  /\ records + (IF booting THEN 1 ELSE 0) <= Starts
Known(m, r, q) ==
  /\ m.what = "command" => m.to \in 1..r
  /\ m.what = "answer" => m.to \in 1..q
QueueInv == \A k \in 1..Len(looper) : Known(looper[k], records, Len(requests))
TypeInv == TypeOK /\ BoundInv /\ QueueInv

(* One more use of a kind. *)
LEMMA UseStep ==
  ASSUME used \in [Kinds -> Nat], \A k \in Kinds : used[k] <= MaxEvents[k], NEW k \in Kinds, Use(k)
  PROVE  /\ used' \in [Kinds -> Nat] /\ \A j \in Kinds : used'[j] <= MaxEvents[j]
         /\ k \in {"boot", "connectivity", "appStart", "refresh", "alarm"} => Starts' = Starts + 1
         /\ Starts <= Starts'
<1>1. /\ used' = [used EXCEPT ![k] = used[k] + 1] /\ used[k] < MaxEvents[k] /\ MaxEvents \in [Kinds -> Nat]
  BY MaxAssumption DEF Use
<1>2. used' \in [Kinds -> Nat] /\ \A j \in Kinds : used'[j] <= MaxEvents[j]
  BY <1>1, SMT
<1>3. \A j \in Kinds : used'[j] = IF j = k THEN used[j] + 1 ELSE used[j]
  BY <1>1
<1> QED
  BY <1>2, <1>3, SMT DEF Starts, Kinds

(* There is a record for every start. *)
LEMMA RecordsBound ==
  ASSUME TypeInv
  PROVE  1..records \subseteq Records
<1>1. \A k \in Kinds : used[k] <= MaxEvents[k] /\ used[k] \in Nat /\ MaxEvents[k] \in Nat
  BY MaxAssumption DEF TypeInv, BoundInv, TypeOK
<1>2. records \in Nat /\ records <= Starts
  <2>1. records \in Nat /\ booting \in BOOLEAN /\ records + (IF booting THEN 1 ELSE 0) <= Starts
    BY DEF TypeInv, BoundInv, TypeOK
  <2>2. Starts \in Nat
    BY <1>1, SMT DEF Starts, Kinds
  <2> QED
    BY <2>1, <2>2, SMT
<1> QED
  BY <1>1, <1>2, SMT DEF Records, Starts, Kinds

(* startService puts a command for a record into the queue. *)
LEMMA StartServiceStep ==
  ASSUME TypeInv, requests' = requests, NEW a \in Actions, StartService(a)
  PROVE  /\ looper' \in Seq(Messages) /\ records' \in {records, records + 1}
         /\ records' \in Nat /\ record' \in 0..records' /\ QueueInv'
<1> DEFINE to == IF record = 0 THEN records + 1 ELSE record
<1>1. /\ record' = to /\ records' = IF record = 0 THEN records + 1 ELSE records
      /\ looper' = Append(looper, Command(a, to))
  BY DEF StartService
<1>2. records \in Nat /\ record \in 0..records /\ looper \in Seq(Messages)
  BY DEF TypeInv, TypeOK
<1>3. to \in 1..records' /\ records' \in Nat /\ records <= records' /\ to \in Nat
  BY <1>1, <1>2, SMT
<1> HIDE DEF to
<1>4. Command(a, to) \in Messages
  BY <1>3 DEF Command, Messages
<1>5. /\ looper' \in Seq(Messages) /\ Len(looper') = Len(looper) + 1
      /\ \A k \in 1..Len(looper) : looper'[k] = looper[k]
      /\ looper'[Len(looper) + 1] = Command(a, to)
  BY <1>1, <1>2, <1>4, SMT
<1>6. \A m : Known(m, records, Len(requests)) => Known(m, records', Len(requests'))
  BY <1>2, <1>3, SMT DEF Known
<1>7. Known(Command(a, to), records', Len(requests'))
  BY <1>3 DEF Known, Command
<1>8. \A k \in 1..Len(looper) + 1 : k \in 1..Len(looper) \/ k = Len(looper) + 1
  BY <1>2, SMT
<1>9. ASSUME NEW k \in 1..Len(looper') PROVE Known(looper'[k], records', Len(requests'))
  <2>1. CASE k \in 1..Len(looper)
    BY <1>5, <1>6, <2>1 DEF TypeInv, QueueInv
  <2>2. CASE k = Len(looper) + 1
    <3>1. looper'[k] = Command(a, to)
      BY <1>5, <2>2
    <3> QED
      BY <1>7, <3>1
  <2> QED
    BY <1>5, <1>8, <2>1, <2>2
<1>10. QueueInv'
  BY <1>9 DEF QueueInv
<1> QED
  BY <1>1, <1>2, <1>3, <1>5, <1>10, SMT

(* The head of the queue is taken. *)
LEMMA TailStep ==
  ASSUME TypeInv, looper # <<>>, looper' = Tail(looper), records' = records,
         Len(requests) <= Len(requests')
  PROVE  /\ looper' \in Seq(Messages) /\ QueueInv'
         /\ Head(looper) \in Messages /\ Known(Head(looper), records, Len(requests))
<1>1. looper \in Seq(Messages) /\ looper # <<>> /\ requests \in Seq([record : Records, asked : Actions, flying : BOOLEAN])
  BY DEF TypeInv, TypeOK
<1>2. /\ looper' \in Seq(Messages) /\ Len(looper') = Len(looper) - 1 /\ Len(looper) \in Nat \ {0}
      /\ \A k \in 1..Len(looper') : looper'[k] = looper[k + 1] /\ k + 1 \in 1..Len(looper)
      /\ Head(looper) = looper[1] /\ 1 \in 1..Len(looper) /\ Head(looper) \in Messages
  BY <1>1, SMT
<1>3. \A m : Known(m, records, Len(requests)) => Known(m, records', Len(requests'))
  <2>1. \A i \in 1..Len(requests) : i \in 1..Len(requests')
    BY <1>1, SMT
  <2> QED
    BY <2>1 DEF Known
<1> QED
  BY <1>2, <1>3 DEF TypeInv, QueueInv

(* The commands that a record has not taken are those of the queue. *)
LEMMA PendingType ==
  ASSUME NEW M, NEW queue \in Seq(M), NEW i
  PROVE  Pending(queue, i) \in
           Seq({queue[k] : k \in {j \in 1..Len(queue) : queue[j].what = "command" /\ queue[j].to = i}})
<1> DEFINE mine(m) == m.what = "command" /\ m.to = i
           N == Len(queue)
           C == {queue[k] : k \in {j \in 1..N : queue[j].what = "command" /\ queue[j].to = i}}
           S == Seq(C)
           step == [n \in Nat |-> [s \in S |->
                      IF n \in 1..N /\ mine(queue[n]) THEN Append(s, queue[n]) ELSE s]]
           Def(f) == [n \in 0..N |->
                        IF n = 0 THEN <<>>
                        ELSE IF mine(queue[n]) THEN Append(f[n - 1], queue[n]) ELSE f[n - 1]]
           kept == CHOOSE f : f = Def(f)
<1>1. N \in Nat
  OBVIOUS
<1>2. <<>> \in S
  OBVIOUS
<1>3. \A n \in 1..N : mine(queue[n]) => queue[n] \in C
  OBVIOUS
<1> HIDE DEF C, mine
<1>4. \A n \in 1..N, s \in S : mine(queue[n]) => Append(s, queue[n]) \in S
  BY <1>3
<1> HIDE DEF S, N
<1>5. step \in [Nat -> [S -> S]]
  BY <1>4
<1>6. ASSUME NEW n \in 1..N, NEW s \in S
      PROVE  step[n][s] = IF mine(queue[n]) THEN Append(s, queue[n]) ELSE s
  <2>1. n \in Nat
    BY <1>1, SMT
  <2> QED
    BY <2>1
<1> HIDE DEF step
<1>7. PICK f : Recursion(f, S, <<>>, step, N)
  BY <1>1, <1>2, <1>5, RecursionExists, Zenon
<1>8. /\ f \in [0..N -> S] /\ f[0] = <<>>
      /\ \A n \in 1..N : f[n] = step[n][f[n - 1]]
  BY <1>7 DEF Recursion
<1>9. \A n \in 0..N : n # 0 => n \in 1..N /\ n - 1 \in 0..N
  BY <1>1, SMT
<1>10. f = Def(f)
  <2>1. ASSUME NEW n \in 0..N, n # 0
        PROVE  f[n] = IF mine(queue[n]) THEN Append(f[n - 1], queue[n]) ELSE f[n - 1]
    <3>1. n \in 1..N /\ f[n - 1] \in S
      BY <1>8, <1>9, <2>1
    <3>2. f[n] = step[n][f[n - 1]]
      BY <1>8, <3>1
    <3> QED
      BY <1>6, <3>1, <3>2, Zenon
  <2>2. \A n \in 0..N : f[n] = IF n = 0 THEN <<>> ELSE IF mine(queue[n]) THEN Append(f[n - 1], queue[n]) ELSE f[n - 1]
    BY <1>8, <2>1
  <2> QED
    BY <1>8, <2>2
<1>11. kept = Def(kept)
  <2> HIDE DEF Def
  <2> QED
    BY <1>10
<1> HIDE DEF kept
<1>12. ASSUME NEW n \in 1..N, kept[n - 1] \in S PROVE kept[n] = step[n][kept[n - 1]]
  <2>1. n \in 0..N /\ n # 0
    BY <1>1, SMT
  <2>2. kept[n] = IF mine(queue[n]) THEN Append(kept[n - 1], queue[n]) ELSE kept[n - 1]
    BY <1>11, <2>1, Zenon
  <2> QED
    BY <1>6, <1>12, <2>2
<1>13. \A n \in 0..N : kept[n] \in S
  <2>1. kept[0] = <<>>
    BY <1>1, <1>11, SMT
  <2> QED
    BY <1>1, <1>2, <1>5, <1>12, <2>1, RecursionType
<1>14. Pending(queue, i) = kept[N]
  BY DEF Pending, kept, N, mine
<1>15. kept[N] \in S
  BY <1>1, <1>13, SMT
<1> QED
  BY <1>14, <1>15 DEF S, C, N

-----------------------------------------------------------------------------
(* The notification that an answer leads to. *)
NewCount(answer) == Cardinality({k \in Listed(answer) : IsNew(answer[k])})

LEMMA AnswerFacts ==
  ASSUME NEW answer \in Answers
  PROVE  /\ NewCount(answer) \in Nat
         /\ NewCount(answer) # 0 =>
              First(answer) \in UpdateInfos /\ (IsNew(First(answer)) \/ First(answer).raw)
<1>1. PICK n \in 0..MaxUpdates : answer \in [1..n -> UpdateInfos]
  BY DEF Answers
<1>2. n \in Nat /\ DOMAIN answer = 1..n
  BY <1>1, MaxAssumption, SMT
<1> DEFINE L == Listed(answer)
           New == {k \in L : IsNew(answer[k])}
<1>3. L \subseteq 1..n /\ New \subseteq L /\ \A k \in L : IsNew(answer[k]) \/ answer[k].raw
  BY <1>2 DEF Listed
<1> HIDE DEF L, New
<1>4. IsFiniteSet(1..n) /\ IsFiniteSet(New)
  <2>1. 1 \in Int /\ n \in Int
    BY <1>2, SMT
  <2>2. IsFiniteSet(1..n)
    BY <2>1, FS_Interval
  <2> QED
    BY <1>3, <2>2, FS_Subset
<1>5. Cardinality(New) \in Nat
  BY <1>4, FS_CardinalityType
<1>6. ASSUME Cardinality(New) # 0
      PROVE  First(answer) \in UpdateInfos /\ (IsNew(First(answer)) \/ First(answer).raw)
  <2>1. New # {}
    BY <1>6, FS_EmptySet
  <2>2. L # {} /\ L \subseteq Nat
    <3>1. 1..n \subseteq Nat
      BY <1>2, SMT
    <3> QED
      BY <1>3, <2>1, <3>1, Zenon
  <2>3. \E k \in L : \A j \in L : k <= j
    BY <2>2, Least
  <2> DEFINE first == CHOOSE k \in L : \A j \in L : k <= j
  <2>4. first \in L
    BY <2>3
  <2>5. First(answer) = answer[first]
    BY DEF First, L
  <2> HIDE DEF first
  <2> QED
    BY <1>1, <1>3, <2>4, <2>5
<1> QED
  BY <1>5, <1>6 DEF NewCount, New, L

(* The notification has its type, and its offer is for a new update. *)
LEMMA NotificationFacts ==
  ASSUME NEW answer \in Answers, NewCount(answer) # 0
  PROVE  LET note == BuildNotification(answer, NewCount(answer))
         IN  note \in Notifications /\ (note.offers => IsNew(note.offer) /\ ~note.offer.present)
<1> DEFINE c == NewCount(answer)
           u == First(answer)
           offers == c = 1 /\ ~u.present
<1>1. c \in Nat /\ u \in UpdateInfos /\ (IsNew(u) \/ u.raw)
  BY AnswerFacts
<1>2. u.raw => u.present
  BY <1>1 DEF UpdateInfos
<1>3. BuildNotification(answer, c) =
        [count |-> c, offers |-> offers, offer |-> IF offers THEN u ELSE NoUpdate]
  BY DEF BuildNotification
<1> HIDE DEF c, u
<1>4. offers \in BOOLEAN
  OBVIOUS
<1>5. offers => IsNew(u) /\ ~u.present
  BY <1>1, <1>2
<1> HIDE DEF offers
<1>6. BuildNotification(answer, c) \in Notifications
  BY <1>1, <1>3, <1>4 DEF Notifications
<1>7. /\ BuildNotification(answer, c).offers = offers
      /\ offers => BuildNotification(answer, c).offer = u
  BY <1>3
<1> QED
  BY <1>5, <1>6, <1>7 DEF c

(* The alarm keeps its type. *)
LEMMA AlarmType ==
  ASSUME NEW i \in Int, ScheduleUpdateService(i)
  PROVE  alarm' \in Alarms
  BY DEF ScheduleUpdateService, NoAlarm, Alarms

(* An interval in milliseconds is a number. *)
LEMMA MillisType ==
  ASSUME NEW f \in Intervals
  PROVE  Millis(f) \in Int
<1>1. f \in Int
  BY FrequenciesAssumption DEF Intervals, UPDATE_FREQ_WEEKLY
<1>2. 2^29 = 536870912 /\ 2^28 = 268435456
  OBVIOUS
<1> QED
  BY <1>1, <1>2 DEF Millis

(* What onReceive does after its early returns. *)
LEMMA HandleFrequencyType ==
  ASSUME TypeInv, requests' = requests, NEW b, HandleFrequency(b)
  PROVE  /\ alarm' \in Alarms
         /\ looper' \in Seq(Messages) /\ records' \in {records, records + 1}
         /\ records' \in Nat /\ record' \in 0..records' /\ QueueInv'
<1>1. alarm' \in Alarms
  <2>1. freq \in Intervals /\ alarm \in Alarms
    BY DEF TypeInv, TypeOK, Intervals
  <2>2. Millis(freq) \in Int
    BY <2>1, MillisType
  <2> QED
    BY <2>1, <2>2, AlarmType DEF HandleFrequency
<1>2. CASE StartService(ACTION_CHECK)
  <2>1. ACTION_CHECK \in Actions
    BY DEF Actions
  <2> QED
    BY <1>1, <1>2, <2>1, StartServiceStep
<1>3. CASE NoService
  BY <1>1, <1>3 DEF NoService, TypeInv, TypeOK, QueueInv
<1> QED
  BY <1>2, <1>3 DEF HandleFrequency

(* stopSelf, and the head of the queue is taken. *)
LEMMA PostBusType ==
  ASSUME TypeInv, looper # <<>>, NEW i, PostBus(i), records' = records, requests' = requests
  PROVE  awaiting' \in BOOLEAN /\ record' \in 0..records' /\ looper' \in Seq(Messages) /\ QueueInv'
<1>1. record \in 0..records /\ records \in Nat /\ requests \in Seq([record : Records, asked : Actions, flying : BOOLEAN])
  BY DEF TypeInv, TypeOK
<1>2. awaiting' \in BOOLEAN
  BY Zenon DEF PostBus
<1>3. record' \in 0..records'
  BY <1>1, SMT DEF PostBus
<1>4. Len(requests) <= Len(requests')
  BY <1>1, SMT
<1> QED
  BY <1>2, <1>3, <1>4, TailStep DEF PostBus

(* A start uses up one of the starts there may be. *)
LEMMA BoundStep ==
  ASSUME TypeInv, booting' = booting, records' \in {records, records + 1},
         NEW k \in {"connectivity", "appStart", "refresh", "alarm"}, Use(k)
  PROVE  used' \in [Kinds -> Nat] /\ BoundInv'
<1>1. k \in Kinds /\ used \in [Kinds -> Nat] /\ \A j \in Kinds : used[j] <= MaxEvents[j]
  BY DEF Kinds, TypeInv, TypeOK, BoundInv
<1>2. /\ used' \in [Kinds -> Nat] /\ \A j \in Kinds : used'[j] <= MaxEvents[j]
      /\ Starts' = Starts + 1
  BY <1>1, UseStep
<1>3. Starts \in Nat
  BY <1>1, SMT DEF Starts, Kinds
<1>4. records \in Nat /\ booting \in BOOLEAN /\ records + (IF booting THEN 1 ELSE 0) <= Starts
  BY DEF TypeInv, TypeOK, BoundInv
<1>5. records' + (IF booting' THEN 1 ELSE 0) <= Starts'
  <2>1. records' = records \/ records' = records + 1
    OBVIOUS
  <2> DEFINE b == IF booting THEN 1 ELSE 0
             s == Starts
             t == Starts'
  <2>2. (IF booting' THEN 1 ELSE 0) = b
    OBVIOUS
  <2>3. b \in Nat /\ records + b <= s /\ s \in Nat /\ t = s + 1 /\ records \in Nat
    BY <1>2, <1>3, <1>4
  <2> HIDE DEF b, s, t
  <2>4. records + b <= t /\ (records + 1) + b <= t
    BY <2>3, SMT
  <2> QED
    BY <2>1, <2>2, <2>4, Zenon DEF t
<1> QED
  BY <1>2, <1>5 DEF BoundInv

(* So does an event that starts no service, and one may use up nothing. *)
LEMMA BoundUse ==
  ASSUME TypeInv, booting' = booting, records' = records,
         NEW k \in {"preference", "attach", "death"}, Use(k)
  PROVE  used' \in [Kinds -> Nat] /\ BoundInv'
<1>1. k \in Kinds /\ used \in [Kinds -> Nat] /\ \A j \in Kinds : used[j] <= MaxEvents[j]
  BY DEF Kinds, TypeInv, TypeOK, BoundInv
<1>2. /\ used' \in [Kinds -> Nat] /\ \A j \in Kinds : used'[j] <= MaxEvents[j]
      /\ Starts <= Starts'
  BY <1>1, UseStep
<1>3. Starts \in Nat /\ Starts' \in Nat
  BY <1>1, <1>2, SMT DEF Starts, Kinds
<1>4. records \in Nat /\ booting \in BOOLEAN /\ records + (IF booting THEN 1 ELSE 0) <= Starts
  BY DEF TypeInv, TypeOK, BoundInv
<1>5. records' + (IF booting' THEN 1 ELSE 0) <= Starts'
  BY <1>2, <1>3, <1>4, SMT
<1> QED
  BY <1>2, <1>5 DEF BoundInv

LEMMA BoundSame ==
  ASSUME TypeInv, booting' = booting, records' = records, used' = used
  PROVE  used' \in [Kinds -> Nat] /\ BoundInv'
  BY DEF TypeInv, TypeOK, BoundInv, Starts

(* A step that leaves queue and records alone and takes no request away. *)
LEMMA QueueSame ==
  ASSUME TypeInv, looper' = looper, records' = records, requests' = requests
  PROVE  looper' \in Seq(Messages) /\ QueueInv'
  BY DEF TypeInv, TypeOK, QueueInv

(* Every step of the environment keeps the types. *)
LEMMA EnvironmentType ==
  ASSUME TypeInv, Environment
  PROVE  TypeInv'
<1> USE DEF settings, service, ui
<1>0. /\ TypeOK /\ BoundInv /\ QueueInv
      /\ freq \in Intervals
      /\ records \in Nat /\ record \in 0..records
  BY DEF TypeInv, TypeOK, Intervals
<1>1. CASE Boot
  <2>1. Use("boot") /\ "boot" \in Kinds
    BY <1>1 DEF Boot, Kinds
  <2>2. used \in [Kinds -> Nat] /\ \A j \in Kinds : used[j] <= MaxEvents[j]
    BY <1>0 DEF TypeOK, BoundInv
  <2>3. /\ used' \in [Kinds -> Nat] /\ \A j \in Kinds : used'[j] <= MaxEvents[j]
        /\ Starts' = Starts + 1
    BY <2>1, <2>2, UseStep
  <2>4. Starts \in Nat
    BY <2>2, SMT DEF Starts, Kinds
  <2>5. booting \in BOOLEAN /\ records + (IF booting THEN 1 ELSE 0) <= Starts
    BY <1>0 DEF TypeOK, BoundInv
  <2>6. records' = records /\ booting' = TRUE
    BY <1>1 DEF Boot
  <2>7. BoundInv'
    <3>1. records' + (IF booting' THEN 1 ELSE 0) <= Starts'
      BY <1>0, <2>3, <2>4, <2>5, <2>6, SMT
    <3> QED
      BY <2>3, <3>1 DEF BoundInv
  <2>8. looper' = <<>> /\ requests' = <<>> /\ record' = 0
    BY <1>1 DEF Boot
  <2>9. QueueInv'
    BY <2>8, SMT DEF QueueInv
  <2>10. record' \in 0..records' /\ records' \in Nat
    BY <1>0, <2>6, <2>8, SMT
  <2>11. /\ freq' \in Frequencies \cup {UPDATE_FREQ_WEEKLY} /\ bootDone' \in BOOLEAN
         /\ booting' \in BOOLEAN
    BY <1>0, <1>1 DEF Boot, TypeOK
  <2>12. alarm' \in Alarms
    BY <1>1 DEF Boot, Alarms, NoAlarm
  <2>13. mAction' \in [Records -> Actions]
    BY <1>1 DEF Boot, Actions
  <2>14. notification' \in Notifications
    BY <1>1 DEF Boot, NoNotification, Notifications
  <2>15. attached' \in BOOLEAN /\ awaiting' \in BOOLEAN
    BY <1>1 DEF Boot
  <2>16. looper' \in Seq(Messages) /\ requests' \in Seq([record : Records, asked : Actions, flying : BOOLEAN])
    BY <2>8
  <2> QED
    BY <2>3, <2>7, <2>9, <2>10, <2>11, <2>12, <2>13, <2>14, <2>15, <2>16, Zenon DEF TypeInv, TypeOK
<1>2. CASE BootCompleted
  <2>1. /\ booting /\ booting' = FALSE /\ used' = used
        /\ freq' = freq /\ mAction' = mAction /\ requests' = requests
        /\ notification' = notification /\ attached' = attached /\ awaiting' = awaiting
    BY <1>2 DEF BootCompleted
  <2>2. /\ alarm' \in Alarms /\ bootDone' \in BOOLEAN
        /\ looper' \in Seq(Messages) /\ records' \in {records, records + 1}
        /\ records' \in Nat /\ record' \in 0..records' /\ QueueInv'
    <3>1. CASE freq = UPDATE_FREQ_NONE
      <4>1. UNCHANGED <<looper, record, records, alarm, bootDone>>
        BY <1>2, <3>1 DEF BootCompleted, NoService
      <4> QED
        BY <1>0, <2>1, <4>1 DEF TypeOK, QueueInv
    <3>2. CASE freq # UPDATE_FREQ_NONE
      <4>1. bootDone' = FALSE /\ HandleFrequency(FALSE)
        BY <1>2, <3>2 DEF BootCompleted
      <4> QED
        BY <2>1, <4>1, HandleFrequencyType
    <3> QED
      BY <3>1, <3>2
  <2>3. BoundInv'
    <3>1. records + 1 <= Starts
      BY <1>0, <2>1 DEF BoundInv
    <3>2. Starts' = Starts /\ \A k \in Kinds : used'[k] <= MaxEvents[k]
      BY <1>0, <2>1 DEF Starts, BoundInv
    <3>3. used \in [Kinds -> Nat]
      BY <1>0 DEF TypeOK
    <3>4. Starts \in Nat
      BY <3>3, SMT DEF Starts, Kinds
    <3>5. records' + (IF booting' THEN 1 ELSE 0) <= Starts'
      <4>1. records' = records \/ records' = records + 1
        BY <2>2
      <4>2. (IF booting' THEN 1 ELSE 0) = 0
        BY <2>1
      <4> QED
        BY <1>0, <3>1, <3>2, <3>4, <4>1, <4>2, SMT
    <3> QED
      BY <3>2, <3>5 DEF BoundInv
  <2> QED
    BY <1>0, <2>1, <2>2, <2>3, Zenon DEF TypeInv, TypeOK
<1>3. CASE ConnectivityChange
  <2>1. /\ Use("connectivity") /\ HandleFrequency(bootDone)
        /\ UNCHANGED <<freq, bootDone, booting, mAction, requests, notification, attached, awaiting>>
    BY <1>3 DEF ConnectivityChange
  <2>2. /\ alarm' \in Alarms
        /\ looper' \in Seq(Messages) /\ records' \in {records, records + 1}
        /\ records' \in Nat /\ record' \in 0..records' /\ QueueInv'
    BY <2>1, HandleFrequencyType
  <2>3. used' \in [Kinds -> Nat] /\ BoundInv'
    BY <2>1, <2>2, BoundStep
  <2> QED
    BY <1>0, <2>1, <2>2, <2>3, Zenon DEF TypeInv, TypeOK
<1>4. CASE AppStart
  <2>1. /\ Use("appStart")
        /\ StartService(ACTION_CHECK) \/ NoService
        /\ UNCHANGED <<freq, bootDone, alarm, booting, mAction, requests, notification, attached, awaiting>>
    BY <1>4 DEF AppStart
  <2>2. /\ looper' \in Seq(Messages) /\ records' \in {records, records + 1}
        /\ records' \in Nat /\ record' \in 0..records' /\ QueueInv'
    <3>1. ACTION_CHECK \in Actions
      BY DEF Actions
    <3>2. CASE StartService(ACTION_CHECK)
      BY <2>1, <3>1, <3>2, StartServiceStep
    <3>3. CASE NoService
      BY <1>0, <2>1, <3>3, QueueSame DEF NoService
    <3> QED
      BY <2>1, <3>2, <3>3
  <2>3. used' \in [Kinds -> Nat] /\ BoundInv'
    BY <2>1, <2>2, BoundStep
  <2> QED
    BY <1>0, <2>1, <2>2, <2>3, Zenon DEF TypeInv, TypeOK
<1>5. CASE AlarmFires
  <2>1. /\ Use("alarm") /\ StartService(ACTION_CHECK)
        /\ alarm' = alarm \/ alarm' = NoAlarm
        /\ UNCHANGED <<freq, bootDone, booting, mAction, requests, notification, attached, awaiting>>
    BY <1>5 DEF AlarmFires
  <2>2. /\ looper' \in Seq(Messages) /\ records' \in {records, records + 1}
        /\ records' \in Nat /\ record' \in 0..records' /\ QueueInv'
    <3>1. ACTION_CHECK \in Actions
      BY DEF Actions
    <3> QED
      BY <2>1, <3>1, StartServiceStep
  <2>3. used' \in [Kinds -> Nat] /\ BoundInv'
    BY <2>1, <2>2, BoundStep
  <2>4. alarm' \in Alarms
    <3>1. NoAlarm \in Alarms
      BY DEF NoAlarm, Alarms
    <3> QED
      BY <1>0, <2>1, <3>1 DEF TypeOK
  <2> QED
    BY <1>0, <2>1, <2>2, <2>3, <2>4, Zenon DEF TypeInv, TypeOK
<1>6. ASSUME NEW value \in Frequencies, OnPreferenceChange(value)
      PROVE  TypeInv'
  <2>1. /\ Use("preference") /\ freq' = value /\ ScheduleUpdateService(Millis(value))
        /\ UNCHANGED <<bootDone, booting, looper, record, records, mAction, requests, notification,
                       attached, awaiting>>
    BY <1>6 DEF OnPreferenceChange
  <2>2. alarm' \in Alarms
    <3>1. Millis(value) \in Int
      BY MillisType DEF Intervals
    <3> QED
      BY <2>1, <3>1, AlarmType
  <2>3. used' \in [Kinds -> Nat] /\ BoundInv'
    BY <2>1, BoundUse
  <2>4. looper' \in Seq(Messages) /\ QueueInv'
    BY <2>1, QueueSame
  <2> QED
    BY <1>0, <2>1, <2>2, <2>3, <2>4, Zenon DEF TypeInv, TypeOK
<1>7. CASE RefreshUpdates
  <2>1. /\ Use("refresh") /\ StartService(ACTION_CHECK_UI) /\ awaiting' = TRUE
        /\ UNCHANGED <<freq, bootDone, alarm, booting, mAction, requests, notification, attached>>
    BY <1>7 DEF RefreshUpdates
  <2>2. /\ looper' \in Seq(Messages) /\ records' \in {records, records + 1}
        /\ records' \in Nat /\ record' \in 0..records' /\ QueueInv'
    <3>1. ACTION_CHECK_UI \in Actions
      BY DEF Actions
    <3> QED
      BY <2>1, <3>1, StartServiceStep
  <2>3. used' \in [Kinds -> Nat] /\ BoundInv'
    BY <2>1, <2>2, BoundStep
  <2> QED
    BY <1>0, <2>1, <2>2, <2>3, Zenon DEF TypeInv, TypeOK
<1>8. CASE FragmentStart
  <2>1. /\ Use("attach") /\ attached' = TRUE
        /\ UNCHANGED <<freq, bootDone, alarm, booting, looper, record, records, mAction, requests,
                       notification, awaiting>>
    BY <1>8 DEF FragmentStart
  <2>2. used' \in [Kinds -> Nat] /\ BoundInv'
    BY <2>1, BoundUse
  <2>3. looper' \in Seq(Messages) /\ QueueInv'
    BY <2>1, QueueSame
  <2> QED
    BY <1>0, <2>1, <2>2, <2>3, Zenon DEF TypeInv, TypeOK
<1>9. CASE FragmentStop
  <2>1. /\ attached' = FALSE
        /\ UNCHANGED <<freq, bootDone, alarm, booting, looper, record, records, mAction, requests,
                       notification, awaiting, used>>
    BY <1>9 DEF FragmentStop
  <2>2. used' \in [Kinds -> Nat] /\ BoundInv'
    BY <2>1, BoundSame
  <2>3. looper' \in Seq(Messages) /\ QueueInv'
    BY <2>1, QueueSame
  <2> QED
    BY <1>0, <2>1, <2>2, <2>3, Zenon DEF TypeInv, TypeOK
<1>10. CASE ProcessDeath
  <2>1. /\ Use("death") /\ requests' = <<>> /\ mAction' = [i \in Records |-> ACTION_CHECK]
        /\ attached' = FALSE /\ awaiting' = FALSE
        /\ UNCHANGED <<freq, bootDone, alarm, booting, record, records, notification>>
        /\ \/ looper' = Pending(looper, record)
           \/ looper' = <<NullCommand(record)>>
    BY <1>10 DEF ProcessDeath
  <2>2. used' \in [Kinds -> Nat] /\ BoundInv'
    BY <2>1, BoundUse
  <2>3. mAction' \in [Records -> Actions]
    BY <2>1 DEF Actions
  <2>4. requests' \in Seq([record : Records, asked : Actions, flying : BOOLEAN])
    BY <2>1
  <2>5. looper \in Seq(Messages)
    BY <1>0 DEF TypeOK
  <2>6. CASE looper' = Pending(looper, record)
    <3> DEFINE C == {looper[k] : k \in {j \in 1..Len(looper) :
                                          looper[j].what = "command" /\ looper[j].to = record}}
    <3>1. looper' \in Seq(C)
      BY <2>5, <2>6, PendingType
    <3>2. \A m \in C : m \in Messages /\ m.what = "command" /\ m.to \in 1..records
      <4>1. \A k \in 1..Len(looper) : looper[k] \in Messages
        BY <2>5
      <4>2. \A k \in 1..Len(looper) : looper[k].what = "command" => looper[k].to \in 1..records
        BY <1>0, Zenon DEF QueueInv, Known
      <4> QED
        BY <4>1, <4>2, Zenon
    <3> HIDE DEF C
    <3>3. /\ looper' \in Seq(Messages)
          /\ \A k \in 1..Len(looper') : looper'[k] \in C
      BY <3>1, <3>2
    <3>4. QueueInv'
      <4>1. \A k \in 1..Len(looper') : looper'[k].what = "command" /\ looper'[k].to \in 1..records'
        BY <2>1, <3>2, <3>3
      <4>2. \A m : m.what = "command" /\ m.to \in 1..records' => Known(m, records', Len(requests'))
        BY DEF Known
      <4> QED
        BY <4>1, <4>2, Zenon DEF QueueInv
    <3> QED
      BY <1>0, <2>1, <2>2, <2>3, <2>4, <3>3, <3>4, Zenon DEF TypeInv, TypeOK
  <2>7. CASE looper' = <<NullCommand(record)>>
    <3>1. NullCommand(record) \in Messages
      <4>1. record \in Nat
        BY <1>0, SMT
      <4> QED
        BY <4>1 DEF NullCommand, Messages, Actions
    <3>2. looper' \in Seq(Messages) /\ \A k \in 1..Len(looper') : looper'[k] = NullCommand(record)
      BY <2>7, <3>1
    <3>3. NullCommand(record).what = "null"
      BY DEF NullCommand
    <3>4. QueueInv'
      <4>1. \A k \in 1..Len(looper') : looper'[k].what = "null"
        BY <3>2, <3>3, Zenon
      <4>2. "null" # "command" /\ "null" # "answer"
        OBVIOUS
      <4> QED
        BY <4>1, <4>2, Zenon DEF QueueInv, Known
    <3> QED
      BY <1>0, <2>1, <2>2, <2>3, <2>4, <3>2, <3>4, Zenon DEF TypeInv, TypeOK
  <2> QED
    BY <2>1, <2>6, <2>7
<1> QED
  BY <1>1, <1>2, <1>3, <1>4, <1>5, <1>6, <1>7, <1>8, <1>9, <1>10 DEF Environment

(* So does every message of the looper. *)
LEMMA DispatcherType ==
  ASSUME TypeInv, Dispatcher
  PROVE  TypeInv'
<1> USE DEF settings, service, ui
<1>0. /\ TypeOK /\ BoundInv /\ QueueInv
      /\ records \in Nat /\ record \in 0..records
      /\ requests \in Seq([record : Records, asked : Actions, flying : BOOLEAN])
      /\ Len(requests) <= Len(requests)
  <2>1. TypeOK /\ BoundInv /\ QueueInv
    BY DEF TypeInv
  <2>2. requests \in Seq([record : Records, asked : Actions, flying : BOOLEAN])
    BY <2>1 DEF TypeOK
  <2>3. Len(requests) <= Len(requests)
    BY <2>2, SMT
  <2> QED
    BY <2>1, <2>2, <2>3 DEF TypeOK
<1>1. ASSUME NEW online \in BOOLEAN, OnStartCommand(online)
      PROVE  TypeInv'
  <2> DEFINE m == Head(looper)
  <2>1. /\ looper # <<>> /\ m.what = "command" /\ mAction' = [mAction EXCEPT ![m.to] = m.action]
        /\ UNCHANGED <<freq, bootDone, alarm, booting, records, notification, attached, used>>
        /\ \/ /\ requests' = Append(requests, Request(m.to, m.action))
              /\ looper' = Tail(looper)
              /\ UNCHANGED <<record, awaiting>>
           \/ PostBus(m.to) /\ UNCHANGED requests
    BY <1>1 DEF OnStartCommand, Dispatch
  <2>2. used' \in [Kinds -> Nat] /\ BoundInv'
    BY <2>1, BoundSame
  <2>3. looper \in Seq(Messages) /\ looper # <<>>
    BY <1>0, <2>1 DEF TypeOK
  <2>4. m \in Messages /\ m.to \in Records
    <3>1. m \in Messages /\ m = looper[1] /\ 1 \in 1..Len(looper)
      BY <2>3
    <3>2. m.to \in 1..records
      BY <1>0, <2>1, <3>1, Zenon DEF QueueInv, Known
    <3> QED
      BY <3>1, <3>2, RecordsBound
  <2> HIDE DEF m
  <2>5. m.action \in Actions
    BY <2>4 DEF Messages
  <2>6. mAction' \in [Records -> Actions]
    BY <1>0, <2>1, <2>4, <2>5 DEF TypeOK
  <2>7. CASE /\ requests' = Append(requests, Request(m.to, m.action))
             /\ looper' = Tail(looper)
             /\ UNCHANGED <<record, awaiting>>
    <3>1. Request(m.to, m.action) \in [record : Records, asked : Actions, flying : BOOLEAN]
      BY <2>4, <2>5 DEF Request
    <3>2. /\ requests' \in Seq([record : Records, asked : Actions, flying : BOOLEAN])
          /\ Len(requests) <= Len(requests')
      BY <1>0, <2>7, <3>1, SMT
    <3>3. looper' \in Seq(Messages) /\ QueueInv'
      BY <2>1, <2>7, <3>2, TailStep
    <3> QED
      BY <1>0, <2>1, <2>2, <2>6, <2>7, <3>2, <3>3, Zenon DEF TypeInv, TypeOK
  <2>8. CASE PostBus(m.to) /\ UNCHANGED requests
    <3>1. awaiting' \in BOOLEAN /\ record' \in 0..records' /\ looper' \in Seq(Messages) /\ QueueInv'
      BY <2>1, <2>8, PostBusType
    <3> QED
      BY <1>0, <2>1, <2>2, <2>6, <2>8, <3>1, Zenon DEF TypeInv, TypeOK
  <2> QED
    BY <2>1, <2>7, <2>8
<1>2. CASE OnNullCommand \/ DropCallback
  <2>1. /\ looper # <<>> /\ looper' = Tail(looper)
        /\ UNCHANGED <<freq, bootDone, alarm, booting, record, records, mAction, requests, notification,
                       attached, awaiting, used>>
    BY <1>2 DEF OnNullCommand, DropCallback, Dispatch
  <2>2. used' \in [Kinds -> Nat] /\ BoundInv'
    BY <2>1, BoundSame
  <2>3. looper' \in Seq(Messages) /\ QueueInv'
    BY <1>0, <2>1, TailStep
  <2> QED
    BY <1>0, <2>1, <2>2, <2>3, Zenon DEF TypeInv, TypeOK
<1>3. CASE CallbackError
  <2>1. /\ looper # <<>> /\ PostBus(Sender)
        /\ UNCHANGED <<freq, bootDone, alarm, booting, records, mAction, requests, notification,
                       attached, used>>
    BY <1>3 DEF CallbackError, Dispatch
  <2>2. used' \in [Kinds -> Nat] /\ BoundInv'
    BY <2>1, BoundSame
  <2>3. awaiting' \in BOOLEAN /\ record' \in 0..records' /\ looper' \in Seq(Messages) /\ QueueInv'
    BY <2>1, PostBusType
  <2> QED
    BY <1>0, <2>1, <2>2, <2>3, Zenon DEF TypeInv, TypeOK
<1>4. ASSUME NEW answer \in Answers, Callback(answer)
      PROVE  TypeInv'
  <2>1. /\ looper # <<>> /\ PostBus(Sender)
        /\ bootDone' = (bootDone \/ ~(mAction[Sender] = ACTION_CHECK_UI))
        /\ \/ notification' = notification
           \/ /\ NewCount(answer) # 0
              /\ notification' = BuildNotification(answer, NewCount(answer))
        /\ UNCHANGED <<freq, alarm, booting, records, mAction, requests, attached, used>>
    BY <1>4 DEF Callback, Dispatch, NewCount
  <2>2. used' \in [Kinds -> Nat] /\ BoundInv'
    BY <2>1, BoundSame
  <2>3. awaiting' \in BOOLEAN /\ record' \in 0..records' /\ looper' \in Seq(Messages) /\ QueueInv'
    BY <2>1, PostBusType
  <2>4. notification' \in Notifications
    BY <1>0, <2>1, NotificationFacts DEF TypeOK
  <2>5. bootDone' \in BOOLEAN
    BY <2>1, Zenon
  <2> QED
    BY <1>0, <2>1, <2>2, <2>3, <2>4, <2>5, Zenon DEF TypeInv, TypeOK
<1> QED
  BY <1>1, <1>2, <1>3, <1>4 DEF Dispatcher

(* And every answer of the server. *)
LEMMA ServerAnswersType ==
  ASSUME TypeInv, NEW q \in DOMAIN requests, NEW ok \in BOOLEAN, ServerAnswers(q, ok)
  PROVE  TypeInv'
<1> USE DEF settings, ui
<1> DEFINE R == [record : Records, asked : Actions, flying : BOOLEAN]
<1>1. TypeOK /\ BoundInv /\ QueueInv /\ looper \in Seq(Messages) /\ requests \in Seq(R)
  BY DEF TypeInv, TypeOK
<1>2. /\ requests' = [requests EXCEPT ![q].flying = FALSE]
      /\ looper' = Append(looper, Answer(q, ok))
      /\ UNCHANGED <<freq, bootDone, alarm, booting, record, records, mAction, notification,
                     attached, awaiting, used>>
  BY DEF ServerAnswers
<1>3. used' \in [Kinds -> Nat] /\ BoundInv'
  BY <1>2, BoundSame
<1>4. requests' \in Seq(R) /\ Len(requests') = Len(requests) /\ q \in 1..Len(requests)
  <2> HIDE DEF R
  <2>1. q \in 1..Len(requests) /\ requests[q] \in R
    BY <1>1
  <2> USE DEF R
  <2>2. [requests[q] EXCEPT !.flying = FALSE] \in R
    BY <2>1
  <2>3. requests' = [requests EXCEPT ![q] = [requests[q] EXCEPT !.flying = FALSE]]
    BY <1>2
  <2> HIDE DEF R
  <2> QED
    BY <1>1, <2>1, <2>2, <2>3
<1>5. Answer(q, ok) \in Messages
  <2>1. q \in Nat
    BY <1>1, <1>4, SMT
  <2> QED
    BY <2>1 DEF Answer, Messages, Actions
<1>6. /\ looper' \in Seq(Messages) /\ Len(looper') = Len(looper) + 1 /\ Len(looper) \in Nat
      /\ \A k \in 1..Len(looper) : looper'[k] = looper[k]
      /\ looper'[Len(looper) + 1] = Answer(q, ok)
  BY <1>1, <1>2, <1>5, SMT
<1>7. Known(Answer(q, ok), records', Len(requests'))
  BY <1>4 DEF Known, Answer
<1>8. ASSUME NEW k \in 1..Len(looper') PROVE Known(looper'[k], records', Len(requests'))
  <2>1. CASE k \in 1..Len(looper)
    BY <1>1, <1>2, <1>4, <1>6, <2>1 DEF QueueInv
  <2>2. CASE k = Len(looper) + 1
    <3>1. looper'[k] = Answer(q, ok)
      BY <1>6, <2>2
    <3> QED
      BY <1>7, <3>1
  <2>3. k \in 1..Len(looper) \/ k = Len(looper) + 1
    BY <1>6, SMT
  <2> QED
    BY <2>1, <2>2, <2>3
<1>9. QueueInv'
  BY <1>8 DEF QueueInv
<1> QED
  BY <1>1, <1>2, <1>3, <1>4, <1>6, <1>9, Zenon DEF TypeInv, TypeOK

LEMMA TypeStep ==
  ASSUME TypeInv, [Next]_vars
  PROVE  TypeInv'
<1>1. CASE UNCHANGED vars
  BY <1>1 DEF vars, settings, service, ui, TypeInv, TypeOK, BoundInv, Starts, QueueInv
<1> QED
  BY <1>1, DispatcherType, EnvironmentType, ServerAnswersType DEF Next

LEMMA TypeInit ==
  ASSUME Init
  PROVE  TypeInv
<1>1. looper = <<>> /\ records = 0 /\ used = [k \in Kinds |-> 0] /\ booting = FALSE
  BY DEF Init
<1>2. BoundInv
  <2>1. \A k \in Kinds : used[k] = 0 /\ MaxEvents[k] \in Nat
    BY <1>1, MaxAssumption
  <2>2. Starts = 0
    BY <2>1, SMT DEF Starts, Kinds
  <2> QED
    BY <1>1, <2>1, <2>2, SMT DEF BoundInv
<1>3. QueueInv
  BY <1>1, SMT DEF QueueInv
<1>4. alarm \in Alarms /\ mAction \in [Records -> Actions] /\ used \in [Kinds -> Nat]
  BY DEF Init, NoAlarm, Alarms, Actions
<1>5. notification \in Notifications
  BY DEF Init, NoNotification, Notifications
<1>6. /\ freq \in Frequencies \cup {UPDATE_FREQ_WEEKLY} /\ bootDone \in BOOLEAN /\ booting \in BOOLEAN
      /\ attached \in BOOLEAN /\ awaiting \in BOOLEAN
  BY Zenon DEF Init
<1>7. /\ looper \in Seq(Messages) /\ records \in Nat /\ record \in 0..records
      /\ requests \in Seq([record : Records, asked : Actions, flying : BOOLEAN])
  BY SMT DEF Init
<1> QED
  BY <1>2, <1>3, <1>4, <1>5, <1>6, <1>7, Zenon DEF TypeInv, TypeOK

-----------------------------------------------------------------------------
(* The update check keeps its types: no command is for a service that was    *)
(* never started and no answer for a request that was never sent, whatever   *)
(* boots and deaths of the process drop or deliver again.                    *)
THEOREM CheckTypeCorrect == Spec => []TypeOK
<1>1. Init => TypeInv
  BY TypeInit
<1>2. TypeInv /\ [Next]_vars => TypeInv'
  BY TypeStep
<1>3. TypeInv => TypeOK
  BY DEF TypeInv
<1> QED BY <1>1, <1>2, <1>3, PTL DEF Spec

(* No step offers an update that is old or downloaded. *)
LEMMA OfferStep ==
  ASSUME OfferIsNew, [Next]_vars
  PROVE  OfferIsNew'
<1>1. CASE notification' = notification
  BY <1>1 DEF OfferIsNew, IsNew, ParseDate
<1>2. CASE notification' = NoNotification
  <2>1. ~notification'.offers
    BY <1>2 DEF NoNotification
  <2> QED
    BY <2>1 DEF OfferIsNew
<1>3. ASSUME NEW answer \in Answers, Callback(answer) PROVE OfferIsNew'
  <2>1. CASE /\ NewCount(answer) # 0
             /\ notification' = BuildNotification(answer, NewCount(answer))
    <3>1. notification'.offers => IsNew(notification'.offer) /\ ~notification'.offer.present
      BY <2>1, NotificationFacts
    <3> QED
      BY <3>1 DEF OfferIsNew, IsNew, ParseDate
  <2> QED
    BY <1>1, <1>3, <2>1 DEF Callback, NewCount
<1>4. CASE Environment
  <2>1. notification' = notification \/ notification' = NoNotification
    BY <1>4 DEF Environment, Boot, BootCompleted, ConnectivityChange, AppStart, AlarmFires,
       OnPreferenceChange, RefreshUpdates, FragmentStart, FragmentStop, ProcessDeath
  <2> QED
    BY <1>1, <1>2, <2>1
<1>5. CASE Dispatcher
  <2>1. \/ notification' = notification
        \/ \E answer \in Answers : Callback(answer)
    BY <1>5 DEF Dispatcher, OnStartCommand, OnNullCommand, DropCallback, CallbackError
  <2> QED
    BY <1>1, <1>3, <2>1
<1>6. CASE \E q \in DOMAIN requests, ok \in BOOLEAN : ServerAnswers(q, ok)
  BY <1>1, <1>6 DEF ServerAnswers
<1>7. CASE UNCHANGED vars
  BY <1>1, <1>7 DEF vars
<1> QED
  BY <1>4, <1>5, <1>6, <1>7 DEF Next

(* Whatever answers arrive, in whatever order, the update that the           *)
(* notification offers to download is newer than the system and not          *)
(* downloaded, although it is taken from the head of a list that also holds  *)
(* old updates: a list with one new update has no old one before it that is  *)
(* not downloaded.                                                           *)
THEOREM OfferedIsNew == Spec => []OfferIsNew
<1>1. Init => OfferIsNew
  <2> SUFFICES ASSUME Init PROVE OfferIsNew
    OBVIOUS
  <2>1. ~notification.offers
    BY DEF Init, NoNotification
  <2> QED
    BY <2>1 DEF OfferIsNew
<1>2. OfferIsNew /\ [Next]_vars => OfferIsNew'
  BY OfferStep
<1> QED BY <1>1, <1>2, PTL DEF Spec

====
