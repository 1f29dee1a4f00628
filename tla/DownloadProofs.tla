--------------------------- MODULE DownloadProofs ---------------------------
(***************************************************************************)
(* Proofs about Download, for every set of ids and threads and every bound *)
(* on the environment.                                                     *)
(***************************************************************************)
EXTENDS Download, FiniteSetTheorems, TLAPS

(* What the looper's queue and the bus know of a runnable with record rec:   *)
(* an unregistered runnable that exists has its startup queued, ahead of     *)
(* everything that tears it down, and unless it posted one of these before   *)
(* its end, it is torn down once and only after its run is over.  A transfer *)
(* belongs to a runnable that exists, and a percentage of 101 is premature.  *)
Sound(rec) ==
  /\ rec.transfer = "active" => rec.pc \notin {"none", "gone"}
  /\ rec.old = Done => rec.premature

Good(q, rec, r) ==
  /\ Sound(rec)
  /\ rec.pc \notin {"none", "gone"} /\ rec.bus = "never" => Starts(q, r)
  /\ rec.bus = "never" => StartsFirst(q, r)
  /\ ~rec.premature => EndsOnce(q, r) /\ (Ends(q, r) => rec.bus # "unregistered")
  /\ ~rec.premature /\ (Ends(q, r) \/ rec.bus = "unregistered") => rec.pc = "finished"

BusInv == \A r \in Runnables : Good(handler, run[r], r)

(* The work queue holds the queued runnables, each once. *)
QueueInv ==
  /\ \A k \in DOMAIN mWorkQueue : run[mWorkQueue[k]].pc = "queued"
  /\ \A j, k \in DOMAIN mWorkQueue : mWorkQueue[j] = mWorkQueue[k] => j = k

(* A runnable has no future before enqueueDownload, and stays listed until   *)
(* its future has settled.                                                   *)
Early == {"none", "queued", "ready", "begun", "rejected", "drained", "gone"}
FutureInv ==
  \A r \in Runnables : run[r].pc \in Early => run[r].future = "null"
ListInv ==
  \A r \in Runnables :
    run[r].pc \notin {"none", "gone"} /\ run[r].future \in {"null", "pending"}
      => r \in Elements(mRunnables)

LifeInv == QueueInv /\ FutureInv /\ ListInv

Inv == TypeOK /\ LifeInv /\ BusInv /\ ProducerMatchesFlag

-----------------------------------------------------------------------------
(* Sequences. *)

(* A queue followed by new messages. *)
LEMMA ConcatFacts ==
  ASSUME NEW S, NEW q \in Seq(S), NEW x \in Seq(S)
  PROVE  /\ q \o x \in Seq(S)
         /\ Len(q \o x) = Len(q) + Len(x)
         /\ \A k \in 1..Len(q) : (q \o x)[k] = q[k]
         /\ \A k \in 1..Len(x) : (q \o x)[Len(q) + k] = x[k]
  OBVIOUS

(* A queue without its first message. *)
LEMMA TailFacts ==
  ASSUME NEW S, NEW q \in Seq(S), q # <<>>
  PROVE  /\ Tail(q) \in Seq(S)
         /\ Head(q) \in S /\ Head(q) = q[1]
         /\ Len(q) \in Nat \ {0}
         /\ Len(Tail(q)) = Len(q) - 1
         /\ \A k \in 1..Len(Tail(q)) : Tail(q)[k] = q[k + 1]
  OBVIOUS

(* Appending one message is concatenation with a singleton. *)
LEMMA AppendFacts ==
  ASSUME NEW S, NEW q \in Seq(S), NEW m \in S
  PROVE  /\ Append(q, m) = q \o <<m>>
         /\ <<m>> \in Seq(S)
  OBVIOUS

(* If(cond, m) is a sequence of at most one message. *)
LEMMA IfFacts ==
  ASSUME NEW S, NEW m \in S, NEW c \in BOOLEAN
  PROVE  /\ If(c, m) \in Seq(S)
         /\ \A k \in DOMAIN If(c, m) : If(c, m)[k] = m /\ c
         /\ c => If(c, m) = <<m>>
         /\ ~c => If(c, m) = <<>>
  BY DEF If

(* Remove drops at most the element it is asked to drop. *)
LEMMA RemoveFacts ==
  ASSUME NEW S, NEW s \in Seq(S), NEW r
  PROVE  /\ Remove(s, r) \in Seq(S)
         /\ \A q \in Elements(s) : q # r => q \in Elements(Remove(s, r))
         /\ \A k \in DOMAIN Remove(s, r) : Remove(s, r)[k] \in Elements(s)
<1>1. CASE ~\E k \in DOMAIN s : s[k] = r
  BY <1>1 DEF Remove, Elements
<1>2. CASE \E k \in DOMAIN s : s[k] = r
  <2> DEFINE c == CHOOSE k \in DOMAIN s : s[k] = r
             u == SubSeq(s, 1, c - 1)
             v == SubSeq(s, c + 1, Len(s))
  <2>1. c \in 1..Len(s) /\ s[c] = r
    BY <1>2
  <2>2. Remove(s, r) = u \o v
    BY <1>2 DEF Remove, Without
  <2> HIDE DEF c
  <2>3. u \in Seq(S) /\ Len(u) = c - 1 /\ \A k \in 1..(c - 1) : u[k] = s[k]
    BY <2>1
  <2>4. /\ v \in Seq(S) /\ Len(v) = Len(s) - c
        /\ \A k \in 1..(Len(s) - c) : v[k] = s[c + k]
    BY <2>1
  <2> HIDE DEF u, v
  <2>5. /\ u \o v \in Seq(S) /\ Len(u \o v) = Len(s) - 1
        /\ \A k \in 1..(c - 1) : (u \o v)[k] = s[k]
        /\ \A k \in 1..(Len(s) - c) : (u \o v)[c - 1 + k] = s[c + k]
    <3>1. /\ u \o v \in Seq(S) /\ Len(u \o v) = Len(u) + Len(v)
          /\ \A k \in 1..Len(u) : (u \o v)[k] = u[k]
          /\ \A k \in 1..Len(v) : (u \o v)[Len(u) + k] = v[k]
      <4>1. u \in Seq(S) /\ v \in Seq(S)
        BY <2>3, <2>4
      <4> QED BY <4>1
    <3> QED BY <2>1, <2>3, <2>4, <3>1
  <2>6. ASSUME NEW k \in DOMAIN s, s[k] # r
        PROVE  \E j \in DOMAIN (u \o v) : (u \o v)[j] = s[k]
    <3>1. CASE k < c
      BY <2>1, <2>5, <2>6, <3>1
    <3>2. CASE k > c
      <4>1. k - c \in 1..(Len(s) - c)
        BY <2>1, <3>2
      <4>2. (u \o v)[c - 1 + (k - c)] = s[c + (k - c)]
        BY <2>5, <4>1
      <4>3. c - 1 + (k - c) = k - 1 /\ c + (k - c) = k
        BY <2>1
      <4>4. k - 1 \in DOMAIN (u \o v)
        BY <2>1, <2>5, <3>2
      <4> QED BY <4>2, <4>3, <4>4
    <3> QED BY <2>1, <2>6, <3>1, <3>2
  <2>7. ASSUME NEW j \in DOMAIN (u \o v)
        PROVE  \E k \in DOMAIN s : (u \o v)[j] = s[k]
    <3>1. CASE j < c
      BY <2>1, <2>5, <2>7, <3>1
    <3>2. CASE j >= c
      <4>1. j - c + 1 \in 1..(Len(s) - c) /\ j + 1 \in DOMAIN s
        BY <2>1, <2>5, <3>2
      <4>2. (u \o v)[c - 1 + (j - c + 1)] = s[c + (j - c + 1)]
        BY <2>5, <4>1
      <4>3. c - 1 + (j - c + 1) = j /\ c + (j - c + 1) = j + 1
        BY <2>1, <2>5
      <4> QED BY <4>1, <4>2, <4>3
    <3> QED BY <2>1, <2>5, <3>1, <3>2
  <2> DEFINE w == u \o v
  <2>8. w \in Seq(S)
    BY <2>5
  <2>9. \A k \in DOMAIN s : s[k] # r => \E j \in DOMAIN w : w[j] = s[k]
    BY <2>6
  <2>10. \A j \in DOMAIN w : \E k \in DOMAIN s : w[j] = s[k]
    BY <2>7
  <2>11. Remove(s, r) = w
    BY <2>2
  <2> HIDE DEF w
  <2> QED BY <2>8, <2>9, <2>10, <2>11 DEF Elements
<1> QED BY <1>1, <1>2

-----------------------------------------------------------------------------
(* The looper's queue. *)

(* What a queue holds for r after new messages x are added. *)
LEMMA QueueConcat ==
  ASSUME NEW q \in Seq(Messages), NEW x \in Seq(Messages), NEW r
  PROVE  /\ Starts(q \o x, r) <=> Starts(q, r) \/ Starts(x, r)
         /\ Ends(q \o x, r) <=> Ends(q, r) \/ Ends(x, r)
         /\ StartsFirst(q, r) /\ (Ends(x, r) => Starts(q, r)) => StartsFirst(q \o x, r)
         /\ EndsOnce(q, r) /\ EndsOnce(x, r) /\ ~(Ends(q, r) /\ Ends(x, r))
              => EndsOnce(q \o x, r)
<1> DEFINE n == Len(q)
           y == q \o x
<1>1. /\ n \in Nat /\ Len(x) \in Nat /\ DOMAIN q = 1..n /\ DOMAIN x = 1..Len(x)
      /\ DOMAIN y = 1..(n + Len(x))
      /\ \A k \in 1..n : y[k] = q[k]
      /\ \A k \in 1..Len(x) : y[n + k] = x[k]
  OBVIOUS
<1>2. \A k \in DOMAIN y : (k \in 1..n /\ y[k] = q[k])
                            \/ (k - n \in 1..Len(x) /\ y[k] = x[k - n] /\ k > n)
  OBVIOUS
<1> HIDE DEF n, y
<1>3. Starts(y, r) <=> Starts(q, r) \/ Starts(x, r)
  <2>1. Starts(y, r) => Starts(q, r) \/ Starts(x, r)
    BY <1>1, <1>2 DEF Starts
  <2>2. Starts(q, r) => Starts(y, r)
    BY <1>1 DEF Starts
  <2>3. ASSUME Starts(x, r) PROVE Starts(y, r)
    <3>1. PICK k \in 1..Len(x) : x[k] = Msg("startup", r, 0)
      BY <1>1, <2>3 DEF Starts
    <3>2. n + k \in DOMAIN y /\ y[n + k] = x[k]
      BY <1>1
    <3> QED BY <3>1, <3>2 DEF Starts
  <2> QED BY <2>1, <2>2, <2>3
<1>4. Ends(y, r) <=> Ends(q, r) \/ Ends(x, r)
  <2>1. Ends(y, r) => Ends(q, r) \/ Ends(x, r)
    BY <1>1, <1>2 DEF Ends
  <2>2. Ends(q, r) => Ends(y, r)
    BY <1>1 DEF Ends
  <2>3. ASSUME Ends(x, r) PROVE Ends(y, r)
    <3>1. PICK k \in 1..Len(x) : TearsDown(x[k], r)
      BY <1>1, <2>3 DEF Ends
    <3>2. n + k \in DOMAIN y /\ y[n + k] = x[k]
      BY <1>1
    <3> QED BY <3>1, <3>2 DEF Ends
  <2> QED BY <2>1, <2>2, <2>3
<1>5. ASSUME StartsFirst(q, r), Ends(x, r) => Starts(q, r)
      PROVE  StartsFirst(y, r)
  <2> SUFFICES ASSUME NEW k \in DOMAIN y, TearsDown(y[k], r)
               PROVE  \E j \in 1..(k - 1) : y[j] = Msg("startup", r, 0)
    BY DEF StartsFirst
  <2>1. CASE k \in 1..n /\ y[k] = q[k]
    <3>1. PICK j \in 1..(k - 1) : q[j] = Msg("startup", r, 0)
      BY <1>1, <1>5, <2>1 DEF StartsFirst
    <3> QED BY <1>1, <2>1, <3>1
  <2>2. CASE k - n \in 1..Len(x) /\ y[k] = x[k - n] /\ k > n
    <3>1. Starts(q, r)
      BY <1>1, <1>5, <2>2 DEF Ends
    <3>2. PICK j \in 1..n : q[j] = Msg("startup", r, 0)
      BY <1>1, <3>1 DEF Starts
    <3> QED BY <1>1, <2>2, <3>2
  <2> QED BY <1>2, <2>1, <2>2
<1>6. ASSUME EndsOnce(q, r), EndsOnce(x, r), ~(Ends(q, r) /\ Ends(x, r))
      PROVE  EndsOnce(y, r)
  <2> SUFFICES ASSUME NEW j \in DOMAIN y, NEW k \in DOMAIN y,
                      TearsDown(y[j], r), TearsDown(y[k], r)
               PROVE  j = k
    BY DEF EndsOnce
  <2>1. CASE j \in 1..n /\ y[j] = q[j] /\ k \in 1..n /\ y[k] = q[k]
    BY <1>1, <1>6, <2>1 DEF EndsOnce
  <2>2. CASE /\ j - n \in 1..Len(x) /\ y[j] = x[j - n] /\ j > n
             /\ k - n \in 1..Len(x) /\ y[k] = x[k - n] /\ k > n
    <3>1. j - n = k - n
      BY <1>1, <1>6, <2>2 DEF EndsOnce
    <3> QED BY <1>1, <2>2, <3>1
  <2> QED BY <1>1, <1>2, <1>6, <2>1, <2>2 DEF Ends
<1> QED BY <1>3, <1>4, <1>5, <1>6 DEF y

(* What remains of it when the first message is taken. *)
LEMMA QueueTail ==
  ASSUME NEW q \in Seq(Messages), q # <<>>, NEW r
  PROVE  /\ Starts(q, r) => Starts(Tail(q), r) \/ Head(q) = Msg("startup", r, 0)
         /\ Ends(Tail(q), r) => Ends(q, r)
         /\ StartsFirst(q, r) /\ Head(q) # Msg("startup", r, 0)
              => StartsFirst(Tail(q), r)
         /\ StartsFirst(q, r) => ~TearsDown(Head(q), r)
         /\ TearsDown(Head(q), r) => Ends(q, r)
         /\ EndsOnce(q, r) => EndsOnce(Tail(q), r)
         /\ EndsOnce(q, r) /\ TearsDown(Head(q), r) => ~Ends(Tail(q), r)
<1> DEFINE n == Len(q)
           y == Tail(q)
           h == Head(q)
<1>1. /\ n \in Nat \ {0} /\ DOMAIN q = 1..n /\ DOMAIN y = 1..(n - 1)
      /\ h = q[1]
      /\ \A k \in 1..(n - 1) : y[k] = q[k + 1]
  BY TailFacts
<1>2. \A k \in 1..n : k # 1 => k - 1 \in 1..(n - 1) /\ y[k - 1] = q[k]
  BY <1>1
<1> HIDE DEF n, y, h
<1>3. Starts(q, r) => Starts(y, r) \/ h = Msg("startup", r, 0)
  BY <1>1, <1>2 DEF Starts
<1>4. Ends(y, r) => Ends(q, r)
  BY <1>1, <1>2 DEF Ends
<1>5. ASSUME StartsFirst(q, r), h # Msg("startup", r, 0)
      PROVE  StartsFirst(y, r)
  <2> SUFFICES ASSUME NEW k \in DOMAIN y, TearsDown(y[k], r)
               PROVE  \E j \in 1..(k - 1) : y[j] = Msg("startup", r, 0)
    BY DEF StartsFirst
  <2>1. k + 1 \in DOMAIN q /\ TearsDown(q[k + 1], r) /\ k \in 1..(n - 1)
    BY <1>1
  <2>2. PICK j \in 1..k : q[j] = Msg("startup", r, 0)
    BY <1>1, <1>5, <2>1 DEF StartsFirst
  <2>3. j # 1
    BY <1>1, <1>5, <2>2
  <2>4. y[j - 1] = Msg("startup", r, 0) /\ j - 1 \in 1..(k - 1)
    BY <1>1, <1>2, <2>1, <2>2, <2>3
  <2> QED BY <2>4
<1>6. StartsFirst(q, r) => ~TearsDown(h, r)
  BY <1>1 DEF StartsFirst
<1>7. TearsDown(h, r) => Ends(q, r)
  BY <1>1 DEF Ends
<1>8. ASSUME EndsOnce(q, r)
      PROVE  EndsOnce(y, r) /\ (TearsDown(h, r) => ~Ends(y, r))
  <2>1. \A k \in DOMAIN y : k + 1 \in DOMAIN q /\ k + 1 # 1 /\ y[k] = q[k + 1]
    BY <1>1
  <2>2. ASSUME NEW j \in DOMAIN y, NEW k \in DOMAIN y,
               TearsDown(y[j], r), TearsDown(y[k], r)
        PROVE  j = k
    <3>1. j + 1 = k + 1
      BY <1>8, <2>1, <2>2 DEF EndsOnce
    <3> QED BY <1>1, <3>1
  <2>3. ASSUME NEW k \in DOMAIN y, TearsDown(y[k], r), TearsDown(h, r)
        PROVE  FALSE
    <3>1. 1 \in DOMAIN q /\ TearsDown(q[1], r) /\ TearsDown(q[k + 1], r)
      BY <1>1, <2>1, <2>3
    <3> QED BY <1>8, <2>1, <2>3, <3>1 DEF EndsOnce
  <2> QED BY <2>2, <2>3 DEF EndsOnce, Ends
<1> QED BY <1>3, <1>4, <1>5, <1>6, <1>7, <1>8 DEF y, h

(* A queue of one message, and the empty queue. *)
LEMMA QueueSingle ==
  ASSUME NEW m, NEW r
  PROVE  /\ Starts(<<m>>, r) <=> m = Msg("startup", r, 0)
         /\ Ends(<<m>>, r) <=> TearsDown(m, r)
         /\ EndsOnce(<<m>>, r)
         /\ ~Starts(<<>>, r) /\ ~Ends(<<>>, r)
         /\ EndsOnce(<<>>, r) /\ StartsFirst(<<>>, r)
  BY DEF Starts, Ends, EndsOnce, StartsFirst

-----------------------------------------------------------------------------
(* Types. *)

(* The messages the actions post are messages. *)
LEMMA MsgType ==
  /\ \A w \in {"startupService", "tearDownService", "refresh", "dummy"} :
       Msg(w, None, 0) \in Messages
  /\ Msg("error", None, REASON_UNKNOWN) \in Messages
  /\ \A r \in Runnables : /\ Msg("startup", r, 0) \in Messages
                          /\ \A a \in -1..3 : Msg("error", r, a) \in Messages
                          /\ \A a \in {0, 1} : Msg("complete", r, a) \in Messages
  /\ \A r \in Runnables : \A p \in Percentages \cup {0, Done} :
       Msg("progress", r, p) \in Messages
  /\ CommandMessages \subseteq Messages
  /\ \A d \in Ids : Command("start", d) \in CommandMessages
  /\ Command("stop", NoId) \in CommandMessages
  /\ Command("null", NoId) \in CommandMessages
  BY DEF Msg, Command, Messages, CommandMessages, Whats, Runnables, None, Done,
         REASON_UNKNOWN

(* A fresh main state is a main state. *)
LEMMA MainAtType ==
  \A at \in {"idle", "shutdownNow"} \cup Crashes : MainAt(at) \in MainStates
  BY DEF MainAt, MainStates, Crashes

(* The updates of the main state that cancelDownload makes. *)
LEMMA MainUpdates ==
  ASSUME NEW s \in MainStates
  PROVE  /\ s.i \in Nat \ {0} /\ s.len \in Nat /\ s.array \in Seq(Runnables \cup {None})
         /\ s.next \in {"idle", "shutdownNow"} /\ s.id \in Ids \cup {NoId}
         /\ s.at = "queued" => s.len = Len(s.array)
         /\ [s EXCEPT !.i = @ + 1] \in MainStates
         /\ \A d \in Ids \cup {NoId}, n \in Nat, next \in {"idle", "shutdownNow"} :
              [s EXCEPT !.at = "toArray", !.id = d, !.len = n, !.next = next]
                \in MainStates
         /\ \A n \in Nat, x \in Seq(Runnables \cup {None}) :
              [s EXCEPT !.at = "runnables", !.i = 1, !.len = n, !.array = x]
                \in MainStates
         /\ [s EXCEPT !.at = "queued", !.i = 1, !.len = Len(s.array)] \in MainStates
<1>1. /\ s.i \in Nat \ {0} /\ s.len \in Nat /\ s.array \in Seq(Runnables \cup {None})
      /\ s.next \in {"idle", "shutdownNow"} /\ s.id \in Ids \cup {NoId}
      /\ s.at = "queued" => s.len = Len(s.array)
  BY DEF MainStates
<1>2. [s EXCEPT !.i = @ + 1] \in MainStates
  BY DEF MainStates
<1>3. ASSUME NEW d \in Ids \cup {NoId}, NEW n \in Nat, NEW next \in {"idle", "shutdownNow"}
      PROVE  [s EXCEPT !.at = "toArray", !.id = d, !.len = n, !.next = next]
               \in MainStates
  BY DEF MainStates
<1>4. ASSUME NEW i \in Nat \ {0}, NEW n \in Nat, NEW x \in Seq(Runnables \cup {None})
      PROVE  [s EXCEPT !.at = "runnables", !.i = i, !.len = n, !.array = x]
               \in MainStates
  BY DEF MainStates
<1>5. ASSUME NEW i \in Nat \ {0}, NEW n \in Nat, n = Len(s.array)
      PROVE  [s EXCEPT !.at = "queued", !.i = i, !.len = n] \in MainStates
  BY <1>5 DEF MainStates
<1>6. [s EXCEPT !.at = "queued", !.i = 1, !.len = Len(s.array)] \in MainStates
  <2>1. Len(s.array) \in Nat /\ 1 \in Nat \ {0}
    BY <1>1
  <2> QED BY <1>5, <2>1, Zenon
<1>7. \A n \in Nat, x \in Seq(Runnables \cup {None}) :
        [s EXCEPT !.at = "runnables", !.i = 1, !.len = n, !.array = x] \in MainStates
  <2>1. 1 \in Nat \ {0}
    OBVIOUS
  <2> QED BY <1>4, <2>1, Zenon
<1> QED BY <1>1, <1>2, <1>3, <1>6, <1>7

(* A fresh record is a record. *)
LEMMA FreshType == Fresh \in Records
  BY DEF Fresh, Records

(* The initial state is well typed. *)
LEMMA TypeInit == Init => TypeOK
<1> SUFFICES ASSUME Init PROVE TypeOK
  OBVIOUS
<1>1. main \in MainStates
  BY MainAtType DEF Init
<1>2. run \in [Runnables -> Records]
  BY FreshType DEF Init
<1>3. /\ isRegistered \in BOOLEAN /\ producer \in BOOLEAN /\ sticky \in BOOLEAN
      /\ attached \in BOOLEAN /\ interrupted \in [Threads -> BOOLEAN]
  BY Zenon DEF Init
<1>4. /\ mRunnables \in Seq(Runnables) /\ mWorkQueue \in Seq(Runnables)
      /\ handler \in Seq(Messages) /\ intents \in Seq(CommandMessages)
  BY DEF Init
<1>5. /\ mThreadPool \in {"null", "running", "shutdown"} /\ spawned \in SUBSET Threads
      /\ task \in [Threads -> Runnables \cup {None}]
      /\ downloading \in [Ids -> Percentages \cup {-1, 0, Done}]
      /\ used \in [Kinds -> Nat]
  BY DEF Init
<1> QED BY <1>1, <1>2, <1>3, <1>4, <1>5 DEF TypeOK

(* The message at the head of a queue, and the queue behind it. *)
LEMMA HeadType ==
  ASSUME TypeOK, handler # <<>>
  PROVE  /\ Head(handler) \in Messages /\ Tail(handler) \in Seq(Messages)
         /\ Head(handler).r \in Runnables \cup {None}
         /\ Head(handler).did \in Ids \cup {NoId}
         /\ Head(handler).what \in {"startup", "progress", "complete"}
              => Head(handler).r \in Runnables
         /\ Head(handler).what = "progress"
              => Head(handler).arg \in Percentages \cup {0, Done}
<1>1. handler \in Seq(Messages)
  BY DEF TypeOK
<1>2. Head(handler) \in Messages /\ Tail(handler) \in Seq(Messages)
  BY <1>1
<1> QED BY <1>2 DEF Messages

(* One record is replaced by another. *)
LEMMA BecomesFacts ==
  ASSUME TypeOK, NEW r \in Runnables, NEW rec \in Records, Becomes(r, rec)
  PROVE  /\ run' \in [Runnables -> Records]
         /\ \A q \in Runnables : run'[q] = IF q = r THEN rec ELSE run[q]
<1>1. run \in [Runnables -> Records]
  BY DEF TypeOK
<1> QED BY <1>1 DEF Becomes

(* The updates of a record that the actions make. *)
LEMMA UpdateType ==
  ASSUME NEW rec \in Records
  PROVE  /\ \A pc \in {"ready", "queued", "rejected"}, d \in Ids \cup {NoId} :
              [rec EXCEPT !.pc = pc, !.id = d] \in Records
         /\ \A b \in {"registered", "unregistered"} : [rec EXCEPT !.bus = b] \in Records
         /\ \A o \in {"ok", "error", "cancelled"} :
              [rec EXCEPT !.future = IF @ = "pending" THEN o ELSE @] \in Records
         /\ \A pc \in {"ready", "waiting", "finished", "drained"} :
              [rec EXCEPT !.pc = pc] \in Records
         /\ \A t \in Threads : [rec EXCEPT !.pc = "begun", !.mThread = t] \in Records
         /\ \A b \in BOOLEAN :
              /\ [rec EXCEPT !.pc = "enqueued", !.future = "pending",
                             !.transfer = "active", !.premature = @ \/ b] \in Records
              /\ [rec EXCEPT !.pc = "finished", !.premature = @ \/ b] \in Records
         /\ \A p \in Percentages, b \in BOOLEAN :
              [rec EXCEPT !.old = p, !.premature = @ \/ b] \in Records
         /\ [rec EXCEPT !.transfer = "over"] \in Records
<1>1. \A pc \in {"ready", "queued", "rejected"}, d \in Ids \cup {NoId} :
        [rec EXCEPT !.pc = pc, !.id = d] \in Records
  BY DEF Records
<1>2. \A b \in {"registered", "unregistered"} : [rec EXCEPT !.bus = b] \in Records
  BY DEF Records
<1>3. \A o \in {"ok", "error", "cancelled"} :
        [rec EXCEPT !.future = IF @ = "pending" THEN o ELSE @] \in Records
  BY DEF Records
<1>4. \A pc \in {"ready", "waiting", "finished", "drained"} :
        [rec EXCEPT !.pc = pc] \in Records
  BY DEF Records
<1>5. \A t \in Threads : [rec EXCEPT !.pc = "begun", !.mThread = t] \in Records
  BY DEF Records
<1>6. ASSUME NEW b \in BOOLEAN
      PROVE  /\ [rec EXCEPT !.pc = "enqueued", !.future = "pending",
                            !.transfer = "active", !.premature = @ \/ b] \in Records
             /\ [rec EXCEPT !.pc = "finished", !.premature = @ \/ b] \in Records
  <2>1. [rec EXCEPT !.pc = "enqueued", !.future = "pending",
                    !.transfer = "active", !.premature = @ \/ b] \in Records
    BY DEF Records
  <2>2. [rec EXCEPT !.pc = "finished", !.premature = @ \/ b] \in Records
    BY DEF Records
  <2> QED BY <2>1, <2>2
<1>7. \A p \in Percentages, b \in BOOLEAN :
        [rec EXCEPT !.old = p, !.premature = @ \/ b] \in Records
  BY DEF Records
<1>8. [rec EXCEPT !.transfer = "over"] \in Records
  BY DEF Records
<1> QED BY <1>1, <1>2, <1>3, <1>4, <1>5, <1>6, <1>7, <1>8


(* There are finitely many runnables. *)
LEMMA RegisteredFinite ==
  Cardinality({r \in Runnables : run[r].bus = "registered"}) \in Nat
<1>1. 1 \in Int /\ Max["start"] \in Int
  BY MaxAssumption DEF Kinds
<1>2. IsFiniteSet(Runnables)
  BY <1>1, FS_Interval DEF Runnables
<1> QED BY <1>2, FS_Subset, FS_CardinalityType

(* The steps of the main looper keep the types. *)
LEMMA TypeDispatcher == TypeOK /\ Dispatcher => TypeOK'
<1> SUFFICES ASSUME TypeOK, Dispatcher PROVE TypeOK'
  OBVIOUS
<1> DEFINE m == Head(handler)
<1>0. /\ handler # <<>> /\ m \in Messages /\ Tail(handler) \in Seq(Messages)
      /\ m.r \in Runnables \cup {None} /\ m.did \in Ids \cup {NoId}
      /\ m.what \in {"startup", "progress", "complete"} => m.r \in Runnables
      /\ m.what = "progress" => m.arg \in Percentages \cup {0, Done}
  BY HeadType DEF Dispatcher, Dispatch, OnStopCommand, OnStartCommand, StartupService,
    StartupRunnable, TearDownService, DispatchProgress, DispatchError,
    DispatchRefresh, DispatchDummy, DispatchComplete
<1>r. \A r \in Runnables : run[r] \in Records
  BY DEF TypeOK
<1>1. CASE OnStopCommand
  <2>1. handler' \in Seq(Messages)
    BY <1>0, <1>1, MsgType DEF OnStopCommand, If
  <2>2. sticky' \in BOOLEAN
    BY <1>1, Zenon DEF OnStopCommand
  <2> QED BY <1>1, <2>1, <2>2 DEF TypeOK, OnStopCommand, pool, ui
<1>2. ASSUME NEW r \in Runnables, OnStartCommand(r) PROVE TypeOK'
  <2>1. handler' \in Seq(Messages)
    <3>1. /\ If(~isRegistered, Msg("startupService", None, 0)) \in Seq(Messages)
          /\ DownloadRunnable(r) \in Seq(Messages)
          /\ If(mThreadPool = "shutdown", Msg("error", None, REASON_UNKNOWN))
               \in Seq(Messages)
      BY MsgType DEF If, DownloadRunnable
    <3> QED BY <1>0, <1>2, <3>1 DEF OnStartCommand
  <2>2. PICK pc \in {"ready", "queued", "rejected"} : Execute(r, m.did, pc)
    BY <1>2 DEF OnStartCommand
  <2>3. run' \in [Runnables -> Records]
    BY <1>0, <1>r, <2>2, BecomesFacts, UpdateType DEF Execute
  <2>4. /\ mWorkQueue' \in Seq(Runnables) /\ spawned' \in SUBSET Threads
        /\ task' \in [Threads -> Runnables \cup {None}]
    <3>1. /\ mWorkQueue \in Seq(Runnables) /\ spawned \in SUBSET Threads
          /\ task \in [Threads -> Runnables \cup {None}]
      BY DEF TypeOK
    <3> QED BY <2>2, <3>1 DEF Execute
  <2>5. mRunnables' \in Seq(Runnables) /\ mThreadPool' \in {"null", "running", "shutdown"}
    BY <1>2 DEF OnStartCommand, GetThreadPoolExecutor, TypeOK
  <2> QED BY <1>2, <2>1, <2>3, <2>4, <2>5 DEF TypeOK, OnStartCommand, ui
<1>3. CASE StartupService
  <2>1. handler' \in Seq(Messages)
    BY <1>0, <1>3, MsgType DEF StartupService, If
  <2>2. main' \in MainStates
    BY <1>3, MainAtType DEF StartupService, Crashes, TypeOK
  <2> QED BY <1>3, <2>1, <2>2 DEF TypeOK, StartupService, pool, ui
<1>4. CASE StartupRunnable
  <2>1. run' \in [Runnables -> Records]
    BY <1>0, <1>4, <1>r, BecomesFacts, UpdateType DEF StartupRunnable, Dispatch
  <2> QED BY <1>0, <1>4, <2>1 DEF TypeOK, StartupRunnable, service, pool, ui
<1>5. CASE TearDownService
  <2>1. main' \in MainStates
    <3>1. main \in MainStates /\ Len(mWorkQueue) \in Nat
      BY DEF TypeOK
    <3> QED BY <1>5, <3>1, MainUpdates DEF TearDownService, BeginCancel
  <2> QED BY <1>0, <1>5, <2>1 DEF TypeOK, TearDownService, service, pool, ui
<1>t. ASSUME NEW r \in Runnables, TearDownRunnable(r)
      PROVE  run' \in [Runnables -> Records] /\ main' \in MainStates
  <2>1. CASE run[r].bus = "registered"
    BY <1>r, <1>t, <2>1, BecomesFacts, UpdateType DEF TearDownRunnable, TypeOK
  <2>2. CASE run[r].bus # "registered"
    BY <1>t, <2>2, MainAtType DEF TearDownRunnable, TypeOK, Crashes
  <2> QED BY <2>1, <2>2
<1>6. CASE DispatchProgress
  <2>1. run' \in [Runnables -> Records] /\ main' \in MainStates
    BY <1>0, <1>6, <1>t DEF DispatchProgress, Dispatch, TypeOK
  <2>2. downloading' \in [Ids -> Percentages \cup {-1, 0, Done}]
    BY <1>0, <1>6 DEF DispatchProgress, Dispatch, TypeOK
  <2> QED BY <1>0, <1>6, <2>1, <2>2 DEF TypeOK, DispatchProgress, service, pool
<1>7. CASE DispatchError
  <2>1. run' \in [Runnables -> Records] /\ main' \in MainStates
    BY <1>0, <1>7, <1>t DEF DispatchError, TypeOK
  <2> QED BY <1>0, <1>7, <2>1 DEF TypeOK, DispatchError, service, pool, ui
<1>9. CASE DispatchDummy
  BY <1>0, <1>9 DEF TypeOK, DispatchDummy, service, pool, ui
<1>10. CASE DispatchComplete
  <2>1. run' \in [Runnables -> Records]
    BY <1>0, <1>10, <1>r, BecomesFacts, UpdateType DEF DispatchComplete, Settle, Dispatch
  <2> QED BY <1>0, <1>10, <2>1 DEF TypeOK, DispatchComplete, service, pool, ui
<1>8. CASE DispatchRefresh
  <2> DEFINE registered == {r \in Runnables : run[r].bus = "registered"}
             N == Cardinality(registered)
             x(s) == [k \in DOMAIN s |-> Msg("progress", s[k], ActualPercentage(s[k]))]
  <2>1. N \in Nat
    BY RegisteredFinite
  <2>2. PICK s \in [1..N -> registered] : handler' = Tail(handler) \o x(s)
    BY <1>8 DEF DispatchRefresh
  <2>3. \A r \in Runnables : ActualPercentage(r) \in Percentages \cup {0, Done}
    BY <1>r DEF ActualPercentage, Records
  <2>4. \A k \in DOMAIN s : x(s)[k] \in Messages
    BY <2>3, MsgType
  <2> HIDE DEF N
  <2>5. x(s) \in Seq(Messages)
    BY <2>1, <2>4
  <2>6. handler' \in Seq(Messages)
    BY <1>0, <2>2, <2>5
  <2> QED BY <1>0, <1>8, <2>6 DEF TypeOK, DispatchRefresh, service, pool, ui
<1> QED BY <1>1, <1>2, <1>3, <1>4, <1>5, <1>6, <1>7, <1>8, <1>9, <1>10 DEF Dispatcher

(* What a cancellation does to the record it settles and to the flags. *)
LEMMA SettleType ==
  ASSUME TypeOK, NEW r \in Runnables, NEW o \in {"ok", "error", "cancelled"},
         Settle(r, o)
  PROVE  run' \in [Runnables -> Records]
<1>1. run[r] \in Records
  BY DEF TypeOK
<1> QED BY <1>1, BecomesFacts, UpdateType DEF Settle
LEMMA InterruptType ==
  ASSUME TypeOK, NEW t, Interrupt(t)
  PROVE  interrupted' \in [Threads -> BOOLEAN]
  BY DEF TypeOK, Interrupt

(* The steps of cancelDownload and of tearDown keep the types. *)
LEMMA TypeCancel == TypeOK /\ CancelDownload => TypeOK'
<1> SUFFICES ASSUME TypeOK, CancelDownload PROVE TypeOK'
  OBVIOUS
<1>0. /\ main \in MainStates /\ main.i \in Nat \ {0} /\ main.len \in Nat
      /\ main.array \in Seq(Runnables \cup {None})
      /\ main.next \in {"idle", "shutdownNow"}
  BY MainUpdates DEF TypeOK
<1>q. /\ mRunnables \in Seq(Runnables) /\ mWorkQueue \in Seq(Runnables)
      /\ Len(mRunnables) \in Nat /\ Len(mWorkQueue) \in Nat /\ Len(main.array) \in Nat
  BY <1>0 DEF TypeOK
<1>r. run \in [Runnables -> Records] /\ interrupted \in [Threads -> BOOLEAN]
  BY DEF TypeOK
<1>i. [main EXCEPT !.i = @ + 1] \in MainStates
  BY <1>0, MainUpdates
<1>1. CASE CancelToArray
  <2> DEFINE x == [k \in 1..main.len |->
                     IF Len(mWorkQueue) <= main.len /\ k <= Len(mWorkQueue)
                       THEN mWorkQueue[k] ELSE None]
  <2>1. x \in Seq(Runnables \cup {None})
    <3>1. main.len \in Nat
      BY <1>0
    <3>2. ASSUME NEW k \in 1..main.len, k <= Len(mWorkQueue)
          PROVE  mWorkQueue[k] \in Runnables
      BY <1>q, <3>1, <3>2
    <3>3. x \in [1..main.len -> Runnables \cup {None}]
      BY <3>2
    <3> HIDE DEF x
    <3> QED BY <3>1, <3>3
  <2>2. main' = [main EXCEPT !.at = "runnables", !.i = 1, !.len = Len(mRunnables),
                             !.array = x]
    BY <1>1 DEF CancelToArray
  <2> HIDE DEF x
  <2>3. main' \in MainStates
    BY <1>0, <1>q, <2>1, <2>2, MainUpdates
  <2> QED BY <1>1, <2>3 DEF TypeOK, CancelToArray, service, pool, ui
<1>2. CASE CancelRunnable
  <2> DEFINE r == mRunnables[main.i]
             hit == main.i <= Len(mRunnables) /\ Matches(r)
  <2>1. main' \in MainStates
    <3>1. MainAt("NullPointerException") \in MainStates
      BY MainAtType DEF Crashes
    <3> QED BY <1>2, <1>i, <3>1 DEF CancelRunnable
  <2>2. /\ run' \in [Runnables -> Records] /\ interrupted' \in [Threads -> BOOLEAN]
        /\ mRunnables' \in Seq(Runnables)
    <3>1. CASE hit /\ run[r].future # "null"
      <4>1. /\ Settle(r, "cancelled") /\ Interrupt(run[r].mThread)
            /\ mRunnables' = Remove(mRunnables, r)
        BY <1>2, <3>1 DEF CancelRunnable, CancelFuture
      <4>2. r \in Runnables
        BY <1>0, <1>q, <3>1
      <4> QED BY <1>q, <4>1, <4>2, SettleType, InterruptType, RemoveFacts
    <3>2. CASE ~(hit /\ run[r].future # "null")
      BY <1>2, <1>q, <1>r, <3>2 DEF CancelRunnable
    <3> QED BY <3>1, <3>2
  <2> QED BY <1>2, <2>1, <2>2 DEF TypeOK, CancelRunnable, ui
<1>3. CASE EndCancelRunnables
  <2>1. main' \in MainStates
    BY <1>0, <1>3, MainUpdates DEF EndCancelRunnables
  <2> QED BY <1>3, <2>1 DEF TypeOK, EndCancelRunnables, service, pool, ui
<1>4. CASE CancelQueued
  <2> DEFINE r == main.array[main.i]
             hit == r # None /\ run[r].mThread # NoThread /\ Matches(r)
  <2>1. main' \in MainStates
    <3>1. MainAt("NullPointerException") \in MainStates
      BY MainAtType DEF Crashes
    <3> QED BY <1>4, <1>i, <3>1 DEF CancelQueued
  <2>2. /\ run' \in [Runnables -> Records] /\ interrupted' \in [Threads -> BOOLEAN]
        /\ mWorkQueue' \in Seq(Runnables)
    <3>1. CASE hit /\ run[r].future # "null"
      <4>1. /\ Settle(r, "cancelled") /\ Interrupt(run[r].mThread)
            /\ mWorkQueue' = Remove(mWorkQueue, r)
        BY <1>4, <3>1 DEF CancelQueued, CancelFuture
      <4>2. r \in Runnables
        <5>1. main.len = Len(main.array) /\ main.i <= main.len
          BY <1>0, <1>4, MainUpdates DEF CancelQueued
        <5>2. main.i \in 1..Len(main.array)
          BY <1>0, <1>q, <5>1
        <5> QED BY <1>0, <3>1, <5>2
      <4> QED BY <1>q, <4>1, <4>2, SettleType, InterruptType, RemoveFacts
    <3>2. CASE ~(hit /\ run[r].future # "null")
      BY <1>4, <1>q, <1>r, <3>2 DEF CancelQueued
    <3> QED BY <3>1, <3>2
  <2> QED BY <1>4, <2>1, <2>2 DEF TypeOK, CancelQueued, service, ui
<1>5. CASE EndCancel
  <2>1. main' \in MainStates
    BY <1>0, <1>5, MainAtType DEF EndCancel
  <2>2. handler' \in Seq(Messages) /\ intents' \in Seq(CommandMessages)
    <3>1. handler \in Seq(Messages) /\ intents \in Seq(CommandMessages)
      BY DEF TypeOK
    <3>2. If(mRunnables = <<>>, Command("stop", NoId)) \in Seq(CommandMessages)
      BY MsgType DEF If
    <3> QED BY <1>5, <3>1, <3>2, MsgType DEF EndCancel
  <2>3. mThreadPool' \in {"null", "running", "shutdown"}
    BY <1>5 DEF EndCancel, GetThreadPoolExecutor, TypeOK
  <2> QED BY <1>5, <2>1, <2>2, <2>3 DEF TypeOK, EndCancel, service, ui
<1>6. CASE ShutdownNow
  <2>1. main' \in MainStates
    BY <1>6, MainAtType DEF ShutdownNow
  <2>2. run' \in [Runnables -> Records]
    <3>1. \A r \in Runnables : [run[r] EXCEPT !.pc = "drained"] \in Records
      BY <1>r, UpdateType
    <3> QED BY <1>6, <1>r, <3>1 DEF ShutdownNow
  <2>3. interrupted' \in [Threads -> BOOLEAN] /\ producer' \in BOOLEAN
        /\ isRegistered' \in BOOLEAN
    BY <1>6 DEF ShutdownNow
  <2>4. mWorkQueue' \in Seq(Runnables) /\ mThreadPool' \in {"null", "running", "shutdown"}
    BY <1>6 DEF ShutdownNow
  <2> QED BY <1>6, <2>1, <2>2, <2>3, <2>4 DEF TypeOK, ShutdownNow, ui
<1> QED BY <1>1, <1>2, <1>3, <1>4, <1>5, <1>6 DEF CancelDownload

(* If(c, m) tears r down only if m does. *)
LEMMA IfEnds ==
  ASSUME NEW c, NEW m, NEW r, ~TearsDown(m, r)
  PROVE  ~Ends(If(c, m), r)
  BY DEF If, Ends

(* Four queues one after the other. *)
LEMMA FourQueues ==
  ASSUME NEW u \in Seq(Messages), NEW v \in Seq(Messages),
         NEW x \in Seq(Messages), NEW y \in Seq(Messages)
  PROVE  /\ u \o v \o x \o y \in Seq(Messages)
         /\ \A q : ~Ends(u, q) /\ ~Ends(v, q) /\ ~Ends(x, q) /\ ~Ends(y, q)
                 => ~Ends(u \o v \o x \o y, q)
<1>1. u \o v \o x \o y \in Seq(Messages)
  OBVIOUS
<1>3. ASSUME NEW q, ~Ends(u, q), ~Ends(v, q), ~Ends(x, q), ~Ends(y, q)
      PROVE  ~Ends(u \o v \o x \o y, q)
  <2> DEFINE a == u \o v
             b == a \o x
  <2>1. a \in Seq(Messages) /\ ~Ends(a, q)
    BY <1>3, QueueConcat
  <2> HIDE DEF a
  <2>2. b \in Seq(Messages) /\ ~Ends(b, q)
    BY <1>3, <2>1, QueueConcat
  <2> HIDE DEF b
  <2>3. ~Ends(b \o y, q)
    BY <1>3, <2>2, QueueConcat
  <2> QED BY <2>3 DEF a, b
<1> QED BY <1>1, <1>3

(* What enqueueDownload posts for r: errors of r only and, unless it warns,  *)
(* one if and only if it refuses the download.                               *)
LEMMA ErrorsFacts ==
  ASSUME NEW r \in Runnables, NEW n \in Networks, NEW p \in Preferences
  PROVE  /\ Errors(r, n, p) \in Seq(Messages)
         /\ \A q : q # r => ~Ends(Errors(r, n, p), q)
         /\ ~Warns(n, p) =>
              IF EnqueueOk(n, p) THEN Errors(r, n, p) = <<>>
              ELSE \E m \in Messages : Errors(r, n, p) = <<m>> /\ TearsDown(m, r)
<1> DEFINE u == If(Offline(n), Msg("error", r, REASON_OFFLINE))
           v == If(Metered(n, p), Msg("error", r, REASON_METERED))
           y == If(Warns(n, p), Msg("error", r, REASON_METERED_WARN))
           z == If(Roaming(n, p), Msg("error", r, REASON_ROAMING))
<1>0. Errors(r, n, p) = u \o v \o y \o z
  BY DEF Errors
<1>1. \A a \in -1..3 : /\ Msg("error", r, a) \in Messages
                       /\ \A q : TearsDown(Msg("error", r, a), q) <=> q = r
  BY MsgType DEF TearsDown, Msg
<1>2. /\ REASON_OFFLINE \in -1..3 /\ REASON_METERED \in -1..3
      /\ REASON_METERED_WARN \in -1..3 /\ REASON_ROAMING \in -1..3
  BY DEF REASON_OFFLINE, REASON_METERED, REASON_METERED_WARN, REASON_ROAMING
<1>3. /\ u \in Seq(Messages) /\ v \in Seq(Messages) /\ y \in Seq(Messages)
      /\ z \in Seq(Messages)
  BY <1>1, <1>2 DEF If
<1>4. ASSUME NEW q, q # r
      PROVE  ~Ends(u, q) /\ ~Ends(v, q) /\ ~Ends(y, q) /\ ~Ends(z, q)
  BY <1>1, <1>2, <1>4, IfEnds
<1>5. ASSUME ~Warns(n, p)
      PROVE  IF EnqueueOk(n, p) THEN Errors(r, n, p) = <<>>
             ELSE \E m \in Messages : Errors(r, n, p) = <<m>> /\ TearsDown(m, r)
  <2>1. y = <<>>
    BY <1>5 DEF If
  <2>2. /\ Offline(n) => ~Metered(n, p) /\ ~Roaming(n, p)
        /\ Metered(n, p) => ~Roaming(n, p)
    BY DEF Offline, Metered, Roaming
  <2>3. CASE EnqueueOk(n, p)
    BY <1>0, <2>1, <2>3 DEF If, EnqueueOk
  <2>4. CASE ~EnqueueOk(n, p)
    <3>1. PICK a \in -1..3 : \/ u = <<Msg("error", r, a)>> /\ v = <<>> /\ z = <<>>
                             \/ v = <<Msg("error", r, a)>> /\ u = <<>> /\ z = <<>>
                             \/ z = <<Msg("error", r, a)>> /\ u = <<>> /\ v = <<>>
      BY <1>2, <2>2, <2>4 DEF If, EnqueueOk
    <3> HIDE DEF u, v, y, z
    <3> DEFINE m == Msg("error", r, a)
    <3>2. /\ <<m>> \o <<>> \o <<>> \o <<>> = <<m>>
          /\ <<>> \o <<m>> \o <<>> \o <<>> = <<m>>
          /\ <<>> \o <<>> \o <<>> \o <<m>> = <<m>>
      OBVIOUS
    <3>3. Errors(r, n, p) = <<m>>
      BY <1>0, <2>1, <3>1, <3>2, Zenon
    <3> QED BY <1>1, <2>4, <3>3
  <2> QED BY <2>3, <2>4
<1> HIDE DEF u, v, y, z
<1>6. /\ u \o v \o y \o z \in Seq(Messages)
      /\ \A q : q # r => ~Ends(u \o v \o y \o z, q)
  BY <1>3, <1>4, FourQueues
<1> QED BY <1>0, <1>5, <1>6

(* The steps of a pool thread keep the types. *)
LEMMA TypeWorker == ASSUME TypeOK, NEW t \in Threads, Worker(t) PROVE TypeOK'
<1>0. /\ task \in [Threads -> Runnables \cup {None}] /\ handler \in Seq(Messages)
      /\ mWorkQueue \in Seq(Runnables) /\ interrupted \in [Threads -> BOOLEAN]
  BY DEF TypeOK
<1>r. \A r \in Runnables : run[r] \in Records
  BY DEF TypeOK
<1>1. CASE Take(t)
  <2>1. Head(mWorkQueue) \in Runnables /\ Tail(mWorkQueue) \in Seq(Runnables)
    BY <1>0, <1>1 DEF Take
  <2>2. run' \in [Runnables -> Records]
    BY <1>1, <1>r, <2>1, BecomesFacts, UpdateType DEF Take
  <2>3. task' \in [Threads -> Runnables \cup {None}]
    BY <1>0, <1>1, <2>1 DEF Take
  <2> QED BY <1>1, <2>1, <2>2, <2>3 DEF TypeOK, Take, service, ui
<1>2. CASE BeginRun(t)
  <2>1. run' \in [Runnables -> Records]
    BY <1>0, <1>2, <1>r, BecomesFacts, UpdateType DEF BeginRun, At
  <2>2. interrupted' \in [Threads -> BOOLEAN]
    BY <1>0, <1>2 DEF BeginRun
  <2> QED BY <1>2, <2>1, <2>2 DEF TypeOK, BeginRun, service, ui
<1>3. ASSUME NEW n \in Networks, NEW p \in Preferences, EnqueueDownload(t, n, p)
      PROVE  TypeOK'
  <2> DEFINE r == task[t]
  <2>1. r \in Runnables /\ run[r] \in Records
    BY <1>0, <1>3, <1>r DEF EnqueueDownload, At
  <2>2. Warns(n, p) \in BOOLEAN
    BY DEF Warns
  <2>3. run' \in [Runnables -> Records]
    <3>1. CASE EnqueueOk(n, p)
      <4>1. Becomes(r, [run[r] EXCEPT !.pc = "enqueued", !.future = "pending",
                              !.transfer = "active", !.premature = @ \/ Warns(n, p)])
        BY <1>3, <3>1 DEF EnqueueDownload
      <4>2. [run[r] EXCEPT !.pc = "enqueued", !.future = "pending",
               !.transfer = "active", !.premature = @ \/ Warns(n, p)] \in Records
        BY <2>1, <2>2, UpdateType, Zenon
      <4> QED BY <2>1, <4>1, <4>2, BecomesFacts, Zenon
    <3>2. CASE ~EnqueueOk(n, p)
      <4>1. Becomes(r, [run[r] EXCEPT !.pc = "finished", !.premature = @ \/ Warns(n, p)])
        BY <1>3, <3>2 DEF EnqueueDownload
      <4>2. [run[r] EXCEPT !.pc = "finished", !.premature = @ \/ Warns(n, p)] \in Records
        BY <2>1, <2>2, UpdateType, Zenon
      <4> QED BY <2>1, <4>1, <4>2, BecomesFacts, Zenon
    <3> QED BY <3>1, <3>2
  <2>4. task' \in [Threads -> Runnables \cup {None}]
    BY <1>0, <1>3 DEF EnqueueDownload
  <2>5. handler' \in Seq(Messages)
    BY <1>0, <1>3, <2>1, ErrorsFacts DEF EnqueueDownload
  <2> QED BY <1>3, <2>3, <2>4, <2>5 DEF TypeOK, EnqueueDownload, service, ui
<1>4. CASE PostStart(t)
  <2>1. task[t] \in Runnables
    BY <1>0, <1>4 DEF PostStart, At
  <2>2. run' \in [Runnables -> Records]
    BY <1>4, <1>r, <2>1, BecomesFacts, UpdateType DEF PostStart
  <2>3. handler' \in Seq(Messages)
    BY <1>0, <1>4, <2>1, MsgType DEF PostStart
  <2> QED BY <1>4, <2>2, <2>3 DEF TypeOK, PostStart, service, pool, ui
<1>5. CASE FinishRun(t)
  <2>1. task[t] \in Runnables
    BY <1>0, <1>5 DEF FinishRun, At
  <2>2. run' \in [Runnables -> Records]
    BY <1>5, <1>r, <2>1, BecomesFacts, UpdateType DEF FinishRun
  <2>3. handler' \in Seq(Messages)
    BY <1>0, <1>5, <2>1, MsgType DEF FinishRun
  <2>4. /\ task' \in [Threads -> Runnables \cup {None}]
        /\ interrupted' \in [Threads -> BOOLEAN]
    BY <1>0, <1>5 DEF FinishRun
  <2> QED BY <1>5, <2>2, <2>3, <2>4 DEF TypeOK, FinishRun, service, ui
<1> QED BY <1>1, <1>2, <1>3, <1>4, <1>5 DEF Worker

(* What the environment has used up is counted per kind. *)
LEMMA UsedType ==
  ASSUME used \in [Kinds -> Nat], NEW k \in Kinds, Use(k)
  PROVE  used' \in [Kinds -> Nat]
<1>1. used[k] + 1 \in Nat
  OBVIOUS
<1> QED BY <1>1, Zenon DEF Use

(* The steps of the network and of the environment keep the types. *)
LEMMA TypeTransfer ==
  ASSUME TypeOK, NEW r \in Runnables,
         TransferEnds(r) \/ \E p \in Percentages : OnProgress(r, p)
  PROVE  TypeOK'
<1>0. run[r] \in Records /\ handler \in Seq(Messages)
  BY DEF TypeOK
<1>1. CASE TransferEnds(r)
  <2>1. run' \in [Runnables -> Records]
    BY <1>0, <1>1, BecomesFacts, UpdateType DEF TransferEnds
  <2>2. handler' \in Seq(Messages)
    <3>1. PICK arg \in {0, 1} : handler' =
            handler \o If(run[r].future = "pending", Msg("complete", r, arg))
      BY <1>1 DEF TransferEnds
    <3>2. If(run[r].future = "pending", Msg("complete", r, arg)) \in Seq(Messages)
      BY MsgType DEF If
    <3> QED BY <1>0, <3>1, <3>2
  <2> QED BY <1>1, <2>1, <2>2 DEF TypeOK, TransferEnds, service, pool, ui
<1>2. ASSUME NEW p \in Percentages, OnProgress(r, p) PROVE TypeOK'
  <2>1. run' \in [Runnables -> Records]
    <3>1. [run[r] EXCEPT !.old = p, !.premature = @ \/ p = Done] \in Records
      BY <1>0, UpdateType, Zenon
    <3> QED BY <1>2, <3>1, BecomesFacts DEF OnProgress
  <2>2. handler' \in Seq(Messages)
    <3>1. Msg("progress", r, p) \in Messages
      BY MsgType
    <3>2. handler' = Append(handler, Msg("progress", r, p))
      BY <1>2 DEF OnProgress
    <3> QED BY <1>0, <3>1, <3>2
  <2>3. used' \in [Kinds -> Nat]
    <3>1. Use("progress") /\ used \in [Kinds -> Nat] /\ "progress" \in Kinds
      BY <1>2 DEF OnProgress, TypeOK, Kinds
    <3> QED BY <3>1, UsedType
  <2> QED BY <1>2, <2>1, <2>2, <2>3 DEF TypeOK, OnProgress, service, pool, ui
<1> QED BY <1>1, <1>2

LEMMA TypeEnvironment == TypeOK /\ (Environment \/ DeliverCommand) => TypeOK'
<1> SUFFICES ASSUME TypeOK, Environment \/ DeliverCommand PROVE TypeOK'
  OBVIOUS
<1>0. /\ handler \in Seq(Messages) /\ intents \in Seq(CommandMessages)
      /\ main \in MainStates /\ used \in [Kinds -> Nat]
      /\ Len(mWorkQueue) \in Nat
  BY DEF TypeOK
<1>u. Use("start") \/ Use("cancel") \/ Use("attach") \/ Use("destroy") \/ Use("death")
        => used' \in [Kinds -> Nat]
  <2>1. \A k \in {"start", "cancel", "attach", "destroy", "death"} : k \in Kinds
    BY DEF Kinds
  <2> QED BY <1>0, <2>1, UsedType, Zenon
<1>1. CASE DeliverCommand
  <2>1. handler' \in Seq(Messages) /\ intents' \in Seq(CommandMessages)
    BY <1>0, <1>1, MsgType DEF DeliverCommand
  <2> QED BY <1>1, <2>1 DEF TypeOK, DeliverCommand, service, pool, ui
<1>2. ASSUME NEW d \in Ids, Start(d) PROVE TypeOK'
  <2>1. intents' \in Seq(CommandMessages)
    BY <1>0, <1>2, MsgType DEF Start
  <2> QED BY <1>u, <1>2, <2>1 DEF TypeOK, Start, service, pool, ui
<1>3. ASSUME NEW d \in Ids, ClickCancel(d) PROVE TypeOK'
  <2>1. main' \in MainStates
    BY <1>0, <1>3, MainUpdates DEF ClickCancel, BeginCancel
  <2> QED BY <1>u, <1>3, <2>1 DEF TypeOK, ClickCancel, service, pool, ui
<1>4. ASSUME NEW newView \in BOOLEAN, FragmentStart(newView) PROVE TypeOK'
  <2>1. handler' \in Seq(Messages)
    <3>1. If(producer, Msg("refresh", None, 0)) \in Seq(Messages)
      BY MsgType DEF If
    <3> QED BY <1>0, <1>4, <3>1 DEF FragmentStart
  <2>2. downloading' \in [Ids -> Percentages \cup {-1, 0, Done}]
    BY <1>4 DEF FragmentStart, TypeOK
  <2> QED BY <1>u, <1>4, <2>1, <2>2 DEF TypeOK, FragmentStart, service, pool
<1>5. CASE FragmentStop
  BY <1>5 DEF TypeOK, FragmentStop, service, pool
<1>6. CASE ServiceDestroyed
  <2>1. handler' \in Seq(Messages)
    BY <1>0, <1>6, MsgType DEF ServiceDestroyed
  <2> QED BY <1>u, <1>6, <2>1 DEF TypeOK, ServiceDestroyed, pool, ui
<1>7. CASE ProcessDeath
  <2>1. run' \in [Runnables -> Records]
    <3>1. [Fresh EXCEPT !.pc = "gone"] \in Records
      BY DEF Fresh, Records
    <3> QED BY <1>7, <3>1, FreshType DEF ProcessDeath
  <2>2. main' \in MainStates
    BY <1>7, MainAtType DEF ProcessDeath
  <2>3. intents' \in Seq(CommandMessages)
    <3>1. If(intents = <<>> /\ sticky, Command("null", NoId)) \in Seq(CommandMessages)
      BY MsgType DEF If
    <3> QED BY <1>0, <1>7, <3>1 DEF ProcessDeath
  <2>4. interrupted' \in [Threads -> BOOLEAN]
    BY <1>7, Zenon DEF ProcessDeath
  <2>5. /\ mRunnables' \in Seq(Runnables) /\ mWorkQueue' \in Seq(Runnables)
        /\ handler' \in Seq(Messages) /\ spawned' \in SUBSET Threads
        /\ mThreadPool' \in {"null", "running", "shutdown"}
        /\ task' \in [Threads -> Runnables \cup {None}]
        /\ downloading' \in [Ids -> Percentages \cup {-1, 0, Done}]
    BY <1>7 DEF ProcessDeath
  <2>6. used' \in [Kinds -> Nat]
    BY <1>u, <1>7 DEF ProcessDeath
  <2>7. /\ isRegistered' \in BOOLEAN /\ producer' \in BOOLEAN /\ attached' \in BOOLEAN
        /\ sticky' \in BOOLEAN
    BY <1>7 DEF ProcessDeath, TypeOK
  <2> QED BY <2>1, <2>2, <2>3, <2>4, <2>5, <2>6, <2>7 DEF TypeOK
<1> QED BY <1>1, <1>2, <1>3, <1>4, <1>5, <1>6, <1>7 DEF Environment

(* Every step keeps the types. *)
LEMMA TypeNext == TypeOK /\ [Next]_vars => TypeOK'
<1> SUFFICES ASSUME TypeOK, [Next]_vars PROVE TypeOK'
  OBVIOUS
<1>1. CASE UNCHANGED vars
  BY <1>1 DEF TypeOK, vars, service, pool, ui
<1>2. CASE Next
  BY <1>2, TypeDispatcher, TypeCancel, TypeWorker, TypeTransfer, TypeEnvironment
     DEF Next
<1> QED BY <1>1, <1>2

(* Every variable keeps its type in every behaviour, whatever the number of  *)
(* threads and of commands; in particular no list that cancelDownload walks  *)
(* while pool threads change it yields anything but a runnable or null.      *)
THEOREM TypeCorrect == Spec => []TypeOK
  BY TypeInit, TypeNext, PTL DEF Spec

-----------------------------------------------------------------------------
(* The lists and the futures. *)

(* What most actions do to a record, as far as LifeInv is concerned. *)
LifeStep(rec, new) ==
  /\ rec.pc = "queued" => new.pc = "queued"
  /\ new.pc \in Early => rec.pc \in Early /\ (rec.future = "null" => new.future = "null")
  /\ new.pc \notin {"none", "gone"} /\ new.future \in {"null", "pending"}
       => rec.pc \notin {"none", "gone"} /\ rec.future \in {"null", "pending"}

LEMMA LifeKeep ==
  ASSUME TypeOK, LifeInv, mRunnables' = mRunnables, mWorkQueue' = mWorkQueue,
         \A q \in Runnables : LifeStep(run[q], run'[q])
  PROVE  LifeInv'
<1>1. QueueInv'
  <2>1. \A k \in DOMAIN mWorkQueue : mWorkQueue[k] \in Runnables
    BY DEF TypeOK
  <2> QED BY <2>1 DEF LifeInv, QueueInv, LifeStep
<1>2. FutureInv'
  BY DEF LifeInv, FutureInv, LifeStep
<1>3. ListInv'
  BY DEF LifeInv, ListInv, LifeStep, Elements
<1> QED BY <1>1, <1>2, <1>3 DEF LifeInv

(* The same when one record changes. *)
LEMMA LifeBecomes ==
  ASSUME TypeOK, LifeInv, mRunnables' = mRunnables, mWorkQueue' = mWorkQueue,
         NEW r \in Runnables, NEW rec \in Records, Becomes(r, rec),
         LifeStep(run[r], rec)
  PROVE  LifeInv'
<1>1. \A q \in Runnables : run'[q] = IF q = r THEN rec ELSE run[q]
  BY BecomesFacts
<1>2. \A q \in Runnables : LifeStep(run[q], run[q])
  BY DEF LifeStep
<1>3. \A q \in Runnables : LifeStep(run[q], run'[q])
  BY <1>1, <1>2
<1> QED BY <1>3, LifeKeep

(* Settling a future is such a step, and leaves no future pending. *)
LEMMA LifeSettle ==
  ASSUME TypeOK, LifeInv, NEW r \in Runnables,
         NEW o \in {"ok", "error", "cancelled"}, Settle(r, o)
  PROVE  /\ \A q \in Runnables : LifeStep(run[q], run'[q])
         /\ \A q \in Runnables : q # r => run'[q] = run[q]
         /\ run'[r].pc = run[r].pc
         /\ run[r].future # "null" => run'[r].future \notin {"null", "pending"}
         /\ run[r].future # "pending" => run'[r].future = run[r].future
<1> DEFINE rec == [run[r] EXCEPT !.future = IF @ = "pending" THEN o ELSE @]
<1>1. run[r] \in Records
  BY DEF TypeOK
<1>2. rec \in Records /\ Becomes(r, rec)
  BY <1>1, UpdateType DEF Settle
<1>3. \A q \in Runnables : run'[q] = IF q = r THEN rec ELSE run[q]
  BY <1>2, BecomesFacts
<1>4. /\ rec.pc = run[r].pc
      /\ rec.future = IF run[r].future = "pending" THEN o ELSE run[r].future
  BY <1>1 DEF Records
<1>5. \A q \in Runnables : LifeStep(run[q], run[q])
  BY DEF LifeStep
<1>6. LifeStep(run[r], rec)
  BY <1>4 DEF LifeStep
<1> HIDE DEF rec
<1> QED BY <1>3, <1>4, <1>5, <1>6

(* A step that leaves the lists and the records alone. *)
LEMMA LifeStutter ==
  ASSUME LifeInv, UNCHANGED <<mRunnables, mWorkQueue, run>>
  PROVE  LifeInv'
  BY DEF LifeInv, QueueInv, FutureInv, ListInv, Elements

(* The main looper's steps keep LifeInv. *)
LEMMA LifeDispatcher == TypeOK /\ LifeInv /\ Dispatcher => LifeInv'
<1> SUFFICES ASSUME TypeOK, LifeInv, Dispatcher PROVE LifeInv'
  OBVIOUS
<1>r. \A r \in Runnables : run[r] \in Records
  BY DEF TypeOK
<1>1. CASE OnStopCommand \/ StartupService \/ TearDownService \/ DispatchRefresh
             \/ DispatchDummy
  BY <1>1, LifeStutter DEF OnStopCommand, StartupService, TearDownService,
    DispatchRefresh, DispatchDummy, service, pool
<1>2. ASSUME NEW r \in Runnables, OnStartCommand(r) PROVE LifeInv'
  <2>1. PICK pc \in {"ready", "queued", "rejected"} : Execute(r, Head(handler).did, pc)
    BY <1>2 DEF OnStartCommand
  <2> DEFINE rec == [run[r] EXCEPT !.pc = pc, !.id = Head(handler).did]
  <2>2. /\ Head(handler).did \in Ids \cup {NoId} /\ run[r].pc = "none"
        /\ mRunnables' = Append(mRunnables, r)
    BY <1>2, HeadType DEF OnStartCommand, Dispatch
  <2>3. rec \in Records /\ Becomes(r, rec) /\ rec.pc = pc /\ rec.future = run[r].future
    <3>1. rec \in Records
      BY <1>r, <2>2, UpdateType
    <3>2. rec.pc = pc /\ rec.future = run[r].future
      BY <1>r DEF Records
    <3> QED BY <2>1, <3>1, <3>2 DEF Execute
  <2> HIDE DEF rec
  <2>4. \A q \in Runnables : run'[q] = IF q = r THEN rec ELSE run[q]
    BY <2>3, BecomesFacts
  <2>5. mRunnables \in Seq(Runnables) /\ mWorkQueue \in Seq(Runnables)
    BY DEF TypeOK
  <2>6. FutureInv'
    BY <2>2, <2>3, <2>4 DEF LifeInv, FutureInv, Early
  <2>7. ListInv'
    <3>1. Elements(mRunnables') = Elements(mRunnables) \cup {r}
      BY <2>2, <2>5 DEF Elements
    <3> QED BY <2>3, <2>4, <3>1 DEF LifeInv, ListInv
  <2>8. QueueInv'
    <3>1. \A k \in DOMAIN mWorkQueue :
            mWorkQueue[k] \in Runnables /\ mWorkQueue[k] # r
      BY <2>2, <2>5 DEF LifeInv, QueueInv
    <3>2. CASE mWorkQueue' = mWorkQueue
      BY <2>4, <3>1, <3>2 DEF LifeInv, QueueInv
    <3>3. CASE pc = "queued" /\ mWorkQueue' = Append(mWorkQueue, r)
      <4>1. /\ DOMAIN mWorkQueue = 1..Len(mWorkQueue) /\ Len(mWorkQueue) \in Nat
            /\ DOMAIN mWorkQueue' = 1..(Len(mWorkQueue) + 1)
            /\ mWorkQueue'[Len(mWorkQueue) + 1] = r
            /\ \A k \in 1..Len(mWorkQueue) : mWorkQueue'[k] = mWorkQueue[k]
        BY <2>5, <3>3
      <4>2. \A k \in DOMAIN mWorkQueue' : k \in 1..Len(mWorkQueue)
                                            \/ k = Len(mWorkQueue) + 1
        BY <4>1
      <4>3. ASSUME NEW k \in DOMAIN mWorkQueue'
            PROVE  run'[mWorkQueue'[k]].pc = "queued"
        BY <2>3, <2>4, <3>1, <3>3, <4>1, <4>2 DEF LifeInv, QueueInv
      <4>4. ASSUME NEW j \in DOMAIN mWorkQueue', NEW k \in DOMAIN mWorkQueue',
                   mWorkQueue'[j] = mWorkQueue'[k]
            PROVE  j = k
        BY <3>1, <4>1, <4>2, <4>4 DEF LifeInv, QueueInv
      <4> QED BY <4>3, <4>4 DEF QueueInv
    <3> QED BY <2>1, <3>2, <3>3 DEF Execute
  <2> QED BY <2>6, <2>7, <2>8 DEF LifeInv
<1>3. CASE StartupRunnable
  <2> DEFINE r == Head(handler).r
             rec == [run[r] EXCEPT !.bus = "registered"]
  <2>1. r \in Runnables
    BY <1>3, HeadType DEF StartupRunnable, Dispatch
  <2>2. rec \in Records
    BY <1>r, <2>1, UpdateType
  <2>3. LifeStep(run[r], rec)
    BY <1>r, <2>1 DEF LifeStep, Records
  <2> QED BY <1>3, <2>1, <2>2, <2>3, LifeBecomes DEF StartupRunnable, service, pool
<1>t. ASSUME NEW r \in Runnables, TearDownRunnable(r), UNCHANGED <<mRunnables, mWorkQueue>>
      PROVE  LifeInv'
  <2> DEFINE rec == [run[r] EXCEPT !.bus = "unregistered"]
  <2>1. rec \in Records
    BY <1>r, UpdateType
  <2>2. LifeStep(run[r], rec)
    BY <1>r DEF LifeStep, Records
  <2>3. Becomes(r, rec) \/ UNCHANGED run
    BY <1>t DEF TearDownRunnable
  <2> HIDE DEF rec
  <2> QED BY <1>t, <2>1, <2>2, <2>3, LifeBecomes, LifeStutter
<1>4. CASE DispatchProgress
  <2>1. UNCHANGED <<mRunnables, mWorkQueue>>
    BY <1>4 DEF DispatchProgress, service, pool
  <2>2. CASE Head(handler).arg = Done
    <3>1. Head(handler).r \in Runnables /\ TearDownRunnable(Head(handler).r)
      BY <1>4, <2>2, HeadType DEF DispatchProgress, Dispatch
    <3> QED BY <1>t, <2>1, <3>1
  <2>3. CASE Head(handler).arg # Done
    BY <1>4, <2>1, <2>3, LifeStutter DEF DispatchProgress
  <2> QED BY <2>2, <2>3
<1>5. CASE DispatchError
  <2>1. UNCHANGED <<mRunnables, mWorkQueue>>
    BY <1>5 DEF DispatchError, service, pool
  <2>2. CASE Head(handler).r # None
    <3>1. Head(handler).r \in Runnables /\ TearDownRunnable(Head(handler).r)
      BY <1>5, <2>2, HeadType DEF DispatchError, Dispatch
    <3> QED BY <1>t, <2>1, <3>1
  <2>3. CASE Head(handler).r = None
    BY <1>5, <2>1, <2>3, LifeStutter DEF DispatchError
  <2> QED BY <2>2, <2>3
<1>6. CASE DispatchComplete
  <2>1. Head(handler).r \in Runnables
    BY <1>6, HeadType DEF DispatchComplete, Dispatch
  <2>2. PICK o \in {"ok", "error", "cancelled"} : Settle(Head(handler).r, o)
    BY <1>6 DEF DispatchComplete
  <2>3. \A q \in Runnables : LifeStep(run[q], run'[q])
    BY <2>1, <2>2, LifeSettle
  <2> QED BY <1>6, <2>3, LifeKeep DEF DispatchComplete, service, pool
<1> QED BY <1>1, <1>2, <1>3, <1>4, <1>5, <1>6 DEF Dispatcher

(* cancelDownload and tearDown keep LifeInv: what they remove from           *)
(* mRunnables has settled, and a runnable they would remove from the work    *)
(* queue is no longer there.                                                 *)
LEMMA LifeCancel == TypeOK /\ LifeInv /\ CancelDownload => LifeInv'
<1> SUFFICES ASSUME TypeOK, LifeInv, CancelDownload PROVE LifeInv'
  OBVIOUS
<1>r. \A r \in Runnables : run[r] \in Records
  BY DEF TypeOK
<1>q. /\ mRunnables \in Seq(Runnables) /\ mWorkQueue \in Seq(Runnables)
      /\ main \in MainStates
  BY DEF TypeOK
<1>m. /\ main.i \in Nat \ {0} /\ main.array \in Seq(Runnables \cup {None})
      /\ main.at = "queued" => main.len = Len(main.array)
  BY <1>q, MainUpdates
<1>1. CASE CancelToArray \/ EndCancelRunnables \/ EndCancel
  BY <1>1, LifeStutter DEF CancelToArray, EndCancelRunnables, EndCancel, service, pool
<1>2. CASE CancelRunnable
  <2> DEFINE r == mRunnables[main.i]
             hit == main.i <= Len(mRunnables) /\ Matches(r)
  <2>1. mWorkQueue' = mWorkQueue
    BY <1>2 DEF CancelRunnable
  <2>2. CASE hit /\ run[r].future # "null"
    <3>1. Settle(r, "cancelled") /\ mRunnables' = Remove(mRunnables, r)
      BY <1>2, <2>2 DEF CancelRunnable, CancelFuture
    <3>2. r \in Runnables
      BY <1>m, <1>q, <2>2
    <3>3. /\ \A q \in Runnables : LifeStep(run[q], run'[q])
          /\ \A q \in Runnables : q # r => run'[q] = run[q]
          /\ run'[r].future \notin {"null", "pending"}
      BY <2>2, <3>1, <3>2, LifeSettle
    <3>4. \A q \in Elements(mRunnables) : q # r => q \in Elements(mRunnables')
      BY <1>q, <3>1, RemoveFacts
    <3> HIDE DEF r, hit
    <3>5. ListInv'
      BY <3>3, <3>4 DEF LifeInv, ListInv
    <3>6. QueueInv'
      <4>1. \A k \in DOMAIN mWorkQueue : mWorkQueue[k] \in Runnables
        BY <1>q
      <4> QED BY <2>1, <3>3, <4>1 DEF LifeInv, QueueInv, LifeStep
    <3>7. FutureInv'
      BY <3>3 DEF LifeInv, FutureInv, LifeStep
    <3> QED BY <3>5, <3>6, <3>7 DEF LifeInv
  <2>3. CASE ~(hit /\ run[r].future # "null")
    BY <1>2, <2>1, <2>3, LifeStutter DEF CancelRunnable
  <2> QED BY <2>2, <2>3
<1>3. CASE CancelQueued
  <2> DEFINE r == main.array[main.i]
             hit == r # None /\ run[r].mThread # NoThread /\ Matches(r)
  <2>1. mRunnables' = mRunnables
    BY <1>3 DEF CancelQueued, service
  <2>2. CASE hit /\ run[r].future # "null"
    <3>1. Settle(r, "cancelled") /\ mWorkQueue' = Remove(mWorkQueue, r)
      BY <1>3, <2>2 DEF CancelQueued, CancelFuture
    <3>2. r \in Runnables
      <4>1. main.i <= Len(main.array)
        BY <1>3, <1>m DEF CancelQueued
      <4>2. r \in Runnables \cup {None}
        BY <1>m, <4>1
      <4> QED BY <2>2, <4>2
    <3>3. \A q \in Runnables : LifeStep(run[q], run'[q])
      BY <3>1, <3>2, LifeSettle
    <3>4. \A k \in DOMAIN mWorkQueue : mWorkQueue[k] # r
      BY <2>2, <3>2 DEF LifeInv, QueueInv, FutureInv, Early
    <3>5. mWorkQueue' = mWorkQueue
      BY <3>1, <3>4 DEF Remove
    <3> QED BY <2>1, <3>3, <3>5, LifeKeep
  <2>3. CASE ~(hit /\ run[r].future # "null")
    BY <1>3, <2>1, <2>3, LifeStutter DEF CancelQueued
  <2> QED BY <2>2, <2>3
<1>4. CASE ShutdownNow
  <2>1. mRunnables' = mRunnables /\ mWorkQueue' = <<>>
    BY <1>4 DEF ShutdownNow
  <2>2. \A r \in Runnables : run'[r] = IF run[r].pc = "queued"
                                 THEN [run[r] EXCEPT !.pc = "drained"] ELSE run[r]
    BY <1>4 DEF ShutdownNow
  <2>3. \A r \in Runnables : /\ run'[r].future = run[r].future
                            /\ run'[r].pc = IF run[r].pc = "queued" THEN "drained"
                                            ELSE run[r].pc
    BY <1>r, <2>2 DEF Records
  <2>4. QueueInv'
    BY <2>1 DEF QueueInv
  <2>5. FutureInv'
    BY <2>3 DEF LifeInv, FutureInv, Early
  <2>6. ListInv'
    BY <2>1, <2>3 DEF LifeInv, ListInv
  <2> QED BY <2>4, <2>5, <2>6 DEF LifeInv
<1> QED BY <1>1, <1>2, <1>3, <1>4 DEF CancelDownload

(* The pool threads keep LifeInv. *)
LEMMA LifeWorker ==
  ASSUME TypeOK, LifeInv, NEW t \in Threads, Worker(t)
  PROVE  LifeInv'
<1>0. task[t] # None => task[t] \in Runnables
  BY DEF TypeOK
<1>r. \A r \in Runnables : run[r] \in Records
  BY DEF TypeOK
<1> DEFINE r == task[t]
<1>1. CASE Take(t)
  <2> DEFINE h == Head(mWorkQueue)
             rec == [run[h] EXCEPT !.pc = "ready"]
  <2>1. mWorkQueue \in Seq(Runnables) /\ mWorkQueue # <<>>
    BY <1>1 DEF Take, TypeOK
  <2>2. /\ h \in Runnables /\ h = mWorkQueue[1] /\ Len(mWorkQueue) \in Nat \ {0}
        /\ DOMAIN mWorkQueue = 1..Len(mWorkQueue)
        /\ DOMAIN mWorkQueue' = 1..(Len(mWorkQueue) - 1)
        /\ \A k \in DOMAIN mWorkQueue' : mWorkQueue'[k] = mWorkQueue[k + 1]
    BY <1>1, <2>1, TailFacts DEF Take
  <2>3. run[h].pc = "queued" /\ run[h].future = "null"
    BY <2>2 DEF LifeInv, QueueInv, FutureInv, Early
  <2>4. /\ rec \in Records /\ Becomes(h, rec) /\ rec.pc = "ready"
        /\ rec.future = run[h].future
    <3>1. rec \in Records
      BY <1>r, <2>2, UpdateType
    <3>2. rec.pc = "ready" /\ rec.future = run[h].future
      BY <1>r, <2>2 DEF Records
    <3> QED BY <1>1, <3>1, <3>2 DEF Take
  <2> HIDE DEF h, rec
  <2>5. \A q \in Runnables : run'[q] = IF q = h THEN rec ELSE run[q]
    BY <2>2, <2>4, BecomesFacts
  <2>6. mRunnables' = mRunnables
    BY <1>1 DEF Take, service
  <2>7. FutureInv'
    BY <2>3, <2>4, <2>5 DEF LifeInv, FutureInv
  <2>8. ListInv'
    BY <2>3, <2>4, <2>5, <2>6 DEF LifeInv, ListInv
  <2>9. QueueInv'
    <3>1. \A k \in DOMAIN mWorkQueue' :
            /\ k + 1 \in DOMAIN mWorkQueue /\ k + 1 # 1 /\ 1 \in DOMAIN mWorkQueue
            /\ mWorkQueue[k + 1] \in Runnables
      BY <2>1, <2>2
    <3>2. ASSUME NEW k \in DOMAIN mWorkQueue'
          PROVE  run'[mWorkQueue'[k]].pc = "queued"
      <4>1. mWorkQueue[k + 1] # h
        BY <2>2, <3>1 DEF LifeInv, QueueInv
      <4> QED BY <2>2, <2>5, <3>1, <4>1 DEF LifeInv, QueueInv
    <3>3. ASSUME NEW j \in DOMAIN mWorkQueue', NEW k \in DOMAIN mWorkQueue',
                 mWorkQueue'[j] = mWorkQueue'[k]
          PROVE  j = k
      <4>1. j + 1 = k + 1
        BY <2>2, <3>1, <3>3 DEF LifeInv, QueueInv
      <4> QED BY <2>2, <4>1
    <3> QED BY <3>2, <3>3 DEF QueueInv
  <2> QED BY <2>7, <2>8, <2>9 DEF LifeInv
<1>2. CASE BeginRun(t)
  <2> DEFINE rec == [run[r] EXCEPT !.pc = "begun", !.mThread = t]
  <2>1. r \in Runnables /\ run[r].pc = "ready"
    BY <1>0, <1>2 DEF BeginRun, At
  <2>2. rec \in Records
    BY <1>r, <2>1, UpdateType
  <2>3. LifeStep(run[r], rec)
    BY <1>r, <2>1 DEF LifeStep, Records, Early
  <2> QED BY <1>2, <2>1, <2>2, <2>3, LifeBecomes DEF BeginRun, service
<1>3. ASSUME NEW n \in Networks, NEW p \in Preferences, EnqueueDownload(t, n, p)
      PROVE  LifeInv'
  <2>1. r \in Runnables /\ run[r].pc = "begun" /\ run[r] \in Records
    BY <1>0, <1>3, <1>r DEF EnqueueDownload, At
  <2>2. run[r].future = "null" /\ Warns(n, p) \in BOOLEAN
    BY <2>1 DEF LifeInv, FutureInv, Early, Warns
  <2>3. UNCHANGED <<mRunnables, mWorkQueue>>
    BY <1>3 DEF EnqueueDownload, service
  <2>4. CASE EnqueueOk(n, p)
    <3> DEFINE rec == [run[r] EXCEPT !.pc = "enqueued", !.future = "pending",
                              !.transfer = "active", !.premature = @ \/ Warns(n, p)]
    <3>1. rec \in Records
      BY <2>1, <2>2, UpdateType, Zenon
    <3>2. LifeStep(run[r], rec)
      BY <2>1, <2>2 DEF LifeStep, Records, Early
    <3>3. Becomes(r, rec)
      BY <1>3, <2>4 DEF EnqueueDownload
    <3> QED BY <2>1, <2>3, <3>1, <3>2, <3>3, LifeBecomes, Zenon
  <2>5. CASE ~EnqueueOk(n, p)
    <3> DEFINE rec == [run[r] EXCEPT !.pc = "finished", !.premature = @ \/ Warns(n, p)]
    <3>1. rec \in Records
      BY <2>1, <2>2, UpdateType, Zenon
    <3>2. LifeStep(run[r], rec)
      BY <2>1, <2>2 DEF LifeStep, Records, Early
    <3>3. Becomes(r, rec)
      BY <1>3, <2>5 DEF EnqueueDownload
    <3> QED BY <2>1, <2>3, <3>1, <3>2, <3>3, LifeBecomes, Zenon
  <2> QED BY <2>4, <2>5
<1>4. CASE PostStart(t)
  <2> DEFINE rec == [run[r] EXCEPT !.pc = "waiting"]
  <2>1. r \in Runnables /\ run[r].pc = "enqueued"
    BY <1>0, <1>4 DEF PostStart, At
  <2>2. rec \in Records
    BY <1>r, <2>1, UpdateType
  <2>3. LifeStep(run[r], rec)
    BY <1>r, <2>1 DEF LifeStep, Records, Early
  <2> QED BY <1>4, <2>1, <2>2, <2>3, LifeBecomes DEF PostStart, service, pool
<1>5. CASE FinishRun(t)
  <2> DEFINE rec == [run[r] EXCEPT !.pc = "finished"]
  <2>1. r \in Runnables /\ run[r].pc = "waiting"
    BY <1>0, <1>5 DEF FinishRun, At
  <2>2. rec \in Records
    BY <1>r, <2>1, UpdateType
  <2>3. LifeStep(run[r], rec)
    BY <1>r, <2>1 DEF LifeStep, Records, Early
  <2> QED BY <1>5, <2>1, <2>2, <2>3, LifeBecomes DEF FinishRun, service
<1> QED BY <1>1, <1>2, <1>3, <1>4, <1>5 DEF Worker

(* Every step keeps LifeInv. *)
LEMMA LifeNext == TypeOK /\ LifeInv /\ [Next]_vars => LifeInv'
<1> SUFFICES ASSUME TypeOK, LifeInv, [Next]_vars PROVE LifeInv'
  OBVIOUS
<1>1. CASE UNCHANGED vars
  BY <1>1, LifeStutter DEF vars, service, pool
<1>2. ASSUME NEW r \in Runnables, TransferEnds(r) PROVE LifeInv'
  <2> DEFINE rec == [run[r] EXCEPT !.transfer = "over"]
  <2>1. run[r] \in Records
    BY DEF TypeOK
  <2>2. rec \in Records
    BY <2>1, UpdateType
  <2>3. LifeStep(run[r], rec)
    BY <2>1 DEF LifeStep, Records
  <2> QED BY <1>2, <2>2, <2>3, LifeBecomes DEF TransferEnds, service, pool
<1>3. ASSUME NEW r \in Runnables, NEW p \in Percentages, OnProgress(r, p) PROVE LifeInv'
  <2> DEFINE rec == [run[r] EXCEPT !.old = p, !.premature = @ \/ p = Done]
  <2>1. run[r] \in Records
    BY DEF TypeOK
  <2>2. rec \in Records
    BY <2>1, UpdateType, Zenon
  <2>3. LifeStep(run[r], rec)
    BY <2>1 DEF LifeStep, Records
  <2> QED BY <1>3, <2>2, <2>3, LifeBecomes DEF OnProgress, service, pool
<1>4. CASE DeliverCommand \/ (Environment /\ ~ProcessDeath)
  BY <1>4, LifeStutter DEF Environment, DeliverCommand, Start, ClickCancel,
    FragmentStart, FragmentStop, ServiceDestroyed, service, pool
<1>5. CASE ProcessDeath
  <2>1. /\ mRunnables' = <<>> /\ mWorkQueue' = <<>>
        /\ \A r \in Runnables : run'[r].future = "null" /\ run'[r].pc \in {"none", "gone"}
    BY <1>5 DEF ProcessDeath, Fresh
  <2> QED BY <2>1 DEF LifeInv, QueueInv, FutureInv, ListInv
<1> QED BY <1>1, <1>2, <1>3, <1>4, <1>5, LifeDispatcher, LifeCancel, LifeWorker DEF Next

-----------------------------------------------------------------------------
(* The looper's queue and the bus. *)

(* New messages that tear nothing down, and a record that only moves on. *)
BusStep(rec, new) ==
  /\ new.bus = rec.bus /\ new.premature = rec.premature
  /\ Sound(rec) => Sound(new)
  /\ rec.pc = "finished" => new.pc = "finished"
  /\ new.pc \notin {"none", "gone"} => rec.pc \notin {"none", "gone"}

LEMMA GoodKeep ==
  ASSUME NEW q \in Seq(Messages), NEW x \in Seq(Messages), NEW r, NEW rec, NEW new,
         Good(q, rec, r), ~Ends(x, r),
         BusStep(rec, new) \/ (/\ Starts(x, r) /\ rec.pc = "none" /\ Sound(new)
                              /\ new.bus = rec.bus /\ new.premature = rec.premature)
  PROVE  Good(q \o x, new, r)
<1>1. EndsOnce(x, r)
  BY DEF EndsOnce, Ends
<1> QED BY <1>1, QueueConcat DEF Good, BusStep

(* A message at the head that is of no concern to r. *)
LEMMA GoodTail ==
  ASSUME NEW q \in Seq(Messages), q # <<>>, NEW r, NEW rec, Good(q, rec, r),
         Head(q) # Msg("startup", r, 0), ~TearsDown(Head(q), r)
  PROVE  Good(Tail(q), rec, r)
  BY QueueTail DEF Good

(* The message at the head registers r. *)
LEMMA GoodStartup ==
  ASSUME NEW q \in Seq(Messages), q # <<>>, NEW r, NEW rec, NEW new, Good(q, rec, r),
         new.bus = "registered", new.premature = rec.premature, new.pc = rec.pc,
         Sound(new)
  PROVE  Good(Tail(q), new, r)
  BY QueueTail DEF Good

(* The message at the head tears r down: it was registered before.        *)
LEMMA GoodTearDown ==
  ASSUME NEW q \in Seq(Messages), q # <<>>, NEW r, NEW rec, NEW new, Good(q, rec, r),
         TearsDown(Head(q), r),
         new.premature = rec.premature, new.pc = rec.pc, new.bus = "unregistered",
         Sound(new)
  PROVE  rec.bus # "never" /\ Good(Tail(q), new, r)
  BY QueueTail DEF Good

(* A message that tears r down is added as its run ends. *)
LEMMA GoodEnd ==
  ASSUME NEW q \in Seq(Messages), NEW m \in Messages, NEW r, NEW rec, NEW new,
         Good(q, rec, r), TearsDown(m, r),
         rec.pc \notin {"none", "gone", "finished"}, new.pc = "finished",
         new.bus = rec.bus, new.premature = rec.premature, Sound(new)
  PROVE  Good(q \o <<m>>, new, r)
<1>1. <<m>> \in Seq(Messages)
  OBVIOUS
<1>2. EndsOnce(<<m>>, r) /\ Ends(<<m>>, r)
  BY QueueSingle
<1> QED BY <1>1, <1>2, QueueConcat DEF Good

(* A premature runnable is only promised that its startup comes first.       *)
LEMMA GoodPremature ==
  ASSUME NEW q \in Seq(Messages), NEW x \in Seq(Messages), NEW r, NEW rec, NEW new,
         Good(q, rec, r), rec.pc \notin {"none", "gone"} \/ rec.bus # "never",
         new.bus = rec.bus, new.premature = TRUE, Sound(new)
  PROVE  Good(q \o x, new, r)
  BY QueueConcat DEF Good

(* Messages x are added that tear nothing down. *)
LEMMA BusConcat ==
  ASSUME TypeOK, BusInv, NEW x \in Seq(Messages), handler' = handler \o x,
         \A r \in Runnables : ~Ends(x, r),
         \A r \in Runnables : BusStep(run[r], run'[r])
  PROVE  BusInv'
<1>1. handler \in Seq(Messages)
  BY DEF TypeOK
<1>2. ASSUME NEW r \in Runnables PROVE Good(handler', run'[r], r)
  BY <1>1, GoodKeep DEF BusInv
<1> QED BY <1>2 DEF BusInv

(* The message at the head, of no concern to the bus, is replaced by x, which *)
(* tears down only premature runnables that were registered.                 *)
LEMMA BusTail ==
  ASSUME TypeOK, BusInv, handler # <<>>, Head(handler).what # "startup",
         \A r \in Runnables : ~TearsDown(Head(handler), r),
         NEW x \in Seq(Messages), handler' = Tail(handler) \o x,
         \A r \in Runnables :
           Ends(x, r) => run[r].premature = TRUE /\ run[r].bus # "never",
         \A r \in Runnables : BusStep(run[r], run'[r])
  PROVE  BusInv'
<1>1. handler \in Seq(Messages) /\ Tail(handler) \in Seq(Messages)
  BY DEF TypeOK
<1>2. ASSUME NEW r \in Runnables PROVE Good(handler', run'[r], r)
  <2>1. Head(handler) # Msg("startup", r, 0)
    BY DEF Msg
  <2>2. Good(Tail(handler), run[r], r)
    BY <1>1, <2>1, GoodTail DEF BusInv
  <2>3. CASE ~Ends(x, r)
    BY <1>1, <2>2, <2>3, GoodKeep
  <2>4. CASE Ends(x, r)
    <3>1. /\ run[r].premature = TRUE /\ run[r].bus # "never"
          /\ run'[r].bus = run[r].bus /\ run'[r].premature = TRUE
      BY <2>4 DEF BusStep
    <3>2. Sound(run'[r])
      BY <2>2 DEF Good, BusStep
    <3> QED BY <1>1, <2>2, <3>1, <3>2, GoodPremature
  <2> QED BY <2>3, <2>4
<1> QED BY <1>2 DEF BusInv

(* Neither the queue nor what concerns the bus changes. *)
LEMMA BusStutter ==
  ASSUME TypeOK, BusInv, handler' = handler,
         \A r \in Runnables : BusStep(run[r], run'[r])
  PROVE  BusInv'
<1>1. handler \in Seq(Messages) /\ <<>> \in Seq(Messages)
  BY DEF TypeOK
<1>2. handler' = handler \o <<>>
  BY <1>1
<1>3. \A r \in Runnables : ~Ends(<<>>, r)
  BY QueueSingle
<1> QED BY <1>1, <1>2, <1>3, BusConcat

(* One record changes, or none. *)
LEMMA BusBecomes ==
  ASSUME TypeOK,
         UNCHANGED run \/ \E r \in Runnables, rec \in Records :
                             Becomes(r, rec) /\ BusStep(run[r], rec)
  PROVE  \A r \in Runnables : BusStep(run[r], run'[r])
<1>1. \A r \in Runnables : BusStep(run[r], run[r])
  BY DEF BusStep
<1>2. CASE UNCHANGED run
  BY <1>1, <1>2
<1>3. ASSUME NEW r \in Runnables, NEW rec \in Records, Becomes(r, rec),
             BusStep(run[r], rec)
      PROVE  \A q \in Runnables : BusStep(run[q], run'[q])
  <2>1. \A q \in Runnables : run'[q] = IF q = r THEN rec ELSE run[q]
    BY <1>3, BecomesFacts
  <2> QED BY <1>1, <1>3, <2>1
<1> QED BY <1>2, <1>3

(* Settling a future does not concern the bus. *)
LEMMA BusSettle ==
  ASSUME TypeOK, NEW r \in Runnables, NEW o \in {"ok", "error", "cancelled"},
         Settle(r, o)
  PROVE  \A q \in Runnables : BusStep(run[q], run'[q])
<1> DEFINE rec == [run[r] EXCEPT !.future = IF @ = "pending" THEN o ELSE @]
<1>1. run[r] \in Records
  BY DEF TypeOK
<1>2. rec \in Records /\ Becomes(r, rec)
  BY <1>1, UpdateType DEF Settle
<1>3. BusStep(run[r], rec)
  BY <1>1 DEF BusStep, Sound, Records
<1> HIDE DEF rec
<1> QED BY <1>2, <1>3, BusBecomes

(* The messages that tear nothing down. *)
LEMMA Harmless ==
  ASSUME NEW r \in Runnables
  PROVE  /\ \A w \in {"startupService", "tearDownService", "refresh", "dummy"} :
              ~TearsDown(Msg(w, None, 0), r)
         /\ ~TearsDown(Msg("error", None, REASON_UNKNOWN), r)
         /\ \A q : ~TearsDown(Msg("startup", q, 0), r)
         /\ \A q, a : ~TearsDown(Msg("complete", q, a), r)
         /\ \A q, a : TearsDown(Msg("progress", q, a), r) => a = Done /\ q = r
         /\ \A m \in CommandMessages : ~TearsDown(m, r)
<1>2. r # None
  BY DEF Runnables, None
<1>3. \A m \in CommandMessages : ~TearsDown(m, r)
  BY DEF CommandMessages, TearsDown
<1> QED BY <1>2, <1>3 DEF TearsDown, Msg

(* The main looper's steps keep BusInv. *)
LEMMA BusDispatcher == TypeOK /\ BusInv /\ Dispatcher => BusInv'
<1> SUFFICES ASSUME TypeOK, BusInv, Dispatcher PROVE BusInv'
  OBVIOUS
<1> DEFINE m == Head(handler)
<1>0. /\ handler \in Seq(Messages) /\ handler # <<>> /\ m \in Messages
      /\ Tail(handler) \in Seq(Messages)
      /\ m.r \in Runnables \cup {None} /\ m.did \in Ids \cup {NoId}
      /\ m.what \in {"startup", "progress", "complete"} => m.r \in Runnables
  BY HeadType DEF TypeOK, Dispatcher, Dispatch, OnStopCommand, OnStartCommand,
    StartupService, StartupRunnable, TearDownService, DispatchProgress, DispatchError,
    DispatchRefresh, DispatchDummy, DispatchComplete
<1>r. \A r \in Runnables : run[r] \in Records
  BY DEF TypeOK
<1>s. \A r \in Runnables : Sound(run[r])
  BY DEF BusInv, Good
<1>e. /\ <<>> \in Seq(Messages) /\ Tail(handler) \o <<>> = Tail(handler)
      /\ \A r \in Runnables : ~Ends(<<>>, r)
  <2>1. <<>> \in Seq(Messages) /\ Tail(handler) \o <<>> = Tail(handler)
    BY <1>0
  <2> QED BY <2>1, QueueSingle
<1>p. \A r \in Runnables : m.what \notin {"error", "progress"} => ~TearsDown(m, r)
  BY DEF TearsDown
<1>1. CASE OnStopCommand
  <2> DEFINE x == If(m.what = "stop" \/ mWorkQueue = <<>>, Msg("tearDownService", None, 0))
  <2>1. m.what \in {"stop", "null"} /\ handler' = Tail(handler) \o x
    BY <1>1 DEF OnStopCommand, Dispatch
  <2>2. x \in Seq(Messages)
    BY MsgType DEF If
  <2>3. \A r \in Runnables : ~Ends(x, r)
    BY IfEnds, Harmless
  <2>4. \A r \in Runnables : BusStep(run[r], run'[r])
    BY <1>1, BusBecomes DEF OnStopCommand
  <2> HIDE DEF x
  <2> QED BY <1>0, <1>p, <2>1, <2>2, <2>3, <2>4, BusTail
<1>2. ASSUME NEW r \in Runnables, OnStartCommand(r) PROVE BusInv'
  <2> DEFINE x == If(~isRegistered, Msg("startupService", None, 0))
             y == DownloadRunnable(r)
             z == If(mThreadPool = "shutdown", Msg("error", None, REASON_UNKNOWN))
             w == (x \o y) \o z
  <2>1. PICK pc \in {"ready", "queued", "rejected"} : Execute(r, m.did, pc)
    BY <1>2 DEF OnStartCommand
  <2> DEFINE rec == [run[r] EXCEPT !.pc = pc, !.id = m.did]
  <2>2. m.what = "start" /\ run[r].pc = "none"
    BY <1>2 DEF OnStartCommand, Dispatch
  <2>3. x \in Seq(Messages) /\ y \in Seq(Messages) /\ z \in Seq(Messages)
    BY MsgType DEF If, DownloadRunnable
  <2>4. /\ handler' = Tail(handler) \o w /\ w \in Seq(Messages)
        /\ x \o y \in Seq(Messages)
    <3>1. handler' = Tail(handler) \o x \o y \o z
      BY <1>2 DEF OnStartCommand
    <3> HIDE DEF x, y, z
    <3>2. x \o y \in Seq(Messages) /\ w \in Seq(Messages)
      BY <2>3, ConcatFacts
    <3>3. Tail(handler) \o x \o y \o z = Tail(handler) \o w
      <4> DEFINE h == Tail(handler)
      <4>1. h \in Seq(Messages)
        BY <1>0
      <4> HIDE DEF h
      <4>2. h \o x \o y \o z = h \o ((x \o y) \o z)
        BY <2>3, <4>1
      <4> QED BY <4>2 DEF h
    <3> QED BY <3>1, <3>2, <3>3
  <2>5. \A q \in Runnables : ~Ends(x, q) /\ ~Ends(y, q) /\ ~Ends(z, q)
    BY IfEnds, QueueSingle, Harmless DEF DownloadRunnable
  <2>6. Starts(y, r)
    BY QueueSingle DEF DownloadRunnable
  <2> HIDE DEF x, y, z
  <2>7. Starts(w, r) /\ \A q \in Runnables : ~Ends(w, q)
    <3>1. Starts(x \o y, r) /\ \A q \in Runnables : ~Ends(x \o y, q)
      BY <2>3, <2>5, <2>6, QueueConcat
    <3> DEFINE v == x \o y
    <3>2. v \in Seq(Messages) /\ Starts(v, r) /\ \A q \in Runnables : ~Ends(v, q)
      BY <2>4, <3>1
    <3> HIDE DEF v
    <3>3. Starts(v \o z, r) /\ \A q \in Runnables : ~Ends(v \o z, q)
      BY <2>3, <2>5, <3>2, QueueConcat
    <3> QED BY <3>3 DEF v
  <2>8. /\ rec \in Records /\ Becomes(r, rec)
        /\ rec.bus = run[r].bus /\ rec.premature = run[r].premature /\ Sound(rec)
    <3>1. rec \in Records
      BY <1>0, <1>r, UpdateType
    <3>2. /\ rec.bus = run[r].bus /\ rec.premature = run[r].premature
          /\ rec.pc = pc /\ rec.old = run[r].old /\ rec.transfer = run[r].transfer
      BY <1>r DEF Records
    <3>3. Sound(rec)
      BY <1>s, <3>2 DEF Sound
    <3> QED BY <2>1, <3>1, <3>2, <3>3 DEF Execute
  <2> HIDE DEF rec, w
  <2>9. \A q \in Runnables : run'[q] = IF q = r THEN rec ELSE run[q]
    BY <2>8, BecomesFacts
  <2>10. ASSUME NEW q \in Runnables PROVE Good(handler', run'[q], q)
    <3>1. m # Msg("startup", q, 0)
      BY <2>2 DEF Msg
    <3>2. Good(Tail(handler), run[q], q)
      BY <1>0, <1>p, <2>2, <3>1, GoodTail DEF BusInv
    <3>3. CASE q = r
      BY <1>0, <2>2, <2>4, <2>7, <2>8, <2>9, <3>2, <3>3, GoodKeep
    <3>4. CASE q # r
      <4>1. BusStep(run[q], run'[q])
        BY <2>9, <3>4 DEF BusStep
      <4> QED BY <1>0, <2>4, <2>7, <3>2, <4>1, GoodKeep
    <3> QED BY <3>3, <3>4
  <2> QED BY <2>10 DEF BusInv
<1>3. CASE StartupService
  <2> DEFINE x == If(~isRegistered /\ attached, Msg("refresh", None, 0))
  <2>1. m.what = "startupService" /\ handler' = Tail(handler) \o x
    BY <1>3 DEF StartupService, Dispatch
  <2>2. x \in Seq(Messages)
    BY MsgType DEF If
  <2>3. \A r \in Runnables : ~Ends(x, r)
    BY IfEnds, Harmless
  <2>4. \A r \in Runnables : BusStep(run[r], run'[r])
    BY <1>3, BusBecomes DEF StartupService
  <2> HIDE DEF x
  <2> QED BY <1>0, <1>p, <2>1, <2>2, <2>3, <2>4, BusTail
<1>4. CASE StartupRunnable
  <2> DEFINE rec == [run[m.r] EXCEPT !.bus = "registered"]
  <2>1. m.what = "startup" /\ m.r \in Runnables /\ handler' = Tail(handler)
    BY <1>0, <1>4 DEF StartupRunnable, Dispatch
  <2>2. /\ rec \in Records /\ Becomes(m.r, rec) /\ rec.bus = "registered"
        /\ rec.premature = run[m.r].premature /\ rec.pc = run[m.r].pc /\ Sound(rec)
    <3>1. rec \in Records
      BY <1>r, <2>1, UpdateType
    <3>2. /\ rec.bus = "registered" /\ rec.premature = run[m.r].premature
          /\ rec.pc = run[m.r].pc /\ rec.old = run[m.r].old
          /\ rec.transfer = run[m.r].transfer
      BY <1>r, <2>1 DEF Records
    <3>3. Sound(rec)
      BY <1>s, <2>1, <3>2 DEF Sound
    <3> QED BY <1>4, <3>1, <3>2, <3>3 DEF StartupRunnable
  <2> HIDE DEF rec
  <2>3. \A q \in Runnables : run'[q] = IF q = m.r THEN rec ELSE run[q]
    BY <2>1, <2>2, BecomesFacts
  <2>4. ASSUME NEW q \in Runnables PROVE Good(handler', run'[q], q)
    <3>1. CASE q = m.r
      <4>1. Good(Tail(handler), rec, q)
        BY <1>0, <2>2, <3>1, GoodStartup DEF BusInv
      <4> QED BY <2>1, <2>3, <3>1, <4>1
    <3>2. CASE q # m.r
      <4>1. m # Msg("startup", q, 0)
        BY <3>2 DEF Msg
      <4>2. Good(Tail(handler), run[q], q)
        BY <1>0, <1>p, <2>1, <4>1, GoodTail DEF BusInv
      <4> QED BY <2>1, <2>3, <3>2, <4>2
    <3> QED BY <3>1, <3>2
  <2> QED BY <2>4 DEF BusInv
<1>5. CASE TearDownService \/ DispatchDummy
  <2>1. /\ m.what \in {"tearDownService", "dummy"} /\ handler' = Tail(handler)
        /\ UNCHANGED run
    BY <1>5 DEF TearDownService, DispatchDummy, Dispatch
  <2>2. \A r \in Runnables : BusStep(run[r], run'[r])
    BY <2>1, BusBecomes
  <2> QED BY <1>0, <1>e, <1>p, <2>1, <2>2, BusTail
<1>t. ASSUME m.r \in Runnables, TearDownRunnable(m.r), TearsDown(m, m.r),
             handler' = Tail(handler)
      PROVE  BusInv'
  <2> DEFINE rec == [run[m.r] EXCEPT !.bus = "unregistered"]
  <2>1. /\ rec \in Records /\ rec.bus = "unregistered"
        /\ rec.premature = run[m.r].premature /\ rec.pc = run[m.r].pc /\ Sound(rec)
    <3>1. rec \in Records
      BY <1>r, <1>t, UpdateType
    <3>2. /\ rec.bus = "unregistered" /\ rec.premature = run[m.r].premature
          /\ rec.pc = run[m.r].pc /\ rec.old = run[m.r].old
          /\ rec.transfer = run[m.r].transfer
      BY <1>r, <1>t DEF Records
    <3>3. Sound(rec)
      BY <1>s, <1>t, <3>2 DEF Sound
    <3> QED BY <3>1, <3>2, <3>3
  <2>2. \/ Becomes(m.r, rec)
        \/ UNCHANGED run /\ run[m.r].bus \in {"never", "unregistered"}
    BY <1>r, <1>t DEF TearDownRunnable, Records
  <2> HIDE DEF rec
  <2>3. run[m.r].bus # "never" /\ Good(Tail(handler), rec, m.r)
    BY <1>0, <1>t, <2>1, GoodTearDown DEF BusInv
  <2>4. ASSUME NEW q \in Runnables, q # m.r PROVE Good(handler', run[q], q)
    <3>1. m # Msg("startup", q, 0) /\ ~TearsDown(m, q)
      BY <2>4 DEF Msg, TearsDown
    <3> QED BY <1>0, <1>t, <3>1, GoodTail DEF BusInv
  <2>5. CASE Becomes(m.r, rec)
    <3>1. \A q \in Runnables : run'[q] = IF q = m.r THEN rec ELSE run[q]
      BY <1>t, <2>1, <2>5, BecomesFacts
    <3> QED BY <1>t, <2>3, <2>4, <3>1 DEF BusInv
  <2>6. CASE UNCHANGED run /\ run[m.r].bus = "unregistered"
    <3>1. Good(Tail(handler), run[m.r], m.r)
      BY <1>0, <1>s, <1>t, <2>6, GoodTearDown DEF BusInv
    <3> QED BY <1>t, <2>4, <2>6, <3>1 DEF BusInv
  <2> QED BY <2>2, <2>3, <2>5, <2>6
<1>6. CASE DispatchProgress
  <2>1. m.what = "progress" /\ m.r \in Runnables /\ handler' = Tail(handler)
    BY <1>0, <1>6 DEF DispatchProgress, Dispatch
  <2>2. CASE m.arg = Done
    BY <1>6, <1>t, <2>1, <2>2 DEF DispatchProgress, TearsDown
  <2>3. CASE m.arg # Done
    <3>1. \A r \in Runnables : BusStep(run[r], run'[r])
      BY <1>6, <2>3, BusBecomes DEF DispatchProgress
    <3>2. \A r \in Runnables : ~TearsDown(m, r)
      BY <2>1, <2>3 DEF TearsDown
    <3> QED BY <1>0, <1>e, <2>1, <3>1, <3>2, BusTail
  <2> QED BY <2>2, <2>3
<1>7. CASE DispatchError
  <2>1. m.what = "error" /\ handler' = Tail(handler)
    BY <1>7 DEF DispatchError, Dispatch
  <2>2. CASE m.r # None
    BY <1>0, <1>7, <1>t, <2>1, <2>2 DEF DispatchError, TearsDown
  <2>3. CASE m.r = None
    <3>1. \A r \in Runnables : BusStep(run[r], run'[r])
      BY <1>7, <2>3, BusBecomes DEF DispatchError
    <3>2. \A r \in Runnables : ~TearsDown(m, r)
      BY <2>3 DEF TearsDown, Runnables, None
    <3> QED BY <1>0, <1>e, <2>1, <3>1, <3>2, BusTail
  <2> QED BY <2>2, <2>3
<1>8. CASE DispatchRefresh
  <2> DEFINE registered == {r \in Runnables : run[r].bus = "registered"}
             N == Cardinality(registered)
             x(s) == [k \in DOMAIN s |-> Msg("progress", s[k], ActualPercentage(s[k]))]
  <2>1. N \in Nat
    BY RegisteredFinite
  <2>2. PICK s \in [1..N -> registered] : handler' = Tail(handler) \o x(s)
    BY <1>8 DEF DispatchRefresh
  <2>3. \A r \in Runnables : ActualPercentage(r) \in Percentages \cup {0}
    BY <1>r DEF ActualPercentage, Records
  <2>4. \A k \in DOMAIN s : x(s)[k] = Msg("progress", s[k], ActualPercentage(s[k]))
    OBVIOUS
  <2>a. ASSUME NEW r \in Runnables, ActualPercentage(r) = Done
        PROVE  run[r].premature = TRUE
    <3>1. run[r].old = Done
      BY <2>a DEF ActualPercentage, Done
    <3> QED BY <1>r, <1>s, <3>1 DEF Sound, Records
  <2> HIDE DEF N
  <2>b. DOMAIN x(s) = DOMAIN s
    OBVIOUS
  <2>c. \A k \in DOMAIN s : s[k] \in Runnables /\ run[s[k]].bus = "registered"
    OBVIOUS
  <2>d. \A k \in DOMAIN s : x(s)[k] \in Messages
    BY <2>3, <2>4, <2>c, MsgType
  <2>e. x(s) \in Seq(Messages)
    BY <2>1, <2>d
  <2>5. ASSUME NEW r \in Runnables, Ends(x(s), r)
        PROVE  run[r].premature = TRUE /\ run[r].bus # "never"
    <3>1. PICK k \in DOMAIN s : TearsDown(x(s)[k], r)
      BY <2>5, <2>b DEF Ends
    <3>2. ActualPercentage(s[k]) = Done /\ s[k] = r
      BY <2>4, <3>1, Harmless
    <3> QED BY <2>a, <2>c, <3>2
  <2>6. m.what = "refresh"
    BY <1>8 DEF DispatchRefresh, Dispatch
  <2>7. \A r \in Runnables : BusStep(run[r], run'[r])
    BY <1>8, BusBecomes DEF DispatchRefresh
  <2> QED BY <1>0, <1>p, <2>2, <2>5, <2>6, <2>7, <2>e, BusTail
<1>9. CASE DispatchComplete
  <2>1. m.what = "complete" /\ m.r \in Runnables /\ handler' = Tail(handler)
    BY <1>0, <1>9 DEF DispatchComplete, Dispatch
  <2>2. PICK o \in {"ok", "error", "cancelled"} : Settle(m.r, o)
    BY <1>9 DEF DispatchComplete
  <2>3. \A r \in Runnables : BusStep(run[r], run'[r])
    BY <2>1, <2>2, BusSettle
  <2> QED BY <1>0, <1>e, <1>p, <2>1, <2>3, BusTail
<1> QED BY <1>1, <1>2, <1>3, <1>4, <1>5, <1>6, <1>7, <1>8, <1>9 DEF Dispatcher

(* cancelDownload and tearDown keep BusInv. *)
LEMMA BusCancel == TypeOK /\ BusInv /\ CancelDownload => BusInv'
<1> SUFFICES ASSUME TypeOK, BusInv, CancelDownload PROVE BusInv'
  OBVIOUS
<1>r. \A r \in Runnables : run[r] \in Records
  BY DEF TypeOK
<1>q. /\ mRunnables \in Seq(Runnables) /\ main \in MainStates
      /\ handler \in Seq(Messages)
  BY DEF TypeOK
<1>m. /\ main.i \in Nat \ {0} /\ main.array \in Seq(Runnables \cup {None})
      /\ main.at = "queued" => main.len = Len(main.array)
  BY <1>q, MainUpdates
<1>1. CASE CancelToArray \/ EndCancelRunnables
  <2>1. UNCHANGED run /\ handler' = handler
    BY <1>1 DEF CancelToArray, EndCancelRunnables
  <2> QED BY <2>1, BusBecomes, BusStutter
<1>2. CASE EndCancel
  <2>1. /\ UNCHANGED run /\ handler' = handler \o <<Msg("dummy", None, 0)>>
        /\ <<Msg("dummy", None, 0)>> \in Seq(Messages)
    BY <1>2, <1>q, MsgType DEF EndCancel
  <2>2. \A r \in Runnables : ~Ends(<<Msg("dummy", None, 0)>>, r)
    BY QueueSingle, Harmless
  <2>3. \A r \in Runnables : BusStep(run[r], run'[r])
    BY <2>1, BusBecomes
  <2> QED BY <2>1, <2>2, <2>3, BusConcat
<1>3. CASE CancelRunnable
  <2> DEFINE r == mRunnables[main.i]
             hit == main.i <= Len(mRunnables) /\ Matches(r)
  <2>1. handler' = handler
    BY <1>3 DEF CancelRunnable
  <2>2. CASE hit /\ run[r].future # "null"
    <3>1. Settle(r, "cancelled") /\ r \in Runnables
      BY <1>3, <1>m, <1>q, <2>2 DEF CancelRunnable, CancelFuture
    <3> QED BY <2>1, <3>1, BusSettle, BusStutter
  <2>3. CASE ~(hit /\ run[r].future # "null")
    BY <1>3, <2>1, <2>3, BusBecomes, BusStutter DEF CancelRunnable
  <2> QED BY <2>2, <2>3
<1>4. CASE CancelQueued
  <2> DEFINE r == main.array[main.i]
             hit == r # None /\ run[r].mThread # NoThread /\ Matches(r)
  <2>1. handler' = handler
    BY <1>4 DEF CancelQueued
  <2>2. CASE hit /\ run[r].future # "null"
    <3>1. r \in Runnables
      <4>1. main.i <= Len(main.array)
        BY <1>4, <1>m DEF CancelQueued
      <4>2. r \in Runnables \cup {None}
        BY <1>m, <4>1
      <4> QED BY <2>2, <4>2
    <3>2. Settle(r, "cancelled")
      BY <1>4, <2>2 DEF CancelQueued, CancelFuture
    <3> QED BY <2>1, <3>1, <3>2, BusSettle, BusStutter
  <2>3. CASE ~(hit /\ run[r].future # "null")
    BY <1>4, <2>1, <2>3, BusBecomes, BusStutter DEF CancelQueued
  <2> QED BY <2>2, <2>3
<1>5. CASE ShutdownNow
  <2>1. handler' = handler
    BY <1>5 DEF ShutdownNow
  <2>2. \A r \in Runnables : run'[r] = IF run[r].pc = "queued"
                                 THEN [run[r] EXCEPT !.pc = "drained"] ELSE run[r]
    BY <1>5 DEF ShutdownNow
  <2>3. ASSUME NEW r \in Runnables PROVE BusStep(run[r], run'[r])
    <3>1. CASE run[r].pc = "queued"
      <4>1. BusStep(run[r], [run[r] EXCEPT !.pc = "drained"])
        BY <1>r, <3>1 DEF BusStep, Sound, Records
      <4> QED BY <2>2, <3>1, <4>1
    <3>2. CASE run[r].pc # "queued"
      BY <2>2, <3>2 DEF BusStep
    <3> QED BY <3>1, <3>2
  <2> QED BY <2>1, <2>3, BusStutter
<1> QED BY <1>1, <1>2, <1>3, <1>4, <1>5 DEF CancelDownload

(* The pool threads keep BusInv: a run that was refused posts one error,     *)
(* unless it warned, one that got a transfer posts 101 as its run ends.      *)
LEMMA BusWorker ==
  ASSUME TypeOK, LifeInv, BusInv, NEW t \in Threads, Worker(t)
  PROVE  BusInv'
<1>0. /\ task[t] # None => task[t] \in Runnables
      /\ handler \in Seq(Messages)
  BY DEF TypeOK
<1>r. \A r \in Runnables : run[r] \in Records
  BY DEF TypeOK
<1>s. \A r \in Runnables : Sound(run[r])
  BY DEF BusInv, Good
<1> DEFINE r == task[t]
<1>1. CASE Take(t)
  <2> DEFINE h == Head(mWorkQueue)
             rec == [run[h] EXCEPT !.pc = "ready"]
  <2>1. h \in Runnables /\ run[h].pc = "queued"
    <3>1. mWorkQueue \in Seq(Runnables) /\ mWorkQueue # <<>>
      BY <1>1 DEF Take, TypeOK
    <3> QED BY <3>1, TailFacts DEF LifeInv, QueueInv
  <2>2. rec \in Records
    BY <1>r, <2>1, UpdateType
  <2>3. BusStep(run[h], rec)
    BY <1>r, <2>1 DEF BusStep, Sound, Records
  <2>4. Becomes(h, rec) /\ handler' = handler
    BY <1>1 DEF Take
  <2> QED BY <2>1, <2>2, <2>3, <2>4, BusBecomes, BusStutter
<1>2. CASE BeginRun(t)
  <2> DEFINE rec == [run[r] EXCEPT !.pc = "begun", !.mThread = t]
  <2>1. r \in Runnables /\ run[r].pc = "ready"
    BY <1>0, <1>2 DEF BeginRun, At
  <2>2. rec \in Records
    BY <1>r, <2>1, UpdateType
  <2>3. BusStep(run[r], rec)
    BY <1>r, <2>1 DEF BusStep, Sound, Records
  <2>4. Becomes(r, rec) /\ handler' = handler
    BY <1>2 DEF BeginRun
  <2> QED BY <2>1, <2>2, <2>3, <2>4, BusBecomes, BusStutter
<1>4. CASE PostStart(t)
  <2> DEFINE rec == [run[r] EXCEPT !.pc = "waiting"]
             x == <<Msg("progress", r, 0)>>
  <2>1. r \in Runnables /\ run[r].pc = "enqueued"
    BY <1>0, <1>4 DEF PostStart, At
  <2>2. rec \in Records
    BY <1>r, <2>1, UpdateType
  <2>3. BusStep(run[r], rec)
    BY <1>r, <2>1 DEF BusStep, Sound, Records
  <2>4. Becomes(r, rec) /\ handler' = handler \o x /\ x \in Seq(Messages)
    BY <1>0, <1>4, <2>1, MsgType DEF PostStart
  <2>5. \A q \in Runnables : ~Ends(x, q)
    BY QueueSingle, Harmless DEF Done
  <2> HIDE DEF x, rec
  <2>6. \A q \in Runnables : BusStep(run[q], run'[q])
    BY <2>1, <2>2, <2>3, <2>4, BusBecomes
  <2> QED BY <2>4, <2>5, <2>6, BusConcat
<1>5. CASE FinishRun(t)
  <2> DEFINE rec == [run[r] EXCEPT !.pc = "finished"]
             m == Msg("progress", r, Done)
  <2>1. r \in Runnables /\ run[r].pc = "waiting"
    BY <1>0, <1>5 DEF FinishRun, At
  <2>2. /\ rec \in Records /\ Becomes(r, rec) /\ rec.pc = "finished"
        /\ rec.bus = run[r].bus /\ rec.premature = run[r].premature /\ Sound(rec)
    <3>1. rec \in Records
      BY <1>r, <2>1, UpdateType
    <3>2. /\ rec.pc = "finished" /\ rec.bus = run[r].bus /\ rec.old = run[r].old
          /\ rec.premature = run[r].premature
      BY <1>r, <2>1 DEF Records
    <3>3. Sound(rec)
      BY <1>s, <2>1, <3>2 DEF Sound
    <3> QED BY <1>5, <3>1, <3>2, <3>3 DEF FinishRun
  <2>3. m \in Messages /\ handler' = handler \o <<m>> /\ <<m>> \in Seq(Messages)
    BY <1>0, <1>5, <2>1, MsgType DEF FinishRun
  <2>4. \A q : TearsDown(m, q) <=> q = r
    BY DEF TearsDown, Msg
  <2> HIDE DEF rec, m
  <2>5. \A q \in Runnables : run'[q] = IF q = r THEN rec ELSE run[q]
    BY <2>1, <2>2, BecomesFacts
  <2>6. Good(handler', run'[r], r)
    BY <1>0, <2>1, <2>2, <2>3, <2>4, <2>5, GoodEnd DEF BusInv
  <2>7. ASSUME NEW q \in Runnables, q # r PROVE Good(handler', run'[q], q)
    <3>1. ~Ends(<<m>>, q) /\ BusStep(run[q], run'[q])
      BY <2>4, <2>5, <2>7, QueueSingle DEF BusStep
    <3> QED BY <1>0, <2>3, <3>1, GoodKeep DEF BusInv
  <2> QED BY <2>6, <2>7 DEF BusInv
<1>3. ASSUME NEW n \in Networks, NEW p \in Preferences, EnqueueDownload(t, n, p)
      PROVE  BusInv'
  <2>1. r \in Runnables /\ run[r].pc = "begun" /\ run[r] \in Records
    BY <1>0, <1>3, <1>r DEF EnqueueDownload, At
  <2> DEFINE x == Errors(r, n, p)
  <2>2. /\ handler' = handler \o x /\ x \in Seq(Messages)
        /\ \A q : q # r => ~Ends(x, q)
        /\ ~Warns(n, p) =>
             IF EnqueueOk(n, p) THEN x = <<>>
             ELSE \E m \in Messages : x = <<m>> /\ TearsDown(m, r)
    BY <1>3, <2>1, ErrorsFacts DEF EnqueueDownload
  <2> HIDE DEF x
  <2>3. PICK rec \in Records :
          /\ Becomes(r, rec) /\ rec.bus = run[r].bus /\ Sound(rec)
          /\ rec.premature = (run[r].premature \/ Warns(n, p))
          /\ rec.pc = IF EnqueueOk(n, p) THEN "enqueued" ELSE "finished"
    <3>0. Warns(n, p) \in BOOLEAN
      BY DEF Warns
    <3>1. CASE EnqueueOk(n, p)
      <4> DEFINE rec == [run[r] EXCEPT !.pc = "enqueued", !.future = "pending",
                              !.transfer = "active", !.premature = @ \/ Warns(n, p)]
      <4>1. rec \in Records
        BY <2>1, <3>0, UpdateType, Zenon
      <4>2. /\ rec.bus = run[r].bus /\ rec.old = run[r].old /\ rec.pc = "enqueued"
            /\ rec.premature = (run[r].premature \/ Warns(n, p))
        BY <2>1 DEF Records
      <4>s. Sound(rec)
        BY <1>s, <2>1, <4>2 DEF Sound
      <4>3. Becomes(r, rec)
        BY <1>3, <3>1 DEF EnqueueDownload
      <4> HIDE DEF rec
      <4> QED BY <3>1, <4>1, <4>2, <4>3, <4>s
    <3>2. CASE ~EnqueueOk(n, p)
      <4> DEFINE rec == [run[r] EXCEPT !.pc = "finished", !.premature = @ \/ Warns(n, p)]
      <4>1. rec \in Records
        BY <2>1, <3>0, UpdateType, Zenon
      <4>2. /\ rec.bus = run[r].bus /\ rec.old = run[r].old /\ rec.pc = "finished"
            /\ rec.premature = (run[r].premature \/ Warns(n, p))
        BY <2>1 DEF Records
      <4>s. Sound(rec)
        BY <1>s, <2>1, <4>2 DEF Sound
      <4>3. Becomes(r, rec)
        BY <1>3, <3>2 DEF EnqueueDownload
      <4> HIDE DEF rec
      <4> QED BY <3>2, <4>1, <4>2, <4>3, <4>s
    <3> QED BY <3>1, <3>2
  <2>4. \A q \in Runnables : run'[q] = IF q = r THEN rec ELSE run[q]
    BY <2>1, <2>3, BecomesFacts
  <2>5. Good(handler, run[r], r)
    BY <2>1 DEF BusInv
  <2>6. Good(handler \o x, rec, r)
    <3>1. CASE Warns(n, p)
      <4>1. rec.premature = TRUE
        BY <2>3, <3>1
      <4> QED BY <1>0, <2>1, <2>2, <2>3, <2>5, <4>1, GoodPremature
    <3>2. CASE ~Warns(n, p) /\ EnqueueOk(n, p)
      <4>1. rec.premature = run[r].premature
        BY <2>1, <2>3, <3>2 DEF Records
      <4>2. ~Ends(x, r) /\ BusStep(run[r], rec)
        BY <2>1, <2>2, <2>3, <3>2, <4>1, QueueSingle DEF BusStep
      <4> QED BY <1>0, <2>2, <2>5, <4>2, GoodKeep
    <3>3. CASE ~Warns(n, p) /\ ~EnqueueOk(n, p)
      <4>1. rec.premature = run[r].premature
        BY <2>1, <2>3, <3>3 DEF Records
      <4>2. PICK m \in Messages : x = <<m>> /\ TearsDown(m, r)
        BY <2>2, <3>3
      <4> QED BY <1>0, <2>1, <2>3, <2>5, <3>3, <4>1, <4>2, GoodEnd
    <3> QED BY <3>1, <3>2, <3>3
  <2>7. ASSUME NEW q \in Runnables, q # r PROVE Good(handler', run'[q], q)
    <3>1. ~Ends(x, q) /\ BusStep(run[q], run'[q])
      BY <2>2, <2>4, <2>7 DEF BusStep
    <3> QED BY <1>0, <2>2, <3>1, GoodKeep DEF BusInv
  <2> QED BY <2>1, <2>2, <2>4, <2>6, <2>7 DEF BusInv
<1> QED BY <1>1, <1>2, <1>3, <1>4, <1>5 DEF Worker

(* Every step keeps BusInv. *)
LEMMA BusNext == TypeOK /\ LifeInv /\ BusInv /\ [Next]_vars => BusInv'
<1> SUFFICES ASSUME TypeOK, LifeInv, BusInv, [Next]_vars PROVE BusInv'
  OBVIOUS
<1>0. handler \in Seq(Messages)
  BY DEF TypeOK
<1>1. CASE UNCHANGED vars
  BY <1>1, BusBecomes, BusStutter DEF vars
<1>2. ASSUME NEW r \in Runnables, TransferEnds(r) PROVE BusInv'
  <2> DEFINE rec == [run[r] EXCEPT !.transfer = "over"]
  <2>1. run[r] \in Records
    BY DEF TypeOK
  <2>2. rec \in Records
    BY <2>1, UpdateType
  <2>3. BusStep(run[r], rec)
    BY <2>1 DEF BusStep, Sound, Records
  <2>4. PICK arg \in {0, 1} :
          handler' = handler \o If(run[r].future = "pending", Msg("complete", r, arg))
    BY <1>2 DEF TransferEnds
  <2> DEFINE x == If(run[r].future = "pending", Msg("complete", r, arg))
  <2>5. x \in Seq(Messages)
    BY MsgType DEF If
  <2>6. \A q \in Runnables : ~Ends(x, q)
    BY IfEnds, Harmless
  <2>7. Becomes(r, rec)
    BY <1>2 DEF TransferEnds
  <2> HIDE DEF x, rec
  <2>8. \A q \in Runnables : BusStep(run[q], run'[q])
    BY <2>2, <2>3, <2>7, BusBecomes
  <2> QED BY <2>4, <2>5, <2>6, <2>8, BusConcat DEF x
<1>3. ASSUME NEW r \in Runnables, NEW p \in Percentages, OnProgress(r, p) PROVE BusInv'
  <2> DEFINE rec == [run[r] EXCEPT !.old = p, !.premature = @ \/ p = Done]
             m == Msg("progress", r, p)
  <2>1. /\ run[r] \in Records /\ run[r].transfer = "active"
        /\ \A q \in Runnables : Good(handler, run[q], q)
    BY <1>3 DEF TypeOK, OnProgress, BusInv
  <2>2. rec \in Records
    BY <2>1, UpdateType, Zenon
  <2>3. /\ rec.bus = run[r].bus /\ rec.pc = run[r].pc /\ rec.old = p
        /\ rec.transfer = run[r].transfer
        /\ rec.premature = (run[r].premature \/ p = Done)
    BY <2>1 DEF Records
  <2>4. Becomes(r, rec) /\ handler' = handler \o <<m>> /\ <<m>> \in Seq(Messages)
    BY <1>0, <1>3, MsgType DEF OnProgress
  <2>5. /\ run[r].pc \notin {"none", "gone"} /\ Sound(rec)
    BY <2>1, <2>3 DEF Good, Sound
  <2>6. \A q \in Runnables : Ends(<<m>>, q) => p = Done /\ q = r
    BY QueueSingle, Harmless
  <2> HIDE DEF m, rec
  <2>7. \A q \in Runnables : run'[q] = IF q = r THEN rec ELSE run[q]
    BY <2>2, <2>4, BecomesFacts
  <2>8. Good(handler \o <<m>>, rec, r)
    <3>1. CASE p = Done
      <4>1. rec.premature = TRUE
        BY <2>3, <3>1
      <4> QED BY <1>0, <2>1, <2>3, <2>4, <2>5, <4>1, GoodPremature
    <3>2. CASE p # Done
      <4>1. rec.premature = run[r].premature
        BY <2>1, <2>3, <3>2 DEF Records
      <4>2. BusStep(run[r], rec) /\ ~Ends(<<m>>, r)
        BY <2>3, <2>5, <2>6, <3>2, <4>1 DEF BusStep
      <4> QED BY <1>0, <2>1, <2>4, <4>2, GoodKeep
    <3> QED BY <3>1, <3>2
  <2>9. ASSUME NEW q \in Runnables, q # r PROVE Good(handler', run'[q], q)
    <3>1. ~Ends(<<m>>, q) /\ BusStep(run[q], run'[q])
      BY <2>6, <2>7, <2>9 DEF BusStep
    <3> QED BY <1>0, <2>1, <2>4, <3>1, GoodKeep
  <2> QED BY <2>4, <2>7, <2>8, <2>9 DEF BusInv
<1>4. CASE DeliverCommand
  <2> DEFINE m == Head(intents)
  <2>1. m \in CommandMessages /\ m \in Messages
    BY <1>4, MsgType DEF DeliverCommand, TypeOK
  <2>2. handler' = Append(handler, m) /\ UNCHANGED run
    BY <1>4 DEF DeliverCommand
  <2> HIDE DEF m
  <2>3. handler' = handler \o <<m>> /\ <<m>> \in Seq(Messages)
    BY <1>0, <2>1, <2>2, AppendFacts
  <2>4. \A q \in Runnables : ~Ends(<<m>>, q)
    BY <2>1, QueueSingle, Harmless
  <2> QED BY <2>2, <2>3, <2>4, BusBecomes, BusConcat
<1>5. CASE Environment
  <2>1. ASSUME NEW d \in Ids, Start(d) \/ ClickCancel(d) PROVE BusInv'
    BY <2>1, BusBecomes, BusStutter DEF Start, ClickCancel
  <2>2. CASE FragmentStop
    BY <2>2, BusBecomes, BusStutter DEF FragmentStop
  <2>3. ASSUME NEW newView \in BOOLEAN, FragmentStart(newView) PROVE BusInv'
    <3> DEFINE x == If(producer, Msg("refresh", None, 0))
    <3>1. x \in Seq(Messages)
      BY MsgType DEF If
    <3>2. \A q \in Runnables : ~Ends(x, q)
      BY IfEnds, Harmless
    <3>3. handler' = handler \o x /\ UNCHANGED run
      BY <2>3 DEF FragmentStart
    <3> HIDE DEF x
    <3> QED BY <3>1, <3>2, <3>3, BusBecomes, BusConcat
  <2>4. CASE ServiceDestroyed
    <3> DEFINE m == Msg("tearDownService", None, 0)
    <3>1. m \in Messages
      BY MsgType
    <3>2. handler' = Append(handler, m) /\ UNCHANGED run
      BY <2>4 DEF ServiceDestroyed
    <3>3. \A q \in Runnables : ~Ends(<<m>>, q)
      BY QueueSingle, Harmless
    <3> HIDE DEF m
    <3>4. handler' = handler \o <<m>> /\ <<m>> \in Seq(Messages)
      BY <1>0, <3>1, <3>2, AppendFacts
    <3> QED BY <3>2, <3>3, <3>4, BusBecomes, BusConcat
  <2>5. CASE ProcessDeath
    <3>1. handler' = <<>> /\ \A r \in Runnables :
            /\ run'[r].pc \in {"none", "gone"} /\ run'[r].bus = "never"
            /\ run'[r].transfer = "idle" /\ run'[r].old # Done
      BY <2>5 DEF ProcessDeath, Fresh, Done
    <3> QED BY <3>1, QueueSingle DEF BusInv, Good, Sound
  <2> QED BY <1>5, <2>1, <2>2, <2>3, <2>4, <2>5 DEF Environment
<1> QED BY <1>1, <1>2, <1>3, <1>4, <1>5, BusDispatcher, BusCancel, BusWorker DEF Next

-----------------------------------------------------------------------------
(* The registration of the service. *)

(* Every step keeps flag and bus in agreement. *)
LEMMA ProducerNext ==
  TypeOK /\ ProducerMatchesFlag /\ [Next]_vars => ProducerMatchesFlag'
<1> SUFFICES ASSUME TypeOK, ProducerMatchesFlag, [Next]_vars PROVE ProducerMatchesFlag'
  OBVIOUS
<1>0. /\ main \in MainStates /\ main.next \in {"idle", "shutdownNow"}
      /\ isRegistered \in BOOLEAN /\ producer \in BOOLEAN
  BY MainUpdates DEF TypeOK
<1>m. /\ [main EXCEPT !.i = @ + 1].at = main.at
      /\ \A d, n, next : [main EXCEPT !.at = "toArray", !.id = d, !.len = n,
                                      !.next = next].at = "toArray"
      /\ \A n, x : [main EXCEPT !.at = "runnables", !.i = 1, !.len = n,
                                !.array = x].at = "runnables"
      /\ \A n : [main EXCEPT !.at = "queued", !.i = 1, !.len = n].at = "queued"
  BY <1>0 DEF MainStates
<1>b. ASSUME NEW d, NEW next, BeginCancel(d, next) PROVE main'.at # "register"
  BY <1>b, <1>m DEF BeginCancel
<1>a. \A at : MainAt(at).at = at
  BY DEF MainAt
<1>1. CASE UNCHANGED vars
  BY <1>1 DEF ProducerMatchesFlag, vars, service
<1>2. CASE StartupService
  BY <1>0, <1>2 DEF StartupService, ProducerMatchesFlag
<1>3. CASE ShutdownNow
  BY <1>0, <1>3, <1>a DEF ShutdownNow, ProducerMatchesFlag
<1>4. CASE ProcessDeath
  BY <1>4, <1>a DEF ProcessDeath, ProducerMatchesFlag
<1>s. ASSUME UNCHANGED <<isRegistered, producer>>, main'.at # "register"
      PROVE  ProducerMatchesFlag'
  BY <1>s DEF ProducerMatchesFlag
<1>k. main.at # "register"
  BY DEF ProducerMatchesFlag
<1>5. CASE Dispatcher /\ ~StartupService
  <2>1. UNCHANGED <<isRegistered, producer>>
    BY <1>5 DEF Dispatcher, OnStopCommand, OnStartCommand, StartupRunnable,
      TearDownService, DispatchProgress, DispatchError, DispatchRefresh, DispatchDummy,
      DispatchComplete, service
  <2>2. \/ UNCHANGED main \/ main' = MainAt("unregister")
        \/ \E d, next : BeginCancel(d, next)
    BY <1>5 DEF Dispatcher, OnStopCommand, OnStartCommand, StartupRunnable,
      TearDownService, DispatchProgress, DispatchError, DispatchRefresh, DispatchDummy,
      DispatchComplete, TearDownRunnable
  <2>3. main'.at # "register"
    BY <1>a, <1>b, <1>k, <2>2
  <2> QED BY <1>s, <2>1, <2>3
<1>6. CASE CancelDownload /\ ~ShutdownNow
  <2>1. UNCHANGED <<isRegistered, producer>>
    BY <1>6 DEF CancelDownload, CancelToArray, CancelRunnable, EndCancelRunnables,
      CancelQueued, EndCancel, service
  <2>2. main'.at # "register"
    <3>1. CASE CancelToArray
      BY <1>m, <3>1 DEF CancelToArray
    <3>2. CASE CancelRunnable
      BY <1>a, <1>k, <1>m, <3>2 DEF CancelRunnable
    <3>3. CASE EndCancelRunnables
      BY <1>m, <3>3 DEF EndCancelRunnables
    <3>4. CASE CancelQueued
      BY <1>a, <1>k, <1>m, <3>4 DEF CancelQueued
    <3>5. CASE EndCancel
      BY <1>0, <1>a, <3>5 DEF EndCancel
    <3> QED BY <1>6, <3>1, <3>2, <3>3, <3>4, <3>5 DEF CancelDownload
  <2> QED BY <1>s, <2>1, <2>2
<1>7. ASSUME NEW t \in Threads, Worker(t) PROVE ProducerMatchesFlag'
  BY <1>7, <1>k, <1>s DEF Worker, Take, BeginRun, PostStart, FinishRun,
    EnqueueDownload, service
<1>8. ASSUME NEW r \in Runnables,
             TransferEnds(r) \/ \E p \in Percentages : OnProgress(r, p)
      PROVE  ProducerMatchesFlag'
  BY <1>8, <1>k, <1>s DEF TransferEnds, OnProgress, service
<1>9. CASE DeliverCommand \/ (Environment /\ ~ProcessDeath)
  <2>1. UNCHANGED <<isRegistered, producer>>
    BY <1>9 DEF DeliverCommand, Environment, Start, ClickCancel, FragmentStart,
      FragmentStop, ServiceDestroyed, service
  <2>2. \/ UNCHANGED main
        \/ \E d, next : BeginCancel(d, next)
    BY <1>9 DEF DeliverCommand, Environment, Start, ClickCancel, FragmentStart,
      FragmentStop, ServiceDestroyed
  <2>3. main'.at # "register"
    BY <1>b, <1>k, <2>2
  <2> QED BY <1>s, <2>1, <2>3
<1> QED BY <1>1, <1>2, <1>3, <1>4, <1>5, <1>6, <1>7, <1>8, <1>9 DEF Next

-----------------------------------------------------------------------------
(* The invariant and what follows from it. *)

(* The invariant holds initially and every step keeps it. *)
LEMMA InvInit == Init => Inv
<1> SUFFICES ASSUME Init PROVE Inv
  OBVIOUS
<1>1. LifeInv
  BY DEF Init, LifeInv, QueueInv, FutureInv, ListInv, Fresh
<1>2. BusInv
  <2>1. handler = <<>> /\ \A r \in Runnables :
          /\ run[r].pc = "none" /\ run[r].bus = "never"
          /\ run[r].transfer = "idle" /\ run[r].old # Done
    BY DEF Init, Fresh, Done
  <2> QED BY <2>1, QueueSingle DEF BusInv, Good, Sound
<1>3. ProducerMatchesFlag
  BY DEF Init, ProducerMatchesFlag, MainAt
<1> QED BY <1>1, <1>2, <1>3, TypeInit DEF Inv
LEMMA InvNext == Inv /\ [Next]_vars => Inv'
  BY TypeNext, LifeNext, BusNext, ProducerNext DEF Inv

(* Inv is an inductive invariant of the download subsystem. *)
THEOREM InvCorrect == Spec => []Inv
  BY InvInit, InvNext, PTL DEF Spec

(* A transfer that runs can always be cancelled: whatever cancelDownload,    *)
(* tearDown, shutdownNow and the pool threads do in between, no runnable     *)
(* leaves mRunnables while its future is pending.                            *)
THEOREM TransfersListed == Spec => []NoOrphanTransfer
<1>1. Inv => NoOrphanTransfer
  BY DEF Inv, LifeInv, FutureInv, ListInv, NoOrphanTransfer, Early
<1> QED BY <1>1, InvCorrect, PTL

(* The looper never unregisters a runnable before it registered it: the      *)
(* startup that the constructor posts is ahead of every 101 and every error. *)
THEOREM StartupComesFirst == Spec => []StartupFirst
<1>1. Inv => StartupFirst
  BY DEF Inv, BusInv, Good, StartupFirst
<1> QED BY <1>1, InvCorrect, PTL

(* A runnable that neither warned nor counted 101 per cent is torn down at   *)
(* most once, however often it is cancelled, interrupted or refused, and     *)
(* whatever percentages its transfer computes: Otto's exception for a second *)
(* unregister comes from REASON_METERED_WARN or from a progress that equals  *)
(* the 101 of the finally block.                                             *)
THEOREM TornDownOnce == Spec => []TearDownOnce
<1>1. Inv => TearDownOnce
  BY DEF Inv, BusInv, Good, TearDownOnce
<1> QED BY <1>1, InvCorrect, PTL

(* isRegistered tells whether the service is on the bus, however startups    *)
(* and tearDowns are interleaved, so register never throws.                  *)
THEOREM RegistrationConsistent == Spec => []ProducerMatchesFlag
<1>1. Inv => ProducerMatchesFlag
  BY DEF Inv
<1> QED BY <1>1, InvCorrect, PTL
=============================================================================
