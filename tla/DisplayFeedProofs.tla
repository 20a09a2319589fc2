-------------------------- MODULE DisplayFeedProofs --------------------------
(***************************************************************************)
(* What holds of the messages to the pages for any number of pages and of  *)
(* goroutines that broadcast.                                              *)
(***************************************************************************)
EXTENDS DisplayFeed, TLAPS

-----------------------------------------------------------------------------
(***************************************************************************)
(* Type correctness.                                                       *)
(***************************************************************************)
LEMMA WordTyped ==
  /\ \A x \in Shown : [type |-> "current", value |-> x] \in Word
  /\ \A on \in BOOLEAN : [type |-> "settings", value |-> on] \in Word
  /\ \A type \in {"reload", "alert"} : [type |-> type] \in Word
  /\ \A w \in Word : /\ w.type \in {"current", "settings", "reload", "alert"}
                     /\ w.type = "current" => w.value \in Shown
                     /\ w.type = "settings" => w.value \in BOOLEAN
BY DEF Word

(* The queues.                                                             *)
QueuesTyped ==
  /\ queue \in [Pages -> Seq(Word)]
  /\ \A p \in Pages : Len(queue[p]) <= QueueCap

LEMMA BroadcastTyped ==
  ASSUME QueuesTyped, NEW word \in Word, Broadcast(word)
  PROVE  QueuesTyped'
<1>1. ASSUME NEW p \in Pages, ~Full(p)
      PROVE  /\ Append(queue[p], word) \in Seq(Word)
             /\ Len(Append(queue[p], word)) <= QueueCap
  <2>1. queue[p] \in Seq(Word) /\ Len(queue[p]) <= QueueCap /\ Len(queue[p]) # QueueCap
    BY <1>1 DEF QueuesTyped, Full
  <2> QED BY <2>1, FeedAssumption
<1> QED BY <1>1 DEF QueuesTyped, Broadcast

LEMMA HeadTyped ==
  ASSUME QueuesTyped, NEW p \in Pages, queue[p] # <<>>
  PROVE  /\ Head(queue[p]) \in Word /\ Tail(queue[p]) \in Seq(Word)
         /\ Len(Tail(queue[p])) <= QueueCap
<1>1. queue[p] \in Seq(Word) /\ Len(queue[p]) <= QueueCap
  BY DEF QueuesTyped
<1>2. Len(queue[p]) \in Nat /\ Len(queue[p]) >= 1
  BY <1>1
<1>3. Len(Tail(queue[p])) = Len(queue[p]) - 1
  BY <1>1
<1> QED BY <1>1, <1>2, <1>3, FeedAssumption

LEMMA EmptiedTyped ==
  ASSUME QueuesTyped, NEW p \in Pages, queue' = [queue EXCEPT ![p] = <<>>]
  PROVE  QueuesTyped'
<1>1. <<>> \in Seq(Word) /\ Len(<<>>) <= QueueCap
  BY FeedAssumption
<1> QED BY <1>1 DEF QueuesTyped

AnnouncersTyped ==
  /\ current \in Shown
  /\ pc \in [Announcers -> {"idle", "read", "send"}]
  /\ msg \in [Announcers -> Shown]

SavesTyped ==
  /\ stored \in BOOLEAN
  /\ saving \in [Admins -> {{}, {TRUE}, {FALSE}}]

PagesTyped ==
  /\ client \in [Pages -> {"away", "registered", "greeting", "serving"}]
  /\ greeting \in [Pages -> Shown]
  /\ item \in [Pages -> Shown]
  /\ bar \in [Pages -> BOOLEAN]
  /\ answer \in [Pages -> BOOLEAN]
  /\ fetch \in [Pages -> {"asked", "answered", "done"}]

HistoryTyped ==
  misled \in [Pages -> BOOLEAN] /\ missed \in [Pages -> BOOLEAN]

LEMMA TypeParts ==
  TypeOK <=> AnnouncersTyped /\ SavesTyped /\ PagesTyped /\ QueuesTyped /\ HistoryTyped
BY DEF TypeOK, AnnouncersTyped, SavesTyped, PagesTyped, QueuesTyped, HistoryTyped

LEMMA TypeInit == Init => TypeOK
<1> SUFFICES ASSUME Init PROVE TypeOK
  OBVIOUS
<1>1. NoItem \in Shown
  BY DEF Shown
<1>2. <<>> \in Seq(Word) /\ Len(<<>>) <= QueueCap
  BY FeedAssumption
<1> QED BY <1>1, <1>2
        DEF Init, AnnouncersTyped, SavesTyped, PagesTyped,
            QueuesTyped, HistoryTyped, TypeOK

(* What a page is told it can show.                                        *)
LEMMA ReceiveTyped ==
  ASSUME PagesTyped, NEW p \in Pages, NEW word \in Word, Receive(p, word),
         UNCHANGED <<client, greeting, fetch, answer>>
  PROVE  PagesTyped' /\ UNCHANGED missed
BY WordTyped DEF Receive, PagesTyped, applySettings

LEMMA BootTyped ==
  ASSUME PagesTyped, QueuesTyped, HistoryTyped, NEW p \in Pages, BootPage(p),
         UNCHANGED misled
  PROVE  PagesTyped' /\ QueuesTyped' /\ HistoryTyped'
<1>1. QueuesTyped'
  BY EmptiedTyped DEF BootPage, Unregister
<1> QED BY <1>1 DEF BootPage, Unregister, PagesTyped, HistoryTyped, Shown

LEMMA TypeNext == TypeOK /\ [Next]_vars => TypeOK'
<1> SUFFICES ASSUME TypeOK, [Next]_vars
             PROVE  (/\ AnnouncersTyped /\ SavesTyped /\ PagesTyped
                     /\ QueuesTyped /\ HistoryTyped)'
  BY DEF TypeOK, AnnouncersTyped, SavesTyped, PagesTyped, QueuesTyped, HistoryTyped
<1>0. AnnouncersTyped /\ SavesTyped /\ PagesTyped /\ QueuesTyped /\ HistoryTyped
  BY TypeParts
<1> DEFINE Goal == (/\ AnnouncersTyped /\ SavesTyped /\ PagesTyped
                    /\ QueuesTyped /\ HistoryTyped)'
<1> USE <1>0
<1>1. ASSUME UNCHANGED itemVars PROVE AnnouncersTyped'
  BY <1>1 DEF itemVars, AnnouncersTyped
<1>2. ASSUME UNCHANGED settingVars PROVE SavesTyped'
  BY <1>2 DEF settingVars, SavesTyped
<1>3. ASSUME UNCHANGED clientVars, UNCHANGED pageVars PROVE PagesTyped'
  BY <1>3 DEF clientVars, pageVars, PagesTyped
<1>4. ASSUME UNCHANGED queue PROVE QueuesTyped'
  BY <1>4 DEF QueuesTyped
<1>5. ASSUME UNCHANGED history PROVE HistoryTyped'
  BY <1>5 DEF history, HistoryTyped
<1>6. ASSUME NEW a \in Announcers, Change(a) PROVE Goal
  <2>1. AnnouncersTyped'
    BY <1>6 DEF Change, AnnouncersTyped
  <2> QED BY <1>2, <1>3, <1>4, <1>5, <1>6, <2>1 DEF Change
<1>7. ASSUME NEW a \in Announcers, Announcing(a) PROVE Goal
  <2>1. AnnouncersTyped'
    BY <1>7 DEF Announcing, buildCurrentMessage, BroadcastCurrent, AnnouncersTyped,
                Shown
  <2>2. QueuesTyped'
    <3>1. [type |-> "current", value |-> msg[a]] \in Word
      BY WordTyped DEF AnnouncersTyped
    <3> QED BY <1>4, <1>7, <3>1, BroadcastTyped
            DEF Announcing, buildCurrentMessage, BroadcastCurrent
  <2>3. HistoryTyped'
    <3>1. CASE buildCurrentMessage(a)
      BY <1>5, <3>1 DEF buildCurrentMessage
    <3>2. CASE BroadcastCurrent(a)
      <4>1. \A p \in Pages : (msg[a] # current \/ Full(p)) \in BOOLEAN
        BY Zenon
      <4> QED BY <3>2, <4>1 DEF BroadcastCurrent, HistoryTyped
    <3> QED BY <1>7, <3>1, <3>2 DEF Announcing
  <2> QED BY <1>2, <1>3, <1>7, <2>1, <2>2, <2>3
          DEF Announcing, buildCurrentMessage, BroadcastCurrent
<1>8. CASE PeriodicReload
  <2>1. AnnouncersTyped'
    BY <1>8 DEF PeriodicReload, AfterReload, AnnouncersTyped, Announcers
  <2> QED BY <1>2, <1>3, <1>4, <1>5, <1>8, <2>1 DEF PeriodicReload
<1>9. ASSUME NEW type \in {"reload", "alert"}, Call(type) PROVE Goal
  <2>1. QueuesTyped'
    BY <1>9, WordTyped, BroadcastTyped DEF Call
  <2> QED BY <1>1, <1>2, <1>3, <1>5, <1>9, <2>1 DEF Call
<1>10. ASSUME NEW a \in Admins, NEW on \in BOOLEAN, SaveSetting(a, on) PROVE Goal
  <2>1. SavesTyped'
    BY <1>10 DEF SaveSetting, SavesTyped
  <2>2. HistoryTyped'
    <3>1. \A p \in Pages : (missed[p] \/ ~Learns(p)) \in BOOLEAN
      BY Zenon
    <3> QED BY <1>10, <3>1 DEF SaveSetting, HistoryTyped
  <2> QED BY <1>1, <1>3, <1>4, <1>10, <2>1, <2>2 DEF SaveSetting
<1>11. ASSUME NEW a \in Admins, BroadcastSetting(a) PROVE Goal
  <2>1. PICK on \in saving[a] :
          /\ Broadcast([type |-> "settings", value |-> on])
          /\ missed' = [p \in Pages |->
               IF p \in Clients /\ (Full(p) \/ on # stored) THEN TRUE
               ELSE missed[p] /\ ~(p \in Clients /\ Learns(p))]
    BY <1>11 DEF BroadcastSetting
  <2>2. on \in BOOLEAN
    BY DEF SavesTyped
  <2>3. QueuesTyped'
    BY <2>1, <2>2, WordTyped, BroadcastTyped
  <2>4. SavesTyped'
    BY <1>11 DEF BroadcastSetting, SavesTyped
  <2>5. HistoryTyped'
    <3>1. \A p \in Pages : (missed[p] /\ ~(p \in Clients /\ Learns(p))) \in BOOLEAN
      BY Zenon
    <3> QED BY <1>11, <2>1, <3>1 DEF BroadcastSetting, HistoryTyped
  <2> QED BY <1>1, <1>3, <1>11, <2>3, <2>4, <2>5 DEF BroadcastSetting
<1>12. ASSUME NEW p \in Pages,
              Register(p) \/ BuildGreeting(p) \/ WriteGreeting(p)
       PROVE  Goal
  <2>1. PagesTyped'
    BY <1>12 DEF Register, BuildGreeting, WriteGreeting, PagesTyped,
                 AnnouncersTyped, Shown, pageVars
  <2>2. HistoryTyped'
    BY <1>5, <1>12 DEF Register, BuildGreeting, WriteGreeting, HistoryTyped
  <2> QED BY <1>1, <1>2, <1>4, <1>12, <2>1, <2>2
          DEF Register, BuildGreeting, WriteGreeting
<1>13. ASSUME NEW p \in Pages, Serve(p) PROVE Goal
  <2>1. queue[p] # <<>> /\ UNCHANGED <<itemVars, settingVars, misled>>
    BY <1>13 DEF Serve
  <2>2. CASE BootPage(p)
    BY <1>1, <1>2, <2>1, <2>2, BootTyped
  <2>3. CASE /\ Receive(p, Head(queue[p]))
             /\ queue' = [queue EXCEPT ![p] = Tail(@)]
             /\ UNCHANGED <<client, greeting, fetch, answer>>
    <3>1. PagesTyped' /\ UNCHANGED missed
      BY <2>1, <2>3, HeadTyped, ReceiveTyped
    <3>2. QueuesTyped'
      BY <2>1, <2>3, HeadTyped DEF QueuesTyped
    <3> QED BY <1>1, <1>2, <2>1, <3>1, <3>2 DEF HistoryTyped
  <2> QED BY <1>13, <2>2, <2>3 DEF Serve
<1>14. ASSUME NEW p \in Pages, Disconnect(p) PROVE Goal
  <2>1. QueuesTyped'
    BY <1>14, EmptiedTyped DEF Disconnect, Unregister
  <2>2. PagesTyped'
    BY <1>14 DEF Disconnect, Unregister, PagesTyped, Shown, pageVars
  <2>3. HistoryTyped'
    <3> DEFINE lost == \/ missed[p]
                       \/ /\ fetch[p] # "asked"
                          /\ HasWord(queue[p], "settings") \/ \E a \in Admins : saving[a] # {}
    <3>1. lost \in BOOLEAN
      BY Zenon
    <3>2. missed' = [missed EXCEPT ![p] = lost] /\ UNCHANGED misled
      BY <1>14 DEF Disconnect
    <3> HIDE DEF lost
    <3> QED BY <3>1, <3>2 DEF HistoryTyped
  <2> QED BY <1>1, <1>2, <1>14, <2>1, <2>2, <2>3 DEF Disconnect
<1>15. ASSUME NEW p \in Pages, handleDisplaySettings(p) \/ ApplySettings(p) PROVE Goal
  <2>1. PagesTyped'
    BY <1>15 DEF handleDisplaySettings, ApplySettings, applySettings, PagesTyped,
                 SavesTyped, clientVars
  <2>2. HistoryTyped'
    BY <1>5, <1>15 DEF handleDisplaySettings, ApplySettings, HistoryTyped
  <2> QED BY <1>1, <1>2, <1>4, <1>15, <2>1, <2>2
          DEF handleDisplaySettings, ApplySettings
<1>16. CASE UNCHANGED vars
  BY <1>1, <1>2, <1>3, <1>4, <1>5, <1>16 DEF vars
<1> QED BY <1>6, <1>7, <1>8, <1>9, <1>10, <1>11, <1>12, <1>13, <1>14, <1>15,
           <1>16 DEF Next, Handler

(* The variables keep their types, and no channel holds more messages than *)
(* its capacity: a broadcast never waits for a page.                       *)
THEOREM TypeCorrect == Spec => []TypeOK
BY TypeInit, TypeNext, PTL DEF Spec

-----------------------------------------------------------------------------
(***************************************************************************)
(* The last word of a type in a queue.                                     *)
(***************************************************************************)
Types == {"current", "settings"}

(* Of the messages of a type one is the last.                              *)
LastsKnown(q) ==
  \A type \in Types :
    HasWord(q, type) => \E i \in DOMAIN q : IsLast(q, type, i)

LEMMA LastOfIs ==
  ASSUME NEW q \in Seq(Word), NEW type, NEW i, IsLast(q, type, i)
  PROVE  LastOf(q, type) = q[i].value
<1>1. DOMAIN q \subseteq Nat
  OBVIOUS
<1>2. \A j \in DOMAIN q : IsLast(q, type, j) => j = i
  BY <1>1 DEF IsLast
<1>3. i \in DOMAIN q
  BY DEF IsLast
<1>4. (CHOOSE j \in DOMAIN q : IsLast(q, type, j)) = i
  BY <1>2, <1>3
<1> QED BY <1>4 DEF LastOf

LEMMA NothingQueued ==
  LastsKnown(<<>>) /\ \A type : ~HasWord(<<>>, type)
BY DEF LastsKnown, HasWord

(* What a message that is queued does to the last ones.                    *)
LEMMA WordQueued ==
  ASSUME NEW q \in Seq(Word), LastsKnown(q), NEW word \in Word,
         NEW r, r = Append(q, word)
  PROVE  /\ r \in Seq(Word) /\ LastsKnown(r)
         /\ \A type \in Types :
              IF word.type = type THEN HasWord(r, type) /\ LastOf(r, type) = word.value
              ELSE /\ HasWord(r, type) <=> HasWord(q, type)
                   /\ HasWord(q, type) => LastOf(r, type) = LastOf(q, type)
         /\ \A type : HasWord(q, type) => HasWord(r, type)
<1> DEFINE n == Len(q)
<1>1. /\ n \in Nat /\ DOMAIN q = 1 .. n
      /\ r \in Seq(Word) /\ DOMAIN r = 1 .. (n + 1)
      /\ r[n + 1] = word
      /\ \A i \in 1 .. n : r[i] = q[i]
  OBVIOUS
<1> HIDE DEF n
<1>2. /\ \A i \in 1 .. (n + 1) : i \in 1 .. n \/ i = n + 1
      /\ \A i \in 1 .. n : i \in 1 .. (n + 1)
      /\ \A i \in 1 .. (n + 1) : i <= n + 1
      /\ n + 1 \in 1 .. (n + 1)
  BY <1>1
<1>3. ASSUME NEW type \in Types, word.type = type
      PROVE  IsLast(r, type, n + 1) /\ LastOf(r, type) = word.value
  <2>1. IsLast(r, type, n + 1)
    BY <1>1, <1>2, <1>3 DEF IsLast
  <2>2. LastOf(r, type) = r[n + 1].value
    BY <1>1, <2>1, LastOfIs
  <2> QED BY <1>1, <2>1, <2>2
<1>4. ASSUME NEW type \in Types, word.type # type
      PROVE  HasWord(r, type) <=> HasWord(q, type)
  BY <1>1, <1>2, <1>4 DEF HasWord
<1>5. ASSUME NEW type \in Types, word.type # type, HasWord(q, type)
      PROVE  /\ \E i \in DOMAIN r : IsLast(r, type, i)
             /\ LastOf(r, type) = LastOf(q, type)
  <2>1. PICK i \in DOMAIN q : IsLast(q, type, i)
    BY <1>5 DEF LastsKnown
  <2>2. IsLast(r, type, i) /\ r[i] = q[i]
    BY <1>1, <1>2, <1>5, <2>1 DEF IsLast
  <2>3. LastOf(r, type) = r[i].value
    BY <1>1, <2>2, LastOfIs
  <2>4. LastOf(q, type) = q[i].value
    BY <2>1, LastOfIs
  <2> QED BY <2>2, <2>3, <2>4 DEF IsLast
<1>6. LastsKnown(r)
  <2> SUFFICES ASSUME NEW type \in Types, HasWord(r, type)
               PROVE  \E i \in DOMAIN r : IsLast(r, type, i)
    BY DEF LastsKnown
  <2>1. CASE word.type = type
    BY <1>3, <2>1 DEF IsLast
  <2>2. CASE word.type # type
    BY <1>4, <1>5, <2>2
  <2> QED BY <2>1, <2>2
<1>7. \A type \in Types : word.type = type => HasWord(r, type)
  BY <1>3 DEF IsLast, HasWord
<1>8. \A type : HasWord(q, type) => HasWord(r, type)
  BY <1>1, <1>2 DEF HasWord
<1> QED BY <1>1, <1>3, <1>4, <1>5, <1>6, <1>7, <1>8

(* And one that is received.                                               *)
LEMMA WordTaken ==
  ASSUME NEW q \in Seq(Word), q # <<>>, LastsKnown(q), NEW r, r = Tail(q)
  PROVE  /\ r \in Seq(Word) /\ LastsKnown(r)
         /\ \A type \in Types :
              /\ HasWord(r, type) => /\ HasWord(q, type)
                                     /\ LastOf(r, type) = LastOf(q, type)
              /\ HasWord(q, type) /\ ~HasWord(r, type) =>
                   Head(q).type = type /\ Head(q).value = LastOf(q, type)
         /\ Head(q).type \in Types => HasWord(q, Head(q).type)
         /\ \A type : Head(q).type # type => (HasWord(r, type) <=> HasWord(q, type))
<1> DEFINE n == Len(q)
<1>1. /\ n \in Nat /\ n >= 1 /\ DOMAIN q = 1 .. n
      /\ r \in Seq(Word) /\ DOMAIN r = 1 .. (n - 1)
      /\ Head(q) = q[1]
      /\ \A i \in 1 .. (n - 1) : r[i] = q[i + 1]
  OBVIOUS
<1> HIDE DEF n
<1>2. /\ \A i \in 1 .. (n - 1) : i + 1 \in 1 .. n
      /\ \A i \in 1 .. n : i = 1 \/ (i - 1 \in 1 .. (n - 1) /\ i = (i - 1) + 1)
  BY <1>1
<1>3. ASSUME NEW type, HasWord(r, type) PROVE HasWord(q, type)
  BY <1>1, <1>2, <1>3 DEF HasWord
<1>4. ASSUME NEW type, Head(q).type # type, HasWord(q, type) PROVE HasWord(r, type)
  <2>1. PICK i \in 1 .. n : q[i].type = type
    BY <1>1, <1>4 DEF HasWord
  <2>2. i # 1
    BY <1>1, <1>4, <2>1
  <2>3. i - 1 \in DOMAIN r /\ r[i - 1] = q[i]
    BY <1>1, <1>2, <2>2
  <2> QED BY <2>1, <2>3 DEF HasWord
<1>5. ASSUME NEW type \in Types, HasWord(r, type)
      PROVE  /\ \E i \in DOMAIN r : IsLast(r, type, i)
             /\ LastOf(r, type) = LastOf(q, type)
  <2>1. PICK i \in DOMAIN q : IsLast(q, type, i)
    BY <1>3, <1>5 DEF LastsKnown
  <2>2. i \in 1 .. n /\ q[i].type = type
    BY <1>1, <2>1 DEF IsLast
  <2>3. PICK k \in 1 .. (n - 1) : r[k].type = type
    BY <1>1, <1>5 DEF HasWord
  <2>4. k + 1 <= i /\ k \in Nat /\ k >= 1
    BY <1>1, <1>2, <2>1, <2>3 DEF IsLast
  <2>5. i # 1
    BY <2>2, <2>4
  <2>6. i - 1 \in DOMAIN r /\ r[i - 1] = q[i]
    BY <1>1, <1>2, <2>2, <2>5
  <2>7. ASSUME NEW j \in DOMAIN r, r[j].type = type PROVE j <= i - 1
    <3>1. j + 1 \in DOMAIN q /\ q[j + 1].type = type /\ j \in Nat
      BY <1>1, <1>2, <2>7
    <3>2. j + 1 <= i
      BY <2>1, <3>1 DEF IsLast
    <3> QED BY <2>2, <3>1, <3>2
  <2>8. IsLast(r, type, i - 1)
    BY <2>2, <2>6, <2>7 DEF IsLast
  <2>9. LastOf(r, type) = r[i - 1].value
    BY <1>1, <2>8, LastOfIs
  <2>10. LastOf(q, type) = q[i].value
    BY <2>1, LastOfIs
  <2> QED BY <2>6, <2>8, <2>9, <2>10
<1>6. ASSUME NEW type \in Types, HasWord(q, type), ~HasWord(r, type)
      PROVE  Head(q).type = type /\ Head(q).value = LastOf(q, type)
  <2>1. PICK i \in DOMAIN q : IsLast(q, type, i)
    BY <1>6 DEF LastsKnown
  <2>2. i \in 1 .. n /\ q[i].type = type
    BY <1>1, <2>1 DEF IsLast
  <2>3. ~(i - 1 \in DOMAIN r /\ r[i - 1] = q[i])
    BY <1>6, <2>2 DEF HasWord
  <2>4. i = 1
    BY <1>1, <1>2, <2>2, <2>3
  <2> QED BY <1>1, <2>1, <2>2, <2>4, LastOfIs
<1>7. LastsKnown(r)
  BY <1>5 DEF LastsKnown
<1>8. HasWord(q, Head(q).type)
  BY <1>1 DEF HasWord
<1> QED BY <1>1, <1>3, <1>4, <1>5, <1>6, <1>7, <1>8

-----------------------------------------------------------------------------
(***************************************************************************)
(* The queues of the pages.                                                *)
(***************************************************************************)
(* A page that is not connected has nothing under way, and of the messages *)
(* of a type one is the last.                                              *)
QueuesOK ==
  \A p \in Pages : (p \notin Clients => queue[p] = <<>>) /\ LastsKnown(queue[p])

(* What a broadcast leaves of the words of a type that are under way.      *)
LEMMA Broadcasts ==
  ASSUME TypeOK, QueuesOK, NEW word \in Word, Broadcast(word), NEW p \in Pages
  PROVE  /\ queue'[p] # queue[p] => p \in Clients /\ queue'[p] = Append(queue[p], word)
         /\ p \in Clients /\ ~Full(p) => queue'[p] = Append(queue[p], word)
         /\ LastsKnown(queue'[p])
         /\ \A type : HasWord(queue[p], type) => HasWord(queue'[p], type)
         /\ \A type \in Types : word.type # type =>
              /\ HasWord(queue'[p], type) <=> HasWord(queue[p], type)
              /\ HasWord(queue[p], type) =>
                   LastOf(queue'[p], type) = LastOf(queue[p], type)
<1>1. queue[p] \in Seq(Word) /\ LastsKnown(queue[p])
  BY DEF TypeOK, QueuesOK
<1>2. queue'[p] = IF p \in Clients /\ ~Full(p) THEN Append(queue[p], word) ELSE queue[p]
  BY DEF Broadcast
<1>3. CASE p \in Clients /\ ~Full(p)
  BY <1>1, <1>2, <1>3, WordQueued
<1>4. CASE ~(p \in Clients /\ ~Full(p))
  BY <1>1, <1>2, <1>4
<1> QED BY <1>3, <1>4

LEMMA QueuesBroadcast ==
  ASSUME TypeOK, QueuesOK, NEW word \in Word, Broadcast(word), UNCHANGED client
  PROVE  QueuesOK'
BY Broadcasts DEF QueuesOK, Clients

(* The queue of one page is emptied with its connection, or served.        *)
LEMMA QueuesOther ==
  ASSUME QueuesOK, NEW p \in Pages, LastsKnown(queue'[p]),
         p \notin Clients' => queue'[p] = <<>>,
         \A o \in Pages : o # p => UNCHANGED <<queue[o], client[o]>>
  PROVE  QueuesOK'
BY DEF QueuesOK, Clients

LEMMA QueuesNext == TypeOK /\ QueuesOK /\ [Next]_vars => QueuesOK'
<1> SUFFICES ASSUME TypeOK, QueuesOK, [Next]_vars PROVE QueuesOK'
  OBVIOUS
<1>1. ASSUME UNCHANGED <<client, queue>> PROVE QueuesOK'
  BY <1>1 DEF QueuesOK, Clients
<1>2. ASSUME NEW a \in Announcers, Change(a) \/ Announcing(a) PROVE QueuesOK'
  <2>1. CASE Change(a) \/ buildCurrentMessage(a)
    BY <1>1, <2>1 DEF Change, buildCurrentMessage, clientVars
  <2>2. CASE BroadcastCurrent(a)
    <3>1. [type |-> "current", value |-> msg[a]] \in Word
      BY WordTyped DEF TypeOK
    <3> QED BY <2>2, <3>1, QueuesBroadcast DEF BroadcastCurrent, clientVars
  <2> QED BY <1>2, <2>1, <2>2 DEF Announcing
<1>3. CASE PeriodicReload
  BY <1>1, <1>3 DEF PeriodicReload, clientVars
<1>4. ASSUME NEW type \in {"reload", "alert"}, Call(type) PROVE QueuesOK'
  BY <1>4, WordTyped, QueuesBroadcast DEF Call, clientVars
<1>5. ASSUME NEW a \in Admins, NEW on \in BOOLEAN, SaveSetting(a, on) PROVE QueuesOK'
  BY <1>1, <1>5 DEF SaveSetting, clientVars
<1>6. ASSUME NEW a \in Admins, BroadcastSetting(a) PROVE QueuesOK'
  <2>1. PICK on \in saving[a] : Broadcast([type |-> "settings", value |-> on])
    BY <1>6 DEF BroadcastSetting
  <2>2. on \in BOOLEAN
    BY TypeParts DEF SavesTyped
  <2> QED BY <1>6, <2>1, <2>2, WordTyped, QueuesBroadcast DEF BroadcastSetting, clientVars
<1>7. ASSUME NEW p \in Pages, Register(p) PROVE QueuesOK'
  <2>1. LastsKnown(queue'[p]) /\ p \in Clients'
    BY <1>7 DEF Register, QueuesOK, TypeOK, Clients
  <2> QED BY <1>7, <2>1, QueuesOther DEF Register, TypeOK
<1>8. ASSUME NEW p \in Pages, BuildGreeting(p) \/ WriteGreeting(p) PROVE QueuesOK'
  <2>1. LastsKnown(queue'[p]) /\ p \in Clients'
    BY <1>8 DEF BuildGreeting, WriteGreeting, QueuesOK, TypeOK, Clients
  <2> QED BY <1>8, <2>1, QueuesOther DEF BuildGreeting, WriteGreeting, TypeOK
<1>9. ASSUME NEW p \in Pages, Unregister(p) PROVE QueuesOK'
  <2>1. queue'[p] = <<>>
    BY <1>9 DEF Unregister, TypeOK
  <2> QED BY <1>9, <2>1, NothingQueued, QueuesOther DEF Unregister, TypeOK
<1>10. ASSUME NEW p \in Pages, Serve(p) PROVE QueuesOK'
  <2>1. CASE queue' = [queue EXCEPT ![p] = Tail(@)] /\ UNCHANGED client
    <3>1. queue'[p] = Tail(queue[p]) /\ queue[p] # <<>> /\ p \in Clients'
      BY <1>10, <2>1 DEF Serve, TypeOK, Clients
    <3>2. queue[p] \in Seq(Word) /\ LastsKnown(queue[p])
      BY DEF TypeOK, QueuesOK
    <3>3. LastsKnown(queue'[p])
      BY <3>1, <3>2, WordTaken
    <3> QED BY <2>1, <3>1, <3>3, QueuesOther DEF TypeOK
  <2>2. CASE BootPage(p)
    BY <1>9, <2>2 DEF BootPage
  <2> QED BY <1>10, <2>1, <2>2 DEF Serve
<1>11. ASSUME NEW p \in Pages, Disconnect(p) PROVE QueuesOK'
  BY <1>9, <1>11 DEF Disconnect
<1>12. ASSUME NEW p \in Pages, handleDisplaySettings(p) \/ ApplySettings(p) PROVE QueuesOK'
  BY <1>1, <1>12 DEF handleDisplaySettings, ApplySettings, clientVars
<1>13. CASE UNCHANGED vars
  BY <1>1, <1>13 DEF vars, clientVars
<1> QED BY <1>2, <1>3, <1>4, <1>5, <1>6, <1>7, <1>8, <1>10, <1>11, <1>12, <1>13
        DEF Next, Handler

LEMMA QueuesInit == Init => QueuesOK
BY NothingQueued DEF Init, QueuesOK

-----------------------------------------------------------------------------
(***************************************************************************)
(* The current item.                                                       *)
(***************************************************************************)
Idle == \A a \in Announcers : pc[a] = "idle"

(* LastWordIsCurrent, of one page.                                         *)
ToldItem(p) ==
  p \in Clients /\ ~misled[p] /\ ~HasWord(queue[p], "reload") /\ Idle =>
    LastWord(p) = current

LEMMA ItemParts == LastWordIsCurrent <=> \A p \in Pages : ToldItem(p)
BY DEF LastWordIsCurrent, ToldItem, Idle, Clients

(* A step that leaves a page what it has and what it will be told.         *)
LEMMA ItemKept ==
  ASSUME TypeOK, NEW p \in Pages, ToldItem(p),
         UNCHANGED <<current, client[p], greeting[p], item[p], misled[p]>>,
         Idle' => Idle,
         HasWord(queue[p], "reload") => HasWord(queue'[p], "reload"),
         HasWord(queue'[p], "current") <=> HasWord(queue[p], "current"),
         HasWord(queue[p], "current") =>
           LastOf(queue'[p], "current") = LastOf(queue[p], "current")
  PROVE  ToldItem(p)'
<1>1. ASSUME p \in Clients PROVE LastWord(p)' = LastWord(p)
  <2>1. CASE HasWord(queue[p], "current")
    BY <2>1 DEF LastWord
  <2>2. CASE ~HasWord(queue[p], "current")
    <3>1. client[p] \in {"registered", "greeting", "serving"}
      BY <1>1 DEF Clients, TypeOK
    <3> QED BY <2>2, <3>1 DEF LastWord
  <2> QED BY <2>1, <2>2
<1> QED BY <1>1 DEF ToldItem, Clients

(* A broadcast of anything but an item.                                    *)
LEMMA ItemBroadcast ==
  ASSUME TypeOK, QueuesOK, LastWordIsCurrent,
         NEW word \in Word, word.type # "current", Broadcast(word),
         UNCHANGED <<current, pc, client, greeting, item, misled>>
  PROVE  LastWordIsCurrent'
<1> SUFFICES ASSUME NEW p \in Pages PROVE ToldItem(p)'
  BY DEF LastWordIsCurrent, ToldItem, Idle, Clients
<1>1. ToldItem(p)
  BY ItemParts
<1>2. "current" \in Types
  BY DEF Types
<1> QED BY <1>1, <1>2, Broadcasts, ItemKept DEF Idle

(* A step of one page.                                                     *)
LEMMA ItemOfPage ==
  ASSUME TypeOK, LastWordIsCurrent, NEW p \in Pages, ToldItem(p)',
         UNCHANGED <<current, pc>>,
         \A o \in Pages : o # p =>
           UNCHANGED <<queue[o], client[o], greeting[o], item[o], misled[o]>>
  PROVE  LastWordIsCurrent'
<1> SUFFICES ASSUME NEW o \in Pages, o # p PROVE ToldItem(o)'
  BY DEF LastWordIsCurrent, ToldItem, Idle, Clients
<1>1. ToldItem(o)
  BY ItemParts
<1>2. UNCHANGED <<queue[o], client[o], greeting[o], item[o], misled[o]>>
  OBVIOUS
<1> QED BY <1>1, <1>2, ItemKept DEF Idle

LEMMA ItemServed ==
  ASSUME TypeOK, QueuesOK, LastWordIsCurrent, NEW p \in Pages, Serve(p)
  PROVE  LastWordIsCurrent'
<1>1. UNCHANGED <<current, pc, misled>>
  BY DEF Serve, itemVars
<1>2. CASE BootPage(p)
  <2>1. ToldItem(p)'
    BY <1>2 DEF BootPage, Unregister, ToldItem, Clients, TypeOK
  <2> QED BY <1>1, <1>2, <2>1, ItemOfPage DEF BootPage, Unregister, TypeOK
<1>3. CASE /\ Head(queue[p]).type # "reload" /\ Receive(p, Head(queue[p]))
           /\ queue' = [queue EXCEPT ![p] = Tail(@)]
           /\ UNCHANGED <<client, greeting, fetch, answer>>
  <2>1. /\ queue[p] \in Seq(Word) /\ LastsKnown(queue[p]) /\ queue[p] # <<>>
        /\ queue'[p] = Tail(queue[p]) /\ client[p] = "serving"
    BY <1>3 DEF Serve, TypeOK, QueuesOK
  <2>2. \A o \in Pages : o # p => item'[o] = item[o]
    BY <1>3 DEF Receive, TypeOK
  <2>3. item'[p] = IF Head(queue[p]).type = "current" THEN Head(queue[p]).value ELSE item[p]
    BY <1>3 DEF Receive, TypeOK
  <2> DEFINE q == queue[p]
             r == queue'[p]
  <2>4. /\ HasWord(r, "reload") <=> HasWord(q, "reload")
        /\ HasWord(r, "current") => /\ HasWord(q, "current")
                                    /\ LastOf(r, "current") = LastOf(q, "current")
        /\ HasWord(q, "current") /\ ~HasWord(r, "current") =>
             Head(q).type = "current" /\ Head(q).value = LastOf(q, "current")
        /\ Head(q).type = "current" => HasWord(q, "current")
    BY <1>3, <2>1, WordTaken DEF Types
  <2> HIDE DEF q, r
  <2>5. /\ LastWord(p) = IF HasWord(q, "current") THEN LastOf(q, "current") ELSE item[p]
        /\ LastWord(p)' = IF HasWord(r, "current") THEN LastOf(r, "current") ELSE item'[p]
    BY <1>3, <2>1 DEF LastWord, q, r
  <2>6. item'[p] = IF Head(q).type = "current" THEN Head(q).value ELSE item[p]
    BY <2>3 DEF q
  <2>7. LastWord(p)' = LastWord(p)
    BY <2>4, <2>5, <2>6
  <2>8. ToldItem(p)
    BY ItemParts
  <2>9. ToldItem(p)'
    BY <1>1, <1>3, <2>4, <2>7, <2>8 DEF ToldItem, Idle, Clients, q, r
  <2> QED BY <1>1, <1>3, <2>2, <2>9, ItemOfPage DEF TypeOK
<1> QED BY <1>2, <1>3 DEF Serve

LEMMA ItemNext == TypeOK /\ QueuesOK /\ LastWordIsCurrent /\ [Next]_vars => LastWordIsCurrent'
<1> SUFFICES ASSUME TypeOK, QueuesOK, LastWordIsCurrent, [Next]_vars
             PROVE  LastWordIsCurrent'
  OBVIOUS
<1>0. \A p \in Pages : ToldItem(p)
  BY ItemParts
<1>1. ASSUME UNCHANGED <<current, pc, client, greeting, queue, item, misled>>
      PROVE  LastWordIsCurrent'
  BY <1>0, <1>1, ItemKept DEF LastWordIsCurrent, ToldItem, Idle, Clients
<1>2. ASSUME ~Idle' PROVE LastWordIsCurrent'
  BY <1>2 DEF LastWordIsCurrent, Idle
<1>3. ASSUME NEW a \in Announcers, Change(a) \/ buildCurrentMessage(a)
      PROVE  LastWordIsCurrent'
  <2>1. ~Idle'
    BY <1>3 DEF Change, buildCurrentMessage, Idle, TypeOK
  <2> QED BY <1>2, <2>1
<1>4. ASSUME NEW a \in Announcers, BroadcastCurrent(a) PROVE LastWordIsCurrent'
  <2> SUFFICES ASSUME NEW p \in Clients, ~misled'[p]
               PROVE  LastWord(p)' = current'
    BY <1>4 DEF BroadcastCurrent, clientVars, LastWordIsCurrent, Clients
  <2> DEFINE word == [type |-> "current", value |-> msg[a]]
  <2>1. /\ p \in Pages /\ msg[a] = current /\ ~Full(p) /\ current' = current
        /\ Broadcast(word)
    BY <1>4 DEF BroadcastCurrent, Clients
  <2>2. queue[p] \in Seq(Word) /\ LastsKnown(queue[p])
    BY <2>1 DEF TypeOK, QueuesOK
  <2>3. word \in Word /\ word.type = "current" /\ word.value = current
    BY <2>1, WordTyped DEF TypeOK
  <2> HIDE DEF word
  <2>4. queue'[p] = Append(queue[p], word)
    BY <2>1, <2>3, Broadcasts
  <2>5. HasWord(queue'[p], "current") /\ LastOf(queue'[p], "current") = current
    BY <2>2, <2>3, <2>4, WordQueued DEF Types
  <2> QED BY <2>1, <2>5 DEF LastWord
<1>5. CASE PeriodicReload
  <2>1. ~Idle'
    BY <1>5 DEF PeriodicReload, AfterReload, Idle, TypeOK, Announcers
  <2> QED BY <1>2, <2>1
<1>6. ASSUME NEW type \in {"reload", "alert"}, Call(type) PROVE LastWordIsCurrent'
  <2>1. [type |-> type] \in Word /\ [type |-> type].type # "current"
    BY WordTyped
  <2> QED BY <1>6, <2>1, ItemBroadcast DEF Call, itemVars, clientVars, pageVars, history
<1>7. ASSUME NEW a \in Admins, NEW on \in BOOLEAN, SaveSetting(a, on)
      PROVE  LastWordIsCurrent'
  BY <1>1, <1>7 DEF SaveSetting, itemVars, clientVars, pageVars
<1>8. ASSUME NEW a \in Admins, BroadcastSetting(a) PROVE LastWordIsCurrent'
  <2>1. PICK on \in saving[a] : Broadcast([type |-> "settings", value |-> on])
    BY <1>8 DEF BroadcastSetting
  <2>2. on \in BOOLEAN
    BY TypeParts DEF SavesTyped
  <2>3. /\ [type |-> "settings", value |-> on] \in Word
        /\ [type |-> "settings", value |-> on].type # "current"
    BY <2>2, WordTyped
  <2> QED BY <1>8, <2>1, <2>3, ItemBroadcast
          DEF BroadcastSetting, itemVars, clientVars, pageVars
<1>9. ASSUME NEW p \in Pages, Register(p) PROVE LastWordIsCurrent'
  <2>1. ~HasWord(queue'[p], "current") /\ client'[p] = "registered" /\ UNCHANGED itemVars
    BY <1>9, NothingQueued DEF Register, QueuesOK, Clients, TypeOK
  <2>2. LastWord(p)' = current'
    BY <2>1 DEF LastWord
  <2>3. ToldItem(p)'
    BY <2>2 DEF ToldItem
  <2> QED BY <1>9, <2>3, ItemOfPage DEF Register, itemVars, pageVars, TypeOK
<1>10. ASSUME NEW p \in Pages, BuildGreeting(p) \/ WriteGreeting(p)
       PROVE  LastWordIsCurrent'
  <2>1. /\ p \in Clients
        /\ UNCHANGED <<current, pc, queue, misled>>
        /\ LastWord(p) = current => LastWord(p)' = current
    <3>1. CASE BuildGreeting(p)
      BY <3>1 DEF BuildGreeting, itemVars, history, Clients, LastWord, TypeOK
    <3>2. CASE WriteGreeting(p)
      BY <3>2 DEF WriteGreeting, itemVars, history, Clients, LastWord, TypeOK
    <3> QED BY <1>10, <3>1, <3>2
  <2>2. ToldItem(p)'
    BY <1>0, <2>1 DEF ToldItem, Idle
  <2> QED BY <1>10, <2>1, <2>2, ItemOfPage DEF BuildGreeting, WriteGreeting, pageVars, TypeOK
<1>11. ASSUME NEW p \in Pages, Serve(p) PROVE LastWordIsCurrent'
  BY <1>11, ItemServed
<1>12. ASSUME NEW p \in Pages, Disconnect(p) PROVE LastWordIsCurrent'
  <2>1. ToldItem(p)'
    BY <1>12 DEF Disconnect, Unregister, ToldItem, Clients, TypeOK
  <2> QED BY <1>12, <2>1, ItemOfPage DEF Disconnect, Unregister, itemVars, pageVars, TypeOK
<1>13. ASSUME NEW p \in Pages, handleDisplaySettings(p) \/ ApplySettings(p)
       PROVE  LastWordIsCurrent'
  BY <1>1, <1>13 DEF handleDisplaySettings, ApplySettings, itemVars, clientVars, history
<1>14. CASE UNCHANGED vars
  BY <1>1, <1>14 DEF vars, itemVars, clientVars, pageVars, history
<1> QED BY <1>3, <1>4, <1>5, <1>6, <1>7, <1>8, <1>9, <1>10, <1>11, <1>12, <1>13,
           <1>14 DEF Next, Handler, Announcing

(* The last word on its way to a connected page is the current item,       *)
(* unless an announcement is still to be made or the last one was made of  *)
(* an item read before another change or to a full channel: whatever the   *)
(* number of goroutines that change the item and broadcast it, and however *)
(* the first message of a connection falls between them.                   *)
THEOREM LastWordReachesPages == Spec => []LastWordIsCurrent
<1>1. Init => LastWordIsCurrent
  BY DEF Init, LastWordIsCurrent, Clients
<1> QED BY <1>1, TypeInit, TypeNext, QueuesInit, QueuesNext, ItemNext, PTL DEF Spec

-----------------------------------------------------------------------------
(***************************************************************************)
(* The setting.                                                            *)
(***************************************************************************)
Saved == \A a \in Admins : saving[a] = {}

(* A page that has missed nothing shows the setting that is stored when it *)
(* is not connected, has it in the answer to its fetch, or has it as the   *)
(* last word on its way when no admin is between saving and broadcasting.  *)
ToldSetting(p) == ~missed[p] =>
  /\ p \notin Clients /\ fetch[p] = "done" => bar[p] = stored
  /\ fetch[p] = "answered" => answer[p] = stored
  /\ HasWord(queue[p], "settings") /\ Saved => LastOf(queue[p], "settings") = stored
  /\ fetch[p] = "done" /\ ~HasWord(queue[p], "settings") /\ Saved => bar[p] = stored

SettingsOK == \A p \in Pages : ToldSetting(p)

LEMMA SettingKept ==
  ASSUME NEW p \in Pages, ToldSetting(p),
         UNCHANGED <<stored, saving, client[p], bar[p], fetch[p], answer[p], missed[p]>>,
         HasWord(queue'[p], "settings") <=> HasWord(queue[p], "settings"),
         HasWord(queue[p], "settings") =>
           LastOf(queue'[p], "settings") = LastOf(queue[p], "settings")
  PROVE  ToldSetting(p)'
<1>1. (p \in Clients)' <=> p \in Clients
  BY DEF Clients
<1> QED BY <1>1 DEF ToldSetting, Saved

(* A broadcast of anything but a setting.                                  *)
LEMMA SettingBroadcast ==
  ASSUME TypeOK, QueuesOK, SettingsOK,
         NEW word \in Word, word.type # "settings", Broadcast(word),
         UNCHANGED <<stored, saving, client, bar, fetch, answer, missed>>
  PROVE  SettingsOK'
<1> SUFFICES ASSUME NEW p \in Pages PROVE ToldSetting(p)'
  BY DEF SettingsOK
<1>1. ToldSetting(p)
  BY DEF SettingsOK
<1>2. "settings" \in Types
  BY DEF Types
<1> QED BY <1>1, <1>2, Broadcasts, SettingKept

(* A step of one page.                                                     *)
LEMMA SettingOfPage ==
  ASSUME SettingsOK, NEW p \in Pages, ToldSetting(p)',
         UNCHANGED <<stored, saving>>,
         \A o \in Pages : o # p =>
           UNCHANGED <<queue[o], client[o], bar[o], fetch[o], answer[o], missed[o]>>
  PROVE  SettingsOK'
<1> SUFFICES ASSUME NEW o \in Pages, o # p PROVE ToldSetting(o)'
  BY DEF SettingsOK
<1>1. ToldSetting(o)
  BY DEF SettingsOK
<1>2. UNCHANGED <<queue[o], client[o], bar[o], fetch[o], answer[o], missed[o]>>
  OBVIOUS
<1> QED BY <1>1, <1>2, SettingKept

LEMMA SettingServed ==
  ASSUME TypeOK, QueuesOK, SettingsOK, NEW p \in Pages, Serve(p)
  PROVE  SettingsOK'
<1>1. UNCHANGED <<stored, saving>>
  BY DEF Serve, settingVars
<1>2. CASE BootPage(p)
  <2>1. /\ fetch'[p] = "asked" /\ ~HasWord(queue'[p], "settings")
        /\ \A o \in Pages : o # p =>
             UNCHANGED <<queue[o], client[o], bar[o], fetch[o], answer[o], missed[o]>>
    BY <1>2, NothingQueued DEF BootPage, Unregister, TypeOK
  <2>2. ToldSetting(p)'
    BY <2>1 DEF ToldSetting
  <2> QED BY <1>1, <2>1, <2>2, SettingOfPage
<1>3. CASE /\ Receive(p, Head(queue[p]))
           /\ queue' = [queue EXCEPT ![p] = Tail(@)]
           /\ UNCHANGED <<client, greeting, fetch, answer>>
  <2>1. /\ queue[p] \in Seq(Word) /\ LastsKnown(queue[p]) /\ queue[p] # <<>>
        /\ queue'[p] = Tail(queue[p]) /\ client[p] = "serving"
    BY <1>3 DEF Serve, TypeOK, QueuesOK
  <2>2. UNCHANGED missed /\ \A o \in Pages : o # p => bar'[o] = bar[o]
    BY <1>3 DEF Receive, TypeOK
  <2>3. bar'[p] = IF Head(queue[p]).type = "settings" THEN Head(queue[p]).value ELSE bar[p]
    BY <1>3 DEF Receive, applySettings, TypeOK
  <2> DEFINE q == queue[p]
             r == queue'[p]
  <2>4. /\ HasWord(r, "settings") => /\ HasWord(q, "settings")
                                     /\ LastOf(r, "settings") = LastOf(q, "settings")
        /\ HasWord(q, "settings") /\ ~HasWord(r, "settings") =>
             Head(q).type = "settings" /\ Head(q).value = LastOf(q, "settings")
        /\ Head(q).type = "settings" => HasWord(q, "settings")
    BY <2>1, WordTaken DEF Types
  <2>5. ToldSetting(p)
    BY DEF SettingsOK
  <2>6. p \in Clients /\ p \in Clients'
    BY <1>3, <2>1 DEF Clients
  <2>7. ToldSetting(p)'
    <3> SUFFICES ASSUME ~missed[p]
                 PROVE  /\ HasWord(r, "settings") /\ Saved =>
                             LastOf(r, "settings") = stored
                        /\ fetch[p] = "done" /\ ~HasWord(r, "settings") /\ Saved =>
                             bar'[p] = stored
      BY <1>1, <1>3, <2>2, <2>5, <2>6 DEF ToldSetting, Saved
    <3>1. /\ HasWord(q, "settings") /\ Saved => LastOf(q, "settings") = stored
          /\ fetch[p] = "done" /\ ~HasWord(q, "settings") /\ Saved => bar[p] = stored
      BY <2>5 DEF ToldSetting
    <3>2. bar'[p] = IF Head(q).type = "settings" THEN Head(q).value ELSE bar[p]
      BY <2>3
    <3> HIDE DEF q, r
    <3> QED BY <2>4, <3>1, <3>2
  <2> QED BY <1>1, <1>3, <2>2, <2>7, SettingOfPage DEF TypeOK
<1> QED BY <1>2, <1>3 DEF Serve

LEMMA SettingNext == TypeOK /\ QueuesOK /\ SettingsOK /\ [Next]_vars => SettingsOK'
<1> SUFFICES ASSUME TypeOK, QueuesOK, SettingsOK, [Next]_vars PROVE SettingsOK'
  OBVIOUS
<1>0. \A p \in Pages : ToldSetting(p)
  BY DEF SettingsOK
<1>1. ASSUME UNCHANGED <<stored, saving, client, queue, bar, fetch, answer, missed>>
      PROVE  SettingsOK'
  BY <1>0, <1>1, SettingKept DEF SettingsOK
<1>2. ASSUME NEW a \in Announcers, Change(a) \/ buildCurrentMessage(a)
      PROVE  SettingsOK'
  BY <1>1, <1>2 DEF Change, buildCurrentMessage, settingVars, clientVars, pageVars, history
<1>3. ASSUME NEW a \in Announcers, BroadcastCurrent(a) PROVE SettingsOK'
  <2>1. /\ [type |-> "current", value |-> msg[a]] \in Word
        /\ [type |-> "current", value |-> msg[a]].type # "settings"
    BY WordTyped DEF TypeOK
  <2> QED BY <1>3, <2>1, SettingBroadcast
          DEF BroadcastCurrent, settingVars, clientVars, pageVars
<1>4. CASE PeriodicReload
  BY <1>1, <1>4 DEF PeriodicReload, settingVars, clientVars, pageVars, history
<1>5. ASSUME NEW type \in {"reload", "alert"}, Call(type) PROVE SettingsOK'
  <2>1. [type |-> type] \in Word /\ [type |-> type].type # "settings"
    BY WordTyped
  <2> QED BY <1>5, <2>1, SettingBroadcast
          DEF Call, settingVars, clientVars, pageVars, history
<1>6. ASSUME NEW a \in Admins, NEW on \in BOOLEAN, SaveSetting(a, on) PROVE SettingsOK'
  <2>1. ~Saved'
    <3>1. saving'[a] = {on}
      BY <1>6 DEF SaveSetting, TypeOK
    <3> QED BY <3>1 DEF Saved
  <2> SUFFICES ASSUME NEW p \in Pages, ~missed'[p] PROVE ToldSetting(p)'
    BY DEF SettingsOK, ToldSetting
  <2>2. Learns(p) /\ UNCHANGED <<client, fetch>>
    BY <1>6 DEF SaveSetting, clientVars, pageVars
  <2> QED BY <2>1, <2>2 DEF Learns, ToldSetting, Clients
<1>7. ASSUME NEW a \in Admins, BroadcastSetting(a) PROVE SettingsOK'
  <2>1. PICK on \in saving[a] :
          /\ Broadcast([type |-> "settings", value |-> on])
          /\ missed' = [p \in Pages |->
               IF p \in Clients /\ (Full(p) \/ on # stored) THEN TRUE
               ELSE missed[p] /\ ~(p \in Clients /\ Learns(p))]
    BY <1>7 DEF BroadcastSetting
  <2>2. on \in BOOLEAN
    BY TypeParts DEF SavesTyped
  <2> DEFINE word == [type |-> "settings", value |-> on]
  <2>3. word \in Word /\ word.type = "settings" /\ word.value = on /\ Broadcast(word)
    BY <2>1, <2>2, WordTyped
  <2> HIDE DEF word
  <2>4. UNCHANGED <<stored, client, bar, fetch, answer>>
    BY <1>7 DEF BroadcastSetting, clientVars, pageVars
  <2> SUFFICES ASSUME NEW p \in Pages, ~missed'[p] PROVE ToldSetting(p)'
    BY DEF SettingsOK, ToldSetting
  <2>5. queue[p] \in Seq(Word) /\ LastsKnown(queue[p])
    BY DEF TypeOK, QueuesOK
  <2>6. CASE p \in Clients
    <3>1. ~Full(p) /\ on = stored /\ (~missed[p] \/ Learns(p))
      BY <2>1, <2>6
    <3>2. queue'[p] = Append(queue[p], word)
      BY <2>3, <2>6, <3>1, Broadcasts
    <3>3. HasWord(queue'[p], "settings") /\ LastOf(queue'[p], "settings") = on
      BY <2>3, <2>5, <3>2, WordQueued DEF Types
    <3>4. fetch[p] = "answered" => answer[p] = stored
      BY <1>0, <3>1 DEF Learns, ToldSetting
    <3> QED BY <2>4, <2>6, <3>1, <3>3, <3>4 DEF ToldSetting, Clients
  <2>7. CASE p \notin Clients
    <3>1. ~missed[p]
      BY <2>1, <2>7
    <3>2. ~HasWord(queue'[p], "settings")
      BY <2>3, <2>7, Broadcasts, NothingQueued DEF QueuesOK
    <3> QED BY <1>0, <2>4, <2>7, <3>1, <3>2 DEF ToldSetting, Clients
  <2> QED BY <2>6, <2>7
<1>8. ASSUME NEW p \in Pages, Register(p) PROVE SettingsOK'
  <2>1. /\ p \notin Clients /\ p \in Clients' /\ ~HasWord(queue[p], "settings")
        /\ UNCHANGED <<stored, saving, queue, bar, fetch, answer, missed>>
    BY <1>8, NothingQueued
    DEF Register, QueuesOK, Clients, TypeOK, settingVars, pageVars
  <2>2. ToldSetting(p)'
    BY <1>0, <2>1 DEF ToldSetting
  <2> QED BY <1>8, <2>1, <2>2, SettingOfPage DEF Register, TypeOK
<1>9. ASSUME NEW p \in Pages, BuildGreeting(p) \/ WriteGreeting(p) PROVE SettingsOK'
  <2>1. /\ p \in Clients /\ p \in Clients'
        /\ UNCHANGED <<stored, saving, queue, bar, fetch, answer, missed>>
    BY <1>9 DEF BuildGreeting, WriteGreeting, Clients, TypeOK, settingVars, pageVars, history
  <2>2. ToldSetting(p)'
    BY <1>0, <2>1 DEF ToldSetting, Saved
  <2> QED BY <1>9, <2>1, <2>2, SettingOfPage DEF BuildGreeting, WriteGreeting, TypeOK
<1>10. ASSUME NEW p \in Pages, Serve(p) PROVE SettingsOK'
  BY <1>10, SettingServed
<1>11. ASSUME NEW p \in Pages, Disconnect(p) PROVE SettingsOK'
  <2>1. /\ p \in Clients /\ ~HasWord(queue'[p], "settings")
        /\ UNCHANGED <<stored, saving, bar, fetch, answer>>
    BY <1>11, NothingQueued DEF Disconnect, Unregister, TypeOK, settingVars, pageVars
  <2>2. ~missed'[p] =>
          ~missed[p] /\ (fetch[p] = "asked" \/ (~HasWord(queue[p], "settings") /\ Saved))
    BY <1>11 DEF Disconnect, TypeOK, Saved
  <2>3. ToldSetting(p)'
    BY <1>0, <2>1, <2>2 DEF ToldSetting
  <2> QED BY <1>11, <2>1, <2>3, SettingOfPage DEF Disconnect, Unregister, TypeOK
<1>12. ASSUME NEW p \in Pages, handleDisplaySettings(p) \/ ApplySettings(p)
       PROVE  SettingsOK'
  <2>1. UNCHANGED <<stored, saving, client, queue>>
    BY <1>12 DEF handleDisplaySettings, ApplySettings, settingVars, clientVars
  <2>2. ToldSetting(p)'
    <3>1. CASE handleDisplaySettings(p)
      BY <1>0, <2>1, <3>1 DEF handleDisplaySettings, ToldSetting, Saved, Clients, TypeOK, history
    <3>2. CASE ApplySettings(p)
      BY <1>0, <2>1, <3>2 DEF ApplySettings, applySettings, ToldSetting, Saved, Clients, TypeOK
    <3> QED BY <1>12, <3>1, <3>2
  <2> QED BY <1>12, <2>1, <2>2, SettingOfPage
          DEF handleDisplaySettings, ApplySettings, TypeOK, history
<1>13. CASE UNCHANGED vars
  BY <1>1, <1>13 DEF vars, settingVars, clientVars, pageVars, history
<1> QED BY <1>2, <1>3, <1>4, <1>5, <1>6, <1>7, <1>8, <1>9, <1>10, <1>11, <1>12,
           <1>13 DEF Next, Handler, Announcing

(* A page that has booted comes to show the setting that is stored,        *)
(* whether it learns it from its fetch or from a broadcast: no order of    *)
(* the two, of the admins that save and of the connections that are lost   *)
(* leaves it another, unless a change did not reach it.                    *)
THEOREM SettingReachesPages == Spec => []SettingIsStored
<1>1. Init => SettingsOK
  BY NothingQueued DEF Init, SettingsOK, ToldSetting
<1>2. SettingsOK => SettingIsStored
  BY DEF SettingsOK, ToldSetting, SettingIsStored, Saved
<1> QED BY <1>1, <1>2, TypeInit, TypeNext, QueuesInit, QueuesNext, SettingNext, PTL
        DEF Spec

=============================================================================
