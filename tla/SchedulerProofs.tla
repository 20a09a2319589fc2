--------------------------- MODULE SchedulerProofs ---------------------------
(* What holds of the scheduler for every set of goroutines, playlists,     *)
(* items and databases.                                                    *)
EXTENDS Scheduler, SequenceTheorems, TLAPS

(* A thread that moves leaves every other thread where it is.              *)
LEMMA GotoMoves ==
  ASSUME TypeOK, NEW th \in Threads, NEW label, Goto(th, label)
  PROVE  /\ pc'[th] = label
         /\ \A u \in Threads : u # th => pc'[u] = pc[u]
         /\ DOMAIN pc' = Threads
BY DEF TypeOK, Goto

(* The queries return a queue the program can hold.                        *)
LEMMA LoadTyped ==
  ASSUME TypeOK, NEW id \in Playlists \cup {NoPlaylist}
  PROVE  LoadPlaylist(Source(id)) \in Seq(Items) /\ Source(id) \in Playlists \cup {NoPlaylist}
<1>1. db \in DatabaseType
  BY ConstantsAssumption DEF TypeOK
<1>2. Source(id) \in Playlists \cup {NoPlaylist}
  BY <1>1 DEF Source, DatabaseType
<1>3. db.items \in [Playlists -> Seq(Items)]
  BY <1>1 DEF DatabaseType
<1>4. CASE Source(id) = NoPlaylist
  BY <1>2, <1>4 DEF LoadPlaylist
<1>5. CASE Source(id) \in Playlists
  BY <1>2, <1>3, <1>5, ConstantsAssumption DEF LoadPlaylist
<1> QED BY <1>2, <1>4, <1>5

(* A queue with items has a positive length, and the index of the current  *)
(* item, taken modulo it, is an index of the queue.                        *)
LEMMA QueueLength ==
  ASSUME TypeOK, queue # <<>>
  PROVE  /\ Len(queue) \in Nat
         /\ Len(queue) > 0
         /\ \A n \in Nat : n % Len(queue) \in 0 .. (Len(queue) - 1)
<1>1. queue \in Seq(Items)
  BY DEF TypeOK
<1>2. Len(queue) \in Nat /\ Len(queue) # 0
  BY <1>1, EmptySeq, LenProperties
<1> QED BY <1>2

(* What Current returns is an item, or none.                               *)
LEMMA CurrentItemTyped == ASSUME TypeOK PROVE CurrentItem \in Items \cup {NoItem}
<1>1. CASE queue = <<>>
  BY <1>1 DEF CurrentItem
<1>2. CASE queue # <<>>
  <2>1. Len(queue) \in Nat
    BY <1>2, QueueLength
  <2>2. PICK k \in 0 .. (Len(queue) - 1) : k = current % Len(queue)
    BY <1>2, QueueLength DEF TypeOK
  <2>3. k + 1 \in 1 .. Len(queue)
    BY <2>1
  <2>4. queue[k + 1] \in Items
    <3>1. queue \in Seq(Items)
      BY DEF TypeOK
    <3>2. queue \in [1 .. Len(queue) -> Items]
      BY <3>1, LenProperties
    <3> QED BY <2>3, <3>2
  <2> QED BY <1>2, <2>2, <2>4 DEF CurrentItem
<1> QED BY <1>1, <1>2

(* A new timer is one of the timers.                                       *)
LEMMA NewTimerTyped == ASSUME TypeOK PROVE NewTimer \in TimerIds
<1>1. \E t \in TimerIds : t # timerC
  <2>1. PICK a \in TimerIds : timerC \in TimerIds => a = timerC
    BY ConstantsAssumption
  <2>2. PICK t \in TimerIds : t # a
    BY ConstantsAssumption
  <2> QED BY <2>1, <2>2
<1> QED BY <1>1 DEF NewTimer

-----------------------------------------------------------------------------
(***************************************************************************)
(* Type correctness.                                                       *)
(***************************************************************************)

(* The scheduler starts with every variable in its type.                   *)
LEMMA TypeInit == Init => TypeOK
<1> SUFFICES ASSUME Init PROVE TypeOK
  OBVIOUS
<1>1. <<>> \in Seq(Items)
  BY EmptySeq
<1>2. /\ timer \in [TimerIds -> {"dead", "running", "expired"}]
      /\ seesEmpty \in [Threads -> BOOLEAN]
      /\ sees \in [Threads -> Items \cup {NoItem}]
      /\ pc \in [Threads -> {"idle", "committed", "advance", "stop", "read",
                             "set", "notify", "tell", "reload", "load",
                             "store", "top", "select", "done"}]
  BY DEF Init
<1>3. /\ db \in Databases
      /\ queue \in Seq(Items) /\ current \in Nat
      /\ activePlaylistID \in Playlists \cup {NoPlaylist}
      /\ source \in Playlists \cup {NoPlaylist}
      /\ loadedFrom \in Playlists \cup {NoPlaylist}
      /\ advanceTimer \in TimerIds \cup {NoTimer}
      /\ reload \in BOOLEAN
      /\ timerC \in TimerIds \cup {NoTimer}
      /\ playlistID \in Playlists \cup {NoPlaylist}
      /\ items \in Seq(Items)
      /\ announced \in Items \cup {NoItem}
      /\ newest \in {{}} \cup {{th} : th \in Threads}
      /\ unsignalled \in BOOLEAN /\ overtaken \in BOOLEAN /\ disarmed \in BOOLEAN
  BY <1>1 DEF Init
<1> QED BY <1>2, <1>3 DEF TypeOK

(* ... and every step keeps it there.                                      *)
LEMMA TypeNext == TypeOK /\ [Next]_vars => TypeOK'
<1> SUFFICES ASSUME TypeOK, [Next]_vars PROVE TypeOK'
  OBVIOUS
<1> USE ConstantsAssumption
<1>0. Loop \in Threads /\ Clients \subseteq Threads
  BY DEF Threads
<1>1. ASSUME NEW c \in Clients, ClientStep(c) PROVE TypeOK'
  <2>1. CASE Commit(c)
    BY <1>0, <2>1 DEF TypeOK, Commit, tellVars, Goto, queueVars, timerVars, loopVars,
                      localVars
  <2>2. CASE TriggerReload(c)
    BY <1>0, <2>2 DEF TypeOK, TriggerReload, tellVars, Goto, dbVars, queueVars,
                      timerVars, loopVars, localVars
  <2>3. CASE CallAdvance(c)
    BY <1>0, <2>3 DEF TypeOK, CallAdvance, tellVars, Goto, dbVars, queueVars, timerVars,
                      loopVars, localVars
  <2> QED BY <1>1, <2>1, <2>2, <2>3 DEF ClientStep
<1>2. ASSUME NEW th \in Threads, Thread(th) PROVE TypeOK'
  <2>1. CASE Advance(th)
    <3>1. current + 1 \in Nat
      BY DEF TypeOK
    <3>2. ASSUME queue # <<>> PROVE NextIndex \in Nat
      <4>1. NextIndex \in 0 .. (Len(queue) - 1) /\ Len(queue) \in Nat
        BY <3>1, <3>2, QueueLength DEF NextIndex
      <4> QED BY <4>1
    <3>3. current' \in Nat
      BY <2>1, <3>2 DEF TypeOK, Advance
    <3> QED BY <2>1, <3>3 DEF TypeOK, Advance, tellVars, Goto, Return, dbVars, timerVars,
                              loopVars, localVars
  <2>2. CASE StopTimer(th)
    BY <2>2 DEF TypeOK, StopTimer, tellVars, Kept, Goto, dbVars, queueVars, loopVars,
                localVars
  <2>3. CASE ReadDuration(th)
    BY <2>3 DEF TypeOK, ReadDuration, tellVars, Goto, dbVars, queueVars, timerVars,
                loopVars, localVars
  <2>4. CASE SetTimer(th)
    <3>1. NewTimer \in TimerIds
      BY NewTimerTyped
    <3>2. advanceTimer' \in TimerIds \cup {NoTimer}
      BY <2>4, <3>1 DEF SetTimer
    <3>3. timer' \in [TimerIds -> {"dead", "running", "expired"}]
      BY <2>4, <3>1 DEF TypeOK, SetTimer, tellVars, Kept
    <3>4. disarmed' \in BOOLEAN
      BY <2>4, Zenon DEF SetTimer
    <3> QED BY <2>4, <3>2, <3>3, <3>4 DEF TypeOK, SetTimer, tellVars, Goto, dbVars, queueVars,
                                    loopVars, localVars
  <2>5. CASE NotifyChange(th)
    <3>1. sees' \in [Threads -> Items \cup {NoItem}]
      BY <2>5, CurrentItemTyped DEF TypeOK, NotifyChange
    <3>2. newest' \in {{}} \cup {{u} : u \in Threads} /\ overtaken' \in BOOLEAN
      BY <2>5 DEF NotifyChange
    <3> QED BY <2>5, <3>1, <3>2 DEF TypeOK, NotifyChange, Goto, dbVars, queueVars,
                                    timerVars, loopVars, localVars
  <2>6. CASE Tell(th)
    <3>1. /\ sees' \in [Threads -> Items \cup {NoItem}]
          /\ announced' \in Items \cup {NoItem}
          /\ newest' \in {{}} \cup {{u} : u \in Threads}
      BY <2>6 DEF TypeOK, Tell
    <3>2. overtaken' \in BOOLEAN
      BY <2>6, Zenon DEF Tell
    <3> QED BY <2>6, <3>1, <3>2 DEF TypeOK, Tell, Goto, Return, dbVars, queueVars,
                                    timerVars, loopVars, localVars
  <2> QED BY <1>2, <2>1, <2>2, <2>3, <2>4, <2>5, <2>6 DEF Thread, ResetTimer
<1>3. CASE ReloadQueue
  <2>1. db.scheduled \in Playlists \cup {NoPlaylist}
    BY DEF TypeOK, DatabaseType
  <2>2. CASE EvaluateSchedules
    BY <1>0, <2>1, <2>2 DEF TypeOK, EvaluateSchedules, tellVars, Goto, queueVars,
                            timerVars
  <2>3. CASE EvaluateSchedulesFails
    BY <1>0, <2>3 DEF TypeOK, EvaluateSchedulesFails, tellVars, Goto, queueVars, timerVars
  <2>4. CASE LoadItems
    <3>1. /\ LoadPlaylist(Source(playlistID)) \in Seq(Items)
          /\ Source(playlistID) \in Playlists \cup {NoPlaylist}
      BY LoadTyped DEF TypeOK
    <3> QED BY <1>0, <2>4, <3>1 DEF TypeOK, LoadItems, tellVars, Goto, dbVars, queueVars,
                                    timerVars
  <2> <<>> \in Seq(Items)
    BY EmptySeq
  <2>5. CASE LoadItemsFails
    BY <1>0, <2>5 DEF TypeOK, LoadItemsFails, tellVars, DropLocals, Goto, queueVars,
                      timerVars
  <2>6. CASE StoreQueue
    BY <1>0, <2>6 DEF TypeOK, StoreQueue, tellVars, DropLocals, AfterStore, Goto, dbVars,
                      timerVars
  <2> QED BY <1>3, <2>2, <2>3, <2>4, <2>5, <2>6 DEF ReloadQueue, QueryFails
<1>4. CASE LoopStep
  <2>1. CASE LoopTop
    BY <1>0, <2>1 DEF TypeOK, LoopTop, tellVars, Goto, dbVars, queueVars, timerVars,
                      localVars
  <2>2. CASE SelectTicker
    BY <1>0, <2>2 DEF TypeOK, SelectTicker, tellVars, Leave, Kept, Goto, dbVars,
                      queueVars, localVars
  <2>3. CASE SelectReload
    BY <1>0, <2>3 DEF TypeOK, SelectReload, tellVars, Leave, Kept, Goto, dbVars,
                      queueVars, localVars
  <2>4. CASE SelectTimer
    BY <1>0, <2>4 DEF TypeOK, SelectTimer, tellVars, Leave, Kept, Goto, dbVars,
                      queueVars, localVars
  <2> QED BY <1>4, <2>1, <2>2, <2>3, <2>4 DEF LoopStep
<1>5. CASE SelectDone
  BY <1>0, <1>5 DEF TypeOK, SelectDone, tellVars, Leave, Kept, Goto, dbVars, queueVars,
                    localVars
<1>6. CASE SilentChange
  BY <1>6 DEF TypeOK, SilentChange, tellVars, queueVars, timerVars, loopVars, localVars
<1>7. ASSUME NEW t \in TimerIds, Expire(t) PROVE TypeOK'
  BY <1>7 DEF TypeOK, Expire, tellVars, dbVars, queueVars, loopVars, localVars
<1>8. CASE UNCHANGED vars
  BY <1>8 DEF TypeOK, vars, tellVars, dbVars, queueVars, timerVars, loopVars, localVars
<1> QED BY <1>1, <1>2, <1>3, <1>4, <1>5, <1>6, <1>7, <1>8 DEF Next

(* Every variable of the scheduler keeps its type: whatever the goroutines,*)
(* the playlists and the databases, current stays a natural number, the    *)
(* queue a sequence of items and every timer one of the three it can be.   *)
THEOREM TypeCorrect == Spec => []TypeOK
BY TypeInit, TypeNext, PTL DEF Spec

-----------------------------------------------------------------------------
(***************************************************************************)
(* The position.                                                           *)
(***************************************************************************)

(* Only Advance and StoreQueue write the queue or the position.            *)
LEMMA OnlyAdvanceAndStore ==
  ASSUME [Next]_vars,
         \A th \in Threads : ~Advance(th),
         ~StoreQueue
  PROVE  UNCHANGED <<queue, current>>
<1>1. ASSUME NEW c \in Clients, ClientStep(c) PROVE UNCHANGED <<queue, current>>
  BY <1>1 DEF ClientStep, Commit, TriggerReload, CallAdvance, queueVars
<1>2. ASSUME NEW th \in Threads, Thread(th) PROVE UNCHANGED <<queue, current>>
  BY <1>2 DEF Thread, ResetTimer, StopTimer, ReadDuration, SetTimer,
              NotifyChange, Tell, queueVars
<1>3. CASE ReloadQueue
  BY <1>3 DEF ReloadQueue, QueryFails, EvaluateSchedules,
              EvaluateSchedulesFails, LoadItems, LoadItemsFails, queueVars
<1>4. CASE LoopStep
  BY <1>4 DEF LoopStep, LoopTop, SelectTicker, SelectReload, SelectTimer,
              queueVars
<1>5. CASE SelectDone \/ SilentChange
  BY <1>5 DEF SelectDone, SilentChange, queueVars
<1>6. ASSUME NEW t \in TimerIds, Expire(t) PROVE UNCHANGED <<queue, current>>
  BY <1>6 DEF Expire, queueVars
<1>7. CASE UNCHANGED vars
  BY <1>7 DEF vars, queueVars
<1> QED BY <1>1, <1>2, <1>3, <1>4, <1>5, <1>6, <1>7 DEF Next

(* A step of anybody leaves the position inside the queue.                 *)
LEMMA CurrentInRangeNext ==
  TypeOK /\ CurrentInRange /\ [Next]_vars => CurrentInRange'
<1> SUFFICES ASSUME TypeOK, CurrentInRange, [Next]_vars PROVE CurrentInRange'
  OBVIOUS
<1>1. ASSUME NEW th \in Threads, Advance(th) PROVE CurrentInRange'
  <2>1. CASE queue = <<>>
    BY <1>1, <2>1 DEF Advance, CurrentInRange
  <2>2. CASE queue # <<>>
    <3>1. current + 1 \in Nat
      BY DEF TypeOK
    <3>2. PICK k \in 0 .. (Len(queue) - 1) : k = NextIndex
      BY <2>2, <3>1, QueueLength DEF NextIndex
    <3>3. Len(queue) \in Nat
      BY <2>2, QueueLength
    <3>4. k < Len(queue)
      BY <3>3
    <3>5. current' = k /\ queue' = queue
      BY <1>1, <2>2, <3>2 DEF Advance
    <3> QED BY <2>2, <3>4, <3>5 DEF CurrentInRange
  <2> QED BY <2>1, <2>2
<1>2. CASE StoreQueue
  <2>1. /\ queue' = items
        /\ current' = IF NeedsReset THEN 0 ELSE current
    BY <1>2 DEF StoreQueue
  <2>2. Len(items) \in Nat /\ (items # <<>> => Len(items) > 0)
    <3>1. items \in Seq(Items)
      BY DEF TypeOK
    <3>2. items # <<>> => Len(items) \in Nat \ {0}
      BY <3>1, EmptySeq
    <3> QED BY <3>1, <3>2, LenProperties
  <2>3. Len(<<>>) = 0
    BY EmptySeq
  <2>4. CASE NeedsReset
    BY <2>1, <2>2, <2>4 DEF CurrentInRange
  <2>5. CASE ~NeedsReset
    BY <2>1, <2>2, <2>3, <2>5 DEF CurrentInRange, NeedsReset, TypeOK
  <2> QED BY <2>4, <2>5
<1>3. CASE UNCHANGED <<queue, current>>
  BY <1>3 DEF CurrentInRange
<1> QED BY <1>1, <1>2, <1>3, OnlyAdvanceAndStore

(* Whatever advances and reloads interleave, and however the playlists     *)
(* shrink, the position stays inside the queue: CurrentInRange needs no    *)
(* strengthening beyond the types.                                         *)
THEOREM PositionInRange == Spec => []CurrentInRange
<1>1. Init => CurrentInRange
  BY DEF Init, CurrentInRange
<1>2. TypeOK /\ CurrentInRange /\ [Next]_vars => CurrentInRange'
  BY CurrentInRangeNext
<1> QED BY <1>1, <1>2, TypeCorrect, PTL DEF Spec

-----------------------------------------------------------------------------
(***************************************************************************)
(* Freshness of the queue.                                                 *)
(***************************************************************************)

(* The loop is not one of the HTTP goroutines.                             *)
LEMMA LoopIsNoClient == Loop \in Threads /\ Clients \subseteq Threads /\ Loop \notin Clients
BY ConstantsAssumption DEF Threads

(* A goroutine that is in Advance, resetTimer or notifyChange leaves the   *)
(* rows, the token and every commit still to be signalled where they are.  *)
LEMMA ThreadKeepsOwed ==
  ASSUME TypeOK, NEW th \in Threads, Thread(th)
  PROVE  /\ ReloadOwed => ReloadOwed'
         /\ UNCHANGED <<db, reload, unsignalled, queue, activePlaylistID,
                        playlistID, items>>
         /\ pc[th] \in {"advance", "stop", "read", "set", "notify", "tell"}
         /\ pc'[th] \notin {"reload", "load", "store"}
         /\ \A u \in Threads : u # th => pc'[u] = pc[u]
<1>1. PICK label \in {"stop", "read", "set", "notify", "tell", "top", "idle"} : Goto(th, label)
  BY DEF Thread, ResetTimer, Advance, StopTimer, ReadDuration, SetTimer,
         NotifyChange, Tell, Return
<1>2. /\ UNCHANGED <<db, reload, unsignalled, queue, activePlaylistID,
                     playlistID, items>>
      /\ pc[th] \in {"advance", "stop", "read", "set", "notify", "tell"}
  BY DEF Thread, ResetTimer, Advance, StopTimer, ReadDuration, SetTimer,
         NotifyChange, Tell, dbVars, queueVars, loopVars, localVars
<1>3. /\ pc'[th] = label
      /\ \A u \in Threads : u # th => pc'[u] = pc[u]
  BY <1>1, GotoMoves
<1> QED BY <1>1, <1>2, <1>3, LoopIsNoClient DEF ReloadOwed

(* A step of the loop leaves every commit still to be signalled.           *)
LEMMA LoopKeepsCommitted ==
  ASSUME TypeOK, NEW label, Goto(Loop, label)
  PROVE  \A c \in Clients : pc'[c] = pc[c]
BY GotoMoves, LoopIsNoClient

(* A step that makes the loop's copy differ from the rows owes a reload,   *)
(* and a step that pays one back has read the rows of that moment.         *)
LEMMA NoLostReloadNext ==
  TypeOK /\ NoLostReload /\ [Next]_vars => NoLostReload'
<1> SUFFICES ASSUME TypeOK, NoLostReload, [Next]_vars PROVE NoLostReload'
  OBVIOUS
<1> USE LoopIsNoClient
<1>1. ASSUME NEW c \in Clients, ClientStep(c) PROVE NoLostReload'
  <2>1. CASE Commit(c)
    BY <2>1, GotoMoves DEF Commit, NoLostReload, ReloadOwed
  <2>2. CASE TriggerReload(c)
    BY <2>2 DEF TriggerReload, NoLostReload, ReloadOwed
  <2>3. CASE CallAdvance(c)
    <3>1. /\ pc[c] = "idle"
          /\ pc'[c] = "advance"
          /\ \A u \in Threads : u # c => pc'[u] = pc[u]
      BY <2>3, GotoMoves DEF CallAdvance
    <3>2. UNCHANGED <<db, reload, unsignalled, queue, activePlaylistID,
                      playlistID, items>>
      BY <2>3 DEF CallAdvance, dbVars, queueVars, loopVars, localVars
    <3>3. pc'[Loop] = pc[Loop]
      BY <3>1
    <3>4. ReloadOwed => ReloadOwed'
      BY <3>1, <3>2 DEF ReloadOwed
    <3>5. Fresh => Fresh'
      BY <3>2, <3>3 DEF Fresh, Wanted, LoadPlaylist, Source
    <3> QED BY <3>4, <3>5 DEF NoLostReload
  <2> QED BY <1>1, <2>1, <2>2, <2>3 DEF ClientStep
<1>2. ASSUME NEW th \in Threads, Thread(th) PROVE NoLostReload'
  <2>1. ReloadOwed => ReloadOwed'
    BY <1>2, ThreadKeepsOwed
  <2>2. Fresh => Fresh'
    BY <1>2, ThreadKeepsOwed DEF Fresh, Wanted, LoadPlaylist, Source
  <2> QED BY <2>1, <2>2 DEF NoLostReload
<1>3. CASE ReloadQueue
  <2>1. CASE EvaluateSchedules
    <3>1. pc'[Loop] = "load" /\ playlistID' = db'.scheduled
      BY <2>1, GotoMoves DEF EvaluateSchedules
    <3> QED BY <3>1 DEF NoLostReload, Fresh
  <2>2. CASE EvaluateSchedulesFails \/ LoadItemsFails
    BY <2>2 DEF EvaluateSchedulesFails, LoadItemsFails, NoLostReload, ReloadOwed
  <2>3. CASE LoadItems
    <3>1. /\ pc[Loop] = "load" /\ pc'[Loop] = "store"
          /\ \A c \in Clients : pc'[c] = pc[c]
      BY <2>3, GotoMoves, LoopKeepsCommitted DEF LoadItems
    <3>2. /\ UNCHANGED <<db, reload, unsignalled, playlistID>>
          /\ items' = LoadPlaylist(Source(playlistID))
      BY <2>3 DEF LoadItems, dbVars
    <3>3. ReloadOwed => ReloadOwed'
      BY <3>1, <3>2 DEF ReloadOwed
    <3>4. Fresh => Fresh'
      BY <3>1, <3>2 DEF Fresh, Wanted, LoadPlaylist, Source
    <3> QED BY <3>3, <3>4 DEF NoLostReload
  <2>4. CASE StoreQueue
    <3>1. /\ pc[Loop] = "store" /\ pc'[Loop] \in {"stop", "notify"}
          /\ \A c \in Clients : pc'[c] = pc[c]
      BY <2>4, GotoMoves, LoopKeepsCommitted DEF StoreQueue, AfterStore
    <3>2. /\ UNCHANGED <<db, reload, unsignalled>>
          /\ activePlaylistID' = playlistID /\ queue' = items
      BY <2>4 DEF StoreQueue, dbVars
    <3>3. ReloadOwed => ReloadOwed'
      BY <3>1, <3>2 DEF ReloadOwed
    <3>4. Fresh => Fresh'
      BY <3>1, <3>2 DEF Fresh, Wanted, LoadPlaylist, Source
    <3> QED BY <3>3, <3>4 DEF NoLostReload
  <2> QED BY <1>3, <2>1, <2>2, <2>3, <2>4 DEF ReloadQueue, QueryFails
<1>4. CASE SelectReload
  <2>1. pc'[Loop] = "reload"
    BY <1>4, GotoMoves DEF SelectReload, Leave
  <2> QED BY <2>1 DEF NoLostReload, Fresh
<1>5. CASE LoopTop \/ SelectTicker \/ SelectTimer \/ SelectDone
  <2>1. /\ pc[Loop] \in {"top", "select"}
        /\ pc'[Loop] \in {"select", "reload", "advance", "done"}
        /\ \A c \in Clients : pc'[c] = pc[c]
    BY <1>5, GotoMoves, LoopKeepsCommitted
       DEF LoopTop, SelectTicker, SelectTimer, SelectDone, Leave
  <2>2. UNCHANGED <<db, reload, unsignalled, queue, activePlaylistID>>
    BY <1>5 DEF LoopTop, SelectTicker, SelectTimer, SelectDone, dbVars, queueVars
  <2>3. ReloadOwed => ReloadOwed'
    BY <2>1, <2>2 DEF ReloadOwed
  <2>4. Fresh => Fresh'
    BY <2>1, <2>2 DEF Fresh, Wanted, LoadPlaylist, Source
  <2> QED BY <2>3, <2>4 DEF NoLostReload
<1>6. CASE SilentChange
  BY <1>6 DEF SilentChange, NoLostReload, ReloadOwed
<1>7. CASE UNCHANGED <<db, reload, unsignalled, queue, activePlaylistID,
                       playlistID, items, pc>>
  BY <1>7 DEF NoLostReload, ReloadOwed, Fresh, Wanted, LoadPlaylist, Source
<1>8. ASSUME NEW t \in TimerIds, Expire(t) PROVE NoLostReload'
  BY <1>7, <1>8 DEF Expire, dbVars, queueVars, loopVars, localVars
<1>9. CASE UNCHANGED vars
  BY <1>7, <1>9 DEF vars, dbVars, queueVars, loopVars, localVars
<1> QED BY <1>1, <1>2, <1>3, <1>4, <1>5, <1>6, <1>8, <1>9 DEF Next, LoopStep

(* No committed change of the playlists or schedules is ever lost: for any *)
(* number of committers and viewers, and although TriggerReload drops its  *)
(* signal when the one-slot channel is full, the queue is the playlist the *)
(* rows select or a reload that will read them is owed.                    *)
THEOREM ReloadNeverLost == Spec => []NoLostReload
<1>1. Init => NoLostReload
  BY ConstantsAssumption DEF Init, NoLostReload, Fresh, Threads
<1>2. TypeOK /\ NoLostReload /\ [Next]_vars => NoLostReload'
  BY NoLostReloadNext
<1> QED BY <1>1, <1>2, TypeCorrect, PTL DEF Spec

-----------------------------------------------------------------------------
(***************************************************************************)
(* The scheduler implements FreshCopy.                                     *)
(***************************************************************************)

(* Nobody but a committer and the environment writes the rows.             *)
LEMMA OnlyCommitsAndSilentChanges ==
  ASSUME [Next]_vars,
         \A c \in Clients : ~Commit(c),
         ~SilentChange
  PROVE  UNCHANGED db
<1>1. ASSUME NEW c \in Clients, ClientStep(c) PROVE UNCHANGED db
  BY <1>1 DEF ClientStep, TriggerReload, CallAdvance, dbVars
<1>2. ASSUME NEW th \in Threads, Thread(th) PROVE UNCHANGED db
  BY <1>2 DEF Thread, ResetTimer, Advance, StopTimer, ReadDuration, SetTimer,
              NotifyChange, Tell, dbVars
<1>3. CASE ReloadQueue
  BY <1>3 DEF ReloadQueue, QueryFails, EvaluateSchedules,
              EvaluateSchedulesFails, LoadItems, LoadItemsFails, StoreQueue,
              dbVars
<1>4. CASE LoopStep \/ SelectDone
  BY <1>4 DEF LoopStep, LoopTop, SelectTicker, SelectReload, SelectTimer,
              SelectDone, dbVars
<1>5. ASSUME NEW t \in TimerIds, Expire(t) PROVE UNCHANGED db
  BY <1>5 DEF Expire, dbVars
<1>6. CASE UNCHANGED vars
  BY <1>6 DEF vars, dbVars
<1> QED BY <1>1, <1>2, <1>3, <1>4, <1>5, <1>6 DEF Next

(* A change of the rows owes a reload and leaves the queue; any other step *)
(* that ends with nothing owed ends with the queue the rows select, for    *)
(* then NoLostReload says that what the loop holds is fresh.               *)
LEMMA ContractNext ==
  TypeOK /\ NoLostReload' /\ [Next]_vars => [Contract!Next]_(Contract!vars)
<1> SUFFICES ASSUME TypeOK, NoLostReload', [Next]_vars PROVE Contract!Next
  OBVIOUS
<1>1. ASSUME NEW c \in Clients, Commit(c) PROVE Contract!Next
  <2>1. pc'[c] = "committed" /\ UNCHANGED queue
    BY <1>1, LoopIsNoClient, GotoMoves DEF Commit, queueVars
  <2> QED BY <2>1 DEF Contract!Next, Contract!Change, ReloadOwed
<1>2. CASE SilentChange
  BY <1>2 DEF SilentChange, queueVars, Contract!Next, Contract!Change, ReloadOwed
<1>3. CASE UNCHANGED db
  <2>1. UNCHANGED Wanted
    BY <1>3 DEF Wanted, LoadPlaylist, Source
  <2>2. CASE (ReloadOwed \/ Reloading)'
    BY <2>1, <2>2 DEF Contract!Next, Contract!Refresh
  <2>3. CASE ~(ReloadOwed \/ Reloading)'
    <3>1. queue' = Wanted'
      BY <2>3 DEF NoLostReload, Fresh, Reloading
    <3> QED BY <2>1, <3>1 DEF Contract!Next, Contract!Refresh
  <2> QED BY <2>2, <2>3
<1> QED BY <1>1, <1>2, <1>3, OnlyCommitsAndSilentChanges

(* The scheduler implements FreshCopy for every database and any number of *)
(* committers and viewers: its queue is a copy of what the rows select     *)
(* that may be old only while somebody is bound to read the rows again.    *)
THEOREM QueueStaysFresh == Spec => KeepsQueueFresh
<1>1. Init => Contract!Init
  BY ConstantsAssumption DEF Init, Contract!Init, Reloading, Threads
<1>2. TypeOK /\ NoLostReload' /\ [Next]_vars => [Contract!Next]_(Contract!vars)
  BY ContractNext
<1> QED BY <1>1, <1>2, TypeCorrect, ReloadNeverLost, PTL
        DEF Spec, KeepsQueueFresh, Contract!Spec

-----------------------------------------------------------------------------
(***************************************************************************)
(* Announcements.                                                          *)
(***************************************************************************)

(* The goroutine that read Current last has read the current item, unless  *)
(* somebody who changed it since has still to read; and once it has told,  *)
(* the listeners are current, unless they were told an older item after.   *)
NewestIsCurrent ==
  \/ CallbackToCome
  \/ \E th \in newest : pc[th] = "tell" /\ sees[th] = CurrentItem
  \/ newest = {} /\ (announced = CurrentItem \/ overtaken)

(* A step that leaves the item alone and moves only th, a goroutine with   *)
(* nothing to tell or one that stays on its way to read, is harmless.      *)
LEMMA StaysAnnounced ==
  ASSUME TypeOK, NewestIsCurrent,
         UNCHANGED <<queue, current, tellVars>>,
         NEW th \in Threads, NEW label, Goto(th, label), pc[th] # "tell",
         pc[th] \in {"stop", "read", "set", "notify"} =>
           label \in {"stop", "read", "set", "notify"}
  PROVE  NewestIsCurrent'
<1> USE DEF tellVars
<1>1. CASE CallbackToCome
  <2>1. PICK u \in Threads : pc[u] \in {"stop", "read", "set", "notify"}
    BY <1>1 DEF CallbackToCome
  <2>2. pc'[u] \in {"stop", "read", "set", "notify"}
    BY <2>1, GotoMoves
  <2> QED BY <2>2 DEF NewestIsCurrent, CallbackToCome
<1>2. ASSUME NEW u \in newest, pc[u] = "tell", sees[u] = CurrentItem
      PROVE  NewestIsCurrent'
  <2>1. pc'[u] = "tell"
    BY <1>2, GotoMoves DEF TypeOK
  <2> QED BY <1>2, <2>1 DEF NewestIsCurrent, CurrentItem
<1>3. CASE newest = {} /\ (announced = CurrentItem \/ overtaken)
  BY <1>3 DEF NewestIsCurrent, CurrentItem
<1> QED BY <1>1, <1>2, <1>3 DEF NewestIsCurrent

(* A callback that has read the item is the newest and has read the        *)
(* current one.                                                            *)
LEMMA ReadIsNewest ==
  ASSUME TypeOK, NEW th \in Threads, NotifyChange(th)
  PROVE  NewestIsCurrent'
<1>1. newest' = {th} /\ pc'[th] = "tell"
  BY GotoMoves DEF NotifyChange
<1>2. sees'[th] = CurrentItem /\ CurrentItem' = CurrentItem
  BY DEF NotifyChange, TypeOK, CurrentItem, queueVars
<1> QED BY <1>1, <1>2 DEF NewestIsCurrent

(* The newest callback tells what is current, any other before it nothing  *)
(* that stays, and one after it is what overtaken stands for.              *)
LEMMA TellIsCurrent ==
  ASSUME TypeOK, NewestIsCurrent, NEW th \in Threads, Tell(th)
  PROVE  NewestIsCurrent'
<1>1. /\ pc[th] = "tell" /\ \A u \in Threads : u # th => pc'[u] = pc[u]
      /\ announced' = sees[th] /\ newest' = newest \ {th}
      /\ \A u \in Threads : u # th => sees'[u] = sees[u]
  BY GotoMoves DEF Tell, TypeOK
<1>2. CurrentItem' = CurrentItem
  BY DEF Tell, CurrentItem, queueVars
<1>3. CASE CallbackToCome
  <2>1. PICK u \in Threads : pc[u] \in {"stop", "read", "set", "notify"}
    BY <1>3 DEF CallbackToCome
  <2>2. pc'[u] \in {"stop", "read", "set", "notify"}
    BY <1>1, <2>1
  <2> QED BY <2>2 DEF NewestIsCurrent, CallbackToCome
<1>4. ASSUME NEW u \in newest, pc[u] = "tell", sees[u] = CurrentItem, u # th
      PROVE  NewestIsCurrent'
  <2>1. u \in newest' /\ pc'[u] = "tell" /\ sees'[u] = CurrentItem
    BY <1>1, <1>4 DEF TypeOK
  <2> QED BY <1>2, <2>1 DEF NewestIsCurrent
<1>5. ASSUME th \in newest, sees[th] = CurrentItem, newest = {th}
      PROVE  NewestIsCurrent'
  BY <1>1, <1>2, <1>5 DEF NewestIsCurrent
<1>6. CASE newest = {}
  <2>1. newest' = {} /\ (overtaken' <=> sees[th] # CurrentItem)
    BY <1>1, <1>6 DEF Tell
  <2> QED BY <1>1, <1>2, <2>1 DEF NewestIsCurrent
<1>7. ASSUME NEW u \in newest PROVE newest = {u}
  BY <1>7 DEF TypeOK
<1> QED BY <1>3, <1>4, <1>5, <1>6, <1>7 DEF NewestIsCurrent

(* A step that changes the item puts its goroutine on the way to a callback*)
(* and the callback reads what is current then.                            *)
LEMMA NewestIsCurrentNext ==
  TypeOK /\ NewestIsCurrent /\ [Next]_vars => NewestIsCurrent'
<1> SUFFICES ASSUME TypeOK, NewestIsCurrent, [Next]_vars
             PROVE  NewestIsCurrent'
  OBVIOUS
<1> USE LoopIsNoClient
<1>1. ASSUME NEW c \in Clients, ClientStep(c) PROVE NewestIsCurrent'
  <2>1. pc[c] \in {"idle", "committed"} /\ UNCHANGED <<queue, current, tellVars>>
    BY <1>1 DEF ClientStep, Commit, TriggerReload, CallAdvance, queueVars
  <2>2. PICK label : Goto(c, label)
    BY <1>1 DEF ClientStep, Commit, TriggerReload, CallAdvance
  <2> QED BY <2>1, <2>2, StaysAnnounced
<1>2. ASSUME NEW th \in Threads, Thread(th) PROVE NewestIsCurrent'
  <2>1. CASE Advance(th)
    <3>1. CASE queue = <<>>
      BY <2>1, <3>1, StaysAnnounced DEF Advance
    <3>2. CASE queue # <<>>
      <4>1. pc'[th] = "stop"
        BY <2>1, <3>2, GotoMoves DEF Advance
      <4> QED BY <4>1 DEF NewestIsCurrent, CallbackToCome
    <3> QED BY <3>1, <3>2
  <2>2. CASE ResetTimer(th)
    <3>1. pc[th] # "tell" /\ UNCHANGED <<queue, current, tellVars>>
      BY <2>2 DEF ResetTimer, StopTimer, ReadDuration, SetTimer, queueVars
    <3>2. PICK label \in {"read", "set", "notify"} : Goto(th, label)
      BY <2>2 DEF ResetTimer, StopTimer, ReadDuration, SetTimer
    <3> QED BY <3>1, <3>2, StaysAnnounced
  <2>3. CASE NotifyChange(th)
    BY <2>3, ReadIsNewest
  <2>4. CASE Tell(th)
    BY <2>4, TellIsCurrent
  <2> QED BY <1>2, <2>1, <2>2, <2>3, <2>4 DEF Thread
<1>3. CASE StoreQueue
  <2>1. pc'[Loop] \in {"stop", "notify"}
    BY <1>3, GotoMoves DEF StoreQueue, AfterStore
  <2> QED BY <2>1 DEF NewestIsCurrent, CallbackToCome
<1>4. CASE EvaluateSchedules \/ LoadItems \/ QueryFails \/ LoopStep \/ SelectDone
  <2>1. /\ pc[Loop] \in {"reload", "load", "top", "select"}
        /\ UNCHANGED <<queue, current, tellVars>>
    BY <1>4 DEF EvaluateSchedules, LoadItems, QueryFails,
                EvaluateSchedulesFails, LoadItemsFails, LoopStep, LoopTop,
                SelectTicker, SelectReload, SelectTimer, SelectDone, Leave,
                queueVars
  <2>2. PICK label : Goto(Loop, label)
    BY <1>4 DEF EvaluateSchedules, LoadItems, QueryFails,
                EvaluateSchedulesFails, LoadItemsFails, LoopStep, LoopTop,
                SelectTicker, SelectReload, SelectTimer, SelectDone, Leave
  <2> QED BY <2>1, <2>2, StaysAnnounced
<1>5. CASE UNCHANGED <<queue, current, tellVars, pc>>
  BY <1>5 DEF NewestIsCurrent, CallbackToCome, CurrentItem, tellVars
<1>6. CASE SilentChange \/ UNCHANGED vars
  BY <1>5, <1>6 DEF SilentChange, vars, queueVars
<1>7. ASSUME NEW t \in TimerIds, Expire(t) PROVE NewestIsCurrent'
  BY <1>5, <1>7 DEF Expire, queueVars
<1> QED BY <1>1, <1>2, <1>3, <1>4, <1>6, <1>7 DEF Next, ReloadQueue

(* The listeners are left on an old item in one way only: for any number   *)
(* of viewers and any interleaving of their Advances with reloads, the     *)
(* callback that read the current item has told it or is about to, or one  *)
(* is still to read it, unless an older callback told after the newest.    *)
THEOREM EveryChangeAnnounced == Spec => []ChangeIsAnnounced
<1>1. Init => NewestIsCurrent
  BY DEF Init, NewestIsCurrent, CurrentItem
<1>2. TypeOK /\ NewestIsCurrent /\ [Next]_vars => NewestIsCurrent'
  BY NewestIsCurrentNext
<1>3. TypeOK /\ NewestIsCurrent => ChangeIsAnnounced
  BY DEF TypeOK, NewestIsCurrent, ChangeIsAnnounced
<1> QED BY <1>1, <1>2, <1>3, TypeCorrect, PTL DEF Spec

-----------------------------------------------------------------------------
(***************************************************************************)
(* The advance timer.                                                      *)
(***************************************************************************)

InReset(th) == pc[th] \in {"stop", "read", "set"}

(* A timer is armed, or a goroutine is bound to start one: one that is in  *)
(* resetTimer, or the loop that has taken the expiry and has Advance to    *)
(* call; or nil was stored for a timer when the queue had items.           *)
ArmedOrOwed ==
  queue # <<>> =>
    \/ Armed
    \/ \E th \in Threads : InReset(th)
    \/ pc[Loop] \in {"advance", "done"}
    \/ disarmed

(* A step that moves th, who is not in resetTimer, and leaves the queue    *)
(* and the armed timer alone.                                              *)
LEMMA StaysArmed ==
  ASSUME TypeOK, ArmedOrOwed,
         NEW th \in Threads, NEW label, Goto(th, label),
         UNCHANGED <<queue, advanceTimer, disarmed>>,
         ~InReset(th),
         th = Loop /\ pc[Loop] \in {"advance", "done"} => queue = <<>>,
         advanceTimer # NoTimer =>
           timer'[advanceTimer] = timer[advanceTimer] \/ pc'[Loop] \in {"advance", "done"}
  PROVE  ArmedOrOwed'
<1>1. /\ pc'[th] = label
      /\ \A u \in Threads : u # th => pc'[u] = pc[u]
  BY GotoMoves
<1>2. \A u \in Threads : InReset(u) => InReset(u)'
  BY <1>1 DEF InReset
<1> QED BY <1>1, <1>2, LoopIsNoClient DEF ArmedOrOwed, Armed

(* A goroutine on its way through Advance, resetTimer and the callback.    *)
LEMMA TimerThread ==
  ASSUME TypeOK, ArmedOrOwed, NEW th \in Threads, Thread(th)
  PROVE  ArmedOrOwed'
<1> USE LoopIsNoClient
<1>1. UNCHANGED queue
  BY DEF Thread, ResetTimer, Advance, StopTimer, ReadDuration, SetTimer,
         NotifyChange, Tell, queueVars
<1>2. ASSUME NEW label \in {"stop", "read", "set"}, Goto(th, label)
      PROVE  ArmedOrOwed'
  <2>1. pc'[th] = label
    BY <1>2, GotoMoves
  <2> QED BY <2>1 DEF ArmedOrOwed, InReset
<1>3. CASE Advance(th)
  <2>1. CASE queue = <<>>
    BY <1>1, <2>1 DEF ArmedOrOwed
  <2>2. CASE queue # <<>>
    BY <1>2, <1>3, <2>2 DEF Advance
  <2> QED BY <2>1, <2>2
<1>4. CASE StopTimer(th) \/ ReadDuration(th)
  BY <1>2, <1>4 DEF StopTimer, ReadDuration
<1>5. CASE SetTimer(th)
  <2>1. CASE seesEmpty[th]
    BY <1>1, <1>5, <2>1 DEF SetTimer, ArmedOrOwed
  <2>2. CASE ~seesEmpty[th]
    <3>1. /\ advanceTimer' = NewTimer
          /\ timer' = [Kept({timerC}) EXCEPT ![NewTimer] = "running"]
      BY <1>5, <2>2 DEF SetTimer
    <3>2. advanceTimer' # NoTimer /\ timer'[advanceTimer'] = "running"
      BY <3>1, NewTimerTyped, ConstantsAssumption DEF Kept
    <3> QED BY <3>2 DEF ArmedOrOwed, Armed
  <2> QED BY <2>1, <2>2
<1>6. CASE NotifyChange(th) \/ Tell(th)
  <2>1. PICK label \in {"tell", "top", "idle"} : Goto(th, label)
    BY <1>6 DEF NotifyChange, Tell, Return
  <2>2. UNCHANGED <<advanceTimer, timer, disarmed>> /\ pc[th] \in {"notify", "tell"}
    BY <1>6 DEF NotifyChange, Tell, timerVars
  <2> QED BY <1>1, <2>1, <2>2, StaysArmed DEF InReset
<1> QED BY <1>3, <1>4, <1>5, <1>6 DEF Thread, ResetTimer

(* The store of a queue restarts the timer when the queue was empty.       *)
LEMMA TimerStore ==
  ASSUME TypeOK, ArmedOrOwed, StoreQueue
  PROVE  ArmedOrOwed'
<1>1. queue' = items /\ pc[Loop] = "store" /\ UNCHANGED <<advanceTimer, timer, disarmed>>
  BY DEF StoreQueue, timerVars
<1>2. CASE queue = <<>> /\ items # <<>>
  <2>1. pc'[Loop] = "stop"
    BY <1>2, GotoMoves, LoopIsNoClient DEF StoreQueue, AfterStore, NeedsReset
  <2> QED BY <2>1, LoopIsNoClient DEF ArmedOrOwed, InReset
<1>3. CASE queue # <<>>
  <2>1. \A u \in Threads : u # Loop => pc'[u] = pc[u]
    BY GotoMoves, LoopIsNoClient DEF StoreQueue
  <2>2. \A u \in Threads : InReset(u) => InReset(u)'
    BY <1>1, <2>1 DEF InReset
  <2> QED BY <1>1, <1>3, <2>2 DEF ArmedOrOwed, Armed
<1> QED BY <1>1, <1>2, <1>3 DEF ArmedOrOwed

LEMMA TimerNext == TypeOK /\ ArmedOrOwed /\ [Next]_vars => ArmedOrOwed'
<1> SUFFICES ASSUME TypeOK, ArmedOrOwed, [Next]_vars PROVE ArmedOrOwed'
  OBVIOUS
<1> USE LoopIsNoClient
<1>1. ASSUME NEW c \in Clients, ClientStep(c) PROVE ArmedOrOwed'
  <2>1. /\ pc[c] \in {"idle", "committed"}
        /\ UNCHANGED <<queue, advanceTimer, timer, disarmed>>
    BY <1>1 DEF ClientStep, Commit, TriggerReload, CallAdvance, queueVars, timerVars
  <2>2. PICK label \in {"idle", "committed", "advance"} : Goto(c, label)
    BY <1>1 DEF ClientStep, Commit, TriggerReload, CallAdvance
  <2> QED BY <2>1, <2>2, StaysArmed DEF InReset
<1>2. ASSUME NEW th \in Threads, Thread(th) PROVE ArmedOrOwed'
  BY <1>2, TimerThread
<1>3. CASE ReloadQueue
  <2>1. CASE EvaluateSchedules \/ LoadItems \/ QueryFails
    <3>1. PICK label \in {"load", "store", "top"} : Goto(Loop, label)
      BY <2>1 DEF EvaluateSchedules, LoadItems, QueryFails, EvaluateSchedulesFails,
                  LoadItemsFails
    <3>2. /\ pc[Loop] \in {"reload", "load"}
          /\ UNCHANGED <<queue, advanceTimer, timer, disarmed>>
      BY <2>1 DEF EvaluateSchedules, LoadItems, QueryFails, EvaluateSchedulesFails,
                  LoadItemsFails, queueVars, timerVars
    <3> QED BY <3>1, <3>2, StaysArmed DEF InReset
  <2>2. CASE StoreQueue
    BY <2>2, TimerStore
  <2> QED BY <1>3, <2>1, <2>2 DEF ReloadQueue
<1>4. CASE LoopStep \/ SelectDone
  <2>1. PICK label \in {"select", "reload", "advance", "done"} :
          /\ Goto(Loop, label)
          /\ advanceTimer # NoTimer =>
               timer'[advanceTimer] = timer[advanceTimer] \/ label \in {"advance", "done"}
    <3>1. Kept({advanceTimer})[advanceTimer] = timer[advanceTimer] \/ advanceTimer = NoTimer
      BY DEF Kept, TypeOK
    <3> QED BY <1>4, <3>1 DEF LoopStep, LoopTop, SelectTicker, SelectReload, SelectTimer,
                              SelectDone, Leave, timerVars
  <2>2. /\ pc[Loop] \in {"top", "select"}
        /\ UNCHANGED <<queue, advanceTimer, disarmed>>
    BY <1>4 DEF LoopStep, LoopTop, SelectTicker, SelectReload, SelectTimer,
                SelectDone, Leave, queueVars, timerVars
  <2>3. pc'[Loop] = label
    BY <2>1, GotoMoves
  <2> QED BY <2>1, <2>2, <2>3, StaysArmed DEF InReset
<1>5. ASSUME UNCHANGED <<queue, advanceTimer, pc, disarmed>>,
             advanceTimer # NoTimer =>
               timer'[advanceTimer] \in {timer[advanceTimer], "expired"}
      PROVE  ArmedOrOwed'
  BY <1>5 DEF ArmedOrOwed, Armed, InReset
<1>6. ASSUME NEW t \in TimerIds, Expire(t) PROVE ArmedOrOwed'
  BY <1>5, <1>6 DEF Expire, TypeOK, queueVars
<1>7. CASE SilentChange \/ UNCHANGED vars
  BY <1>5, <1>7 DEF SilentChange, vars, queueVars, timerVars
<1> QED BY <1>1, <1>2, <1>3, <1>4, <1>6, <1>7 DEF Next

(* For every playlist, empty ones included, and any number of viewers who  *)
(* stop and replace each other's timers outside s.mu, a queue with items   *)
(* has a timer to advance it, unless the last to store one had seen the    *)
(* queue empty and stored nil after it was filled: that overwrite is the   *)
(* only way for playback to stand still.                                   *)
THEOREM QueueHasTimer == Spec => []TimerLostOnlyToNil
<1>1. Init => ArmedOrOwed
  BY DEF Init, ArmedOrOwed
<1>2. ArmedOrOwed => TimerLostOnlyToNil
  BY DEF ArmedOrOwed, TimerLostOnlyToNil, TimerSettled, InReset
<1>3. TypeOK /\ ArmedOrOwed /\ [Next]_vars => ArmedOrOwed'
  BY TimerNext
<1> QED BY <1>1, <1>2, <1>3, TypeCorrect, PTL DEF Spec

=============================================================================
