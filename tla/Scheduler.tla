------------------------------ MODULE Scheduler ------------------------------
(***************************************************************************)
(* The playback scheduler of internal/scheduler/scheduler.go: the Run loop *)
(* that keeps the in-memory queue a copy of the playlist the database      *)
(* selects, the HTTP goroutines that call Advance or commit to the         *)
(* database and then call TriggerReload, and the advance timer they share. *)
(*                                                                         *)
(* The database is the environment here: db says which playlist the        *)
(* schedules select at this instant, which one is the default, and what    *)
(* each playlist joins to.  Library.tla models the tables behind it.       *)
(*                                                                         *)
(* s.mu makes a critical section one step.  advanceTimer is not protected  *)
(* by s.mu: stopping the old timer and storing the new one are two steps.  *)
(* The check for nil and the use right after it are one, as if the pointer *)
(* were loaded once; a build that loads it twice could also meet a nil     *)
(* pointer in between, which is not represented.                           *)
(***************************************************************************)
EXTENDS Naturals, Sequences

CONSTANTS
  Playlists,      \* playlist ids
  Items,          \* what a queue entry can be (a joined content row)
  Databases,      \* the database contents the environment moves between
  Editors,        \* HTTP and sync goroutines that commit to the database
  Advancers,      \* HTTP goroutines that call Advance
  Loop,           \* the goroutine of Scheduler.Run
  TimerIds,       \* identities of time.Timer objects
  NoPlaylist,     \* the empty playlist id, ""
  NoItem,         \* what Current returns on an empty queue
  NoTimer,        \* a nil *time.Timer, and the nil channel made from it
  QueriesMayFail  \* whether a query of the scheduler may return an error

Clients == Editors \cup Advancers
Threads == Clients \cup {Loop}

(* A database as the scheduler's two queries see it.                       *)
DatabaseType ==
  [scheduled : Playlists \cup {NoPlaylist},
   default   : Playlists \cup {NoPlaylist},
   items     : [Playlists -> Seq(Items)]]

ASSUME ConstantsAssumption ==
  /\ Databases \subseteq DatabaseType
  /\ Loop \notin Clients
  /\ NoPlaylist \notin Playlists
  /\ NoItem \notin Items
  /\ NoTimer \notin TimerIds
  /\ QueriesMayFail \in BOOLEAN
  /\ \A a \in TimerIds : \E t \in TimerIds : t # a
  /\ TimerIds # {}

VARIABLES
  db,            \* the committed rows
  queue,         \* s.queue
  current,       \* s.current
  activePlaylistID,  \* s.activePlaylistID
  advanceTimer,  \* s.advanceTimer
  timer,         \* what each timer object would do: dead, running, expired
  reload,        \* whether the one-slot channel s.reload holds its token
  pc,            \* where each goroutine is
  timerC,        \* the channel the loop's select listens on
  playlistID,    \* local of reloadQueue
  items,         \* local of reloadQueue
  seesEmpty,     \* local of resetTimer: the queue was empty when read
  sees,          \* local of the OnChange callback: the item it has read
  announced,     \* the item the listeners were told last
  source,        \* history: the playlist items was read from
  loadedFrom,    \* history: the playlist queue was read from
  newest,        \* history: whose callback read the item last, until it tells
  overtaken,     \* history: another callback told an older item after it
  disarmed,      \* history: nil was stored for a timer when the queue had items
  unsignalled    \* history: the rows moved, or a query failed, and nobody
                 \* will signal it; only the ticker can pick it up

dbVars    == <<db, unsignalled>>
queueVars == <<queue, current, activePlaylistID, loadedFrom>>
timerVars == <<advanceTimer, timer, disarmed>>
tellVars  == <<sees, announced, newest, overtaken>>
localVars == <<playlistID, items, source>>
loopVars  == <<timerC, localVars>>
vars == <<dbVars, queueVars, timerVars, loopVars,
          reload, pc, seesEmpty, tellVars>>

(***************************************************************************)
(* What the two queries of the scheduler return.                           *)
(***************************************************************************)
LoadPlaylist(p) == IF p = NoPlaylist THEN <<>> ELSE db.items[p]

(* The playlist reloadQueue would load: the scheduled one, else default.   *)
Source(id) == IF id = NoPlaylist THEN db.default ELSE id
Wanted     == LoadPlaylist(Source(db.scheduled))

(* Current: the index is taken modulo the length.                          *)
CurrentItem ==
  IF queue = <<>> THEN NoItem ELSE queue[(current % Len(queue)) + 1]

Goto(th, label) == pc' = [pc EXCEPT ![th] = label]

(* Where Advance and reloadQueue return to.                                *)
Return(th) == IF th = Loop THEN "top" ELSE "idle"

(* The timers once only the ones in kept are referred to.                  *)
Kept(kept) == [t \in TimerIds |-> IF t \in kept THEN timer[t] ELSE "dead"]

(* time.NewTimer returns an object nobody else refers to once the pointer  *)
(* is overwritten; which one is all one.                                   *)
NewTimer == CHOOSE t \in TimerIds : t # timerC

(* The locals of reloadQueue, gone when it returns or no longer needs them.*)
DropLocals == playlistID' = NoPlaylist /\ items' = <<>> /\ source' = NoPlaylist

-----------------------------------------------------------------------------
TypeOK ==
  /\ db \in Databases
  /\ queue \in Seq(Items)
  /\ current \in Nat
  /\ activePlaylistID \in Playlists \cup {NoPlaylist}
  /\ source \in Playlists \cup {NoPlaylist}
  /\ loadedFrom \in Playlists \cup {NoPlaylist}
  /\ advanceTimer \in TimerIds \cup {NoTimer}
  /\ timer \in [TimerIds -> {"dead", "running", "expired"}]
  /\ reload \in BOOLEAN
  /\ pc \in [Threads -> {"idle", "committed", "advance", "stop", "read", "set",
                         "notify", "tell", "reload", "load", "store", "top",
                         "select", "done"}]
  /\ timerC \in TimerIds \cup {NoTimer}
  /\ playlistID \in Playlists \cup {NoPlaylist}
  /\ items \in Seq(Items)
  /\ seesEmpty \in [Threads -> BOOLEAN]
  /\ sees \in [Threads -> Items \cup {NoItem}]
  /\ announced \in Items \cup {NoItem}
  /\ newest \in {{}} \cup {{th} : th \in Threads}
  /\ unsignalled \in BOOLEAN
  /\ overtaken \in BOOLEAN
  /\ disarmed \in BOOLEAN

(* New, then the call of Run: its first act is a reload.                   *)
Init ==
  /\ db \in Databases
  /\ queue = <<>>
  /\ current = 0
  /\ activePlaylistID = NoPlaylist
  /\ source = NoPlaylist
  /\ loadedFrom = NoPlaylist
  /\ advanceTimer = NoTimer
  /\ timer = [t \in TimerIds |-> "dead"]
  /\ reload = FALSE
  /\ pc = [th \in Threads |-> IF th = Loop THEN "reload" ELSE "idle"]
  /\ timerC = NoTimer
  /\ playlistID = NoPlaylist
  /\ items = <<>>
  /\ seesEmpty = [th \in Threads |-> FALSE]
  /\ sees = [th \in Threads |-> NoItem]
  /\ announced = NoItem
  /\ newest = {}
  /\ unsignalled = FALSE
  /\ overtaken = FALSE
  /\ disarmed = FALSE

-----------------------------------------------------------------------------
(***************************************************************************)
(* Faults: plausible slips in the operations below, which the properties   *)
(* must be able to tell from the code.                                     *)
(***************************************************************************)

(* Advance goes the wrong way.                                             *)
StepBack == current - 1

(* TriggerReload on a channel made without the buffer of one: the token is *)
(* dropped unless the loop is waiting for it.                              *)
TriggerUnbuffered(c) ==
  /\ pc[c] = "committed"
  /\ reload' = (reload \/ pc[Loop] = "select")
  /\ Goto(c, "idle")
  /\ UNCHANGED <<dbVars, queueVars, timerVars, loopVars, seesEmpty, tellVars>>

(* resetTimer stops the old timer and starts none.                         *)
StopOnly(th) ==
  /\ pc[th] = "stop"
  /\ timer' = Kept({timerC} \ {advanceTimer})
  /\ Goto(th, "notify")
  /\ UNCHANGED <<dbVars, queueVars, advanceTimer, disarmed, loopVars, reload,
                 seesEmpty, tellVars>>

(* reloadQueue without its bound check, without its check for the first    *)
(* items, and resetting every time.                                        *)
ResetUnbounded ==
  \/ activePlaylistID # playlistID
  \/ queue = <<>> /\ items # <<>>
ResetUnlessRefilled ==
  \/ activePlaylistID # playlistID
  \/ current >= Len(items)
ResetAlways == TRUE

(* reloadQueue notifies only when it reset the position.                   *)
NotifyOnlyOnReset(reset) == IF reset THEN "stop" ELSE "top"

(* reloadQueue throws away a token that came while it was reading.         *)
LoadAndDrain ==
  /\ pc[Loop] = "load"
  /\ items' = LoadPlaylist(Source(playlistID))
  /\ source' = Source(playlistID)
  /\ reload' = FALSE
  /\ Goto(Loop, "store")
  /\ UNCHANGED <<dbVars, queueVars, timerVars, timerC, playlistID, seesEmpty,
                 tellVars>>

(* Run without its periodic reload.                                        *)
NoTicker == FALSE

-----------------------------------------------------------------------------
(***************************************************************************)
(* The environment.                                                        *)
(***************************************************************************)

(* An HTTP handler or a playlist or schedule sync commits.  It has         *)
(* TriggerReload still to call.                                            *)
Commit(c) ==
  /\ c \in Editors
  /\ pc[c] = "idle"
  /\ db' \in Databases
  /\ Goto(c, "committed")
  /\ UNCHANGED <<unsignalled, queueVars, timerVars, loopVars, reload,
                 seesEmpty, tellVars>>

(* TriggerReload: a send on a channel of capacity one that gives up when   *)
(* the slot is taken.                                                      *)
TriggerReload(c) ==
  /\ pc[c] = "committed"
  /\ reload' = TRUE
  /\ Goto(c, "idle")
  /\ UNCHANGED <<dbVars, queueVars, timerVars, loopVars, seesEmpty, tellVars>>

(* The rows change and nobody calls TriggerReload: the clock enters or     *)
(* leaves a schedule's window, a content sync rewrites joined rows, or a   *)
(* handler returns early because its read-back after the commit failed.    *)
SilentChange ==
  /\ db' \in Databases \ {db}
  /\ unsignalled' = TRUE
  /\ UNCHANGED <<queueVars, timerVars, loopVars, reload, pc, seesEmpty,
                 tellVars>>

(* The runtime lets a timer somebody still holds run out.                  *)
Expire(t) ==
  /\ t \in {advanceTimer, timerC}
  /\ timer[t] = "running"
  /\ timer' = [timer EXCEPT ![t] = "expired"]
  /\ UNCHANGED <<dbVars, queueVars, advanceTimer, disarmed, loopVars, reload,
                 pc, seesEmpty, tellVars>>

-----------------------------------------------------------------------------
(***************************************************************************)
(* Advance: called by the loop and by HTTP goroutines.                     *)
(***************************************************************************)

(* POST /display/advance or POST /api/v1/scheduler/next arrives.           *)
CallAdvance(c) ==
  /\ c \in Advancers
  /\ pc[c] = "idle"
  /\ Goto(c, "advance")
  /\ UNCHANGED <<dbVars, queueVars, timerVars, loopVars, reload, seesEmpty,
                 tellVars>>

NextIndex == (current + 1) % Len(queue)

(* The critical section of Advance, with its early return.                 *)
Advance(th) ==
  /\ pc[th] = "advance"
  /\ \/ /\ queue = <<>>
        /\ Goto(th, Return(th))
        /\ UNCHANGED current
     \/ /\ queue # <<>>
        /\ current' = NextIndex
        /\ Goto(th, "stop")
  /\ UNCHANGED <<dbVars, queue, activePlaylistID, loadedFrom, timerVars,
                 loopVars, reload, seesEmpty, tellVars>>

(* resetTimer, first access: stop the timer s.advanceTimer points to.      *)
StopTimer(th) ==
  /\ pc[th] = "stop"
  /\ timer' = Kept({timerC} \ {advanceTimer})
  /\ Goto(th, "read")
  /\ UNCHANGED <<dbVars, queueVars, advanceTimer, disarmed, loopVars, reload,
                 seesEmpty, tellVars>>

(* resetTimer, under RLock: is there an item to time?                      *)
ReadDuration(th) ==
  /\ pc[th] = "read"
  /\ seesEmpty' = [seesEmpty EXCEPT ![th] = (queue = <<>>)]
  /\ Goto(th, "set")
  /\ UNCHANGED <<dbVars, queueVars, timerVars, loopVars, reload, tellVars>>

(* resetTimer, second access, after RUnlock: the new timer, or nil.  A     *)
(* timer only the overwritten pointer referred to is garbage.              *)
SetTimer(th) ==
  /\ pc[th] = "set"
  /\ \/ /\ seesEmpty[th]
        /\ advanceTimer' = NoTimer
        /\ timer' = Kept({timerC})
     \/ /\ ~seesEmpty[th]
        /\ advanceTimer' = NewTimer
        /\ timer' = [Kept({timerC}) EXCEPT ![NewTimer] = "running"]
  /\ disarmed' = (seesEmpty[th] /\ queue # <<>>)
  /\ seesEmpty' = [seesEmpty EXCEPT ![th] = FALSE]
  /\ Goto(th, "notify")
  /\ UNCHANGED <<dbVars, queueVars, loopVars, reload, tellVars>>

(* notifyChange: the callback reads Current, under RLock ...               *)
NotifyChange(th) ==
  /\ pc[th] = "notify"
  /\ sees' = [sees EXCEPT ![th] = CurrentItem]
  /\ newest' = {th}
  /\ overtaken' = FALSE
  /\ Goto(th, "tell")
  /\ UNCHANGED <<dbVars, queueVars, timerVars, loopVars, reload, seesEmpty,
                 announced>>

(* ... and, holding no lock, tells the listeners what it has read.         *)
Tell(th) ==
  /\ pc[th] = "tell"
  /\ announced' = sees[th]
  /\ sees' = [sees EXCEPT ![th] = NoItem]
  /\ newest' = newest \ {th}
  /\ overtaken' = (newest = {} /\ sees[th] # CurrentItem)
  /\ Goto(th, Return(th))
  /\ UNCHANGED <<dbVars, queueVars, timerVars, loopVars, reload, seesEmpty>>

-----------------------------------------------------------------------------
(***************************************************************************)
(* reloadQueue: only the loop calls it.                                    *)
(***************************************************************************)

(* evaluateSchedules: the schedules' choice at this instant.              *)
EvaluateSchedules ==
  /\ pc[Loop] = "reload"
  /\ playlistID' = db.scheduled
  /\ unsignalled' = FALSE
  /\ Goto(Loop, "load")
  /\ UNCHANGED <<db, queueVars, timerVars, timerC, items, source, reload,
                 seesEmpty, tellVars>>

(* Its query fails: logged, and taken for "no schedule is active".         *)
EvaluateSchedulesFails ==
  /\ QueriesMayFail
  /\ pc[Loop] = "reload"
  /\ playlistID' = NoPlaylist
  /\ unsignalled' = TRUE
  /\ Goto(Loop, "load")
  /\ UNCHANGED <<db, queueVars, timerVars, timerC, items, source, reload,
                 seesEmpty, tellVars>>

(* loadPlaylist or loadDefaultPlaylist.                                    *)
LoadItems ==
  /\ pc[Loop] = "load"
  /\ items' = LoadPlaylist(Source(playlistID))
  /\ source' = Source(playlistID)
  /\ Goto(Loop, "store")
  /\ UNCHANGED <<dbVars, queueVars, timerVars, timerC, playlistID, reload,
                 seesEmpty, tellVars>>

(* The load fails: reloadQueue returns and the old queue stays.            *)
LoadItemsFails ==
  /\ QueriesMayFail
  /\ pc[Loop] = "load"
  /\ unsignalled' = TRUE
  /\ DropLocals
  /\ Goto(Loop, "top")
  /\ UNCHANGED <<db, queueVars, timerVars, timerC, reload, seesEmpty, tellVars>>

NeedsReset ==
  \/ activePlaylistID # playlistID
  \/ current >= Len(items)
  \/ queue = <<>> /\ items # <<>>

AfterStore(reset) == IF reset THEN "stop" ELSE "notify"

(* The critical section of reloadQueue.                                    *)
StoreQueue ==
  /\ pc[Loop] = "store"
  /\ activePlaylistID' = playlistID
  /\ current' = IF NeedsReset THEN 0 ELSE current
  /\ queue' = items
  /\ loadedFrom' = source
  /\ DropLocals
  /\ Goto(Loop, AfterStore(NeedsReset))
  /\ UNCHANGED <<dbVars, timerVars, timerC, reload, seesEmpty, tellVars>>

-----------------------------------------------------------------------------
(***************************************************************************)
(* The loop of Run.                                                        *)
(***************************************************************************)

(* The channel for the select is read from s.advanceTimer once per turn.   *)
LoopTop ==
  /\ pc[Loop] = "top"
  /\ timerC' = advanceTimer
  /\ Goto(Loop, "select")
  /\ UNCHANGED <<dbVars, queueVars, timerVars, localVars, reload, seesEmpty,
                 tellVars>>

(* The select is left: timerC goes out of scope at the end of the turn.    *)
Leave(label) ==
  /\ pc[Loop] = "select"
  /\ timerC' = NoTimer
  /\ Goto(Loop, label)

(* case <-ticker.C: the 30 second reload.                                  *)
SelectTicker ==
  /\ Leave("reload")
  /\ timer' = Kept({advanceTimer})
  /\ UNCHANGED <<dbVars, queueVars, advanceTimer, disarmed, localVars, reload,
                 seesEmpty, tellVars>>

(* case <-s.reload.                                                        *)
SelectReload ==
  /\ reload
  /\ reload' = FALSE
  /\ Leave("reload")
  /\ timer' = Kept({advanceTimer})
  /\ UNCHANGED <<dbVars, queueVars, advanceTimer, disarmed, localVars,
                 seesEmpty, tellVars>>

(* case <-timerC: auto-advance.                                            *)
SelectTimer ==
  /\ timerC # NoTimer
  /\ timer[timerC] = "expired"
  /\ timer' = Kept({advanceTimer} \ {timerC})
  /\ Leave("advance")
  /\ UNCHANGED <<dbVars, queueVars, advanceTimer, disarmed, localVars, reload,
                 seesEmpty, tellVars>>

(* case <-ctx.Done(): stop the timer and return.                           *)
SelectDone ==
  /\ Leave("done")
  /\ timer' = Kept({})
  /\ UNCHANGED <<dbVars, queueVars, advanceTimer, disarmed, localVars, reload,
                 seesEmpty, tellVars>>

-----------------------------------------------------------------------------
ResetTimer(th) == StopTimer(th) \/ ReadDuration(th) \/ SetTimer(th)

Thread(th) == Advance(th) \/ ResetTimer(th) \/ NotifyChange(th) \/ Tell(th)

ClientStep(c) == Commit(c) \/ TriggerReload(c) \/ CallAdvance(c)

QueryFails == EvaluateSchedulesFails \/ LoadItemsFails

ReloadQueue == EvaluateSchedules \/ LoadItems \/ StoreQueue \/ QueryFails

LoopStep == LoopTop \/ SelectTicker \/ SelectReload \/ SelectTimer

Next ==
  \/ \E c \in Clients : ClientStep(c)
  \/ \E th \in Threads : Thread(th)
  \/ ReloadQueue
  \/ LoopStep
  \/ SelectDone
  \/ SilentChange
  \/ \E t \in TimerIds : Expire(t)

Spec == Init /\ [][Next]_vars

(* Every goroutine keeps running once it has something to do.  select picks*)
(* at random among the cases that are ready, so a case that is ready again *)
(* and again is taken: SF.  The ticker fires for ever.  Nothing is assumed *)
(* of the environment, except that a running timer runs out.               *)
Fairness ==
  /\ \A th \in Threads : WF_vars(Thread(th))
  /\ \A c \in Clients : WF_vars(TriggerReload(c))
  /\ WF_vars(ReloadQueue)
  /\ WF_vars(LoopTop)
  /\ SF_vars(SelectTicker)
  /\ SF_vars(SelectReload)
  /\ SF_vars(SelectTimer)
  /\ \A t \in TimerIds : WF_vars(Expire(t))

FairSpec == Spec /\ Fairness

-----------------------------------------------------------------------------
(***************************************************************************)
(* Safety.                                                                 *)
(***************************************************************************)

(* The position is an index into the queue, whatever mix of advances and   *)
(* reloads with shorter playlists came before (Current and the handlers    *)
(* that serve it index the queue without a bound check of their own).      *)
CurrentInRange == IF queue = <<>> THEN current = 0 ELSE current < Len(queue)

(* Somebody will still make the loop read the database again: a committer  *)
(* that has TriggerReload to call, the token in the reload channel, or a   *)
(* change only the ticker notices.                                         *)
ReloadOwed ==
  \/ reload
  \/ \E c \in Clients : pc[c] = "committed"
  \/ unsignalled

(* What the loop has read so far agrees with the committed rows.           *)
Fresh ==
  /\ pc[Loop] = "load"  => playlistID = db.scheduled
  /\ pc[Loop] = "store" => playlistID = db.scheduled /\ items = Wanted
  /\ pc[Loop] \notin {"reload", "load", "store"} =>
       activePlaylistID = db.scheduled /\ queue = Wanted

(* No committed change is lost.  The reload channel holds one token and    *)
(* drops the others, and reloadQueue reads the schedules, reads the items  *)
(* and stores the queue in three steps a commit can fall between; still,   *)
(* either the loop's copy is the committed one or a reload is owed.        *)
NoLostReload == Fresh \/ ReloadOwed

(* The contract of FreshCopy, of the rows and the queue: a step that ends  *)
(* the last obligation to reload, with whatever tokens dropped, queries    *)
(* failed and commits in the middle of a reload, is the store of a queue   *)
(* that is what the rows select.                                           *)
Reloading == pc[Loop] \in {"reload", "load", "store"}

Contract == INSTANCE FreshCopy WITH
              truth <- Wanted, copy <- queue, owed <- ReloadOwed \/ Reloading

KeepsQueueFresh == Contract!Spec

(* A callback that will read the current item is still to come.            *)
CallbackToCome == \E th \in Threads : pc[th] \in {"stop", "read", "set", "notify"}

(* The listeners were told the item that is current now, or are about to   *)
(* be: a callback that will read it, or has read it, is on its way.  The   *)
(* one exception is a callback that read before the newest one and told    *)
(* after it, which nothing in the code prevents.  No order of concurrent   *)
(* Advances and reloads, and no early return, leaves them on an old item   *)
(* in any other way.                                                       *)
ChangeIsAnnounced ==
  \/ announced = CurrentItem
  \/ CallbackToCome
  \/ \E th \in Threads : pc[th] = "tell" /\ sees[th] = CurrentItem
  \/ overtaken

(* What server.go says of the callback, that it broadcasts the current     *)
(* item: once every callback has told, the listeners have that one.  Two   *)
(* callbacks that overtake each other break it.                            *)
ListenersAreCurrent ==
  (\A th \in Threads : pc[th] \in {"idle", "committed", "select"}) =>
    announced = CurrentItem

(* Nobody is between a change of the position and the timer it starts.     *)
TimerSettled ==
  /\ \A th \in Threads : pc[th] \notin {"stop", "read", "set"}
  /\ pc[Loop] = "select"

(* A queue with items has a timer to advance it.                           *)
Armed == advanceTimer # NoTimer /\ timer[advanceTimer] # "dead"

TimerArmed == TimerSettled /\ queue # <<>> => Armed

(* Whatever goroutines stop and replace each other's timers, there is only *)
(* one way for a queue with items to be left without: resetTimer saw the   *)
(* queue empty and stored nil after it had been filled.                    *)
TimerLostOnlyToNil == TimerSettled /\ queue # <<>> => Armed \/ disarmed

(* The loop's select listens on the timer of the current item.             *)
WaitsOnAdvanceTimer == TimerSettled => timerC = advanceTimer

(* Reset position when the playlist changed.                               *)
PlaylistChangeResets == [][loadedFrom' # loadedFrom => current' = 0]_vars

-----------------------------------------------------------------------------
(***************************************************************************)
(* Liveness.                                                               *)
(***************************************************************************)

(* From some point on the rows stay and the queries succeed.               *)
Stable == <>[][db' = db /\ ~QueryFails]_vars

(* The player catches up: once the rows stay, the queue becomes and stays  *)
(* the playlist they select, however many tokens were dropped, queries     *)
(* failed or silent changes came before.                                   *)
Converges == Stable => <>[](queue = Wanted \/ pc[Loop] = "done")

NothingToRotate == Len(queue) < 2 \/ pc[Loop] = "done"

(* The player never freezes on an item: a queue of several items keeps     *)
(* going round, although every 30 seconds a reload may fall on a running   *)
(* timer, and although viewers advance by hand at any moment.              *)
Rotates ==
  Stable => /\ []<>(NothingToRotate \/ current = 0)
            /\ []<>(NothingToRotate \/ current # 0)

=============================================================================
