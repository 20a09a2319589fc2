----------------------------- MODULE DisplayFeed -----------------------------
(***************************************************************************)
(* How the pages learn what to show: the hub and its clients               *)
(* (internal/api/hub.go, websocket.go), the goroutines that broadcast the  *)
(* current item, the settings page of the administration                   *)
(* (internal/api/admin.go), and what display.html does with the messages.  *)
(*                                                                         *)
(* hub.mu makes register, unregister and Broadcast one step each; reading  *)
(* the item, and saving the setting, are steps before.                     *)
(***************************************************************************)
EXTENDS Naturals, Sequences

CONSTANTS
  Items, NoItem,
  Pages,         \* open display pages
  Loop, Viewers, \* goroutines that change or announce the current item
  Admins,        \* goroutines of adminDisplaySettings
  QueueCap,      \* capacity of wsClient.msgs
  MaxEvents      \* bound on the changes, saves, calls and lost connections

Announcers == Viewers \cup {Loop}

ASSUME FeedAssumption ==
  /\ NoItem \notin Items
  /\ Loop \notin Viewers
  /\ QueueCap \in Nat \ {0}
  /\ MaxEvents \in Nat

Shown == Items \cup {NoItem}

Word == [type : {"current"}, value : Shown]
          \cup [type : {"settings"}, value : BOOLEAN]
          \cup [type : {"reload", "alert"}]

VARIABLES
  current,  \* the scheduler's current item
  pc,       \* where each announcer is
  msg,      \* the item it has read
  stored,   \* show_progress_bar in device_meta
  saving,   \* the values each admin has saved and not yet broadcast
  client,   \* where the handler of each page's connection is
  greeting, \* the item it has read for its first message
  queue,    \* c.msgs
  item,     \* what each page shows
  bar,      \* showProgressBar
  fetch,    \* its fetch of /display/settings
  answer,   \* what it was answered
  misled,   \* history: the last broadcast of an item was not the current
            \* item or did not reach the page
  missed,   \* history: the last change of the setting did not reach the page,
            \* or a broadcast of an older one was made after it
  events    \* how many there were

itemVars    == <<current, pc, msg>>
settingVars == <<stored, saving>>
clientVars  == <<client, greeting>>
pageVars    == <<item, bar, fetch, answer>>
history     == <<misled, missed>>
vars == <<itemVars, settingVars, clientVars, queue, pageVars, history, events>>

-----------------------------------------------------------------------------
(***************************************************************************)
(* Faults: plausible slips in the operations below.                        *)
(***************************************************************************)

(* The periodic reload announces nothing, having changed nothing.          *)
Silently == "idle"

(* The client is registered when its first message has been written.       *)
OnceGreeted == {p \in Pages : client[p] = "serving"}

(* Channels without a limit.                                               *)
NeverFull(p) == FALSE

(* if (settings.show_progress_bar): the answer false is taken for none.    *)
OnlyTurnsOn(p, on) == bar[p] \/ on

-----------------------------------------------------------------------------
Init ==
  /\ current = NoItem
  /\ pc = [a \in Announcers |-> "idle"]
  /\ msg = [a \in Announcers |-> NoItem]
  /\ stored = FALSE
  /\ saving = [a \in Admins |-> {}]
  /\ client = [p \in Pages |-> "away"]
  /\ greeting = [p \in Pages |-> NoItem]
  /\ queue = [p \in Pages |-> <<>>]
  /\ item = [p \in Pages |-> NoItem]
  /\ bar = [p \in Pages |-> FALSE]
  /\ fetch = [p \in Pages |-> "asked"]
  /\ answer = [p \in Pages |-> FALSE]
  /\ misled = [p \in Pages |-> FALSE]
  /\ missed = [p \in Pages |-> FALSE]
  /\ events = 0

-----------------------------------------------------------------------------
(***************************************************************************)
(* Broadcasts.                                                             *)
(***************************************************************************)

(* h.clients.                                                              *)
Clients == {p \in Pages : client[p] # "away"}

Full(p) == Len(queue[p]) = QueueCap

(* A client whose channel is full does not get the message.                *)
Broadcast(word) ==
  queue' = [p \in Pages |->
    IF p \in Clients /\ ~Full(p) THEN Append(queue[p], word) ELSE queue[p]]

Event == events < MaxEvents /\ events' = events + 1

(* Advance, a reload or a handler has run and calls BroadcastCurrent, with *)
(* another current item or the same.                                       *)
Change(a) ==
  /\ pc[a] = "idle"
  /\ Event
  /\ current' \in Shown
  /\ pc' = [pc EXCEPT ![a] = "read"]
  /\ UNCHANGED <<msg, settingVars, clientVars, queue, pageVars, history>>

AfterReload == "read"

(* The loop reloads the queue every thirty seconds, and announces the item *)
(* whether it has changed or not.                                          *)
PeriodicReload ==
  /\ pc[Loop] = "idle"
  /\ pc' = [pc EXCEPT ![Loop] = AfterReload]
  /\ UNCHANGED <<current, msg, settingVars, clientVars, queue, pageVars,
                 history, events>>

buildCurrentMessage(a) ==
  /\ pc[a] = "read"
  /\ msg' = [msg EXCEPT ![a] = current]
  /\ pc' = [pc EXCEPT ![a] = "send"]
  /\ UNCHANGED <<current, settingVars, clientVars, queue, pageVars, history,
                 events>>

BroadcastCurrent(a) ==
  /\ pc[a] = "send"
  /\ Broadcast([type |-> "current", value |-> msg[a]])
  /\ misled' = [p \in Pages |-> msg[a] # current \/ Full(p)]
  /\ pc' = [pc EXCEPT ![a] = "idle"]
  /\ msg' = [msg EXCEPT ![a] = NoItem]
  /\ UNCHANGED <<current, settingVars, clientVars, pageVars, missed, events>>

(* A reload or an alert, from the cloud or an administrator.               *)
Call(type) ==
  /\ Event
  /\ Broadcast([type |-> type])
  /\ UNCHANGED <<itemVars, settingVars, clientVars, pageVars, history>>

-----------------------------------------------------------------------------
(***************************************************************************)
(* adminDisplaySettings.                                                   *)
(***************************************************************************)

(* A page will learn of a change that is made now, from the answer to its  *)
(* fetch or from the broadcast.                                            *)
Learns(p) == fetch[p] = "asked" \/ (p \in Clients /\ fetch[p] = "done")

SaveSetting(a, on) ==
  /\ saving[a] = {}
  /\ Event
  /\ stored' = on
  /\ saving' = [saving EXCEPT ![a] = {on}]
  /\ missed' = [p \in Pages |-> missed[p] \/ ~Learns(p)]
  /\ UNCHANGED <<itemVars, clientVars, queue, pageVars, misled>>

BroadcastSetting(a) ==
  /\ saving[a] # {}
  /\ \E on \in saving[a] :
       /\ Broadcast([type |-> "settings", value |-> on])
       /\ missed' = [p \in Pages |->
            IF p \in Clients /\ (Full(p) \/ on # stored) THEN TRUE
            ELSE missed[p] /\ ~(p \in Clients /\ Learns(p))]
  /\ saving' = [saving EXCEPT ![a] = {}]
  /\ UNCHANGED <<itemVars, stored, clientVars, pageVars, misled, events>>

-----------------------------------------------------------------------------
(***************************************************************************)
(* handleDisplayWS and the page at the other end.  What is written to the  *)
(* connection reaches the page in order or is lost with the connection.    *)
(***************************************************************************)

Register(p) ==
  /\ client[p] = "away"
  /\ client' = [client EXCEPT ![p] = "registered"]
  /\ misled' = [misled EXCEPT ![p] = FALSE]
  /\ UNCHANGED <<itemVars, settingVars, greeting, queue, pageVars, missed,
                 events>>

BuildGreeting(p) ==
  /\ client[p] = "registered"
  /\ greeting' = [greeting EXCEPT ![p] = current]
  /\ client' = [client EXCEPT ![p] = "greeting"]
  /\ UNCHANGED <<itemVars, settingVars, queue, pageVars, history, events>>

WriteGreeting(p) ==
  /\ client[p] = "greeting"
  /\ item' = [item EXCEPT ![p] = greeting[p]]
  /\ greeting' = [greeting EXCEPT ![p] = NoItem]
  /\ client' = [client EXCEPT ![p] = "serving"]
  /\ UNCHANGED <<itemVars, settingVars, queue, bar, fetch, answer, history,
                 events>>

(* unregister: the channel goes with what is in it.                        *)
Unregister(p) ==
  /\ client' = [client EXCEPT ![p] = "away"]
  /\ queue' = [queue EXCEPT ![p] = <<>>]
  /\ greeting' = [greeting EXCEPT ![p] = NoItem]

(* location.reload: the page starts anew, with its defaults.               *)
BootPage(p) ==
  /\ Unregister(p)
  /\ item' = [item EXCEPT ![p] = NoItem]
  /\ bar' = [bar EXCEPT ![p] = FALSE]
  /\ fetch' = [fetch EXCEPT ![p] = "asked"]
  /\ answer' = [answer EXCEPT ![p] = FALSE]
  /\ missed' = [missed EXCEPT ![p] = FALSE]

applySettings(p, on) == on

Receive(p, word) ==
  \/ /\ word.type = "current" /\ item' = [item EXCEPT ![p] = word.value]
     /\ UNCHANGED <<bar, missed>>
  \/ /\ word.type = "settings"
     /\ bar' = [bar EXCEPT ![p] = applySettings(p, word.value)]
     /\ UNCHANGED <<item, missed>>
  \/ word.type = "alert" /\ UNCHANGED <<item, bar, missed>>

Serve(p) ==
  /\ client[p] = "serving" /\ queue[p] # <<>>
  /\ \/ /\ Head(queue[p]).type # "reload"
        /\ Receive(p, Head(queue[p]))
        /\ queue' = [queue EXCEPT ![p] = Tail(@)]
        /\ UNCHANGED <<client, greeting, fetch, answer>>
     \/ Head(queue[p]).type = "reload" /\ BootPage(p)
  /\ UNCHANGED <<itemVars, settingVars, misled, events>>

HasWord(q, type) == \E i \in DOMAIN q : q[i].type = type

(* A write fails or times out, or the page closes the connection.          *)
Disconnect(p) ==
  /\ p \in Clients
  /\ Event
  /\ Unregister(p)
  /\ missed' = [missed EXCEPT ![p] =
       \/ @
       \/ /\ fetch[p] # "asked"
          /\ HasWord(queue[p], "settings") \/ \E a \in Admins : saving[a] # {}]
  /\ UNCHANGED <<itemVars, settingVars, pageVars, misled>>

-----------------------------------------------------------------------------
(***************************************************************************)
(* fetchSettings.                                                          *)
(***************************************************************************)

handleDisplaySettings(p) ==
  /\ fetch[p] = "asked"
  /\ fetch' = [fetch EXCEPT ![p] = "answered"]
  /\ answer' = [answer EXCEPT ![p] = stored]
  /\ UNCHANGED <<itemVars, settingVars, clientVars, queue, item, bar, history,
                 events>>

(* The answer arrives, or none does and the default stays.                 *)
ApplySettings(p) ==
  /\ \/ /\ fetch[p] = "answered"
        /\ bar' = [bar EXCEPT ![p] = applySettings(p, answer[p])]
        /\ UNCHANGED missed
     \/ /\ fetch[p] # "done"
        /\ missed' = [missed EXCEPT ![p] = TRUE]
        /\ UNCHANGED bar
  /\ fetch' = [fetch EXCEPT ![p] = "done"]
  /\ answer' = [answer EXCEPT ![p] = FALSE]
  /\ UNCHANGED <<itemVars, settingVars, clientVars, queue, item, misled,
                 events>>

-----------------------------------------------------------------------------
Announcing(a) == buildCurrentMessage(a) \/ BroadcastCurrent(a)

Handler(p) == BuildGreeting(p) \/ WriteGreeting(p) \/ Serve(p)

Next ==
  \/ \E a \in Announcers : Change(a) \/ Announcing(a)
  \/ PeriodicReload
  \/ \E type \in {"reload", "alert"} : Call(type)
  \/ \E a \in Admins : BroadcastSetting(a) \/ \E on \in BOOLEAN : SaveSetting(a, on)
  \/ \E p \in Pages :
       \/ Register(p) \/ Handler(p) \/ Disconnect(p)
       \/ handleDisplaySettings(p) \/ ApplySettings(p)

Spec == Init /\ [][Next]_vars

(* The loop's ticker fires for ever, a broadcast that has begun is made,   *)
(* and the handler of a connection goes on.                                *)
FairSpec ==
  /\ Spec
  /\ WF_vars(PeriodicReload)
  /\ \A a \in Announcers : WF_vars(Announcing(a))
  /\ \A p \in Pages : WF_vars(Handler(p))

-----------------------------------------------------------------------------
TypeOK ==
  /\ current \in Shown
  /\ pc \in [Announcers -> {"idle", "read", "send"}]
  /\ msg \in [Announcers -> Shown]
  /\ stored \in BOOLEAN
  /\ saving \in [Admins -> {{}, {TRUE}, {FALSE}}]
  /\ client \in [Pages -> {"away", "registered", "greeting", "serving"}]
  /\ greeting \in [Pages -> Shown]
  /\ queue \in [Pages -> Seq(Word)]
  /\ \A p \in Pages : Len(queue[p]) <= QueueCap
  /\ item \in [Pages -> Shown]
  /\ {bar, answer, misled, missed} \subseteq [Pages -> BOOLEAN]
  /\ fetch \in [Pages -> {"asked", "answered", "done"}]

(* The last message of a type in a queue is the i-th.                      *)
IsLast(q, type, i) ==
  /\ i \in DOMAIN q /\ q[i].type = type
  /\ \A j \in DOMAIN q : q[j].type = type => j <= i

LastOf(q, type) == q[CHOOSE i \in DOMAIN q : IsLast(q, type, i)].value

(* What a connected page shows when it has received all that is under way. *)
LastWord(p) ==
  IF HasWord(queue[p], "current") THEN LastOf(queue[p], "current")
  ELSE CASE client[p] = "registered" -> current
         [] client[p] = "greeting"   -> greeting[p]
         [] client[p] = "serving"    -> item[p]

(* Nothing falls between the first message of a connection and the         *)
(* broadcasts: the last word on its way to a page is the current item,     *)
(* unless an announcement is still to be made, or the last one was of an   *)
(* item read before another change or found the channel full.              *)
LastWordIsCurrent ==
  \A p \in Clients :
    \/ misled[p] \/ HasWord(queue[p], "reload")
    \/ \E a \in Announcers : pc[a] # "idle"
    \/ LastWord(p) = current

(* A page that has booted shows the setting that is stored, whether it     *)
(* learnt it from its fetch or from a broadcast and whatever passed it on  *)
(* the way, unless it missed a change for one of the reasons above.        *)
SettingIsStored ==
  \A p \in Pages :
    \/ missed[p] \/ fetch[p] # "done" \/ HasWord(queue[p], "settings")
    \/ \E a \in Admins : saving[a] # {}
    \/ bar[p] = stored

(* A page that stays connected comes to show the item that stays current,  *)
(* although announcements overtake each other and are dropped.             *)
CatchesUp ==
  \A p \in Pages : <>[](client[p] = "serving") => <>[](item[p] = current)

=============================================================================
