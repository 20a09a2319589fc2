----------------------------- MODULE DisplayPage -----------------------------
(***************************************************************************)
(* The page Chromium shows (internal/api/display.html): two layers, of     *)
(* which one is active and the other is where the next item loads, and the *)
(* feed that tells the page the current item: a WebSocket while it can be  *)
(* had, polling of /display/current after too many failures.               *)
(*                                                                         *)
(* JavaScript runs one event at a time, so each event is one step.  The    *)
(* server and the network are the environment: any item may be announced   *)
(* at any moment and any connection may fail.                              *)
(***************************************************************************)
EXTENDS Naturals, Sequences

CONSTANTS
  Items,        \* content items
  KindOf,       \* item -> "image", "iframe", "video" or "other"
  ElementIds,   \* identities of DOM elements: bounds how many are alive
  NoItem,       \* no item scheduled, or none rendered
  NoElement,    \* no element
  Splash,       \* a layer that holds the splash, and one that holds nothing
  Empty,
  MaxRetries,   \* WS_MAX_RETRIES
  MaxSwaps      \* bound on the swaps within the 600 ms of a fade

Elements == [id : ElementIds, item : Items]

ASSUME PageAssumption ==
  /\ KindOf \in [Items -> {"image", "iframe", "video", "other"}]
  /\ {NoElement, Splash, Empty} \cap Elements = {}
  /\ NoItem \notin Items
  /\ MaxRetries \in Nat
  /\ MaxSwaps \in Nat \ {0}

VARIABLES
  layers,         \* what each layer holds
  activeLayer,    \* the layer on the screen
  currentItemID,  \* the item rendered last
  loading,        \* elements whose load event has still to come
  swapTimeout,    \* the element whose five second fallback is set
  clearing,       \* layers to be emptied when their fade is over, in order
  ws,             \* the socket: none, connecting or open
  wsRetries,      \* failures in a row
  reconnect,      \* whether the timer that calls connectWS is set
  advanceTimer,   \* whether the timer that calls tick is set
  fetching        \* whether tick waits for /display/current

layerVars == <<layers, activeLayer, currentItemID, loading, swapTimeout, clearing>>
feedVars  == <<ws, wsRetries, reconnect, advanceTimer, fetching>>
vars      == <<layerVars, feedVars>>

LayerNames == {"a", "b"}

TypeOK ==
  /\ layers \in [LayerNames -> Elements \cup {Splash, Empty}]
  /\ activeLayer \in LayerNames
  /\ currentItemID \in Items \cup {NoItem}
  /\ loading \subseteq Elements
  /\ swapTimeout \in Elements \cup {NoElement}
  /\ clearing \in Seq(LayerNames) /\ Len(clearing) <= MaxSwaps
  /\ ws \in {"none", "connecting", "open"}
  /\ wsRetries \in 0 .. MaxRetries + 1
  /\ reconnect \in BOOLEAN /\ advanceTimer \in BOOLEAN /\ fetching \in BOOLEAN

(* Boot: the splash, and the first connectWS.                              *)
Boot ==
  [layers |-> [l \in LayerNames |-> IF l = "a" THEN Splash ELSE Empty]]

Init ==
  /\ layers = Boot.layers
  /\ activeLayer = "a"
  /\ currentItemID = NoItem
  /\ loading = {} /\ swapTimeout = NoElement /\ clearing = <<>>
  /\ ws = "connecting" /\ wsRetries = 0
  /\ reconnect = FALSE /\ advanceTimer = FALSE /\ fetching = FALSE

-----------------------------------------------------------------------------
Background == IF activeLayer = "a" THEN "b" ELSE "a"

(* An image goes on loading after it was taken off its layer, an iframe    *)
(* does not.                                                               *)
StillLoading(els, ls) ==
  {e \in els : KindOf[e.item] = "image" \/ \E l \in LayerNames : ls[l] = e}

Used == loading \cup {swapTimeout} \cup {layers[l] : l \in LayerNames}
Free == {i \in ElementIds : \A e \in Used \cap Elements : e.id # i}
NewElement(item) == [id |-> CHOOSE i \in Free : TRUE, item |-> item]

(* Fill one layer.                                                         *)
Put(l, content, alsoLoading) ==
  /\ layers' = [layers EXCEPT ![l] = content]
  /\ loading' = StillLoading(loading \cup alsoLoading, layers')

-----------------------------------------------------------------------------
(***************************************************************************)
(* Faults: plausible slips in the operations below, which the properties   *)
(* must be able to tell from the code.                                     *)
(***************************************************************************)

(* swapLayers leaves the old item on the layer it fades out.               *)
SwapUncleared ==
  /\ activeLayer' = Background
  /\ UNCHANGED clearing

(* scheduleReconnect tries for ever.                                       *)
AlwaysReconnect ==
  /\ wsRetries' = wsRetries + 1
  /\ reconnect' = TRUE
  /\ UNCHANGED fetching

(* tick, told that nothing is scheduled, does not ask again.               *)
NothingMore == fetching' = FALSE /\ UNCHANGED advanceTimer

-----------------------------------------------------------------------------
(***************************************************************************)
(* Rendering.                                                              *)
(***************************************************************************)

(* showSplash writes on the active layer.                                  *)
ShowSplash ==
  /\ Put(activeLayer, Splash, {})
  /\ UNCHANGED <<activeLayer, swapTimeout, clearing>>

(* swapLayers: the layer that fades out is emptied 600 ms later.           *)
SwapLayers ==
  /\ Len(clearing) < MaxSwaps
  /\ activeLayer' = Background
  /\ clearing' = Append(clearing, activeLayer)

(* renderToBackground.  An unknown type leaves a pending swap alone.       *)
RenderUnknown(item) ==
  /\ KindOf[item] = "other"
  /\ layers' = [layers EXCEPT ![Background] = Empty, ![activeLayer] = Splash]
  /\ loading' = StillLoading(loading, layers')
  /\ currentItemID' = NoItem
  /\ UNCHANGED <<activeLayer, swapTimeout, clearing>>

RenderLoaded(item) ==
  /\ KindOf[item] \in {"image", "iframe"}
  /\ Put(Background, NewElement(item), {NewElement(item)})
  /\ swapTimeout' = NewElement(item)
  /\ currentItemID' = item
  /\ UNCHANGED <<activeLayer, clearing>>

RenderVideo(item) ==
  /\ KindOf[item] = "video"
  /\ Put(Background, NewElement(item), {})
  /\ swapTimeout' = NoElement
  /\ currentItemID' = item
  /\ SwapLayers

Render(item) ==
  /\ Free # {}
  /\ RenderUnknown(item) \/ RenderLoaded(item) \/ RenderVideo(item)

(* handleCurrent: no item, the item rendered last, or another one.         *)
HandleCurrent(item) ==
  \/ item = NoItem /\ currentItemID' = NoItem /\ ShowSplash
  \/ item # NoItem /\ item = currentItemID /\ UNCHANGED layerVars
  \/ item # NoItem /\ item # currentItemID /\ Render(item)

(* doSwap of an element, which runs once: its load event, or the fallback. *)
DoSwap(e) ==
  /\ loading' = loading \ {e}
  /\ swapTimeout' = NoElement
  /\ SwapLayers
  /\ UNCHANGED <<layers, currentItemID, feedVars>>

Loaded(e) == e \in loading /\ DoSwap(e)

(* Every fade that was under way when the fallback was set has ended: five *)
(* seconds are longer than 600 ms, and a later swap clears the fallback.   *)
SwapFallback ==
  /\ swapTimeout # NoElement /\ clearing = <<>>
  /\ DoSwap(swapTimeout)

(* The timer of swapLayers.                                                *)
ClearLayer ==
  /\ clearing # <<>>
  /\ Put(Head(clearing), Empty, {})
  /\ clearing' = Tail(clearing)
  /\ UNCHANGED <<activeLayer, currentItemID, swapTimeout, feedVars>>

-----------------------------------------------------------------------------
(***************************************************************************)
(* The WebSocket.                                                          *)
(***************************************************************************)

(* scheduleReconnect: a timer, or polling for good.                        *)
ScheduleReconnect ==
  /\ wsRetries' = wsRetries + 1
  /\ IF wsRetries + 1 > MaxRetries
     THEN fetching' = TRUE /\ reconnect' = FALSE
     ELSE reconnect' = TRUE /\ UNCHANGED fetching

OnOpen ==
  /\ ws = "connecting"
  /\ ws' = "open" /\ wsRetries' = 0 /\ advanceTimer' = FALSE
  /\ UNCHANGED <<layerVars, reconnect, fetching>>

(* onclose, of an open socket or of one that could not be opened.          *)
OnClose ==
  /\ ws # "none"
  /\ ws' = "none"
  /\ ScheduleReconnect
  /\ UNCHANGED <<layerVars, advanceTimer>>

(* onmessage, case 'current'.                                              *)
OnCurrent(item) ==
  /\ ws = "open"
  /\ HandleCurrent(item)
  /\ UNCHANGED feedVars

(* onmessage, case 'reload': the page boots again.                         *)
OnReload ==
  /\ ws = "open"
  /\ layers' = Boot.layers /\ activeLayer' = "a" /\ currentItemID' = NoItem
  /\ loading' = {} /\ swapTimeout' = NoElement /\ clearing' = <<>>
  /\ ws' = "connecting" /\ wsRetries' = 0
  /\ reconnect' = FALSE /\ advanceTimer' = FALSE /\ fetching' = FALSE

(* connectWS, whose constructor may throw.                                 *)
ConnectWS ==
  /\ reconnect
  /\ ws' = "connecting" /\ reconnect' = FALSE
  /\ UNCHANGED <<layerVars, wsRetries, advanceTimer, fetching>>

ConnectThrows ==
  /\ reconnect
  /\ ScheduleReconnect
  /\ UNCHANGED <<layerVars, ws, advanceTimer>>

-----------------------------------------------------------------------------
(***************************************************************************)
(* Polling.                                                                *)
(***************************************************************************)
Tick ==
  /\ advanceTimer
  /\ advanceTimer' = FALSE /\ fetching' = TRUE
  /\ UNCHANGED <<layerVars, ws, wsRetries, reconnect>>

(* tick's answer is dealt with and asked for again later.                  *)
PollAgain == fetching' = FALSE /\ advanceTimer' = TRUE

(* 204, or no answer at all: a splash, and currentItemID stays.            *)
TickSplash ==
  /\ fetching
  /\ ShowSplash /\ UNCHANGED currentItemID
  /\ PollAgain
  /\ UNCHANGED <<ws, wsRetries, reconnect>>

(* 200: handleCurrent schedules the next poll while there is no socket.    *)
TickItem(item) ==
  /\ fetching
  /\ HandleCurrent(item)
  /\ fetching' = FALSE
  /\ advanceTimer' = (advanceTimer \/ ws # "open")
  /\ UNCHANGED <<ws, wsRetries, reconnect>>

-----------------------------------------------------------------------------
Rendering == SwapFallback \/ ClearLayer \/ \E e \in loading : Loaded(e)

Socket ==
  \/ OnOpen \/ OnClose \/ OnReload \/ ConnectWS \/ ConnectThrows
  \/ \E item \in Items \cup {NoItem} : OnCurrent(item)

Polling == Tick \/ TickSplash \/ \E item \in Items : TickItem(item)

Next == Rendering \/ Socket \/ Polling

Spec == Init /\ [][Next]_vars

-----------------------------------------------------------------------------
(* Through every failure, fallback and answer the page has one feed, never *)
(* none (it would freeze on its item) and never two (items would alternate *)
(* between what the socket says and what an older poll said).              *)
OneFeed ==
  \/ ws # "none" /\ reconnect = FALSE /\ advanceTimer = FALSE /\ fetching = FALSE
  \/ ws = "none" /\ reconnect = TRUE /\ advanceTimer = FALSE /\ fetching = FALSE
  \/ ws = "none" /\ reconnect = FALSE /\ advanceTimer = TRUE /\ fetching = FALSE
  \/ ws = "none" /\ reconnect = FALSE /\ advanceTimer = FALSE /\ fetching = TRUE

(* No swap and no fade is pending.                                         *)
AtRest == swapTimeout = NoElement /\ clearing = <<>>

Shows == layers[activeLayer]

(* At rest the page does not show an item other than the one it rendered   *)
(* last, however many items came and loaded out of order in between.       *)
NeverStale ==
  AtRest /\ currentItemID # NoItem /\ Shows \in Elements =>
    Shows.item = currentItemID

(* What is rendered is on the screen once the fade is over.                *)
ShowsCurrentItem ==
  AtRest /\ currentItemID # NoItem =>
    Shows \in Elements /\ Shows.item = currentItemID

=============================================================================
