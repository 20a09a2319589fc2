-------------------------- MODULE DisplayPageProofs --------------------------
(* Theorems about the display page, for any playlist, any number of elements*)
(* and any WS_MAX_RETRIES.                                                 *)
EXTENDS DisplayPage, SequenceTheorems, TLAPS

(* One step of the page keeps its one feed: OneFeed is inductive.          *)
LEMMA OneFeedNext == OneFeed /\ [Next]_vars => OneFeed'
<1> SUFFICES ASSUME OneFeed, [Next]_vars PROVE OneFeed'
  OBVIOUS
<1>1. CASE Rendering
  <2>1. UNCHANGED feedVars
    BY <1>1 DEF Rendering, SwapFallback, ClearLayer, Loaded, DoSwap
  <2> QED BY <2>1 DEF OneFeed, feedVars
<1>2. CASE OnOpen
  BY <1>2 DEF OneFeed, OnOpen
<1>3. CASE OnClose
  BY <1>3 DEF OneFeed, OnClose, ScheduleReconnect
<1>4. CASE OnReload
  BY <1>4 DEF OneFeed, OnReload
<1>5. CASE ConnectWS
  BY <1>5 DEF OneFeed, ConnectWS
<1>6. CASE ConnectThrows
  BY <1>6 DEF OneFeed, ConnectThrows, ScheduleReconnect
<1>7. CASE \E item \in Items \cup {NoItem} : OnCurrent(item)
  BY <1>7 DEF OneFeed, OnCurrent, feedVars
<1>8. CASE Tick
  BY <1>8 DEF OneFeed, Tick
<1>9. CASE TickSplash
  BY <1>9 DEF OneFeed, TickSplash, PollAgain
<1>10. CASE \E item \in Items : TickItem(item)
  BY <1>10 DEF OneFeed, TickItem
<1>11. CASE UNCHANGED vars
  BY <1>11 DEF OneFeed, vars, feedVars
<1> QED
  BY <1>1, <1>2, <1>3, <1>4, <1>5, <1>6, <1>7, <1>8, <1>9, <1>10, <1>11
     DEF Next, Socket, Polling

(* Whatever connections fail and answers are late, the page has one feed at*)
(* any time: it never freezes without one, and an old poll never races the *)
(* socket.                                                                 *)
THEOREM PageKeepsOneFeed == Spec => []OneFeed
<1>1. Init => OneFeed
  BY DEF Init, OneFeed
<1> QED BY <1>1, OneFeedNext, PTL DEF Spec

-----------------------------------------------------------------------------
(***************************************************************************)
(* Types.  That the retries stay within their limit is no matter of types  *)
(* alone: a socket is tried only as long as they do.                       *)
(***************************************************************************)
PollsForGood == wsRetries > MaxRetries <=> advanceTimer \/ fetching

FeedInv == OneFeed /\ PollsForGood

LEMMA PollsForGoodNext ==
  TypeOK /\ FeedInv /\ [Next]_vars => PollsForGood' /\ wsRetries' \in 0 .. MaxRetries + 1
<1> SUFFICES ASSUME TypeOK, FeedInv, [Next]_vars
             PROVE  PollsForGood' /\ wsRetries' \in 0 .. MaxRetries + 1
  OBVIOUS
<1> USE PageAssumption DEF FeedInv
<1>1. CASE UNCHANGED feedVars
  BY <1>1 DEF PollsForGood, TypeOK, feedVars
<1>2. CASE Rendering
  BY <1>1, <1>2 DEF Rendering, SwapFallback, ClearLayer, Loaded, DoSwap
<1>3. CASE OnOpen
  BY <1>3 DEF OnOpen, OneFeed, PollsForGood, TypeOK
<1>4. CASE OnClose
  BY <1>4 DEF OnClose, ScheduleReconnect, OneFeed, PollsForGood, TypeOK
<1>5. CASE OnReload
  BY <1>5 DEF OnReload, OneFeed, PollsForGood, TypeOK
<1>6. CASE ConnectWS
  BY <1>6 DEF ConnectWS, OneFeed, PollsForGood, TypeOK
<1>7. CASE ConnectThrows
  BY <1>7 DEF ConnectThrows, ScheduleReconnect, OneFeed, PollsForGood, TypeOK
<1>8. CASE \E item \in Items \cup {NoItem} : OnCurrent(item)
  BY <1>1, <1>8 DEF OnCurrent
<1>9. CASE Polling
  BY <1>9 DEF Polling, Tick, TickSplash, PollAgain, TickItem, OneFeed,
              PollsForGood, TypeOK
<1>10. CASE UNCHANGED vars
  BY <1>1, <1>10 DEF vars
<1> QED BY <1>2, <1>3, <1>4, <1>5, <1>6, <1>7, <1>8, <1>9, <1>10
        DEF Next, Socket

(* The other layer is a layer, and a new element is an element.            *)
LEMMA BackgroundTyped ==
  ASSUME TypeOK
  PROVE  Background \in LayerNames /\ Background # activeLayer
BY DEF TypeOK, Background, LayerNames

LEMMA NewElementTyped ==
  ASSUME Free # {}, NEW item \in Items
  PROVE  NewElement(item) \in Elements /\ NewElement(item).item = item
<1>1. (CHOOSE i \in Free : TRUE) \in ElementIds
  BY DEF Free
<1> QED BY <1>1 DEF NewElement, Elements

(* What handleCurrent leaves of the layers.                                *)
LayersTyped ==
  /\ layers \in [LayerNames -> Elements \cup {Splash, Empty}]
  /\ activeLayer \in LayerNames
  /\ currentItemID \in Items \cup {NoItem}
  /\ loading \subseteq Elements
  /\ swapTimeout \in Elements \cup {NoElement}
  /\ clearing \in Seq(LayerNames) /\ Len(clearing) <= MaxSwaps

LEMMA HandleCurrentTyped ==
  ASSUME TypeOK, NEW item \in Items \cup {NoItem}, HandleCurrent(item)
  PROVE  LayersTyped'
<1> USE PageAssumption, BackgroundTyped
<1>1. CASE item = NoItem
  BY <1>1 DEF HandleCurrent, ShowSplash, Put, StillLoading, TypeOK, LayersTyped
<1>2. CASE UNCHANGED layerVars
  BY <1>2 DEF layerVars, TypeOK, LayersTyped
<1>3. CASE item \in Items /\ Render(item)
  <2>1. CASE RenderUnknown(item)
    BY <2>1 DEF RenderUnknown, StillLoading, TypeOK, LayersTyped
  <2>2. NewElement(item) \in Elements
    BY <1>3, NewElementTyped DEF Render
  <2>3. CASE RenderLoaded(item)
    BY <1>3, <2>2, <2>3 DEF RenderLoaded, Put, StillLoading, TypeOK, LayersTyped
  <2>4. CASE RenderVideo(item)
    <3>1. clearing' \in Seq(LayerNames) /\ Len(clearing') <= MaxSwaps
      BY <2>4, AppendProperties, LenProperties
         DEF RenderVideo, SwapLayers, TypeOK
    <3> QED BY <1>3, <2>2, <2>4, <3>1
            DEF RenderVideo, SwapLayers, Put, StillLoading, TypeOK, LayersTyped
  <2> QED BY <1>3, <2>1, <2>3, <2>4 DEF Render
<1> QED BY <1>1, <1>2, <1>3 DEF HandleCurrent

LEMMA TypeNext ==
  TypeOK /\ FeedInv /\ [Next]_vars => TypeOK'
<1> SUFFICES ASSUME TypeOK, FeedInv, [Next]_vars PROVE TypeOK'
  OBVIOUS
<1>1. wsRetries' \in 0 .. MaxRetries + 1
  BY PollsForGoodNext
<1>2. LayersTyped'
  <2>1. CASE UNCHANGED layerVars
    BY <2>1 DEF layerVars, TypeOK, LayersTyped
  <2>2. ASSUME NEW e \in Elements, DoSwap(e) PROVE LayersTyped'
    <3>1. clearing' \in Seq(LayerNames) /\ Len(clearing') <= MaxSwaps
      BY <2>2, PageAssumption, AppendProperties, LenProperties
         DEF DoSwap, SwapLayers, TypeOK
    <3> QED BY <2>2, <3>1, BackgroundTyped
            DEF DoSwap, SwapLayers, TypeOK, LayersTyped
  <2>3. CASE Rendering
    <3>1. CASE ClearLayer
      <4>1. /\ Head(clearing) \in LayerNames
            /\ clearing' \in Seq(LayerNames) /\ Len(clearing') <= MaxSwaps
        BY <3>1, PageAssumption, HeadTailProperties, LenProperties
           DEF ClearLayer, TypeOK
      <4> QED BY <3>1, <4>1
              DEF ClearLayer, Put, StillLoading, TypeOK, LayersTyped
    <3>2. CASE SwapFallback
      BY <2>2, <3>2, PageAssumption DEF SwapFallback, TypeOK
    <3> QED BY <2>2, <2>3, <3>1, <3>2 DEF Rendering, Loaded, TypeOK
  <2>4. CASE Socket
    <3>1. CASE OnReload
      BY <3>1, PageAssumption, EmptySeq
         DEF OnReload, Boot, LayersTyped, LayerNames
    <3> QED BY <2>1, <2>4, <3>1, HandleCurrentTyped
            DEF Socket, OnOpen, OnClose, ConnectWS, ConnectThrows, OnCurrent
  <2>5. CASE Polling
    <3>1. CASE TickSplash
      BY <3>1 DEF TickSplash, ShowSplash, Put, StillLoading, TypeOK, LayersTyped
    <3> QED BY <2>1, <2>5, <3>1, HandleCurrentTyped DEF Polling, Tick, TickItem
  <2> QED BY <2>1, <2>3, <2>4, <2>5 DEF Next, vars
<1>3. ws' \in {"none", "connecting", "open"}
  BY DEF TypeOK, Next, Rendering, SwapFallback, ClearLayer, Loaded, DoSwap,
         Socket, OnOpen, OnClose, OnReload, ConnectWS, ConnectThrows, OnCurrent,
         Polling, Tick, TickSplash, TickItem, vars, feedVars
<1>4. /\ reconnect' \in BOOLEAN /\ advanceTimer' \in BOOLEAN
      /\ fetching' \in BOOLEAN
  <2>1. OneFeed'
    BY OneFeedNext DEF FeedInv
  <2> QED BY <2>1, Zenon DEF OneFeed
<1> QED BY <1>1, <1>2, <1>3, <1>4 DEF TypeOK, LayersTyped

LEMMA TypeInit == Init => TypeOK /\ FeedInv
<1> SUFFICES ASSUME Init PROVE TypeOK /\ FeedInv
  OBVIOUS
<1>1. FeedInv
  BY PageAssumption DEF Init, FeedInv, OneFeed, PollsForGood
<1>2. clearing \in Seq(LayerNames) /\ Len(clearing) <= MaxSwaps
  BY PageAssumption, EmptySeq DEF Init
<1>3. layers \in [LayerNames -> Elements \cup {Splash, Empty}]
  BY DEF Init, Boot
<1>4. wsRetries \in 0 .. MaxRetries + 1
  BY PageAssumption DEF Init
<1>5. reconnect \in BOOLEAN /\ advanceTimer \in BOOLEAN /\ fetching \in BOOLEAN
  BY Zenon DEF Init
<1> QED BY <1>1, <1>2, <1>3, <1>4, <1>5 DEF Init, TypeOK, LayerNames

(* Every variable of the page keeps its type, the count of failed          *)
(* connections in particular its limit: once the page polls, no socket is  *)
(* left that could fail again.                                             *)
THEOREM TypeCorrect == Spec => []TypeOK
<1>1. TypeOK /\ FeedInv /\ [Next]_vars => TypeOK' /\ FeedInv'
  BY TypeNext, OneFeedNext, PollsForGoodNext DEF FeedInv
<1> QED BY <1>1, TypeInit, PTL DEF Spec

-----------------------------------------------------------------------------
(***************************************************************************)
(* What is on the screen.                                                  *)
(***************************************************************************)

(* The layer holds an element of an item that is not the last.             *)
Stale(l) == layers[l] \in Elements /\ layers[l].item # currentItemID

(* The layer will be emptied.                                              *)
ToBeCleared(l) == \E i \in DOMAIN clearing : clearing[i] = l

(* A stale background is to be emptied, so that whichever old image loads  *)
(* late and swaps to it, the screen is not at rest; and a stale layer on   *)
(* the screen will be swapped away or emptied.                             *)
StaleIsPassing ==
  currentItemID # NoItem =>
    /\ Stale(Background) => ToBeCleared(Background)
    /\ Stale(activeLayer) =>
         ToBeCleared(activeLayer) \/ swapTimeout # NoElement

(* A swap leaves a background that is to be emptied, and shows one that    *)
(* was to be emptied before if it was stale.                               *)
LEMMA SwapClears ==
  ASSUME TypeOK, SwapLayers
  PROVE  /\ activeLayer' = Background /\ Background' = activeLayer
         /\ ToBeCleared(Background)'
         /\ \A l \in LayerNames : ToBeCleared(l) => ToBeCleared(l)'
<1>1. clearing \in Seq(LayerNames) /\ activeLayer \in LayerNames
  BY DEF TypeOK
<1>2. /\ activeLayer' = Background
      /\ clearing' = Append(clearing, activeLayer)
  BY DEF SwapLayers
<1>3. Background' = activeLayer
  BY <1>1, <1>2 DEF Background, LayerNames
<1>4. /\ DOMAIN clearing = 1 .. Len(clearing) /\ Len(clearing) \in Nat
      /\ DOMAIN clearing' = 1 .. (Len(clearing) + 1)
      /\ clearing'[Len(clearing) + 1] = activeLayer
      /\ \A i \in 1 .. Len(clearing) : clearing'[i] = clearing[i]
  BY <1>1, <1>2, AppendProperties, LenProperties
<1> QED BY <1>2, <1>3, <1>4 DEF ToBeCleared

(* Rendering puts the new item on the background, or, if its type is       *)
(* unknown, forgets the last one.                                          *)
LEMMA RenderKeepsPassing ==
  ASSUME TypeOK, NEW item \in Items, Render(item)
  PROVE  StaleIsPassing'
<1> USE PageAssumption, BackgroundTyped
<1>1. CASE RenderUnknown(item)
  BY <1>1 DEF RenderUnknown, StaleIsPassing
<1>2. NewElement(item) \in Elements /\ NewElement(item).item = item
  BY NewElementTyped DEF Render
<1>3. CASE RenderLoaded(item)
  <2>1. Background' = Background /\ activeLayer' = activeLayer
    BY <1>3 DEF RenderLoaded, Background
  <2>2. ~Stale(Background)'
    BY <1>2, <1>3, <2>1 DEF RenderLoaded, Put, Stale, TypeOK
  <2>3. swapTimeout' # NoElement
    BY <1>2, <1>3 DEF RenderLoaded
  <2> QED BY <2>2, <2>3 DEF StaleIsPassing
<1>4. CASE RenderVideo(item)
  <2>1. SwapLayers
    BY <1>4 DEF RenderVideo
  <2>2. ~Stale(activeLayer)'
    BY <1>2, <1>4, <2>1, SwapClears DEF RenderVideo, Put, Stale, TypeOK
  <2> QED BY <2>1, <2>2, SwapClears DEF StaleIsPassing
<1> QED BY <1>1, <1>3, <1>4 DEF Render

LEMMA StaleIsPassingNext ==
  TypeOK /\ StaleIsPassing /\ [Next]_vars => StaleIsPassing'
<1> SUFFICES ASSUME TypeOK, StaleIsPassing, [Next]_vars PROVE StaleIsPassing'
  OBVIOUS
<1> USE PageAssumption, BackgroundTyped
<1>1. CASE UNCHANGED layerVars
  BY <1>1 DEF layerVars, StaleIsPassing, Stale, ToBeCleared, Background
<1>2. ASSUME ShowSplash, UNCHANGED currentItemID PROVE StaleIsPassing'
  <2>1. /\ Background' = Background /\ activeLayer' = activeLayer
        /\ layers'[activeLayer] = Splash
        /\ layers'[Background] = layers[Background]
        /\ clearing' = clearing
    BY <1>2 DEF ShowSplash, Put, Background, TypeOK
  <2> QED BY <1>2, <2>1 DEF StaleIsPassing, Stale, ToBeCleared
<1>3. ASSUME NEW item \in Items \cup {NoItem}, HandleCurrent(item)
      PROVE  StaleIsPassing'
  <2>1. CASE item = NoItem
    BY <1>3, <2>1 DEF HandleCurrent, StaleIsPassing
  <2> QED BY <1>1, <1>3, <2>1, RenderKeepsPassing DEF HandleCurrent
<1>4. ASSUME NEW e, DoSwap(e) PROVE StaleIsPassing'
  <2>1. UNCHANGED <<layers, currentItemID>> /\ SwapLayers
    BY <1>4 DEF DoSwap
  <2>2. /\ activeLayer' = Background /\ Background' = activeLayer
        /\ ToBeCleared(Background)'
        /\ ToBeCleared(Background) => ToBeCleared(activeLayer)'
    BY <2>1, SwapClears
  <2> QED BY <2>1, <2>2 DEF StaleIsPassing, Stale
<1>5. CASE ClearLayer
  <2>1. /\ Background' = Background
        /\ UNCHANGED <<activeLayer, currentItemID, swapTimeout>>
    BY <1>5 DEF ClearLayer, Background
  <2>2. \A l \in LayerNames :
          ToBeCleared(l) /\ l # Head(clearing) => ToBeCleared(l)'
    <3>1. /\ clearing \in Seq(LayerNames) /\ clearing # <<>>
          /\ clearing' = Tail(clearing)
      BY <1>5 DEF ClearLayer, TypeOK
    <3>2. /\ Len(clearing) \in Nat /\ DOMAIN clearing = 1 .. Len(clearing)
          /\ DOMAIN clearing' = 1 .. (Len(clearing) - 1)
          /\ Head(clearing) = clearing[1]
          /\ \A i \in 1 .. (Len(clearing) - 1) : clearing'[i] = clearing[i + 1]
      BY <3>1, HeadTailProperties, LenProperties
    <3>3. ASSUME NEW i \in DOMAIN clearing, i # 1
          PROVE  i - 1 \in DOMAIN clearing' /\ clearing'[i - 1] = clearing[i]
      BY <3>2, <3>3
    <3> QED BY <3>2, <3>3 DEF ToBeCleared
  <2>3. \A l \in LayerNames :
          Stale(l)' => Stale(l) /\ l # Head(clearing)
    BY <1>5 DEF ClearLayer, Put, Stale, TypeOK
  <2>4. activeLayer \in LayerNames
    BY DEF TypeOK
  <2> QED BY <2>1, <2>2, <2>3, <2>4 DEF StaleIsPassing
<1>6. CASE Rendering
  BY <1>4, <1>5, <1>6 DEF Rendering, Loaded, SwapFallback
<1>7. CASE OnReload
  BY <1>7 DEF OnReload, StaleIsPassing
<1>8. CASE Socket
  BY <1>1, <1>3, <1>7, <1>8
     DEF Socket, OnOpen, OnClose, ConnectWS, ConnectThrows, OnCurrent
<1>9. CASE Polling
  BY <1>1, <1>2, <1>3, <1>9 DEF Polling, Tick, TickSplash, TickItem
<1> QED BY <1>1, <1>6, <1>8, <1>9 DEF Next, vars

(* At rest the page never shows an item other than the last one: whatever  *)
(* items come while others load, and whenever their load events, fallbacks *)
(* and fades are over.                                                     *)
THEOREM PageIsNeverStale == Spec => []NeverStale
<1>1. Init => StaleIsPassing
  BY DEF Init, StaleIsPassing
<1>2. TypeOK /\ StaleIsPassing /\ [Next]_vars => StaleIsPassing'
  BY StaleIsPassingNext
<1>3. StaleIsPassing => NeverStale
  BY DEF StaleIsPassing, NeverStale, AtRest, Shows, Stale, ToBeCleared
<1> QED BY <1>1, <1>2, <1>3, TypeCorrect, PTL DEF Spec

=============================================================================
