---------------------------- MODULE LibraryProofs ----------------------------
(***************************************************************************)
(* What holds of the library for any number of handlers, requests and      *)
(* manifests.                                                              *)
(***************************************************************************)
EXTENDS Library, TLAPS

-----------------------------------------------------------------------------
(***************************************************************************)
(* The stages of the handlers.                                             *)
(***************************************************************************)
Changes == {"readBack", "remove", "signal"}

(* What follows what: a handler that has written the tables ends with its  *)
(* signal, unless it does not find the row it reads back.                  *)
RouteOK(route) ==
  /\ 1 \in DOMAIN route /\ DOMAIN route \subseteq 1 .. 5
  /\ \A i \in DOMAIN route :
       /\ route[i] # "signal" => i + 1 \in DOMAIN route
       /\ route[i] = "write" => route[i + 1] \in Changes
       /\ route[i] \in {"readBack", "remove"} => route[i + 1] = "signal"
       /\ i > 1 => route[i] # "keep"

LEMMA RoutesOK == \A op \in DOMAIN Routes : RouteOK(Routes[op])
<1>1. RouteOK(createContentJSON)
  BY DEF RouteOK, Changes, createContentJSON
<1>2. RouteOK(updateContent)
  BY DEF RouteOK, Changes, updateContent
<1>3. RouteOK(deleteContent)
  BY DEF RouteOK, Changes, deleteContent
<1>4. RouteOK(createPlaylist)
  BY DEF RouteOK, Changes, createPlaylist
<1>5. RouteOK(adminContentAddForm)
  BY DEF RouteOK, Changes, adminContentAddForm
<1>6. RouteOK(adminPlaylistCreate)
  BY DEF RouteOK, Changes, adminPlaylistCreate
<1>7. RouteOK(setPlaylistItems)
  BY DEF RouteOK, Changes, setPlaylistItems
<1>8. RouteOK(deletePlaylist)
  BY DEF RouteOK, Changes, deletePlaylist
<1>9. RouteOK(adminPlaylistDelete)
  BY DEF RouteOK, Changes, adminPlaylistDelete
<1>10. RouteOK(activatePlaylist)
  BY DEF RouteOK, Changes, activatePlaylist
<1>11. RouteOK(adminPlaylistActivate)
  BY DEF RouteOK, Changes, adminPlaylistActivate
<1>12. RouteOK(createSchedule)
  BY DEF RouteOK, Changes, createSchedule
<1>13. RouteOK(adminScheduleCreate)
  BY DEF RouteOK, Changes, adminScheduleCreate
<1>14. RouteOK(updateSchedule)
  BY DEF RouteOK, Changes, updateSchedule
<1>15. RouteOK(deleteSchedule)
  BY DEF RouteOK, Changes, deleteSchedule
<1> QED
  BY <1>1, <1>2, <1>3, <1>4, <1>5, <1>6, <1>7, <1>8, <1>9, <1>10, <1>11, <1>12,
     <1>13, <1>14, <1>15
     DEF Routes, createContentUpload, adminContentAddUpload, adminContentDelete,
         adminScheduleDelete

(* Which requests have which stages.                                       *)
Keepers  == {"updateContent", "deleteContent", "adminContentDelete",
             "updateSchedule"}
Removers == {"deleteContent", "adminContentDelete"}

LEMMA StagesOf ==
  \A op \in DOMAIN Routes : \A i \in DOMAIN Routes[op] :
    /\ Routes[op][i] = "keep" => op \in Keepers
    /\ op \in Keepers => (Routes[op][i] = "keep" <=> i = 1)
    /\ Routes[op][i] = "save" => op \in OnContent \cap Creating
    /\ Routes[op][i] = "contents" => op = "setPlaylistItems"
    /\ Routes[op][i] = "remove" => op \in Removers
BY DEF Keepers, Removers, OnContent, Creating, Routes,
       createContentJSON, createContentUpload, adminContentAddForm,
       adminContentAddUpload, updateContent, deleteContent, adminContentDelete,
       createPlaylist, adminPlaylistCreate, setPlaylistItems, deletePlaylist,
       adminPlaylistDelete, activatePlaylist, adminPlaylistActivate,
       createSchedule, adminScheduleCreate, updateSchedule, deleteSchedule,
       adminScheduleDelete

-----------------------------------------------------------------------------
(***************************************************************************)
(* Statements on the tables.                                               *)
(***************************************************************************)
TablesOK == RowsOK(playlists, playlistItems, schedules, contentItems)

LEMMA WithTyped ==
  ASSUME NEW t, NEW S, NEW Row, IsTable(t, S, Row), NEW id \in S, NEW row \in Row
  PROVE  IsTable(With(t, id, row), S, Row)
BY DEF IsTable, With

LEMMA WithoutTyped ==
  ASSUME NEW t, NEW S, NEW Row, IsTable(t, S, Row), NEW id
  PROVE  IsTable(Without(t, id), S, Row)
BY DEF IsTable, Without

LEMMA PutPlaylistTyped ==
  ASSUME TablesOK, NEW p \in Playlists, NEW origin \in Origins,
         PutPlaylist(p, origin)
  PROVE  /\ IsTable(playlists', Playlists, PlaylistRow)
         /\ UNCHANGED <<schedules, contentItems>>
<1> DEFINE row == [origin |-> origin,
                   isDefault |-> p \in DOMAIN playlists /\ playlists[p].isDefault]
<1>1. (p \in DOMAIN playlists /\ playlists[p].isDefault) \in BOOLEAN
  BY Zenon
<1>2. row \in PlaylistRow
  BY <1>1 DEF PlaylistRow
<1> QED BY <1>2, WithTyped DEF PutPlaylist, TablesOK, RowsOK

LEMMA PutScheduleTyped ==
  ASSUME TablesOK, NEW s \in Schedules, NEW p \in Playlists, NEW priority \in Nat,
         NEW origin \in Origins, PutSchedule(s, p, priority, origin)
  PROVE  TablesOK'
<1> DEFINE row == [playlist |-> p, priority |-> priority, origin |-> origin]
<1>1. row \in ScheduleRow
  BY DEF ScheduleRow
<1> QED BY <1>1, WithTyped DEF PutSchedule, TablesOK, RowsOK

LEMMA PutContentTyped ==
  ASSUME TablesOK, NEW k \in Contents, NEW version \in Versions,
         NEW origin \in Origins, NEW checksum \in Versions \cup {NoChecksum},
         NEW file \in Contents \cup {Elsewhere},
         PutContent(k, version, origin, checksum, file)
  PROVE  TablesOK'
<1> DEFINE row == [version |-> version, origin |-> origin, checksum |-> checksum,
                   file |-> file]
<1>1. row \in ContentRow
  BY DEF ContentRow
<1> QED BY <1>1, WithTyped DEF PutContent, TablesOK, RowsOK

LEMMA SetItemsTyped ==
  ASSUME TablesOK, NEW p \in Playlists, NEW s \in Seq(Contents), SetItems(p, s)
  PROVE  /\ DOMAIN playlistItems' = Playlists
         /\ \A q \in Playlists : IsTable(playlistItems'[q], Nat, Contents)
<1>1. IsTable(s, Nat, Contents)
  BY DEF IsTable
<1> QED BY <1>1 DEF SetItems, TablesOK, RowsOK

LEMMA DeletePlaylistTyped ==
  ASSUME TablesOK, NEW p, DeletePlaylistRow(p)
  PROVE  TablesOK'
<1>1. IsTable(playlists', Playlists, PlaylistRow)
  BY WithoutTyped DEF DeletePlaylistRow, TablesOK, RowsOK
<1>2. CASE foreignKeys
  <2>1. IsTable(<<>>, Nat, Contents)
    BY DEF IsTable
  <2>2. playlistItems' = [playlistItems EXCEPT ![p] = <<>>]
    BY <1>2 DEF DeletePlaylistRow
  <2>3. IsTable(schedules', Schedules, ScheduleRow)
    BY <1>2 DEF DeletePlaylistRow, TablesOK, RowsOK, IsTable
  <2> QED BY <1>1, <2>1, <2>2, <2>3 DEF DeletePlaylistRow, TablesOK, RowsOK
<1>3. CASE ~foreignKeys
  BY <1>1, <1>3 DEF DeletePlaylistRow, TablesOK, RowsOK
<1> QED BY <1>2, <1>3

LEMMA DeleteContentTyped ==
  ASSUME TablesOK, NEW k, DeleteContentRow(k)
  PROVE  TablesOK'
<1>1. IsTable(contentItems', Contents, ContentRow)
  BY WithoutTyped DEF DeleteContentRow, TablesOK, RowsOK
<1>2. CASE foreignKeys
  <2>1. /\ DOMAIN playlistItems' = Playlists
        /\ UNCHANGED <<playlists, schedules>>
    BY <1>2 DEF DeleteContentRow
  <2>2. ASSUME NEW p \in Playlists
        PROVE  IsTable(playlistItems'[p], Nat, Contents)
    <3> DEFINE items == playlistItems[p]
               left  == {j \in DOMAIN items : items[j] # k}
    <3>1. playlistItems'[p] = [i \in left |-> items[i]]
      BY <1>2 DEF DeleteContentRow
    <3>2. IsTable(items, Nat, Contents)
      BY DEF TablesOK, RowsOK
    <3> HIDE DEF items
    <3> QED BY <3>1, <3>2 DEF IsTable
  <2> QED BY <1>1, <2>1, <2>2 DEF TablesOK, RowsOK
<1>3. CASE ~foreignKeys
  BY <1>1, <1>3 DEF DeleteContentRow, TablesOK, RowsOK
<1> QED BY <1>2, <1>3

LEMMA DeleteScheduleTyped ==
  ASSUME TablesOK, NEW s, DeleteScheduleRow(s)
  PROVE  TablesOK'
BY WithoutTyped DEF DeleteScheduleRow, TablesOK, RowsOK

LEMMA SetDefaultTyped ==
  ASSUME TablesOK, NEW p, SetDefault(p)
  PROVE  TablesOK'
<1>1. \A r : (r = p) \in BOOLEAN
  BY Zenon
<1>2. ASSUME NEW row \in PlaylistRow, NEW on \in BOOLEAN
      PROVE  [row EXCEPT !.isDefault = on] \in PlaylistRow
  BY DEF PlaylistRow
<1>3. IsTable(playlists, Playlists, PlaylistRow)
  BY DEF TablesOK, RowsOK
<1>4. playlists' =
        [r \in DOMAIN playlists |-> [playlists[r] EXCEPT !.isDefault = (r = p)]]
  BY DEF SetDefault
<1>5. IsTable(playlists', Playlists, PlaylistRow)
  BY <1>1, <1>2, <1>3, <1>4 DEF IsTable
<1> QED BY <1>5 DEF SetDefault, TablesOK, RowsOK

(* What a request writes, by its operation.                                *)
LEMMA Effects ==
  ASSUME NEW r \in Requests, NEW row, Execute(r, row)
  PROVE  \/ r.op \in OnContent \cap Creating /\ InsertContent(r)
         \/ r.op = "updateContent" /\ UpdateContent(r, row)
         \/ r.op \in Removers /\ DeleteContentRow(r.id)
         \/ r.op \in {"createPlaylist", "adminPlaylistCreate"} /\ InsertPlaylist(r)
         \/ r.op = "setPlaylistItems" /\ ReplaceItems(r)
         \/ /\ r.op \in {"deletePlaylist", "adminPlaylistDelete"}
            /\ DeletePlaylistRow(r.id)
         \/ r.op \in {"activatePlaylist", "adminPlaylistActivate"} /\ SetDefault(r.id)
         \/ r.op \in {"createSchedule", "adminScheduleCreate"} /\ InsertSchedule(r)
         \/ r.op = "updateSchedule" /\ UpdateSchedule(r, row)
         \/ r.op \in {"deleteSchedule", "adminScheduleDelete"} /\ DeleteScheduleRow(r.id)
<1>1. r.op \in DOMAIN Routes
  BY RequestAssumption DEF RequestRow
<1> QED BY <1>1 DEF Execute, Removers, Routes, OnContent, Creating

KeptRow(op) == IF op \in OnContent THEN ContentRow ELSE ScheduleRow

LEMMA RequestTyped ==
  ASSUME NEW r \in Requests
  PROVE  /\ r \in RequestRow
         /\ r.op \in OnContent => r.id \in Contents
         /\ r.op \in OnSchedule => r.id \in Schedules
         /\ r.op \notin OnContent \cup OnSchedule => r.id \in Playlists
         /\ r.op \in {"createSchedule", "adminScheduleCreate"} =>
              r.playlist \in Playlists /\ r.priority \in Nat
<1>1. OnContent \cap OnSchedule = {}
  BY DEF OnContent, OnSchedule
<1>2. {"createSchedule", "adminScheduleCreate"} \subseteq Creating \cap OnSchedule
  BY DEF Creating, OnSchedule
<1> QED BY <1>1, <1>2, RequestAssumption DEF About

LEMMA ExecuteTyped ==
  ASSUME TablesOK, NEW r \in Requests, NEW row,
         r.op \in Keepers => row \in KeptRow(r.op), Execute(r, row)
  PROVE  TablesOK'
<1> USE RequestTyped DEF RequestRow, Origins
<1>1. CASE r.op \in OnContent \cap Creating /\ InsertContent(r)
  <2>1. (IF r.id \in Media THEN r.id ELSE Elsewhere) \in Contents \cup {Elsewhere}
    BY LibraryAssumption
  <2> QED BY <1>1, <2>1, PutContentTyped DEF InsertContent
<1>2. CASE r.op = "updateContent" /\ UpdateContent(r, row)
  <2>1. row \in ContentRow /\ r.id \in Contents
    BY <1>2 DEF Keepers, KeptRow, OnContent
  <2>2. Source(r, row) \in Contents \cup {Elsewhere}
    BY <2>1 DEF Source, ContentRow
  <2>3. CASE r.id \in DOMAIN contentItems
    <3>1. /\ contentItems[r.id].origin \in Origins
          /\ contentItems[r.id].checksum \in Versions \cup {NoChecksum}
      BY <2>3 DEF TablesOK, RowsOK, IsTable, ContentRow
    <3> QED BY <1>2, <2>1, <2>2, <2>3, <3>1, PutContentTyped DEF UpdateContent
  <2>4. CASE r.id \notin DOMAIN contentItems
    BY <1>2, <2>4 DEF UpdateContent, tables, TablesOK
  <2> QED BY <2>3, <2>4
<1>3. CASE r.op \in Removers /\ DeleteContentRow(r.id)
  BY <1>3, DeleteContentTyped
<1>4. CASE r.op \in {"createPlaylist", "adminPlaylistCreate"} /\ InsertPlaylist(r)
  <2>1. r.id \in Playlists
    BY <1>4 DEF OnContent, OnSchedule
  <2> QED BY <1>4, <2>1, PutPlaylistTyped DEF InsertPlaylist, TablesOK, RowsOK
<1>5. CASE r.op = "setPlaylistItems" /\ ReplaceItems(r)
  <2>1. r.id \in Playlists /\ r.items \in Seq(Contents)
    BY <1>5 DEF OnContent, OnSchedule
  <2> QED BY <1>5, <2>1, SetItemsTyped DEF ReplaceItems, TablesOK, RowsOK
<1>6. CASE /\ r.op \in {"deletePlaylist", "adminPlaylistDelete"}
           /\ DeletePlaylistRow(r.id)
  <2>1. r.id \in Playlists
    BY <1>6 DEF OnContent, OnSchedule
  <2> QED BY <1>6, <2>1, DeletePlaylistTyped
<1>7. CASE /\ r.op \in {"activatePlaylist", "adminPlaylistActivate"}
           /\ SetDefault(r.id)
  BY <1>7, SetDefaultTyped
<1>8. CASE /\ r.op \in {"createSchedule", "adminScheduleCreate"}
           /\ InsertSchedule(r)
  <2>1. r.id \in Schedules
    BY <1>8 DEF OnSchedule
  <2> QED BY <1>8, <2>1, PutScheduleTyped DEF InsertSchedule
<1>9. CASE r.op = "updateSchedule" /\ UpdateSchedule(r, row)
  <2>1. row \in ScheduleRow /\ r.id \in Schedules
    BY <1>9 DEF Keepers, KeptRow, OnContent, OnSchedule
  <2>2. Target(r, row) \in Playlists /\ Priority(r, row) \in Nat
    BY <2>1 DEF Target, Priority, ScheduleRow
  <2>3. CASE r.id \in DOMAIN schedules
    <3>1. schedules[r.id].origin \in Origins
      BY <2>3 DEF TablesOK, RowsOK, IsTable, ScheduleRow
    <3> QED BY <1>9, <2>1, <2>2, <2>3, <3>1, PutScheduleTyped DEF UpdateSchedule
  <2>4. CASE r.id \notin DOMAIN schedules
    BY <1>9, <2>4 DEF UpdateSchedule, tables, TablesOK
  <2> QED BY <2>3, <2>4
<1>10. CASE /\ r.op \in {"deleteSchedule", "adminScheduleDelete"}
            /\ DeleteScheduleRow(r.id)
  BY <1>10, DeleteScheduleTyped
<1> QED BY <1>1, <1>2, <1>3, <1>4, <1>5, <1>6, <1>7, <1>8, <1>9, <1>10, Effects

-----------------------------------------------------------------------------
(***************************************************************************)
(* How handlers move.                                                      *)
(***************************************************************************)
Busy(h) == req[h] # NoRequest

HandlersOK ==
  /\ req \in [Handlers -> Requests \cup {NoRequest}]
  /\ step \in [Handlers -> 1 .. 5]
  /\ asked \in [Handlers -> Nat]
  /\ kept \in [Handlers -> ScheduleRow \cup ContentRow \cup {NoRow}]

(* A busy handler is at a stage of its route, and has kept the row it read.*)
StagesOK ==
  \A h \in Handlers :
    IF Busy(h)
    THEN /\ step[h] \in DOMAIN Routes[req[h].op]
         /\ req[h].op \in Keepers /\ step[h] > 1 => kept[h] \in KeptRow(req[h].op)
    ELSE step[h] = 1

HandlersInv == HandlersOK /\ StagesOK

LEMMA Serving ==
  ASSUME HandlersInv, NEW h \in Handlers, NEW stage, At(h, stage)
  PROVE  /\ req[h] \in Requests /\ req[h].op \in DOMAIN Routes
         /\ step[h] \in DOMAIN Routes[req[h].op]
         /\ Routes[req[h].op][step[h]] = stage
         /\ RouteOK(Routes[req[h].op])
BY RequestAssumption, RoutesOK
   DEF HandlersInv, HandlersOK, StagesOK, Busy, RequestRow, At

LEMMA ReceiveOK ==
  ASSUME HandlersInv, NEW h \in Handlers, NEW r \in Requests, Receive(h, r)
  PROVE  HandlersInv'
<1>1. /\ r.op \in DOMAIN Routes /\ RouteOK(Routes[r.op])
      /\ r # NoRequest
  BY RequestAssumption, LibraryAssumption, RoutesOK DEF RequestRow
<1>2. 1 \in DOMAIN Routes[r.op]
  BY <1>1 DEF RouteOK
<1>3. step[h] = 1 /\ UNCHANGED <<step, asked, kept>> /\ req' = [req EXCEPT ![h] = r]
  BY DEF Receive, HandlersInv, StagesOK, Busy
<1>4. HandlersOK'
  BY <1>3 DEF HandlersInv, HandlersOK
<1>5. req'[h] = r /\ \A g \in Handlers : g # h => req'[g] = req[g]
  BY <1>3 DEF HandlersInv, HandlersOK
<1>6. StagesOK'
  BY <1>1, <1>2, <1>3, <1>5 DEF HandlersInv, StagesOK, Busy
<1> QED BY <1>4, <1>6 DEF HandlersInv

LEMMA ProceedOK ==
  ASSUME HandlersInv, NEW h \in Handlers, NEW stage, At(h, stage), Proceed(h),
         stage # "signal",
         IF stage = "keep"
         THEN \E row \in KeptRow(req[h].op) : kept' = [kept EXCEPT ![h] = row]
         ELSE UNCHANGED kept
  PROVE  HandlersInv'
<1>1. /\ req[h] \in Requests /\ req[h].op \in DOMAIN Routes
      /\ step[h] \in DOMAIN Routes[req[h].op]
      /\ Routes[req[h].op][step[h]] = stage
      /\ RouteOK(Routes[req[h].op])
  BY Serving
<1>2. /\ UNCHANGED req /\ step' = [step EXCEPT ![h] = step[h] + 1]
      /\ asked' = [asked EXCEPT ![h] = 0]
  BY DEF Proceed
<1>3. step[h] + 1 \in DOMAIN Routes[req[h].op] /\ step[h] + 1 \in 1 .. 5
  BY <1>1 DEF RouteOK
<1>4. kept' \in [Handlers -> ScheduleRow \cup ContentRow \cup {NoRow}]
  BY DEF HandlersInv, HandlersOK, KeptRow
<1>5. HandlersOK'
  BY <1>2, <1>3, <1>4 DEF HandlersInv, HandlersOK
<1>6. req[h].op \in Keepers => kept'[h] \in KeptRow(req[h].op)
  <2>1. CASE stage = "keep"
    BY <2>1 DEF HandlersInv, HandlersOK
  <2>2. CASE stage # "keep"
    <3>1. req[h].op \in Keepers => step[h] # 1
      BY <1>1, <2>2, StagesOf
    <3>2. step[h] \in 1 .. 5 /\ Busy(h)
      BY DEF HandlersInv, HandlersOK, At, Busy
    <3> QED BY <2>2, <3>1, <3>2 DEF HandlersInv, StagesOK
  <2> QED BY <2>1, <2>2
<1>7. /\ \A g \in Handlers : g # h => step'[g] = step[g] /\ kept'[g] = kept[g]
      /\ step'[h] = step[h] + 1
  BY <1>2 DEF HandlersInv, HandlersOK
<1>8. Busy(h)
  BY DEF At, Busy
<1>9. StagesOK'
  BY <1>2, <1>3, <1>6, <1>7, <1>8 DEF HandlersInv, StagesOK, Busy
<1> QED BY <1>5, <1>9 DEF HandlersInv

LEMMA ReturnOK ==
  ASSUME HandlersInv, NEW h \in Handlers, Return(h)
  PROVE  HandlersInv'
<1>1. HandlersOK'
  BY DEF HandlersInv, HandlersOK, Return
<1>2. /\ ~Busy(h)' /\ step'[h] = 1
      /\ \A g \in Handlers : g # h =>
           req'[g] = req[g] /\ step'[g] = step[g] /\ kept'[g] = kept[g]
  BY DEF HandlersInv, HandlersOK, Return, Busy
<1>3. StagesOK'
  BY <1>2 DEF HandlersInv, StagesOK, Busy
<1> QED BY <1>1, <1>3 DEF HandlersInv

LEMMA UnlessOK ==
  ASSUME HandlersInv, NEW h \in Handlers, NEW stage, At(h, stage),
         stage \notin {"signal", "keep"}, NEW found, Unless(h, found)
  PROVE  HandlersInv'
BY ProceedOK, ReturnOK DEF Unless

LEMMA KeepOK ==
  ASSUME HandlersInv, TablesOK, NEW h \in Handlers, Keep(h)
  PROVE  HandlersInv'
<1>1. CASE Return(h)
  BY <1>1, ReturnOK
<1>2. CASE ~Return(h)
  <2>1. /\ At(h, "keep") /\ req[h].id \in Rows(req[h].op) /\ Proceed(h)
        /\ kept' = [kept EXCEPT ![h] =
             IF Serves(h, OnContent) THEN contentItems[req[h].id]
             ELSE schedules[req[h].id]]
    BY <1>2 DEF Keep
  <2>2. req[h].op \in Keepers
    BY <2>1, Serving, StagesOf
  <2>3. (IF Serves(h, OnContent) THEN contentItems[req[h].id]
         ELSE schedules[req[h].id]) \in KeptRow(req[h].op)
    BY <2>1, <2>2
       DEF Rows, KeptRow, Serves, Keepers, OnContent, OnSchedule, TablesOK, RowsOK, IsTable
  <2> QED BY <2>1, <2>3, ProceedOK
<1> QED BY <1>1, <1>2

(* A step of one handler.                                                  *)
LEMMA HandleOK ==
  ASSUME HandlersInv, TablesOK, NEW h \in Handlers, Handle(h)
  PROVE  HandlersInv'
<1>1. CASE Read(h)
  BY <1>1, UnlessOK DEF Read
<1>2. CASE Keep(h)
  BY <1>2, KeepOK
<1>3. CASE NotDefault(h)
  BY <1>3, UnlessOK DEF NotDefault
<1>4. CASE Count(h)
  BY <1>4, UnlessOK DEF Count
<1>5. CASE CheckContent(h)
  <2>1. CASE Proceed(h) /\ UNCHANGED kept
    BY <1>5, <2>1, ProceedOK DEF CheckContent
  <2>2. CASE Return(h)
    BY <2>2, ReturnOK
  <2>3. CASE asked' = [asked EXCEPT ![h] = @ + 1] /\ UNCHANGED <<req, step, kept>>
    BY <2>3 DEF HandlersInv, HandlersOK, StagesOK, Busy
  <2> QED BY <1>5, <2>1, <2>2, <2>3 DEF CheckContent
<1>6. CASE CheckTarget(h)
  BY <1>6, UnlessOK DEF CheckTarget
<1>7. CASE Write(h)
  BY <1>7, ProceedOK, ReturnOK DEF Write
<1>8. CASE ReadBack(h)
  BY <1>8, UnlessOK DEF ReadBack
<1>9. CASE Signal(h)
  BY <1>9, ReturnOK DEF Signal
<1>10. CASE Save(h)
  BY <1>10, ProceedOK, ReturnOK DEF Save
<1>11. CASE BeginUpload(h)
  BY <1>11 DEF BeginUpload, handlerVars, HandlersInv, HandlersOK, StagesOK, Busy
<1>12. CASE Remove(h)
  BY <1>12, ProceedOK DEF Remove
<1> QED BY <1>1, <1>2, <1>3, <1>4, <1>5, <1>6, <1>7, <1>8, <1>9, <1>10, <1>11,
           <1>12 DEF Handle

-----------------------------------------------------------------------------
(***************************************************************************)
(* Type correctness.                                                       *)
(***************************************************************************)
IdsOK ==
  /\ {manifest, stale, created} \subseteq SUBSET AnyId
  /\ applied \in [Kinds -> {None} \cup SUBSET AnyId]

SyncOK ==
  /\ phase \in {"idle", "apply", "download", "upsert", "delete"}
  /\ kind \in Kinds
  /\ todo \in Seq(ManifestRow(kind))
  /\ phase \in {"download", "upsert"} => kind = "content" /\ todo # <<>>
  /\ phase \in {"idle", "delete"} => todo = <<>>

MediaOK ==
  /\ media \in [Contents -> Versions \cup {NoFile, Partial}]
  /\ taken \subseteq Contents

LoopOK == reload \in BOOLEAN /\ silent \in BOOLEAN

Typed == TablesOK /\ MediaOK /\ HandlersInv /\ SyncOK /\ IdsOK /\ LoopOK

LEMMA TypedIsTypeOK == Typed => TypeOK
BY DEF Typed, TablesOK, MediaOK, HandlersInv, HandlersOK, SyncOK, IdsOK, LoopOK,
       TypeOK

LEMMA TypedInit == Init => Typed
<1> SUFFICES ASSUME Init PROVE Typed
  OBVIOUS
<1>1. PICK t \in InitialTables :
        /\ playlists = t.playlists /\ playlistItems = t.playlistItems
        /\ schedules = t.schedules /\ contentItems = t.contentItems
        /\ media = [k \in Contents |->
             IF k \in Media \cap DOMAIN t.contentItems
             THEN t.contentItems[k].version ELSE NoFile]
        /\ taken = {}
  BY Zenon DEF Init
<1>2. TablesOK
  BY <1>1, TablesAssumption DEF TablesOK
<1>3. MediaOK
  BY <1>1, <1>2 DEF MediaOK, TablesOK, RowsOK, IsTable, ContentRow
<1>4. HandlersInv
  BY DEF Init, HandlersInv, HandlersOK, StagesOK, Busy
<1>5. SyncOK
  <2>1. /\ phase = "idle" /\ kind = "playlist" /\ todo = <<>>
    BY Zenon DEF Init
  <2> QED BY <2>1 DEF SyncOK, Kinds
<1>6. LoopOK
  BY Zenon DEF Init, LoopOK
<1>7. IdsOK
  <2>1. created \subseteq AnyId
    <3>1. created = DOMAIN playlists \cup DOMAIN schedules \cup DOMAIN contentItems
      BY Zenon DEF Init
    <3> QED BY <1>2, <3>1 DEF TablesOK, RowsOK, IsTable, AnyId
  <2> QED BY <2>1 DEF Init, IdsOK
<1> QED BY <1>2, <1>3, <1>4, <1>5, <1>6, <1>7 DEF Typed

(* The row that is next, and what is left after it.                        *)
LEMMA NextRow ==
  ASSUME SyncOK, todo # <<>>
  PROVE  /\ Head(todo) \in ManifestRow(kind)
         /\ Tail(todo) \in Seq(ManifestRow(kind))
BY DEF SyncOK

LEMMA TodoTyped ==
  ASSUME SyncOK, UNCHANGED kind, UNCHANGED todo \/ (todo # <<>> /\ todo' = Tail(todo))
  PROVE  kind' \in Kinds /\ todo' \in Seq(ManifestRow(kind'))
<1>1. Seq(ManifestRow(kind')) = Seq(ManifestRow(kind))
  BY Zenon
<1> QED BY <1>1, NextRow DEF SyncOK

LEMMA RowTyped ==
  ASSUME SyncOK, NEW row \in ManifestRow(kind)
  PROVE  /\ kind = "playlist" => row.id \in Playlists /\ row.items \in Seq(Contents)
         /\ kind = "schedule" => /\ row.id \in Schedules /\ row.playlist \in Playlists
                                 /\ row.priority \in Nat
         /\ kind = "content"  => /\ row.id \in Contents /\ row.version \in Versions
                                 /\ row.checksum \in Versions \cup {NoChecksum}
         /\ kind \notin {"playlist", "schedule"} => kind = "content"
BY DEF SyncOK, ManifestRow, Kinds

LEMMA SyncTyped ==
  ASSUME TablesOK, SyncOK, NEW row \in ManifestRow(kind), Sync(row)
  PROVE  TablesOK'
<1> USE RowTyped DEF Origins
<1>1. CASE UNCHANGED tables
  BY <1>1 DEF tables, TablesOK
<1>2. CASE kind = "playlist" /\ ~UNCHANGED tables
  <2>1. PutPlaylist(row.id, "cloud") /\ SetItems(row.id, row.items)
    BY <1>2 DEF Sync, SyncPlaylist, Skip
  <2> QED BY <1>2, <2>1, PutPlaylistTyped, SetItemsTyped DEF TablesOK, RowsOK
<1>3. CASE kind = "schedule" /\ ~UNCHANGED tables
  <2>1. PutSchedule(row.id, row.playlist, row.priority, "cloud")
    BY <1>3 DEF Sync, SyncSchedule, Skip
  <2> QED BY <1>3, <2>1, PutScheduleTyped
<1>4. CASE kind \notin {"playlist", "schedule"} /\ ~UNCHANGED tables
  <2>1. PutContent(row.id, row.version, "cloud", row.checksum, Elsewhere)
    BY <1>4 DEF Sync, SyncItem, Skip
  <2> QED BY <1>4, <2>1, PutContentTyped
<1> QED BY <1>1, <1>2, <1>3, <1>4

LEMMA StaleTyped ==
  ASSUME TablesOK, NEW id, DeleteStale(id)
  PROVE  TablesOK'
BY DeletePlaylistTyped, DeleteScheduleTyped, DeleteContentTyped
   DEF DeleteStale

LEMMA MediaTyped ==
  ASSUME MediaOK, NEW k, NEW file \in Versions \cup {NoFile, Partial},
         Store(k, file) \/ UNCHANGED <<media, taken>>
  PROVE  MediaOK'
BY DEF MediaOK, Store

LEMMA IdsNext == Typed /\ [Next]_vars => IdsOK'
<1> SUFFICES ASSUME Typed, [Next]_vars PROVE IdsOK'
  OBVIOUS
<1> USE DEF Typed
<1>1. CASE UNCHANGED <<manifest, stale, created, applied>>
  BY <1>1 DEF IdsOK
<1>2. ASSUME NEW h \in Handlers, NEW r \in Requests, Receive(h, r) PROVE IdsOK'
  <2>1. r.id \in AnyId
    BY RequestTyped DEF RequestRow
  <2> QED BY <1>2, <2>1 DEF Receive, IdsOK, syncVars
<1>3. ASSUME NEW k \in Kinds, SyncReceive(k) PROVE IdsOK'
  <2>1. PICK m \in Manifests(k) : manifest' = Ids(m)
    BY <1>3 DEF SyncReceive
  <2>2. m \in Seq(ManifestRow(k))
    BY ManifestAssumption
  <2>3. \A i \in DOMAIN m : m[i].id \in AnyId
    <3>1. \A i \in DOMAIN m : m[i] \in ManifestRow(k)
      BY <2>2
    <3> QED BY <3>1 DEF ManifestRow, AnyId
  <2>4. manifest' \subseteq AnyId
    BY <2>1, <2>3 DEF Ids
  <2> QED BY <1>3, <2>4 DEF SyncReceive, IdsOK, handlerVars
<1>4. CASE SyncCollect
  <2>1. CloudIds(kind) \subseteq AnyId
    BY DEF CloudIds, TablesOK, RowsOK, IsTable, AnyId
  <2> QED BY <1>4, <2>1 DEF SyncCollect, IdsOK, handlerVars
<1>5. ASSUME NEW id, SyncDelete(id) PROVE IdsOK'
  BY <1>5 DEF SyncDelete, IdsOK, handlerVars
<1>6. CASE SyncEnd
  BY <1>6 DEF SyncEnd, IdsOK, handlerVars
<1>7. CASE Restart
  BY <1>7 DEF Restart, IdsOK
<1>8. ASSUME NEW h \in Handlers, Handle(h) PROVE IdsOK'
  <2>1. UNCHANGED <<manifest, stale, created, applied>>
    BY <1>8
       DEF Handle, Read, Keep, NotDefault, Count, CheckContent, CheckTarget,
           Write, ReadBack, Signal, Save, BeginUpload, Remove, Unless, Proceed,
           Return, handlerVars, syncVars
  <2> QED BY <1>1, <2>1
<1>9. CASE \/ SyncApply \/ SyncDownload \/ SyncVerified \/ SyncUpsert
           \/ SyncItemFails \/ LoopReloads \/ UNCHANGED vars
  <2>1. UNCHANGED <<manifest, stale, created, applied>>
    BY <1>9 DEF SyncApply, Apply, SyncDownload, SyncVerified, SyncUpsert,
                SyncItemFails, LoopReloads, vars, handlerVars, syncVars
  <2> QED BY <1>1, <2>1
<1> QED BY <1>2, <1>3, <1>4, <1>5, <1>6, <1>7, <1>8, <1>9 DEF Next, SyncStep

LEMMA TypedNext == Typed /\ [Next]_vars => Typed'
<1> SUFFICES ASSUME Typed, [Next]_vars
             PROVE  (TablesOK /\ MediaOK /\ HandlersInv /\ SyncOK /\ LoopOK)'
  BY IdsNext DEF Typed
<1> USE DEF Typed
<1> DEFINE Goal == (TablesOK /\ MediaOK /\ HandlersInv /\ SyncOK /\ LoopOK)'
<1>1. ASSUME NEW h \in Handlers, NEW r \in Requests, Receive(h, r) PROVE Goal
  <2>1. UNCHANGED <<stored, syncVars, loopVars>>
    BY <1>1 DEF Receive
  <2>2. HandlersInv'
    BY <1>1, ReceiveOK
  <2> QED BY <2>1, <2>2 DEF stored, tables, syncVars, loopVars, TablesOK,
                            MediaOK, SyncOK, LoopOK
<1>2. ASSUME NEW h \in Handlers, Handle(h) PROVE Goal
  <2>1. HandlersInv'
    BY <1>2, HandleOK
  <2>2. SyncOK'
    BY <1>2 DEF Handle, Read, Keep, NotDefault, Count, CheckContent, CheckTarget,
                Write, ReadBack, Signal, Save, BeginUpload, Remove, syncVars, SyncOK
  <2>3. LoopOK'
    BY <1>2, Zenon
       DEF Handle, Read, Keep, NotDefault, Count, CheckContent, CheckTarget,
           Write, ReadBack, Signal, Save, BeginUpload, Remove, loopVars, LoopOK
  <2>4. TablesOK'
    <3>1. CASE UNCHANGED tables
      BY <3>1 DEF tables, TablesOK
    <3>2. CASE Write(h) /\ ~UNCHANGED tables
      <4>1. At(h, "write") /\ Execute(req[h], kept[h])
        BY <3>2 DEF Write
      <4>2. req[h] \in Requests
        BY <4>1, Serving
      <4>3. req[h].op \in Keepers => kept[h] \in KeptRow(req[h].op)
        <5>1. req[h].op \in Keepers => step[h] # 1
          BY <4>1, Serving, StagesOf
        <5>2. step[h] \in 1 .. 5 /\ Busy(h)
          BY <4>1 DEF HandlersInv, HandlersOK, At, Busy
        <5> QED BY <5>1, <5>2 DEF HandlersInv, StagesOK
      <4> QED BY <4>1, <4>2, <4>3, ExecuteTyped
    <3> QED BY <1>2, <3>1, <3>2
            DEF Handle, Read, Keep, NotDefault, Count, CheckContent,
                CheckTarget, ReadBack, Signal, Save, BeginUpload, Remove, stored
  <2>5. MediaOK'
    <3>1. CASE UNCHANGED <<media, taken>>
      BY <3>1 DEF MediaOK
    <3>2. CASE Save(h)
      <4>1. req[h].version \in Versions
        BY <3>2, Serving, RequestTyped DEF Save, RequestRow
      <4> QED BY <3>2, <4>1, MediaTyped DEF Save
    <3>3. CASE BeginUpload(h)
      BY <3>3, MediaTyped DEF BeginUpload
    <3>4. CASE Remove(h)
      BY <3>4 DEF Remove, MediaOK
    <3> QED BY <1>2, <3>1, <3>2, <3>3, <3>4
            DEF Handle, Read, Keep, NotDefault, Count, CheckContent,
                CheckTarget, Write, ReadBack, Signal, stored
  <2> QED BY <2>1, <2>2, <2>3, <2>4, <2>5
<1>3. ASSUME SyncStep PROVE Goal
  <2>1. HandlersInv'
    BY <1>3 DEF SyncStep, SyncReceive, SyncApply, Apply, SyncDownload,
                SyncVerified, SyncUpsert, SyncItemFails, SyncCollect, SyncDelete,
                SyncEnd, handlerVars, HandlersInv, HandlersOK, StagesOK, Busy
  <2>2. LoopOK'
    <3>1. silent' \in BOOLEAN
      BY <1>3, Zenon
         DEF SyncStep, SyncReceive, SyncApply, Apply, SyncDownload,
             SyncVerified, SyncUpsert, SyncItemFails, SyncCollect, SyncDelete,
             SyncEnd, loopVars, LoopOK
    <3>2. reload' \in BOOLEAN
      BY <1>3, Zenon
         DEF SyncStep, SyncReceive, SyncApply, Apply, SyncDownload,
             SyncVerified, SyncUpsert, SyncItemFails, SyncCollect, SyncDelete,
             SyncEnd, loopVars, LoopOK
    <3> QED BY <3>1, <3>2 DEF LoopOK
  <2> SUFFICES (TablesOK /\ MediaOK /\ SyncOK)'
    BY <2>1, <2>2
  <2>3. ASSUME NEW k \in Kinds, SyncReceive(k) PROVE (TablesOK /\ MediaOK /\ SyncOK)'
    <3>1. todo' \in Seq(ManifestRow(k)) /\ phase' = "apply" /\ kind' = k
      BY <2>3, ManifestAssumption DEF SyncReceive
    <3> QED BY <2>3, <3>1
            DEF SyncReceive, SyncOK, stored, tables, TablesOK, MediaOK
  <2>4. CASE SyncApply
    <3>1. /\ phase' = "apply" /\ UNCHANGED <<kind, media, taken>>
          /\ todo # <<>> /\ todo' = Tail(todo) /\ Sync(Head(todo))
      BY <2>4 DEF SyncApply, Apply
    <3>2. TablesOK'
      BY <3>1, NextRow, SyncTyped
    <3>3. kind' \in Kinds /\ todo' \in Seq(ManifestRow(kind'))
      BY <3>1, TodoTyped
    <3>4. SyncOK'
      BY <3>1, <3>3 DEF SyncOK
    <3>5. MediaOK'
      BY <3>1 DEF MediaOK
    <3> QED BY <3>2, <3>4, <3>5
  <2>5. CASE SyncDownload
    <3>1. kind = "content" /\ todo # <<>> /\ UNCHANGED <<kind, todo, tables>>
      BY <2>5 DEF SyncDownload, Downloads
    <3> QED BY <2>5, <3>1, MediaTyped, TodoTyped
            DEF SyncDownload, SyncOK, tables, TablesOK
  <2>6. CASE SyncVerified
    <3>1. kind = "content" /\ todo # <<>> /\ UNCHANGED <<kind, todo, tables>>
      BY <2>6 DEF SyncVerified, SyncOK
    <3>2. Head(todo).version \in Versions
      BY <3>1, NextRow, RowTyped
    <3> QED BY <2>6, <3>1, <3>2, MediaTyped, TodoTyped
            DEF SyncVerified, SyncOK, tables, TablesOK
  <2>7. CASE SyncUpsert
    <3>1. kind = "content" /\ todo # <<>> /\ UNCHANGED <<kind, media>>
      BY <2>7 DEF SyncUpsert, SyncOK
    <3>2. Head(todo).id \in Contents /\ Head(todo).version \in Versions
      BY <3>1, NextRow, RowTyped
    <3>3. TablesOK'
      BY <2>7, <3>2, PutContentTyped DEF SyncUpsert, Origins
    <3> QED BY <2>7, <3>1, <3>3, TodoTyped DEF SyncUpsert, SyncOK, MediaOK
  <2>8. CASE SyncItemFails
    <3>1. /\ todo # <<>> /\ todo' = Tail(todo) /\ phase' = "apply"
          /\ UNCHANGED <<kind, tables>>
      BY <2>8 DEF SyncItemFails
    <3>2. MediaOK'
      BY <2>8, MediaTyped DEF SyncItemFails
    <3> QED BY <3>1, <3>2, TodoTyped DEF SyncOK, tables, TablesOK
  <2>9. CASE SyncCollect
    BY <2>9, TodoTyped
       DEF SyncCollect, SyncOK, stored, tables, TablesOK, MediaOK
  <2>10. CASE SyncEnd
    BY <2>10 DEF SyncEnd, SyncOK, stored, tables, TablesOK, MediaOK, Kinds
  <2>11. ASSUME NEW id, SyncDelete(id) PROVE (TablesOK /\ MediaOK /\ SyncOK)'
    <3>1. TablesOK'
      BY <2>11, StaleTyped DEF SyncDelete
    <3> QED BY <2>11, <3>1 DEF SyncDelete, SyncOK, MediaOK
  <2> QED BY <1>3, <2>3, <2>4, <2>5, <2>6, <2>7, <2>8, <2>9, <2>10,
             <2>11 DEF SyncStep
<1>4. CASE LoopReloads
  <2>1. LoopOK'
    BY <1>4, Zenon DEF LoopReloads, LoopOK
  <2> QED BY <1>4, <2>1
          DEF LoopReloads, stored, tables, handlerVars, syncVars, TablesOK,
              MediaOK, HandlersInv, HandlersOK, StagesOK, Busy, SyncOK
<1>5. CASE Restart
  <2>1. LoopOK'
    BY <1>5, Zenon DEF Restart, LoopOK
  <2>2. HandlersInv'
    BY <1>5 DEF Restart, HandlersInv, HandlersOK, StagesOK, Busy
  <2>3. SyncOK'
    BY <1>5 DEF Restart, SyncOK, Kinds
  <2> QED BY <1>5, <2>1, <2>2, <2>3 DEF Restart, stored, tables, TablesOK, MediaOK
<1>6. CASE UNCHANGED vars
  BY <1>6 DEF vars, stored, tables, handlerVars, syncVars, loopVars, TablesOK,
              MediaOK, HandlersInv, HandlersOK, StagesOK, Busy, SyncOK, LoopOK
<1> QED BY <1>1, <1>2, <1>3, <1>4, <1>5, <1>6 DEF Next

(* Every row of every table keeps its type and refers to ids there can be, *)
(* whatever handlers, syncs and the driver do to the rows in which order.  *)
THEOREM TypeCorrect == Spec => []TypeOK
BY TypedInit, TypedNext, TypedIsTypeOK, PTL DEF Spec

-----------------------------------------------------------------------------
(***************************************************************************)
(* Rows and where they come from.                                          *)
(***************************************************************************)
CloudOf(table) == {id \in DOMAIN table : table[id].origin = "cloud"}

(* The rows from the cloud have ids of the cloud, the others ids of ours.  *)
CameFrom(table) ==
  \A id \in DOMAIN table :
    id \in IF table[id].origin = "local" THEN OwnIds ELSE ForeignIds

OriginsOK ==
  /\ CameFrom(playlists) /\ CameFrom(schedules) /\ CameFrom(contentItems)
  /\ \A i \in DOMAIN todo : todo[i].id \in ForeignIds
  /\ manifest \subseteq ForeignIds /\ stale \subseteq ForeignIds

LEMMA CloudIdsAre ==
  /\ CloudIds("playlist") = CloudOf(playlists)
  /\ CloudIds("schedule") = CloudOf(schedules)
  /\ CloudIds("content") = CloudOf(contentItems)
BY DEF CloudIds, CloudOf

(* A handler's statement brings in no row from the cloud, and a row of     *)
(* ours that is new has an id of ours.                                     *)
OwnOnly(table, new) ==
  /\ CloudOf(new) \subseteq CloudOf(table)
  /\ CameFrom(table) => CameFrom(new)

LEMMA SameOwnOnly == \A table : OwnOnly(table, table)
BY DEF OwnOnly

LEMMA WithoutOwnOnly == \A table, id : OwnOnly(table, Without(table, id))
BY DEF OwnOnly, CloudOf, CameFrom, Without

LEMMA WithOwnOnly ==
  ASSUME NEW table, NEW id, NEW row,
         \/ row.origin = "local" /\ id \in OwnIds
         \/ id \in DOMAIN table /\ row.origin = table[id].origin
  PROVE  OwnOnly(table, With(table, id, row))
BY DEF OwnOnly, CloudOf, CameFrom, With

LEMMA CreatesOwn ==
  ASSUME NEW r \in Requests, r.op \in Creating
  PROVE  r.id \in OwnIds
BY DEF OwnIds

LEMMA DeletePlaylistOwnOnly ==
  ASSUME NEW p, DeletePlaylistRow(p)
  PROVE  /\ OwnOnly(playlists, playlists') /\ OwnOnly(schedules, schedules')
         /\ OwnOnly(contentItems, contentItems')
<1>1. OwnOnly(playlists, playlists') /\ OwnOnly(contentItems, contentItems')
  BY SameOwnOnly, WithoutOwnOnly DEF DeletePlaylistRow
<1>2. CASE foreignKeys
  BY <1>1, <1>2 DEF DeletePlaylistRow, OwnOnly, CloudOf, CameFrom
<1>3. CASE ~foreignKeys
  BY <1>1, <1>3, SameOwnOnly DEF DeletePlaylistRow
<1> QED BY <1>2, <1>3

LEMMA ExecuteOwnOnly ==
  ASSUME TablesOK, NEW r \in Requests, NEW row, Execute(r, row)
  PROVE  /\ OwnOnly(playlists, playlists') /\ OwnOnly(schedules, schedules')
         /\ OwnOnly(contentItems, contentItems')
<1> USE SameOwnOnly
<1>1. CASE r.op \in OnContent \cap Creating /\ InsertContent(r)
  BY <1>1, CreatesOwn, WithOwnOnly DEF InsertContent, PutContent
<1>2. CASE UpdateContent(r, row)
  BY <1>2, WithOwnOnly DEF UpdateContent, PutContent, tables
<1>3. CASE DeleteContentRow(r.id)
  BY <1>3, WithoutOwnOnly DEF DeleteContentRow
<1>4. CASE r.op \in {"createPlaylist", "adminPlaylistCreate"} /\ InsertPlaylist(r)
  BY <1>4, CreatesOwn, WithOwnOnly DEF InsertPlaylist, PutPlaylist, Creating
<1>5. CASE ReplaceItems(r)
  BY <1>5 DEF ReplaceItems
<1>6. CASE DeletePlaylistRow(r.id)
  BY <1>6, DeletePlaylistOwnOnly
<1>7. CASE SetDefault(r.id)
  BY <1>7
     DEF SetDefault, OwnOnly, CloudOf, CameFrom, TablesOK, RowsOK, IsTable,
         PlaylistRow
<1>8. CASE r.op \in {"createSchedule", "adminScheduleCreate"} /\ InsertSchedule(r)
  BY <1>8, CreatesOwn, WithOwnOnly DEF InsertSchedule, PutSchedule, Creating
<1>9. CASE UpdateSchedule(r, row)
  BY <1>9, WithOwnOnly DEF UpdateSchedule, PutSchedule, tables
<1>10. CASE DeleteScheduleRow(r.id)
  BY <1>10, WithoutOwnOnly DEF DeleteScheduleRow
<1> QED BY <1>1, <1>2, <1>3, <1>4, <1>5, <1>6, <1>7, <1>8, <1>9, <1>10, Effects

(* Of what a handler does, only a write concerns the tables.               *)
LEMMA HandleWrites ==
  ASSUME Typed, NEW h \in Handlers, Handle(h)
  PROVE  \/ UNCHANGED tables
         \/ /\ At(h, "write") /\ req[h] \in Requests
            /\ Execute(req[h], kept[h]) /\ Proceed(h) /\ UNCHANGED kept
<1>1. CASE Write(h) /\ ~UNCHANGED tables
  <2>1. At(h, "write") /\ Execute(req[h], kept[h]) /\ Proceed(h) /\ UNCHANGED kept
    BY <1>1 DEF Write
  <2> QED BY <2>1, Serving DEF Typed
<1>2. CASE ~Write(h)
  BY <1>2 DEF Handle, Read, Keep, NotDefault, Count, CheckContent, CheckTarget,
              ReadBack, Signal, Save, BeginUpload, Remove, stored
<1> QED BY <1>1, <1>2

LEMMA HandleOwnOnly ==
  ASSUME Typed, NEW h \in Handlers, Handle(h)
  PROVE  /\ OwnOnly(playlists, playlists') /\ OwnOnly(schedules, schedules')
         /\ OwnOnly(contentItems, contentItems')
<1>1. CASE UNCHANGED tables
  BY <1>1, SameOwnOnly DEF tables
<1>2. CASE Execute(req[h], kept[h]) /\ req[h] \in Requests
  BY <1>2, ExecuteOwnOnly DEF Typed
<1> QED BY <1>1, <1>2, HandleWrites

(* A statement of a sync puts in, or takes out, a row with an id of the    *)
(* cloud.                                                                  *)
LEMMA WithForeign ==
  ASSUME NEW table, CameFrom(table), NEW id \in ForeignIds, NEW row,
         row.origin = "cloud"
  PROVE  CameFrom(With(table, id, row))
BY DEF CameFrom, With

(* A row of the manifest goes into the table of its kind.                  *)
Puts(row) ==
  \E new : /\ new.origin = "cloud"
           /\ \/ /\ kind = "playlist"
                 /\ playlists' = With(playlists, row.id, new)
                 /\ UNCHANGED <<schedules, contentItems>>
              \/ /\ kind = "schedule"
                 /\ schedules' = With(schedules, row.id, new)
                 /\ UNCHANGED <<playlists, contentItems>>
              \/ /\ kind = "content"
                 /\ contentItems' = With(contentItems, row.id, new)
                 /\ UNCHANGED <<playlists, schedules>>

LEMMA SyncPuts ==
  ASSUME Typed, todo # <<>>, Sync(Head(todo)), ~UNCHANGED tables
  PROVE  Puts(Head(todo))
<1>1. kind \in {"playlist", "schedule", "content"}
  BY DEF Typed, SyncOK, Kinds
<1> DEFINE row == Head(todo)
<1>2. CASE kind = "playlist"
  <2>1. PutPlaylist(row.id, "cloud")
    BY <1>2 DEF Sync, SyncPlaylist, Skip
  <2> HIDE DEF row
  <2>2. PICK new : playlists' = With(playlists, row.id, new) /\ new.origin = "cloud"
    BY <2>1 DEF PutPlaylist
  <2> QED BY <1>2, <2>1, <2>2 DEF Puts, PutPlaylist, row
<1>3. CASE kind = "schedule"
  <2>1. PutSchedule(row.id, row.playlist, row.priority, "cloud")
    BY <1>3 DEF Sync, SyncSchedule, Skip
  <2> HIDE DEF row
  <2>2. PICK new : schedules' = With(schedules, row.id, new) /\ new.origin = "cloud"
    BY <2>1 DEF PutSchedule
  <2> QED BY <1>3, <2>1, <2>2 DEF Puts, PutSchedule, row
<1>4. CASE kind = "content"
  <2>1. PutContent(row.id, row.version, "cloud", row.checksum, Elsewhere)
    BY <1>4 DEF Sync, SyncItem, Skip
  <2> HIDE DEF row
  <2>2. PICK new : contentItems' = With(contentItems, row.id, new) /\ new.origin = "cloud"
    BY <2>1 DEF PutContent
  <2> QED BY <1>4, <2>1, <2>2 DEF Puts, PutContent, row
<1> QED BY <1>1, <1>2, <1>3, <1>4

LEMMA UpsertPuts ==
  ASSUME Typed, SyncUpsert
  PROVE  todo # <<>> /\ Puts(Head(todo))
<1>1. kind = "content" /\ todo # <<>>
  BY DEF Typed, SyncOK, SyncUpsert
<1> DEFINE row == Head(todo)
<1>2. PutContent(row.id, row.version, "cloud", row.version, row.id)
  BY DEF SyncUpsert
<1> HIDE DEF row
<1>3. PICK new : contentItems' = With(contentItems, row.id, new) /\ new.origin = "cloud"
  BY <1>2 DEF PutContent
<1> QED BY <1>1, <1>2, <1>3 DEF Puts, PutContent, row

(* What a step of a sync does to the tables.                               *)
LEMMA SyncEffects ==
  ASSUME Typed, SyncStep
  PROVE  \/ UNCHANGED tables
         \/ todo # <<>> /\ Puts(Head(todo)) /\ phase # "delete" /\ phase' = "apply"
         \/ \E id \in stale : /\ phase = "delete" /\ DeleteStale(id)
                              /\ stale' = stale \ {id}
<1>1. CASE SyncApply
  BY <1>1, SyncPuts DEF SyncApply, Apply
<1>2. CASE SyncUpsert
  BY <1>2, UpsertPuts DEF SyncUpsert
<1>3. ASSUME NEW id, SyncDelete(id)
      PROVE  \E i \in stale : /\ phase = "delete" /\ DeleteStale(i)
                              /\ stale' = stale \ {i}
  BY <1>3 DEF SyncDelete
<1>4. CASE \/ \E k \in Kinds : SyncReceive(k)
           \/ SyncDownload \/ SyncVerified \/ SyncItemFails \/ SyncCollect
           \/ SyncEnd
  BY <1>4 DEF SyncReceive, SyncDownload, SyncVerified, SyncItemFails,
              SyncCollect, SyncEnd, stored
<1> QED BY <1>1, <1>2, <1>3, <1>4 DEF SyncStep

LEMMA NextForeign ==
  ASSUME OriginsOK, SyncOK, todo # <<>>
  PROVE  /\ Head(todo).id \in ForeignIds
         /\ \A i \in DOMAIN Tail(todo) : Tail(todo)[i].id \in ForeignIds
<1>1. Head(todo) = todo[1] /\ 1 \in DOMAIN todo
  BY DEF SyncOK
<1>2. \A i \in DOMAIN Tail(todo) : i + 1 \in DOMAIN todo /\ Tail(todo)[i] = todo[i + 1]
  BY DEF SyncOK
<1> QED BY <1>1, <1>2 DEF OriginsOK

LEMMA OriginsInit == Init => OriginsOK
<1> SUFFICES ASSUME Init PROVE OriginsOK
  OBVIOUS
<1>1. PICK t \in InitialTables :
        /\ playlists = t.playlists /\ schedules = t.schedules
        /\ contentItems = t.contentItems
  BY Zenon DEF Init
<1>2. /\ \A id \in DOMAIN playlists : playlists[id].origin \in Origins
      /\ \A id \in DOMAIN schedules : schedules[id].origin \in Origins
      /\ \A id \in DOMAIN contentItems : contentItems[id].origin \in Origins
  BY TypedInit DEF Typed, TablesOK, RowsOK, IsTable, PlaylistRow, ScheduleRow,
                   ContentRow
<1>3. /\ IdsFrom(t, "local") \subseteq OwnIds
      /\ IdsFrom(t, "cloud") \subseteq ForeignIds
  <2>1. \A origin : IdsFrom(t, origin) \subseteq Initially(origin)
    BY Zenon DEF Initially
  <2>2. Initially("local") \subseteq OwnIds
    BY Zenon DEF OwnIds
  <2>3. Initially("cloud") \subseteq ForeignIds
    BY DEF ForeignIds
  <2> QED BY Zenon, <2>1, <2>2, <2>3
<1>4. CameFrom(playlists) /\ CameFrom(schedules) /\ CameFrom(contentItems)
  BY <1>1, <1>2, <1>3 DEF CameFrom, IdsFrom, Origins
<1> QED BY <1>4 DEF Init, OriginsOK

LEMMA OriginsNext == Typed /\ OriginsOK /\ [Next]_vars => OriginsOK'
<1> SUFFICES ASSUME Typed, OriginsOK, [Next]_vars PROVE OriginsOK'
  OBVIOUS
<1> DEFINE RowsFrom == CameFrom(playlists) /\ CameFrom(schedules) /\ CameFrom(contentItems)
           Listed   == /\ \A i \in DOMAIN todo : todo[i].id \in ForeignIds
                       /\ manifest \subseteq ForeignIds /\ stale \subseteq ForeignIds
<1>1. RowsFrom'
  <2>1. CASE UNCHANGED tables
    BY <2>1 DEF OriginsOK, tables
  <2>2. ASSUME NEW h \in Handlers, Handle(h) PROVE RowsFrom'
    BY <2>2, HandleOwnOnly DEF OriginsOK, OwnOnly
  <2>3. CASE todo # <<>> /\ Puts(Head(todo))
    <3>1. Head(todo).id \in ForeignIds
      BY <2>3, NextForeign DEF Typed
    <3> QED BY <2>3, <3>1, WithForeign DEF Puts, OriginsOK
  <2>4. ASSUME NEW id, DeleteStale(id) PROVE RowsFrom'
    BY <2>4, DeletePlaylistOwnOnly, WithoutOwnOnly, SameOwnOnly
       DEF DeleteStale, DeleteScheduleRow, DeleteContentRow, OriginsOK, OwnOnly
  <2>5. CASE SyncStep
    BY <2>1, <2>3, <2>4, <2>5, SyncEffects
  <2>6. CASE \/ \E h \in Handlers, r \in Requests : Receive(h, r)
             \/ LoopReloads \/ Restart \/ UNCHANGED vars
    BY <2>1, <2>6 DEF Receive, LoopReloads, Restart, vars, stored
  <2> QED BY <2>2, <2>5, <2>6 DEF Next
<1>2. Listed'
  <2>1. CASE UNCHANGED <<todo, manifest>> /\ stale' \subseteq stale
    BY <2>1 DEF OriginsOK
  <2>2. ASSUME NEW k \in Kinds, SyncReceive(k) PROVE Listed'
    <3>1. PICK m \in Manifests(k) : todo' = m /\ manifest' = Ids(m)
      BY <2>2 DEF SyncReceive
    <3>2. Ids(m) \subseteq ForeignIds
      BY DEF ForeignIds, SentIds
    <3> QED BY <2>2, <3>1, <3>2 DEF SyncReceive, OriginsOK, Ids
  <2>3. CASE todo # <<>> /\ todo' = Tail(todo) /\ UNCHANGED <<manifest, stale>>
    <3>1. \A i \in DOMAIN Tail(todo) : Tail(todo)[i].id \in ForeignIds
      BY <2>3, NextForeign DEF Typed
    <3> QED BY <2>3, <3>1 DEF OriginsOK
  <2>4. CASE SyncCollect
    <3>1. CloudIds(kind) \subseteq ForeignIds
      BY CloudIdsAre DEF OriginsOK, CameFrom, CloudOf, Typed, SyncOK, Kinds
    <3> QED BY <2>4, <3>1 DEF SyncCollect, OriginsOK
  <2>5. CASE SyncEnd
    BY <2>5 DEF SyncEnd, OriginsOK
  <2>6. CASE Restart
    BY <2>6 DEF Restart
  <2>7. CASE SyncApply \/ SyncUpsert \/ SyncItemFails
    <3>1. todo # <<>>
      BY <2>7 DEF SyncApply, SyncUpsert, SyncItemFails, Typed, SyncOK
    <3> QED BY <2>3, <2>7, <3>1 DEF SyncApply, Apply, SyncUpsert, SyncItemFails
  <2>8. CASE SyncDownload \/ SyncVerified
    BY <2>1, <2>8 DEF SyncDownload, SyncVerified
  <2>9. ASSUME NEW id, SyncDelete(id) PROVE Listed'
    BY <2>1, <2>9 DEF SyncDelete
  <2>10. CASE \/ \E h \in Handlers : Handle(h)
              \/ \E h \in Handlers, r \in Requests : Receive(h, r)
              \/ LoopReloads \/ UNCHANGED vars
    <3>1. UNCHANGED <<todo, manifest, stale>>
      BY <2>10 DEF Handle, Read, Keep, NotDefault, Count, CheckContent,
                   CheckTarget, Write, ReadBack, Signal, Save, BeginUpload,
                   Remove, Receive, LoopReloads, vars, syncVars
    <3> QED BY <2>1, <3>1
  <2> QED BY <2>2, <2>4, <2>5, <2>6, <2>7, <2>8, <2>9, <2>10 DEF Next, SyncStep
<1> QED BY <1>1, <1>2 DEF OriginsOK

-----------------------------------------------------------------------------
(***************************************************************************)
(* Local rows.                                                             *)
(***************************************************************************)
LocalOf(table) == {<<id, table[id]>> : id \in DOMAIN table \ CloudOf(table)}

LEMMA LocalRowsAre ==
  /\ LocalRows("playlist") = LocalOf(playlists)
  /\ LocalRows("schedule") = LocalOf(schedules)
  /\ LocalRows("content") = LocalOf(contentItems)
BY CloudIdsAre DEF LocalRows, LocalOf

(* An id of the cloud is no local row's.                                   *)
LEMMA ForeignIsCloud ==
  ASSUME NEW table, CameFrom(table), NEW id \in ForeignIds, id \in DOMAIN table,
         table[id].origin \in Origins
  PROVE  id \in CloudOf(table)
BY IdAssumption DEF CameFrom, CloudOf, Origins

LEMMA SameLocal ==
  ASSUME NEW table, NEW new,
         \A x \in DOMAIN new \ CloudOf(new) :
           x \in DOMAIN table \ CloudOf(table) /\ new[x] = table[x],
         \A x \in DOMAIN table \ CloudOf(table) :
           x \in DOMAIN new \ CloudOf(new) /\ new[x] = table[x]
  PROVE  LocalOf(new) = LocalOf(table)
<1>1. LocalOf(new) \subseteq LocalOf(table)
  BY Zenon DEF LocalOf
<1>2. LocalOf(table) \subseteq LocalOf(new)
  BY Zenon DEF LocalOf
<1> QED BY <1>1, <1>2

LEMMA WithKeepsLocal ==
  ASSUME NEW table, NEW id, id \in DOMAIN table => id \in CloudOf(table),
         NEW row, row.origin = "cloud"
  PROVE  LocalOf(With(table, id, row)) = LocalOf(table)
<1> DEFINE new == With(table, id, row)
<1>1. /\ \A x \in DOMAIN new \ CloudOf(new) :
           x \in DOMAIN table \ CloudOf(table) /\ new[x] = table[x]
      /\ \A x \in DOMAIN table \ CloudOf(table) :
           x \in DOMAIN new \ CloudOf(new) /\ new[x] = table[x]
  BY DEF With, CloudOf
<1> HIDE DEF new
<1>2. LocalOf(new) = LocalOf(table)
  BY <1>1, SameLocal
<1> QED BY <1>2 DEF new

LEMMA WithoutKeepsLocal ==
  ASSUME NEW table, NEW id, id \in DOMAIN table => id \in CloudOf(table)
  PROVE  LocalOf(Without(table, id)) = LocalOf(table)
<1> DEFINE new == Without(table, id)
<1>1. /\ \A x \in DOMAIN new \ CloudOf(new) :
           x \in DOMAIN table \ CloudOf(table) /\ new[x] = table[x]
      /\ \A x \in DOMAIN table \ CloudOf(table) :
           x \in DOMAIN new \ CloudOf(new) /\ new[x] = table[x]
  BY DEF Without, CloudOf
<1> HIDE DEF new
<1>2. LocalOf(new) = LocalOf(table)
  BY <1>1, SameLocal
<1> QED BY <1>2 DEF new

(* The step of a sync, on its table.                                       *)
LEMMA LocalRowsStay ==
  ASSUME Typed, OriginsOK, SyncStep
  PROVE  \A k \in {kind} : LocalRows(k)' = LocalRows(k)
<1>1. /\ \A id \in DOMAIN playlists : playlists[id].origin \in Origins
      /\ \A id \in DOMAIN schedules : schedules[id].origin \in Origins
      /\ \A id \in DOMAIN contentItems : contentItems[id].origin \in Origins
  BY DEF Typed, TablesOK, RowsOK, IsTable, PlaylistRow, ScheduleRow, ContentRow
<1>2. ASSUME NEW id \in ForeignIds
      PROVE  /\ id \in DOMAIN playlists => id \in CloudOf(playlists)
             /\ id \in DOMAIN schedules => id \in CloudOf(schedules)
             /\ id \in DOMAIN contentItems => id \in CloudOf(contentItems)
  BY <1>1, ForeignIsCloud DEF OriginsOK
<1>3. kind \in {"playlist", "schedule", "content"}
  BY DEF Typed, SyncOK, Kinds
<1> SUFFICES /\ kind = "playlist" => LocalOf(playlists)' = LocalOf(playlists)
             /\ kind = "schedule" => LocalOf(schedules)' = LocalOf(schedules)
             /\ kind = "content"  => LocalOf(contentItems)' = LocalOf(contentItems)
  <2>1. /\ LocalRows("playlist")' = LocalOf(playlists)'
        /\ LocalRows("schedule")' = LocalOf(schedules)'
        /\ LocalRows("content")' = LocalOf(contentItems)'
    BY DEF LocalRows, LocalOf, CloudIds, CloudOf
  <2> QED BY <1>3, <2>1, LocalRowsAre
<1>4. CASE UNCHANGED tables
  BY <1>4 DEF tables
<1>5. CASE todo # <<>> /\ Puts(Head(todo))
  <2>1. Head(todo).id \in ForeignIds
    BY <1>5, NextForeign DEF Typed
  <2> QED BY <1>2, <1>5, <2>1, WithKeepsLocal DEF Puts
<1>6. ASSUME NEW id \in stale, DeleteStale(id)
      PROVE  /\ kind = "playlist" => LocalOf(playlists)' = LocalOf(playlists)
             /\ kind = "schedule" => LocalOf(schedules)' = LocalOf(schedules)
             /\ kind = "content"  => LocalOf(contentItems)' = LocalOf(contentItems)
  <2>1. id \in ForeignIds
    BY DEF OriginsOK
  <2> QED BY <1>2, <1>6, <2>1, WithoutKeepsLocal
          DEF DeleteStale, DeletePlaylistRow, DeleteScheduleRow, DeleteContentRow
<1> QED BY <1>4, <1>5, <1>6, SyncEffects

(* No sync changes, replaces or deletes a row of its kind that was made on *)
(* this player, whatever the cloud sends and handlers do meanwhile.        *)
THEOREM SyncsKeepLocalRows == Spec => LocalRowsPreserved
<1>1. Typed /\ OriginsOK /\ [Next]_vars
        => [SyncStep => \A k \in {kind} : LocalRows(k)' = LocalRows(k)]_vars
  BY LocalRowsStay
<1> QED BY <1>1, TypedInit, TypedNext, OriginsInit, OriginsNext, PTL
        DEF Spec, LocalRowsPreserved

-----------------------------------------------------------------------------
(***************************************************************************)
(* The rows of the cloud.                                                  *)
(***************************************************************************)

(* A sync that is under way has not been applied; when it deletes, what is *)
(* left to delete are all its rows that are not in the manifest.           *)
SyncIsComplete ==
  /\ phase # "idle" => applied[kind] = None
  /\ phase = "delete" => CloudIds(kind) \subseteq manifest \cup stale

CloudInv == SyncIsComplete /\ CloudRowsFollowManifest

(* Of the rows of a kind, those of the cloud grow only in its own sync.    *)
LEMMA CloudRowsGrow ==
  ASSUME Typed, [Next]_vars, NEW k \in Kinds
  PROVE  \/ CloudIds(k)' \subseteq CloudIds(k)
         \/ /\ k = kind /\ phase \notin {"idle", "delete"} /\ phase' = "apply"
            /\ UNCHANGED <<kind, applied>>
<1>1. CloudIds(k)' \subseteq CloudIds(k)
        <=> \/ k = "playlist" /\ CloudOf(playlists') \subseteq CloudOf(playlists)
            \/ k = "schedule" /\ CloudOf(schedules') \subseteq CloudOf(schedules)
            \/ k = "content" /\ CloudOf(contentItems') \subseteq CloudOf(contentItems)
  BY DEF CloudIds, CloudOf, Kinds
<1>2. k \in {"playlist", "schedule", "content"}
  BY DEF Kinds
<1>3. CASE UNCHANGED tables
  BY <1>1, <1>2, <1>3 DEF tables
<1>4. ASSUME NEW h \in Handlers, Handle(h)
      PROVE  CloudIds(k)' \subseteq CloudIds(k)
  BY <1>1, <1>2, <1>4, HandleOwnOnly DEF OwnOnly
<1>5. ASSUME NEW id, DeleteStale(id)
      PROVE  CloudIds(k)' \subseteq CloudIds(k)
  BY <1>1, <1>2, <1>5, DeletePlaylistOwnOnly, WithoutOwnOnly, SameOwnOnly
     DEF DeleteStale, DeleteScheduleRow, DeleteContentRow, OwnOnly
<1>6. CASE SyncApply \/ SyncUpsert
  <2>1. \/ UNCHANGED tables
        \/ Puts(Head(todo))
    BY <1>6, SyncPuts, UpsertPuts DEF SyncApply, Apply
  <2>2. k # kind => CloudIds(k)' \subseteq CloudIds(k)
    BY <1>1, <1>2, <1>3, <2>1 DEF Puts
  <2>3. /\ phase \in {"apply", "upsert"} /\ phase' = "apply"
        /\ UNCHANGED <<kind, applied>>
    BY <1>6 DEF SyncApply, Apply, SyncUpsert
  <2> QED BY <2>2, <2>3
<1>7. CASE SyncStep
  <2>1. CASE \E id : SyncDelete(id)
    BY <1>5, <2>1 DEF SyncDelete
  <2>2. CASE \/ \E j \in Kinds : SyncReceive(j)
             \/ SyncDownload \/ SyncVerified \/ SyncItemFails \/ SyncCollect
             \/ SyncEnd
    BY <1>3, <2>2 DEF SyncReceive, SyncDownload, SyncVerified, SyncItemFails,
                      SyncCollect, SyncEnd, stored
  <2> QED BY <1>6, <1>7, <2>1, <2>2 DEF SyncStep
<1>8. CASE \/ \E h \in Handlers, r \in Requests : Receive(h, r)
           \/ LoopReloads \/ Restart \/ UNCHANGED vars
  BY <1>3, <1>8 DEF Receive, LoopReloads, Restart, vars, stored
<1> QED BY <1>4, <1>7, <1>8 DEF Next

LEMMA CloudInit == Init => CloudInv
BY DEF Init, CloudInv, SyncIsComplete, CloudRowsFollowManifest

LEMMA CloudNext == Typed /\ CloudInv /\ [Next]_vars => CloudInv'
<1> SUFFICES ASSUME Typed, CloudInv, [Next]_vars PROVE CloudInv'
  OBVIOUS
<1> USE DEF CloudInv
<1>1. SyncIsComplete'
  <2>1. CASE phase' = "idle"
    BY <2>1 DEF SyncIsComplete
  <2>2. ASSUME NEW k \in Kinds, SyncReceive(k) PROVE SyncIsComplete'
    <3>1. phase' = "apply" /\ applied'[kind'] = None
      BY <2>2 DEF SyncReceive, Typed, IdsOK
    <3> QED BY <3>1 DEF SyncIsComplete
  <2>3. CASE /\ phase # "idle" /\ phase' \in {"apply", "download", "upsert"}
             /\ UNCHANGED <<kind, applied>>
    BY <2>3 DEF SyncIsComplete
  <2>4. CASE SyncCollect
    <3>1. CloudIds(kind)' = CloudIds(kind)
      BY <2>4 DEF SyncCollect, stored, tables, CloudIds
    <3> QED BY <2>4, <3>1 DEF SyncCollect, SyncIsComplete
  <2>5. ASSUME NEW id, SyncDelete(id) PROVE SyncIsComplete'
    <3>1. kind \in {"playlist", "schedule", "content"}
      BY DEF Typed, SyncOK, Kinds
    <3>2. CloudIds(kind)' \subseteq CloudIds(kind) \ {id}
      <4>1. CloudIds(kind)' \subseteq CloudIds(kind)
        BY <2>5, CloudRowsGrow DEF SyncDelete, Typed, SyncOK
      <4>2. id \notin CloudIds(kind)'
        BY <2>5, <3>1 DEF SyncDelete, DeleteStale, DeletePlaylistRow,
                          DeleteScheduleRow, DeleteContentRow, Without, CloudIds
      <4> QED BY <4>1, <4>2
    <3> QED BY <2>5, <3>2 DEF SyncDelete, SyncIsComplete
  <2>6. CASE UNCHANGED <<phase, kind, manifest, stale, applied>>
    <3>1. phase # "apply" \/ phase' # "delete"
      BY <2>6
    <3>2. phase = "delete" => CloudIds(kind)' \subseteq CloudIds(kind)
      BY <2>6, CloudRowsGrow DEF Typed, SyncOK
    <3> QED BY <2>6, <3>2 DEF SyncIsComplete
  <2>7. CASE \/ SyncApply \/ SyncDownload \/ SyncVerified \/ SyncUpsert
             \/ SyncItemFails
    BY <2>3, <2>7 DEF SyncApply, Apply, SyncDownload, SyncVerified, SyncUpsert,
                      SyncItemFails
  <2>8. CASE SyncEnd \/ Restart
    BY <2>1, <2>8 DEF SyncEnd, Restart
  <2>9. CASE \/ \E h \in Handlers : Handle(h)
             \/ \E h \in Handlers, r \in Requests : Receive(h, r)
             \/ LoopReloads \/ UNCHANGED vars
    <3>1. UNCHANGED <<phase, kind, manifest, stale, applied>>
      BY <2>9 DEF Handle, Read, Keep, NotDefault, Count, CheckContent,
                  CheckTarget, Write, ReadBack, Signal, Save, BeginUpload,
                  Remove, Receive, LoopReloads, vars, syncVars
    <3> QED BY <2>6, <3>1
  <2> QED BY <2>2, <2>4, <2>5, <2>7, <2>8, <2>9 DEF Next, SyncStep
<1>2. ASSUME NEW k \in Kinds, applied'[k] # None
      PROVE  CloudIds(k)' \subseteq applied'[k]
  <2>1. CASE CloudIds(k)' \subseteq CloudIds(k) /\ applied'[k] = applied[k]
    BY <1>2, <2>1 DEF CloudRowsFollowManifest
  <2>2. CASE applied' = applied
    <3>1. k # kind \/ phase = "idle"
      BY <1>2, <2>2 DEF SyncIsComplete
    <3> QED BY <2>1, <2>2, <3>1, CloudRowsGrow
  <2>3. ASSUME NEW j \in Kinds, SyncReceive(j)
        PROVE  CloudIds(k)' \subseteq CloudIds(k) /\ applied'[k] = applied[k]
    <3>1. CloudIds(k)' = CloudIds(k)
      BY <2>3 DEF SyncReceive, stored, tables, CloudIds
    <3>2. k # j
      BY <1>2, <2>3 DEF SyncReceive, Typed, IdsOK
    <3> QED BY <2>3, <3>1, <3>2 DEF SyncReceive, Typed, IdsOK
  <2>4. CASE SyncEnd
    <3>1. CloudIds(k)' = CloudIds(k)
      BY <2>4 DEF SyncEnd, stored, tables, CloudIds
    <3>2. CASE k = kind
      <4>1. CloudIds(k) \subseteq manifest /\ applied'[k] = manifest
        BY <2>4, <3>2 DEF SyncEnd, SyncIsComplete, Typed, IdsOK
      <4> QED BY <3>1, <4>1
    <3>3. CASE k # kind
      BY <2>1, <2>4, <3>1, <3>3 DEF SyncEnd, Typed, IdsOK
    <3> QED BY <3>2, <3>3
  <2>5. CASE ~SyncEnd /\ ~\E j \in Kinds : SyncReceive(j)
    <3>1. applied' = applied
      BY <2>5 DEF Next, SyncStep, SyncApply, Apply, SyncDownload, SyncVerified,
                  SyncUpsert, SyncItemFails, SyncCollect, SyncDelete, Handle,
                  Read, Keep, NotDefault, Count, CheckContent, CheckTarget,
                  Write, ReadBack, Signal, Save, BeginUpload, Remove, Receive,
                  LoopReloads, Restart, vars, syncVars
    <3> QED BY <2>2, <3>1
  <2> QED BY <2>1, <2>3, <2>4, <2>5
<1> QED BY <1>1, <1>2 DEF CloudRowsFollowManifest

(* Once a sync has ended, the rows that came from the cloud are rows of    *)
(* its manifest: no handler brings one back, no sync of another kind adds  *)
(* one, and a sync cut off by a restart has not been applied.              *)
THEOREM CloudRowsAreManifests == Spec => []CloudRowsFollowManifest
BY TypedInit, TypedNext, CloudInit, CloudNext, PTL DEF Spec, CloudInv

-----------------------------------------------------------------------------
(***************************************************************************)
(* A default playlist.                                                     *)
(*                                                                         *)
(* A playlist that is activated while somebody deletes it, as in           *)
(* MCLibrary_no_default, or that a manifest then drops, as in              *)
(* MCLibrary_default_dropped, leaves the player without a default.         *)
(* DefaultsStay is that this does not happen: of the requests and the      *)
(* manifests, that no playlist that is activated is ever deleted by        *)
(* request, and that the cloud names none that is activated or the         *)
(* default from the start.                                                 *)
(***************************************************************************)
Activations == {"activatePlaylist", "adminPlaylistActivate"}
Deletions   == {"deletePlaylist", "adminPlaylistDelete"}

IdsOf(ops) == {r.id : r \in {q \in Requests : q.op \in ops}}

FirstDefaults ==
  UNION {{p \in DOMAIN t.playlists : t.playlists[p].isDefault} : t \in InitialTables}

DefaultsStay ==
  /\ IdsOf(Activations) \cap IdsOf(Deletions) = {}
  /\ (IdsOf(Activations) \cup FirstDefaults) \cap ForeignIds = {}

(* The defaults are among those, no handler that is past its question for  *)
(* is_default deletes one, and what is about to be activated is there.     *)
DefaultsInv ==
  /\ HasDefault
  /\ Defaults \subseteq IdsOf(Activations) \cup FirstDefaults
  /\ \A h \in Handlers : Busy(h) /\ step[h] >= 2 =>
       /\ req[h].op \in Deletions => req[h].id \notin Defaults
       /\ req[h].op \in Activations => req[h].id \in DOMAIN playlists

LEMMA GuardedFirst ==
  \A op \in Activations \cup Deletions :
    /\ op \in DOMAIN Routes /\ op \notin Keepers \cup Creating
    /\ Routes[op][1] = IF op \in Activations THEN "read" ELSE "notDefault"
    /\ \A i \in DOMAIN Routes[op] : i > 1 =>
         Routes[op][i] \notin {"read", "notDefault"}
BY DEF Activations, Deletions, Keepers, Creating, Routes, deletePlaylist,
       adminPlaylistDelete, activatePlaylist, adminPlaylistActivate

(* How a handler moves in a step of its own; the others stay.              *)
LEMMA HandleMoves ==
  ASSUME Typed, NEW h \in Handlers, Handle(h)
  PROVE  /\ \A g \in Handlers \ {h} :
              req'[g] = req[g] /\ step'[g] = step[g] /\ kept'[g] = kept[g]
         /\ \/ ~Busy(h)'
            \/ /\ Busy(h) /\ req'[h] = req[h] /\ step'[h] = step[h] + 1
               /\ kept'[h] = kept[h] \/ At(h, "keep")
            \/ Busy(h) /\ req'[h] = req[h] /\ step'[h] = step[h] /\ kept'[h] = kept[h]
<1>1. /\ req \in [Handlers -> Requests \cup {NoRequest}]
      /\ step \in [Handlers -> 1 .. 5]
      /\ kept \in [Handlers -> ScheduleRow \cup ContentRow \cup {NoRow}]
  BY DEF Typed, HandlersInv, HandlersOK
<1>2. Busy(h)
  BY DEF Handle, Read, Keep, NotDefault, Count, CheckContent, CheckTarget,
         Write, ReadBack, Signal, Save, BeginUpload, Remove, At, Busy
<1>3. \/ Return(h)
      \/ Proceed(h) /\ UNCHANGED kept
      \/ /\ At(h, "keep") /\ Proceed(h)
         /\ \E row : kept' = [kept EXCEPT ![h] = row]
      \/ UNCHANGED <<req, step, kept>>
  BY DEF Handle, Read, Keep, NotDefault, Count, CheckContent, CheckTarget,
         Write, ReadBack, Signal, Save, BeginUpload, Remove, Unless, handlerVars
<1> QED BY <1>1, <1>2, <1>3 DEF Return, Proceed, Busy

LEMMA PutKeepsDefaults ==
  ASSUME NEW p, NEW origin, PutPlaylist(p, origin)
  PROVE  Defaults' = Defaults
BY DEF PutPlaylist, With, Defaults

LEMMA DeleteKeepsDefaults ==
  ASSUME NEW p, p \notin Defaults, DeletePlaylistRow(p)
  PROVE  Defaults' = Defaults
BY DEF DeletePlaylistRow, Without, Defaults

LEMMA SetDefaultSets ==
  ASSUME TablesOK, NEW p \in DOMAIN playlists, SetDefault(p)
  PROVE  Defaults' = {p}
BY DEF SetDefault, Defaults, TablesOK, RowsOK, IsTable, PlaylistRow

(* Only an activation changes the default; what may be activated stays.    *)
LEMMA DefaultsMove ==
  ASSUME DefaultsStay, Typed, OriginsOK, DefaultsInv, [Next]_vars
  PROVE  /\ \/ Defaults' = Defaults
            \/ \E p \in IdsOf(Activations) : Defaults' = {p}
         /\ \A p \in IdsOf(Activations) :
              p \in DOMAIN playlists => p \in DOMAIN playlists'
<1> DEFINE Stays == /\ Defaults' = Defaults
                    /\ \A p \in IdsOf(Activations) :
                         p \in DOMAIN playlists => p \in DOMAIN playlists'
<1>1. CASE UNCHANGED playlists
  BY <1>1 DEF Defaults
<1>2. ASSUME NEW p, NEW origin, PutPlaylist(p, origin) PROVE Stays
  BY <1>2, PutKeepsDefaults DEF PutPlaylist, With
<1>3. ASSUME NEW p, p \notin Defaults \cup IdsOf(Activations), DeletePlaylistRow(p)
      PROVE  Stays
  BY <1>3, DeleteKeepsDefaults DEF DeletePlaylistRow, Without
<1>4. ASSUME NEW h \in Handlers, At(h, "write"), req[h] \in Requests,
             Execute(req[h], kept[h])
      PROVE  \/ Stays \/ UNCHANGED playlists
             \/ /\ \E p \in IdsOf(Activations) : Defaults' = {p}
                /\ DOMAIN playlists' = DOMAIN playlists
  <2> DEFINE r == req[h]
  <2>1. r.op \in Activations \cup Deletions => step[h] >= 2
    <3>1. step[h] \in 1 .. 5
      BY DEF Typed, HandlersInv, HandlersOK
    <3>2. r.op \in Activations \cup Deletions => step[h] # 1
      BY <1>4, GuardedFirst DEF At
    <3> QED BY <3>1, <3>2
  <2>2. CASE r.op \in Deletions /\ DeletePlaylistRow(r.id)
    <3>1. r.id \notin Defaults
      BY <1>4, <2>1, <2>2 DEF DefaultsInv, At, Busy
    <3>2. r.id \notin IdsOf(Activations)
      BY <1>4, <2>2 DEF DefaultsStay, IdsOf
    <3> QED BY <1>3, <2>2, <3>1, <3>2
  <2>3. CASE r.op \in Activations /\ SetDefault(r.id)
    <3>1. r.id \in DOMAIN playlists /\ r.id \in IdsOf(Activations)
      BY <1>4, <2>1, <2>3 DEF DefaultsInv, At, Busy, IdsOf
    <3> QED BY <2>3, <3>1, SetDefaultSets DEF Typed, SetDefault
  <2>4. CASE InsertPlaylist(r)
    BY <1>2, <2>4 DEF InsertPlaylist
  <2>5. CASE UNCHANGED playlists
    BY <2>5
  <2>6. \/ r.op \in Deletions /\ DeletePlaylistRow(r.id)
        \/ r.op \in Activations /\ SetDefault(r.id)
        \/ InsertPlaylist(r)
        \/ UNCHANGED playlists
    BY <1>4, Effects
       DEF InsertContent, UpdateContent, PutContent, DeleteContentRow,
           ReplaceItems, InsertSchedule, UpdateSchedule, PutSchedule,
           DeleteScheduleRow, Activations, Deletions, tables
  <2> QED BY <2>2, <2>3, <2>4, <2>5, <2>6
<1>5. ASSUME NEW h \in Handlers, Handle(h)
      PROVE  \/ Stays \/ UNCHANGED playlists
             \/ /\ \E p \in IdsOf(Activations) : Defaults' = {p}
                /\ DOMAIN playlists' = DOMAIN playlists
  BY <1>4, <1>5, HandleWrites DEF tables
<1>6. CASE SyncApply
  <2>1. Sync(Head(todo))
    BY <1>6 DEF SyncApply, Apply
  <2> QED BY <1>1, <1>2, <2>1
          DEF Sync, SyncPlaylist, SyncSchedule, SyncItem, Skip, PutSchedule,
              PutContent, tables
<1>7. ASSUME NEW id, SyncDelete(id) PROVE Stays \/ UNCHANGED playlists
  <2>1. id \in ForeignIds
    BY <1>7 DEF SyncDelete, OriginsOK
  <2>2. id \notin Defaults \cup IdsOf(Activations)
    BY <2>1 DEF DefaultsStay, DefaultsInv
  <2> QED BY <1>3, <1>7, <2>2 DEF SyncDelete, DeleteStale, DeleteScheduleRow,
                                  DeleteContentRow
<1>8. CASE SyncUpsert
  BY <1>1, <1>8 DEF SyncUpsert, PutContent
<1>9. CASE \/ \E k \in Kinds : SyncReceive(k)
           \/ SyncDownload \/ SyncVerified \/ SyncItemFails \/ SyncCollect
           \/ SyncEnd \/ LoopReloads \/ Restart
           \/ \E h \in Handlers, r \in Requests : Receive(h, r)
           \/ UNCHANGED vars
  BY <1>1, <1>9 DEF SyncReceive, SyncDownload, SyncVerified, SyncItemFails,
                    SyncCollect, SyncEnd, LoopReloads, Restart, Receive, stored,
                    tables, vars
<1> QED BY <1>1, <1>5, <1>6, <1>7, <1>8, <1>9 DEF Next, SyncStep

LEMMA DefaultsInit == Init => DefaultsInv
<1> SUFFICES ASSUME Init PROVE DefaultsInv
  OBVIOUS
<1>1. PICK t \in InitialTables : playlists = t.playlists
  BY Zenon DEF Init
<1>2. HasDefault
  BY <1>1, TablesAssumption DEF HasDefault, Defaults
<1>3. Defaults \subseteq FirstDefaults
  BY <1>1 DEF Defaults, FirstDefaults
<1>4. \A h \in Handlers : ~Busy(h)
  BY DEF Init, Busy
<1> QED BY <1>2, <1>3, <1>4 DEF DefaultsInv

LEMMA DefaultsNext ==
  ASSUME DefaultsStay
  PROVE  Typed /\ OriginsOK /\ DefaultsInv /\ [Next]_vars => DefaultsInv'
<1> SUFFICES ASSUME Typed, OriginsOK, DefaultsInv, [Next]_vars PROVE DefaultsInv'
  OBVIOUS
<1> DEFINE HandlerOK(h) ==
             Busy(h) /\ step[h] >= 2 =>
               /\ req[h].op \in Deletions => req[h].id \notin Defaults
               /\ req[h].op \in Activations => req[h].id \in DOMAIN playlists
<1>1. HasDefault' /\ Defaults' \subseteq IdsOf(Activations) \cup FirstDefaults
  BY DefaultsMove DEF DefaultsInv, HasDefault
<1>2. ASSUME NEW g \in Handlers, req'[g] = req[g], step'[g] = step[g]
      PROVE  HandlerOK(g)'
  <2>1. Busy(g) => req[g] \in Requests
    BY DEF Typed, HandlersInv, HandlersOK, Busy
  <2>2. Busy(g) /\ req[g].op \in Deletions => req[g].id \notin IdsOf(Activations)
    BY <2>1 DEF DefaultsStay, IdsOf
  <2>3. Busy(g) /\ req[g].op \in Activations => req[g].id \in IdsOf(Activations)
    BY <2>1 DEF IdsOf
  <2> QED BY <1>2, <2>2, <2>3, DefaultsMove DEF DefaultsInv, Busy
<1>3. ASSUME NEW g \in Handlers, ~Busy(g)' \/ step'[g] = 1
      PROVE  HandlerOK(g)'
  BY <1>3
<1>4. ASSUME NEW h \in Handlers, Handle(h), NEW g \in Handlers
      PROVE  HandlerOK(g)'
  <2>1. CASE g # h
    BY <1>2, <1>4, <2>1, HandleMoves
  <2>2. CASE g = h /\ ~Busy(h)'
    BY <1>3, <2>2
  <2>3. CASE g = h /\ req'[h] = req[h] /\ step'[h] = step[h]
    BY <1>2, <2>3
  <2>4. CASE /\ g = h /\ Busy(h) /\ req'[h] = req[h] /\ step'[h] = step[h] + 1
    <3>1. step[h] \in 1 .. 5
      BY DEF Typed, HandlersInv, HandlersOK
    <3>2. CASE step[h] >= 2
      <4>1. Busy(h) => req[h] \in Requests
        BY DEF Typed, HandlersInv, HandlersOK, Busy
      <4>2. Busy(h) /\ req[h].op \in Deletions => req[h].id \notin IdsOf(Activations)
        BY <4>1 DEF DefaultsStay, IdsOf
      <4>3. Busy(h) /\ req[h].op \in Activations => req[h].id \in IdsOf(Activations)
        BY <4>1 DEF IdsOf
      <4> QED BY <2>4, <3>2, <4>2, <4>3, DefaultsMove DEF DefaultsInv, Busy
    <3>3. CASE step[h] = 1 /\ req[h].op \in Activations \cup Deletions
      <4>1. Routes[req[h].op][1] = IF req[h].op \in Activations
                                   THEN "read" ELSE "notDefault"
        BY <3>3, GuardedFirst
      <4>2. \/ At(h, "read") /\ Read(h)
            \/ At(h, "notDefault") /\ NotDefault(h)
        BY <1>4, <3>3, <4>1
           DEF Handle, Read, Keep, NotDefault, Count, CheckContent, CheckTarget,
               Write, ReadBack, Signal, Save, BeginUpload, Remove, At
      <4>3. UNCHANGED playlists
        BY <4>2 DEF Read, NotDefault, stored, tables
      <4>4. ~Return(h)
        BY <2>4 DEF Return, Busy, Typed, HandlersInv, HandlersOK
      <4>5. IF req[h].op \in Activations THEN req[h].id \in Rows(req[h].op)
            ELSE req[h].id \in DOMAIN playlists \ Defaults
        BY <3>3, <4>1, <4>2, <4>4 DEF Read, NotDefault, Unless, At
      <4>6. Rows(req[h].op) = DOMAIN playlists
        BY <3>3 DEF Rows, OnContent, OnSchedule, Activations, Deletions
      <4>7. Activations \cap Deletions = {}
        BY DEF Activations, Deletions
      <4>8. Defaults' = Defaults
        BY <4>3 DEF Defaults
      <4> QED BY <2>4, <4>3, <4>5, <4>6, <4>7, <4>8
    <3>4. CASE req[h].op \notin Activations \cup Deletions
      BY <2>4, <3>4
    <3> QED BY <3>1, <3>2, <3>3, <3>4
  <2> QED BY <1>4, <2>1, <2>2, <2>3, <2>4, HandleMoves
<1>5. ASSUME NEW h \in Handlers, NEW r \in Requests, Receive(h, r),
             NEW g \in Handlers
      PROVE  HandlerOK(g)'
  <2>1. step[h] = 1
    BY <1>5 DEF Receive, Typed, HandlersInv, StagesOK, Busy
  <2>2. g # h => req'[g] = req[g]
    BY <1>5 DEF Receive, Typed, HandlersInv, HandlersOK
  <2> QED BY <1>2, <1>3, <1>5, <2>1, <2>2 DEF Receive
<1>6. CASE Restart
  BY <1>1, <1>3, <1>6 DEF Restart, DefaultsInv
<1>7. CASE SyncStep \/ LoopReloads \/ UNCHANGED vars
  <2>1. UNCHANGED handlerVars
    BY <1>7 DEF SyncStep, SyncReceive, SyncApply, Apply, SyncDownload,
                SyncVerified, SyncUpsert, SyncItemFails, SyncCollect, SyncDelete,
                SyncEnd, LoopReloads, vars
  <2>2. UNCHANGED <<req, step>>
    BY <2>1 DEF handlerVars
  <2> QED BY <1>1, <1>2, <2>2 DEF DefaultsInv
<1>8. (\E h \in Handlers : Handle(h))
        \/ (\E h \in Handlers, r \in Requests : Receive(h, r))
      => \A g \in Handlers : HandlerOK(g)'
  BY <1>4, <1>5
<1> QED BY <1>1, <1>6, <1>7, <1>8 DEF Next, DefaultsInv

(* As long as no playlist is deleted that is activated, there is a default *)
(* playlist to fall back on: deletePlaylist asks first, and no default     *)
(* that it has not seen can come up between its question and its DELETE.   *)
LEMMA DefaultIsKept == DefaultsStay => (Spec => []HasDefault)
<1> SUFFICES ASSUME DefaultsStay PROVE Spec => []HasDefault
  OBVIOUS
<1>1. Typed /\ OriginsOK /\ DefaultsInv /\ [Next]_vars => DefaultsInv'
  BY DefaultsNext
<1>2. DefaultsInv => HasDefault
  BY DEF DefaultsInv
<1> QED BY <1>1, <1>2, TypedInit, TypedNext, OriginsInit, OriginsNext,
           DefaultsInit, PTL DEF Spec

-----------------------------------------------------------------------------
(***************************************************************************)
(* Signals.                                                                *)
(***************************************************************************)

(* A handler that will signal whatever others do before it ends: the row   *)
(* it reads back is there as long as nobody deletes it, and who deletes it *)
(* will signal too.                                                        *)
Firm(h) ==
  \/ At(h, "remove") \/ At(h, "signal")
  \/ At(h, "readBack") /\ req[h].id \in Rows(req[h].op)

SomebodyIsFirm ==
  \/ seen = Shown \/ reload \/ silent
  \/ phase # "idle" /\ kind \in Signals
  \/ \E h \in Handlers : Firm(h)

(* What is shown depends on the tables only, and not on the items of a     *)
(* playlist that is not there.                                             *)
ScheduledBy(rows) ==
  IF DOMAIN rows = {} THEN NoPlaylist
  ELSE LET best == CHOOSE s \in DOMAIN rows :
                     \A t \in DOMAIN rows :
                       rows[t].priority <= rows[s].priority
       IN  rows[best].playlist

FirstOf(ids) == CHOOSE p \in ids : TRUE

JoinOf(items, contents) ==
  [i \in {j \in DOMAIN items : items[j] \in DOMAIN contents} |->
     <<items[i], contents[items[i]].version>>]

LEMMA ShownIs ==
  /\ Scheduled = ScheduledBy(schedules)
  /\ Shown = IF Scheduled # NoPlaylist THEN Joined(Scheduled)
             ELSE IF Defaults = {} THEN <<>> ELSE Joined(FirstOf(Defaults))
  /\ \A p : Joined(p) = IF p \notin DOMAIN playlists THEN <<>>
                        ELSE JoinOf(playlistItems[p], contentItems)
BY DEF Scheduled, ScheduledBy, Shown, Defaults, FirstOf, Joined, JoinOf

LEMMA ShownStays ==
  ASSUME UNCHANGED <<playlists, schedules, contentItems>>,
         \A p \in DOMAIN playlists : playlistItems'[p] = playlistItems[p]
  PROVE  Shown' = Shown
<1>1. /\ Scheduled' = ScheduledBy(schedules')
      /\ Shown' = IF Scheduled' # NoPlaylist THEN Joined(Scheduled)'
                  ELSE IF Defaults' = {} THEN <<>> ELSE Joined(FirstOf(Defaults))'
  BY DEF Scheduled, ScheduledBy, Shown, Defaults, FirstOf, Joined
<1>2. Scheduled' = Scheduled
  BY <1>1, ShownIs
<1>3. Defaults' = Defaults
  BY DEF Defaults
<1>4. ASSUME NEW p, NEW q, q = p PROVE Joined(q)' = Joined(p)
  BY <1>4 DEF Joined
<1> QED BY <1>1, <1>2, <1>3, <1>4, ShownIs

LEMMA RowsStay ==
  ASSUME UNCHANGED <<playlists, schedules, contentItems>>
  PROVE  \A op : Rows(op)' = Rows(op)
BY DEF Rows

(* After its write a handler is at one of its last stages.                 *)
LEMMA WriteProceeds ==
  ASSUME Typed, NEW h \in Handlers, At(h, "write"), Proceed(h)
  PROVE  /\ req' = req /\ step'[h] = step[h] + 1
         /\ At(h, "readBack")' \/ At(h, "remove")' \/ At(h, "signal")'
<1>1. /\ req' = req /\ step'[h] = step[h] + 1
      /\ Routes[req[h].op][step[h] + 1] \in Changes
  BY Serving DEF Proceed, Typed, HandlersInv, HandlersOK, RouteOK
<1> QED BY <1>1 DEF At, Changes

LEMMA ReadBackOps ==
  \A op \in DOMAIN Routes : \A i \in DOMAIN Routes[op] :
    Routes[op][i] = "readBack" =>
      op \notin Removers \cup Deletions \cup {"deleteSchedule", "adminScheduleDelete"}
BY DEF Removers, Deletions, Routes, deleteContent, adminContentDelete,
       deletePlaylist, adminPlaylistDelete, deleteSchedule, adminScheduleDelete

ShownKept ==
  /\ UNCHANGED <<playlists, schedules, contentItems>>
  /\ \A p \in DOMAIN playlists : playlistItems'[p] = playlistItems[p]

(* It will signal, or it has changed nothing that is shown.                *)
LEMMA WriteIsFirm ==
  ASSUME Typed, DefaultsInv, NEW h \in Handlers, At(h, "write"), Proceed(h),
         req[h] \in Requests, Execute(req[h], kept[h])
  PROVE  Firm(h)' \/ ShownKept
<1>1. /\ req' = req /\ step'[h] = step[h] + 1
      /\ At(h, "readBack")' \/ At(h, "remove")' \/ At(h, "signal")'
  BY WriteProceeds
<1>0. PICK r \in Requests : r = req[h]
  OBVIOUS
<1> SUFFICES ASSUME At(h, "readBack")'
             PROVE  r.id \in Rows(r.op)' \/ ShownKept
  BY <1>0, <1>1 DEF Firm
<1>2. /\ r.op \notin Removers \cup Deletions
      /\ r.op \notin {"deleteSchedule", "adminScheduleDelete"}
  <2>1. /\ r.op \in DOMAIN Routes /\ step[h] \in DOMAIN Routes[r.op]
        /\ RouteOK(Routes[r.op]) /\ Routes[r.op][step[h]] = "write"
    BY <1>0, Serving DEF Typed
  <2>2. /\ step[h] + 1 \in DOMAIN Routes[r.op]
        /\ Routes[r.op][step[h] + 1] = "readBack"
    BY <1>0, <1>1, <2>1 DEF RouteOK, At
  <2> QED BY <2>1, <2>2, ReadBackOps
<1>3. \A op : /\ op \in OnContent => Rows(op)' = DOMAIN contentItems'
              /\ op \in OnSchedule => Rows(op)' = DOMAIN schedules'
              /\ op \notin OnContent \cup OnSchedule => Rows(op)' = DOMAIN playlists'
  BY DEF Rows, OnContent, OnSchedule
<1>4. CASE r.op \in OnContent /\ InsertContent(r)
  BY <1>3, <1>4 DEF InsertContent, PutContent, With
<1>5. CASE r.op \in OnContent /\ UpdateContent(r, kept[h])
  BY <1>3, <1>5 DEF UpdateContent, PutContent, With, tables, ShownKept
<1>6. CASE r.op \notin OnContent \cup OnSchedule /\ InsertPlaylist(r)
  BY <1>3, <1>6 DEF InsertPlaylist, PutPlaylist, With
<1>7. CASE r.op \notin OnContent \cup OnSchedule /\ ReplaceItems(r)
  BY <1>3, <1>7 DEF ReplaceItems, SetItems, ShownKept, Typed, TablesOK, RowsOK,
                    IsTable
<1>8. CASE r.op \in Activations /\ SetDefault(r.id)
  <2>1. step[h] \in 1 .. 5 /\ step[h] # 1
    <3>1. Routes[r.op][step[h]] = "write"
      BY <1>0 DEF At
    <3> QED BY <1>8, <3>1, GuardedFirst DEF Typed, HandlersInv, HandlersOK
  <2>2. r.id \in DOMAIN playlists
    BY <1>0, <1>8, <2>1 DEF DefaultsInv, At, Busy
  <2>3. r.op \notin OnContent \cup OnSchedule
    BY <1>8 DEF Activations, OnContent, OnSchedule
  <2> QED BY <1>3, <1>8, <2>2, <2>3 DEF SetDefault
<1>9. CASE r.op \in OnSchedule /\ InsertSchedule(r)
  BY <1>3, <1>9 DEF InsertSchedule, PutSchedule, With
<1>10. CASE r.op \in OnSchedule /\ UpdateSchedule(r, kept[h])
  BY <1>3, <1>10 DEF UpdateSchedule, PutSchedule, With, tables, ShownKept
<1>11. \/ r.op \in OnContent /\ InsertContent(r)
       \/ r.op \in OnContent /\ UpdateContent(r, kept[h])
       \/ r.op \notin OnContent \cup OnSchedule /\ InsertPlaylist(r)
       \/ r.op \notin OnContent \cup OnSchedule /\ ReplaceItems(r)
       \/ r.op \in Activations /\ SetDefault(r.id)
       \/ r.op \in OnSchedule /\ InsertSchedule(r)
       \/ r.op \in OnSchedule /\ UpdateSchedule(r, kept[h])
  <2>1. r \in Requests /\ Execute(r, kept[h])
    BY <1>0
  <2> QED BY <1>2, <2>1, Effects DEF Removers, Deletions, Activations, OnContent,
                                     OnSchedule
<1> QED BY <1>4, <1>5, <1>6, <1>7, <1>8, <1>9, <1>10, <1>11

LEMMA HandleSignals ==
  ASSUME Typed, DefaultsInv, SomebodyIsFirm, NEW h \in Handlers, Handle(h)
  PROVE  SomebodyIsFirm'
<1>1. UNCHANGED <<seen, silent, phase, kind>> /\ (reload => reload')
  <2>1. UNCHANGED <<seen, silent, phase, kind>>
    BY DEF Handle, Read, Keep, NotDefault, Count, CheckContent, CheckTarget,
           Write, ReadBack, Signal, Save, BeginUpload, Remove, loopVars, syncVars
  <2>2. reload' = reload \/ reload' = TRUE
    BY DEF Handle, Read, Keep, NotDefault, Count, CheckContent, CheckTarget,
           Write, ReadBack, Signal, Save, BeginUpload, Remove, loopVars
  <2>3. reload => reload'
    BY Zenon, <2>2
  <2> QED BY <2>1, <2>3
<1>2. ASSUME Firm(h)' \/ reload' PROVE SomebodyIsFirm'
  BY <1>2 DEF SomebodyIsFirm
<1>3. ASSUME ShownKept, Firm(h) => Firm(h)' \/ reload' PROVE SomebodyIsFirm'
  <2>1. Shown' = Shown
    BY <1>3, ShownStays DEF ShownKept
  <2>2. ASSUME NEW g \in Handlers \ {h}, Firm(g) PROVE Firm(g)'
    BY <1>3, <2>2, HandleMoves, RowsStay DEF ShownKept, Firm, At
  <2> QED BY <1>1, <1>3, <2>1, <2>2 DEF SomebodyIsFirm
<1>4. CASE UNCHANGED tables
  <2>1. ShownKept
    BY <1>4 DEF ShownKept, tables
  <2>2. ASSUME Firm(h) PROVE Firm(h)' \/ reload'
    <3>1. CASE At(h, "signal")
      BY <3>1 DEF Handle, Read, Keep, NotDefault, Count, CheckContent,
                  CheckTarget, Write, ReadBack, Signal, Save, BeginUpload,
                  Remove, At
    <3>2. ASSUME At(h, "remove") \/ At(h, "readBack"), Proceed(h)
          PROVE  At(h, "signal")'
      BY <3>2, Serving DEF Proceed, Typed, HandlersInv, HandlersOK, RouteOK, At
    <3>3. CASE At(h, "remove")
      <4>1. Proceed(h)
        BY <1>4, <3>3
           DEF Handle, Read, Keep, NotDefault, Count, CheckContent, CheckTarget,
               Write, ReadBack, Signal, Save, BeginUpload, Remove, At
      <4> QED BY <3>2, <3>3, <4>1 DEF Firm
    <3>4. CASE At(h, "readBack") /\ req[h].id \in Rows(req[h].op)
      <4>1. ReadBack(h)
        BY <3>4
           DEF Handle, Read, Keep, NotDefault, Count, CheckContent, CheckTarget,
               Write, ReadBack, Signal, Save, BeginUpload, Remove, At
      <4>2. Proceed(h)
        BY <3>4, <4>1 DEF ReadBack, Unless
      <4> QED BY <3>2, <3>4, <4>2 DEF Firm
    <3> QED BY <2>2, <3>1, <3>3, <3>4 DEF Firm
  <2> QED BY <1>3, <2>1, <2>2
<1>5. CASE /\ At(h, "write") /\ Proceed(h) /\ req[h] \in Requests
           /\ Execute(req[h], kept[h])
  <2>1. ~Firm(h)
    BY <1>5 DEF Firm, At
  <2> QED BY <1>2, <1>3, <1>5, <2>1, WriteIsFirm
<1> QED BY <1>4, <1>5, HandleWrites

LEMMA SyncSignals ==
  ASSUME Typed, SomebodyIsFirm, SyncStep
  PROVE  SomebodyIsFirm'
<1>1. UNCHANGED <<req, step, seen>> /\ (reload => reload') /\ (silent => silent')
  <2>1. UNCHANGED <<req, step, seen>>
    BY DEF SyncStep, SyncReceive, SyncApply, Apply, SyncDownload, SyncVerified,
           SyncUpsert, SyncItemFails, SyncCollect, SyncDelete, SyncEnd,
           handlerVars, loopVars
  <2>2. /\ reload' = reload \/ reload' = (reload \/ kind \in Signals)
        /\ silent' = silent \/ silent' = (silent \/ Unsignalled)
    BY Zenon
       DEF SyncStep, SyncReceive, SyncApply, Apply, SyncDownload, SyncVerified,
           SyncUpsert, SyncItemFails, SyncCollect, SyncDelete, SyncEnd, loopVars
  <2>3. (reload => reload') /\ (silent => silent')
    BY <2>2 DEF Typed, LoopOK
  <2> QED BY <2>1, <2>3
<1>2. phase # "idle" /\ kind \in Signals =>
        reload' \/ (phase' # "idle" /\ kind' \in Signals)
  BY DEF SyncStep, SyncReceive, SyncApply, Apply, SyncDownload, SyncVerified,
         SyncUpsert, SyncItemFails, SyncCollect, SyncDelete, SyncEnd
<1>3. CASE UNCHANGED tables
  <2>1. ShownKept
    BY <1>3 DEF ShownKept, tables
  <2>2. Shown' = Shown
    BY <2>1, ShownStays DEF ShownKept
  <2>3. ASSUME NEW g \in Handlers, Firm(g) PROVE Firm(g)'
    BY <1>1, <2>1, <2>3, RowsStay DEF ShownKept, Firm, At
  <2> QED BY <1>1, <1>2, <2>2, <2>3 DEF SomebodyIsFirm
<1>4. CASE ~UNCHANGED tables
  <2>1. /\ phase # "idle" /\ (silent' \/ kind # "content")
    BY <1>4 DEF SyncStep, SyncReceive, SyncApply, Apply, SyncDownload,
                SyncVerified, SyncUpsert, SyncItemFails, SyncCollect, SyncDelete,
                SyncEnd, stored, Unsignalled
  <2>2. kind # "content" => kind \in Signals
    BY DEF Typed, SyncOK, Kinds, Signals
  <2> QED BY <1>2, <2>1, <2>2 DEF SomebodyIsFirm
<1> QED BY <1>3, <1>4

LEMMA SignalsNext ==
  Typed /\ DefaultsInv /\ SomebodyIsFirm /\ [Next]_vars => SomebodyIsFirm'
<1> SUFFICES ASSUME Typed, DefaultsInv, SomebodyIsFirm, [Next]_vars
             PROVE  SomebodyIsFirm'
  OBVIOUS
<1>1. ASSUME UNCHANGED tables PROVE Shown' = Shown /\ \A op : Rows(op)' = Rows(op)
  BY <1>1, ShownStays, RowsStay DEF tables
<1>2. ASSUME NEW h \in Handlers, NEW r \in Requests, Receive(h, r)
      PROVE  SomebodyIsFirm'
  <2>1. UNCHANGED tables /\ UNCHANGED <<reload, seen, silent, phase, kind>>
    BY <1>2 DEF Receive, stored, loopVars, syncVars
  <2>2. ASSUME NEW g \in Handlers, Firm(g) PROVE Firm(g)'
    <3>1. g # h /\ req'[g] = req[g] /\ step' = step
      BY <1>2, <2>2 DEF Receive, Firm, At, Typed, HandlersInv, HandlersOK
    <3> QED BY <1>1, <2>1, <2>2, <3>1 DEF Firm, At
  <2> QED BY <1>1, <2>1, <2>2 DEF SomebodyIsFirm
<1>3. CASE LoopReloads \/ Restart
  <2>1. UNCHANGED tables /\ seen' = Shown
    BY <1>3 DEF LoopReloads, Restart, stored
  <2> QED BY <1>1, <2>1 DEF SomebodyIsFirm
<1>4. CASE UNCHANGED vars
  <2>1. UNCHANGED tables /\ UNCHANGED <<reload, seen, silent, phase, kind, req, step>>
    BY <1>4 DEF vars, stored, loopVars, syncVars, handlerVars
  <2> QED BY <1>1, <2>1 DEF SomebodyIsFirm, Firm, At
<1> QED BY <1>2, <1>3, <1>4, HandleSignals, SyncSignals DEF Next

LEMMA SignalsInit == Init => SomebodyIsFirm
BY DEF Init, SomebodyIsFirm

LEMMA FirmOnesSignal == SomebodyIsFirm => EditsAreSignalled
BY DEF SomebodyIsFirm, EditsAreSignalled, WillSignal, Firm

(* Nothing that handlers and syncs commit, in any order, stays unseen      *)
(* without a signal to come, but for what a content sync did.              *)
THEOREM EveryEditIsSignalled == DefaultsStay => (Spec => []EditsAreSignalled)
<1> SUFFICES ASSUME DefaultsStay PROVE Spec => []EditsAreSignalled
  OBVIOUS
<1>1. Typed /\ OriginsOK /\ DefaultsInv /\ [Next]_vars => DefaultsInv'
  BY DefaultsNext
<1> QED BY <1>1, TypedInit, TypedNext, OriginsInit, OriginsNext, DefaultsInit,
           SignalsInit, SignalsNext, FirmOnesSignal, PTL DEF Spec

(* Who changes the tables owes a reload, and the scheduler reads them only *)
(* when nobody does.                                                       *)
LEMMA ChangesOwe ==
  ASSUME Typed, [Next]_vars
  PROVE  /\ UNCHANGED tables \/ WillSignal' \/ silent'
         /\ UNCHANGED tables \/ UNCHANGED seen
<1>1. ASSUME NEW h \in Handlers, Handle(h)
      PROVE  UNCHANGED seen /\ (UNCHANGED tables \/ WillSignal')
  <2>1. UNCHANGED seen
    BY <1>1 DEF Handle, Read, Keep, NotDefault, Count, CheckContent, CheckTarget,
                Write, ReadBack, Signal, Save, BeginUpload, Remove, loopVars
  <2> QED BY <1>1, <2>1, HandleWrites, WriteProceeds DEF WillSignal
<1>2. CASE SyncStep
  <2>1. UNCHANGED seen
    BY <1>2 DEF SyncStep, SyncReceive, SyncApply, Apply, SyncDownload,
                SyncVerified, SyncUpsert, SyncItemFails, SyncCollect, SyncDelete,
                SyncEnd, loopVars
  <2>2. \/ UNCHANGED tables \/ silent'
        \/ phase' # "idle" /\ kind' = kind /\ kind # "content"
    BY <1>2 DEF SyncStep, SyncReceive, SyncApply, Apply, SyncDownload,
                SyncVerified, SyncUpsert, SyncItemFails, SyncCollect, SyncDelete,
                SyncEnd, stored, Unsignalled
  <2>3. kind # "content" => kind \in Signals
    BY DEF Typed, SyncOK, Kinds, Signals
  <2> QED BY <2>1, <2>2, <2>3 DEF WillSignal
<1>3. CASE \/ \E h \in Handlers, r \in Requests : Receive(h, r)
           \/ LoopReloads \/ Restart \/ UNCHANGED vars
  BY <1>3 DEF Receive, LoopReloads, Restart, vars, stored
<1> QED BY <1>1, <1>2, <1>3 DEF Next

LEMMA ContractNext ==
  Typed /\ EditsAreSignalled' /\ [Next]_vars => [Contract!Next]_(Contract!vars)
<1> SUFFICES ASSUME Typed, EditsAreSignalled', [Next]_vars PROVE Contract!Next
  OBVIOUS
<1>1. CASE UNCHANGED tables
  <2>1. Shown' = Shown
    BY <1>1, ShownStays DEF tables
  <2> QED BY <2>1 DEF EditsAreSignalled, Contract!Next, Contract!Refresh
<1>2. CASE UNCHANGED seen /\ (WillSignal' \/ silent')
  BY <1>2 DEF Contract!Next, Contract!Change
<1> QED BY <1>1, <1>2, ChangesOwe

(* The library implements FreshCopy: a step that changes what should be    *)
(* shown owes the scheduler a reload, and a step after which none is owed  *)
(* ends with what the scheduler has read being what should be shown.       *)
THEOREM LibraryKeepsShownFresh == DefaultsStay => (Spec => KeepsShownFresh)
<1> SUFFICES ASSUME DefaultsStay PROVE Spec => KeepsShownFresh
  OBVIOUS
<1>1. Init => Contract!Init
  BY DEF Init, Contract!Init
<1>2. Spec => []EditsAreSignalled
  BY EveryEditIsSignalled
<1> QED BY <1>1, <1>2, TypedInit, TypedNext, ContractNext, PTL
        DEF Spec, KeepsShownFresh, Contract!Spec

-----------------------------------------------------------------------------
(***************************************************************************)
(* Files of local content.                                                 *)
(***************************************************************************)

(* A handler that makes content and has not written its row; one that has  *)
(* read the row of the content it changes or deletes.                      *)
Making(h) == Busy(h) /\ req[h].op \in OnContent \cap Creating /\ step[h] <= 2
Taking(h) == Busy(h) /\ req[h].op \in OnContent \cap Keepers /\ step[h] >= 2

(* Its file is there, or was taken with the row of other content.          *)
HasFile(c) == media[c] \in Versions \/ c \in taken

(* The content it makes is its own, and has its file once that is saved.   *)
MakingOK(h) ==
  Making(h) =>
    /\ req[h].id \in created /\ req[h].id \notin DOMAIN contentItems
    /\ step[h] = 2 /\ req[h].id \in Media => HasFile(req[h].id)

(* The content it has read of was made before, and is never made again:    *)
(* its row is gone when its file is removed.                               *)
TakingOK(h) ==
  Taking(h) =>
    /\ req[h].id \in created \cup ForeignIds
    /\ req[h].id \notin ForeignIds /\ req[h].id \in DOMAIN contentItems =>
         (req[h].op \in Removers => step[h] # 3)

(* Images and videos of this player have their files, also while their     *)
(* sources say something else.                                             *)
FilesAreThere ==
  \A c \in Media \cap DOMAIN contentItems : c \notin ForeignIds => HasFile(c)

MediaInv ==
  /\ FilesAreThere
  /\ DOMAIN contentItems \subseteq created \cup ForeignIds
  /\ \A h \in Handlers : MakingOK(h) /\ TakingOK(h)
  /\ \A g, h \in Handlers :
       Making(g) /\ (Making(h) \/ Taking(h)) /\ req[g].id = req[h].id => g = h

(* The routes of those handlers.                                           *)
LEMMA ContentRoutes ==
  /\ \A op \in OnContent \cap Creating :
       /\ Routes[op][1] = "save" /\ Routes[op][2] = "write"
       /\ \A i \in DOMAIN Routes[op] : i > 2 =>
            Routes[op][i] \notin {"save", "write", "remove", "keep"}
  /\ \A op \in OnContent \cap Keepers :
       /\ Routes[op][1] = "keep" /\ Routes[op][2] = "write"
       /\ \A i \in DOMAIN Routes[op] : i > 2 =>
            Routes[op][i] \notin {"save", "write", "keep"}
       /\ 5 \notin DOMAIN Routes[op]
       /\ op \in Removers => Routes[op][4] = "signal"
       /\ op \notin Removers => op = "updateContent"
  /\ OnContent \cap Creating \cap Keepers = {}
BY DEF OnContent, Creating, Keepers, Removers, Routes,
       createContentJSON, createContentUpload, adminContentAddForm,
       adminContentAddUpload, updateContent, deleteContent, adminContentDelete

LEMMA OwnIsNotForeign ==
  ASSUME OriginsOK, NEW c \in DOMAIN contentItems
  PROVE  /\ contentItems[c].origin = "local" => c \notin ForeignIds
         /\ c \notin ForeignIds => contentItems[c].origin = "local"
BY IdAssumption DEF OriginsOK, CameFrom

(* What a sync leaves alone.                                               *)
LEMMA SyncMedia ==
  ASSUME Typed, OriginsOK, SyncStep
  PROVE  /\ UNCHANGED <<req, step, kept, created>>
         /\ DOMAIN contentItems' \subseteq DOMAIN contentItems \cup ForeignIds
         /\ \A c : c \notin ForeignIds =>
              /\ c \in DOMAIN contentItems' => contentItems'[c] = contentItems[c]
              /\ c \in Contents => media'[c] = media[c]
         /\ taken' = taken
<1>1. UNCHANGED <<req, step, kept, created>>
  BY DEF SyncStep, SyncReceive, SyncApply, Apply, SyncDownload, SyncVerified,
         SyncUpsert, SyncItemFails, SyncCollect, SyncDelete, SyncEnd, handlerVars
<1>2. /\ DOMAIN contentItems' \subseteq DOMAIN contentItems \cup ForeignIds
      /\ \A c : c \notin ForeignIds /\ c \in DOMAIN contentItems' =>
           contentItems'[c] = contentItems[c]
  <2>1. CASE UNCHANGED tables
    BY <2>1 DEF tables
  <2>2. CASE todo # <<>> /\ Puts(Head(todo))
    <3>1. Head(todo).id \in ForeignIds
      BY <2>2, NextForeign DEF Typed
    <3> QED BY <2>2, <3>1 DEF Puts, With
  <2>3. ASSUME NEW id, DeleteStale(id)
        PROVE  UNCHANGED contentItems \/ contentItems' = Without(contentItems, id)
    BY <2>3 DEF DeleteStale, DeletePlaylistRow, DeleteScheduleRow, DeleteContentRow
  <2> QED BY <2>1, <2>2, <2>3, SyncEffects DEF Without
<1>3. \A c \in Contents : c \notin ForeignIds => media'[c] = media[c]
  <2>1. CASE UNCHANGED media
    BY <2>1
  <2>2. CASE \E file : todo # <<>> /\ Store(Head(todo).id, file)
    <3>1. Head(todo).id \in ForeignIds
      BY <2>2, NextForeign DEF Typed
    <3> QED BY <2>2, <3>1 DEF Store, Typed, MediaOK
  <2>3. UNCHANGED media \/ \E file : todo # <<>> /\ Store(Head(todo).id, file)
    <3>1. CASE SyncVerified
      BY <3>1 DEF SyncVerified, Typed, SyncOK
    <3> QED BY <3>1 DEF SyncStep, SyncReceive, SyncApply, SyncDownload,
                        SyncUpsert, SyncItemFails, SyncCollect, SyncDelete,
                        SyncEnd, stored
  <2> QED BY <2>1, <2>2, <2>3
<1>4. taken' = taken
  BY DEF SyncStep, SyncReceive, SyncApply, SyncDownload, SyncVerified, SyncUpsert,
         SyncItemFails, SyncCollect, SyncDelete, SyncEnd, Store, stored
<1> QED BY <1>1, <1>2, <1>3, <1>4

LEMMA SyncMediaInv ==
  ASSUME Typed, OriginsOK, MediaInv, SyncStep, UNCHANGED foreignKeys
  PROVE  MediaInv'
<1>1. \A h \in Handlers : Busy(h) => req[h] \in Requests
  BY DEF Typed, HandlersInv, HandlersOK, Busy
<1>2. ASSUME NEW h \in Handlers, Busy(h), req[h].op \in OnContent
      PROVE  req[h].id \in Contents
  BY <1>1, <1>2, RequestTyped
<1>3. \A h \in Handlers : Making(h) => req[h].id \notin ForeignIds
  BY <1>1, CreatesOwn, IdAssumption DEF Making
<1>4. \A h \in Handlers : /\ Making(h)' <=> Making(h)
                          /\ Taking(h)' <=> Taking(h)
  BY SyncMedia DEF Making, Taking, Busy
<1>5. FilesAreThere'
  <2>1. \A c \in Contents : c \notin ForeignIds /\ HasFile(c) => HasFile(c)'
    BY SyncMedia DEF HasFile
  <2>2. DOMAIN contentItems \subseteq Contents
    BY DEF Typed, TablesOK, RowsOK, IsTable
  <2> QED BY <2>1, <2>2, SyncMedia DEF MediaInv, FilesAreThere
<1>6. DOMAIN contentItems' \subseteq created' \cup ForeignIds
  BY SyncMedia DEF MediaInv
<1>7. ASSUME NEW h \in Handlers PROVE MakingOK(h)'
  BY <1>2, <1>3, <1>4, SyncMedia DEF MediaInv, MakingOK, Making, HasFile
<1>8. ASSUME NEW h \in Handlers PROVE TakingOK(h)'
  BY <1>2, <1>4, SyncMedia DEF MediaInv, TakingOK, Taking
<1>9. \A g, h \in Handlers :
        Making(g)' /\ (Making(h)' \/ Taking(h)') /\ req'[g].id = req'[h].id => g = h
  BY <1>4, SyncMedia DEF MediaInv
<1> QED BY <1>5, <1>6, <1>7, <1>8, <1>9 DEF MediaInv

(* A step that leaves content and files alone, and takes its handler to    *)
(* none of the stages MediaInv is about.                                   *)
LEMMA QuietMediaInv ==
  ASSUME MediaInv, NEW h \in Handlers,
         UNCHANGED <<contentItems, media, taken>>, created \subseteq created',
         \A g \in Handlers \ {h} :
           req'[g] = req[g] /\ step'[g] = step[g] /\ kept'[g] = kept[g],
         Making(h)' => Making(h) /\ step'[h] = step[h] /\ req'[h] = req[h],
         Taking(h)' => /\ Taking(h) /\ req'[h] = req[h] /\ kept'[h] = kept[h]
                       /\ step'[h] \in {step[h], 4, 5, 6}
  PROVE  MediaInv'
<1>1. FilesAreThere' /\ DOMAIN contentItems' \subseteq created' \cup ForeignIds
  BY DEF MediaInv, FilesAreThere, HasFile
<1>2. \A g \in Handlers : /\ Making(g)' => Making(g) /\ req'[g] = req[g]
                          /\ Taking(g)' => Taking(g) /\ req'[g] = req[g]
  BY DEF Making, Taking, Busy
<1>3. ASSUME NEW g \in Handlers PROVE MakingOK(g)' /\ TakingOK(g)'
  BY <1>2 DEF MediaInv, MakingOK, TakingOK, HasFile
<1>4. \A g, i \in Handlers :
        Making(g)' /\ (Making(i)' \/ Taking(i)') /\ req'[g].id = req'[i].id => g = i
  BY <1>2 DEF MediaInv
<1> QED BY <1>1, <1>3, <1>4 DEF MediaInv

LEMMA ReceiveMediaInv ==
  ASSUME Typed, MediaInv, NEW h \in Handlers, NEW r \in Requests, Receive(h, r)
  PROVE  MediaInv'
<1>1. /\ UNCHANGED <<contentItems, media, taken>> /\ created \subseteq created'
      /\ step[h] = 1 /\ UNCHANGED <<step, kept>> /\ req'[h] = r
      /\ \A g \in Handlers \ {h} : req'[g] = req[g]
  BY DEF Receive, stored, tables, Typed, HandlersInv, HandlersOK, StagesOK, Busy
<1>2. ~Taking(h)' /\ ~Making(h)
  BY <1>1 DEF Taking, Making, Receive, Busy
<1>3. CASE r.op \notin OnContent \cap Creating
  <2>1. ~Making(h)'
    BY <1>1, <1>3 DEF Making
  <2> QED BY <1>1, <1>2, <2>1, QuietMediaInv
<1>4. CASE r.op \in OnContent \cap Creating
  <2>1. r.id \notin created /\ r.id \in created' /\ r.id \notin ForeignIds
    BY <1>4, CreatesOwn, IdAssumption DEF Receive
  <2>2. r.id \notin DOMAIN contentItems
    BY <2>1 DEF MediaInv
  <2>3. FilesAreThere' /\ DOMAIN contentItems' \subseteq created' \cup ForeignIds
    BY <1>1 DEF MediaInv, FilesAreThere, HasFile
  <2>4. \A g \in Handlers \ {h} : (Making(g)' <=> Making(g)) /\ (Taking(g)' <=> Taking(g))
    BY <1>1 DEF Making, Taking, Busy
  <2>5. ASSUME NEW g \in Handlers PROVE MakingOK(g)' /\ TakingOK(g)'
    BY <1>1, <1>2, <2>1, <2>2, <2>4 DEF MediaInv, MakingOK, TakingOK, HasFile
  <2>6. \A g \in Handlers \ {h} :
          Making(g) \/ Taking(g) => req[g].id \in created \cup ForeignIds
    BY DEF MediaInv, MakingOK, TakingOK, HasFile
  <2>7. \A g, i \in Handlers :
          Making(g)' /\ (Making(i)' \/ Taking(i)') /\ req'[g].id = req'[i].id => g = i
    BY <1>1, <1>2, <2>1, <2>4, <2>6 DEF MediaInv
  <2> QED BY <2>3, <2>5, <2>7 DEF MediaInv
<1> QED BY <1>3, <1>4

(* The stage a handler of content is at.                                   *)
LEMMA ContentStages ==
  ASSUME Typed, NEW h \in Handlers, Busy(h)
  PROVE  /\ req[h] \in Requests /\ req[h].op \in DOMAIN Routes
         /\ step[h] \in 1 .. 5 /\ step[h] \in DOMAIN Routes[req[h].op]
         /\ At(h, "save") => Making(h) /\ step[h] = 1
         /\ Making(h) /\ step[h] = 1 => At(h, "save")
         /\ Making(h) /\ step[h] = 2 => At(h, "write")
         /\ At(h, "remove") =>
              Taking(h) /\ step[h] = 3 /\ req[h].op \in Removers
         /\ req[h].op \in OnContent \cap Keepers =>
              /\ step[h] = 1 => At(h, "keep")
              /\ step[h] = 2 => At(h, "write")
              /\ At(h, "write") => step[h] = 2 /\ Taking(h)
         /\ req[h].op \in OnContent \cap Creating /\ At(h, "write") =>
              step[h] = 2 /\ Making(h)
<1>1. /\ req[h] \in Requests /\ step[h] \in 1 .. 5
      /\ step[h] \in DOMAIN Routes[req[h].op]
  BY DEF Typed, HandlersInv, HandlersOK, StagesOK, Busy
<1>2. req[h].op \in DOMAIN Routes
  BY <1>1, RequestTyped DEF RequestRow
<1>3. \A stage : At(h, stage) <=> Routes[req[h].op][step[h]] = stage
  BY DEF At, Busy
<1>4. Removers \subseteq OnContent \cap Keepers
  BY DEF Removers, OnContent, Keepers
<1>5. step[h] \in {1, 2, 3, 4, 5}
  BY <1>1
<1>6. CASE req[h].op \in OnContent \cap Creating
  <2>1. /\ step[h] = 1 <=> At(h, "save")
        /\ step[h] = 2 <=> At(h, "write")
        /\ ~At(h, "remove") /\ ~At(h, "keep")
    BY <1>1, <1>3, <1>5, <1>6, ContentRoutes
  <2> QED BY <1>1, <1>2, <1>6, <2>1, ContentRoutes DEF Making
<1>7. CASE req[h].op \in OnContent \cap Keepers
  <2>1. /\ step[h] = 1 <=> At(h, "keep")
        /\ step[h] = 2 <=> At(h, "write")
        /\ ~At(h, "save")
    BY <1>1, <1>3, <1>5, <1>7, ContentRoutes
  <2>2. ASSUME At(h, "remove") PROVE step[h] = 3 /\ req[h].op \in Removers
    <3>1. req[h].op \in Removers
      BY <1>1, <1>2, <1>3, <2>2, StagesOf
    <3>2. step[h] # 1 /\ step[h] # 2
      BY <1>3, <2>1, <2>2
    <3>3. step[h] \notin {4, 5}
      BY <1>1, <1>3, <1>7, <2>2, <3>1, ContentRoutes
    <3> QED BY <1>5, <3>1, <3>2, <3>3
  <2>3. req[h].op \notin OnContent \cap Creating
    BY <1>7, ContentRoutes
  <2> QED BY <1>1, <1>2, <1>7, <2>1, <2>2, <2>3 DEF Making, Taking, Busy
<1>8. CASE req[h].op \notin OnContent \cap (Creating \cup Keepers)
  <2>1. ~At(h, "save") /\ ~At(h, "remove")
    BY <1>1, <1>2, <1>3, <1>4, <1>8, StagesOf
  <2> QED BY <1>1, <1>2, <1>8, <2>1 DEF Making, Taking
<1> QED BY <1>6, <1>7, <1>8

(* What a handler's step does not concern: the other handlers.             *)
LEMMA OthersStay ==
  ASSUME Typed, NEW h \in Handlers, Handle(h)
  PROVE  /\ created' = created
         /\ \A g \in Handlers \ {h} :
              /\ req'[g] = req[g] /\ step'[g] = step[g] /\ kept'[g] = kept[g]
              /\ Making(g)' <=> Making(g)
              /\ Taking(g)' <=> Taking(g)
<1>1. created' = created
  BY DEF Handle, Read, Keep, NotDefault, Count, CheckContent, CheckTarget, Write,
         ReadBack, Signal, Save, BeginUpload, Remove, Unless, Proceed, Return,
         handlerVars
<1> QED BY <1>1, HandleMoves DEF Making, Taking, Busy

(* Saving a file of new content.                                           *)
LEMMA SaveMediaInv ==
  ASSUME Typed, MediaInv, NEW h \in Handlers, Save(h) \/ BeginUpload(h)
  PROVE  MediaInv'
<1> DEFINE c == req[h].id
<1>1. /\ At(h, "save") /\ Busy(h) /\ UNCHANGED contentItems
      /\ taken' = taken /\ \E file : media' = [media EXCEPT ![c] = file]
  BY DEF Save, BeginUpload, Store, At, Busy, tables
<1>2. Making(h) /\ step[h] = 1 /\ req[h] \in Requests
  BY <1>1, ContentStages
<1>3. c \notin DOMAIN contentItems /\ c \in Contents
  BY <1>2, RequestTyped DEF MediaInv, MakingOK, Making
<1>4. \A g \in Handlers \ {h} : Making(g) \/ Taking(g) => req[g].id # c
  BY <1>2 DEF MediaInv
<1>5. \A x \in Contents : x # c => media'[x] = media[x]
  BY <1>1 DEF Typed, MediaOK
<1>6. Handle(h)
  BY DEF Handle
<1>7. DOMAIN contentItems \subseteq Contents
  BY DEF Typed, TablesOK, RowsOK, IsTable
<1>8. FilesAreThere'
  BY <1>1, <1>3, <1>5, <1>7 DEF MediaInv, FilesAreThere, HasFile
<1>9. ASSUME NEW g \in Handlers \ {h} PROVE MakingOK(g)' /\ TakingOK(g)'
  <2>1. Making(g) => req[g] \in Requests /\ req[g].id \in Contents
    BY RequestTyped DEF Making, Busy, Typed, HandlersInv, HandlersOK
  <2> QED BY <1>1, <1>4, <1>5, <1>6, <1>7, <2>1, OthersStay
          DEF MediaInv, MakingOK, TakingOK, HasFile
<1>10. ~Taking(h)' /\ (Making(h)' => Making(h) /\ req'[h] = req[h])
  BY <1>2, <1>6, HandleMoves, ContentRoutes DEF Making, Taking, Busy
<1>11. MakingOK(h)'
  <2>1. CASE BeginUpload(h)
    BY <1>1, <1>2, <1>6, <2>1, OthersStay
       DEF BeginUpload, handlerVars, MediaInv, MakingOK, HasFile
  <2>2. CASE Save(h) /\ Return(h)
    BY <2>2 DEF Return, MakingOK, Making, Busy, Typed, HandlersInv, HandlersOK
  <2>3. CASE /\ Proceed(h)
             /\ Store(c, IF c \in Media THEN req[h].version ELSE NoFile)
    <3>1. req' = req /\ created' = created
      BY <2>3 DEF Proceed
    <3>2. ASSUME c \in Media PROVE HasFile(c)'
      <4>1. req[h].version \in Versions
        BY <1>2, RequestTyped DEF RequestRow
      <4>2. media'[c] = req[h].version
        BY <1>3, <2>3, <3>2 DEF Store, Typed, MediaOK
      <4> QED BY <3>1, <4>1, <4>2 DEF HasFile
    <3> QED BY <1>1, <1>2, <3>1, <3>2 DEF MediaInv, MakingOK
  <2> QED BY <2>1, <2>2, <2>3 DEF Save
<1>12. TakingOK(h)'
  BY <1>10 DEF TakingOK
<1>13. \A g, i \in Handlers :
         Making(g)' /\ (Making(i)' \/ Taking(i)') /\ req'[g].id = req'[i].id => g = i
  BY <1>6, <1>10, OthersStay DEF MediaInv
<1>14. DOMAIN contentItems' \subseteq created' \cup ForeignIds
  BY <1>1, <1>6, OthersStay DEF MediaInv
<1> QED BY <1>8, <1>9, <1>11, <1>12, <1>13, <1>14 DEF MediaInv

(* Removing the file named by the row of content that is gone: its own, or *)
(* one that is taken with it.                                              *)
LEMMA RemoveMediaInv ==
  ASSUME Typed, OriginsOK, MediaInv, NEW h \in Handlers, Remove(h)
  PROVE  MediaInv'
<1> DEFINE c == req[h].id
<1>1. /\ At(h, "remove") /\ Busy(h) /\ UNCHANGED contentItems
  BY DEF Remove, At, Busy, tables
<1>2. Taking(h) /\ step[h] = 3 /\ req[h].op \in Removers
  BY <1>1, ContentStages
<1>3. c \in DOMAIN contentItems => c \in ForeignIds
  BY <1>2 DEF MediaInv, TakingOK
<1>4. \A g \in Handlers : Making(g) => req[g].id # c
  BY <1>2, ContentRoutes DEF MediaInv, Making, Taking
<1>5. \A x \in Contents : x # c /\ HasFile(x) => HasFile(x)'
  BY DEF Remove, HasFile, Typed, MediaOK
<1>6. Handle(h)
  BY DEF Handle
<1>7. DOMAIN contentItems \subseteq Contents
  BY DEF Typed, TablesOK, RowsOK, IsTable
<1>8. FilesAreThere'
  BY <1>1, <1>3, <1>5, <1>7, OwnIsNotForeign DEF MediaInv, FilesAreThere
<1>9. ASSUME NEW g \in Handlers \ {h} PROVE MakingOK(g)' /\ TakingOK(g)'
  <2>1. Making(g) => req[g] \in Requests /\ req[g].id \in Contents
    BY RequestTyped DEF Making, Busy, Typed, HandlersInv, HandlersOK
  <2> QED BY <1>1, <1>3, <1>4, <1>5, <1>6, <1>7, <2>1, OthersStay
          DEF MediaInv, MakingOK, TakingOK
<1>10. req' = req /\ step'[h] = 4
  BY <1>2 DEF Remove, Proceed, Typed, HandlersInv, HandlersOK
<1>11. ~Making(h)' /\ (Taking(h)' => Taking(h))
  BY <1>2, <1>10 DEF Making, Taking, Busy
<1>12. TakingOK(h)' /\ MakingOK(h)'
  BY <1>1, <1>6, <1>10, <1>11, OthersStay DEF MediaInv, TakingOK, MakingOK
<1>13. \A g, i \in Handlers :
         Making(g)' /\ (Making(i)' \/ Taking(i)') /\ req'[g].id = req'[i].id => g = i
  BY <1>6, <1>10, <1>11, OthersStay DEF MediaInv
<1>14. DOMAIN contentItems' \subseteq created' \cup ForeignIds
  BY <1>1, <1>6, OthersStay DEF MediaInv
<1> QED BY <1>8, <1>9, <1>12, <1>13, <1>14 DEF MediaInv

(* Reading the row of content to be changed or deleted.                    *)
LEMMA KeepMediaInv ==
  ASSUME Typed, OriginsOK, MediaInv, NEW h \in Handlers, Keep(h)
  PROVE  MediaInv'
<1>1. Handle(h) /\ UNCHANGED <<contentItems, media, taken>>
  BY DEF Handle, Keep, stored, tables
<1>2. At(h, "keep") /\ Busy(h) /\ req[h].op \in Keepers /\ step[h] = 1
  BY Serving, StagesOf DEF Keep, At, Busy, Typed
<1>3. ~Making(h)
  BY <1>2, ContentRoutes DEF Making
<1>4. CASE Return(h)
  <2>1. ~Making(h)' /\ ~Taking(h)'
    BY <1>4 DEF Return, Making, Taking, Busy, Typed, HandlersInv, HandlersOK
  <2> QED BY <1>1, <2>1, OthersStay, QuietMediaInv
<1>5. CASE ~Return(h)
  <2>1. /\ req' = req /\ step'[h] = 2 /\ req[h].id \in Rows(req[h].op)
        /\ kept'[h] = IF Serves(h, OnContent) THEN contentItems[req[h].id]
                      ELSE schedules[req[h].id]
    BY <1>2, <1>5 DEF Keep, Proceed, Typed, HandlersInv, HandlersOK
  <2>2. ~Making(h)'
    BY <1>2, <2>1, ContentRoutes DEF Making
  <2>3. CASE req[h].op \notin OnContent
    <3>1. ~Taking(h)'
      BY <2>1, <2>3 DEF Taking
    <3> QED BY <1>1, <2>2, <3>1, OthersStay, QuietMediaInv
  <2>4. CASE req[h].op \in OnContent
    <3> DEFINE c == req[h].id
    <3>1. c \in DOMAIN contentItems /\ kept'[h] = contentItems[c]
      BY <2>1, <2>4 DEF Rows, Serves, OnContent, OnSchedule
    <3>2. FilesAreThere' /\ DOMAIN contentItems' \subseteq created' \cup ForeignIds
      BY <1>1, OthersStay DEF MediaInv, FilesAreThere, HasFile
    <3>3. TakingOK(h)'
      <4>1. c \in created' \cup ForeignIds
        BY <1>1, <3>1, <3>2
      <4> QED BY <2>1, <4>1 DEF TakingOK
    <3>4. \A g \in Handlers \ {h} : MakingOK(g)' /\ TakingOK(g)'
      BY <1>1, OthersStay DEF MediaInv, MakingOK, TakingOK, HasFile
    <3>5. \A g \in Handlers : Making(g)' => req'[g].id # c
      BY <1>1, <2>2, <3>1, OthersStay DEF MediaInv, MakingOK
    <3>6. \A g, i \in Handlers :
            Making(g)' /\ (Making(i)' \/ Taking(i)') /\ req'[g].id = req'[i].id => g = i
      BY <1>1, <2>1, <2>2, <3>5, OthersStay DEF MediaInv
    <3> QED BY <2>2, <3>2, <3>3, <3>4, <3>6 DEF MediaInv, MakingOK
  <2> QED BY <2>3, <2>4
<1> QED BY <1>4, <1>5

(* The statement of a handler.                                             *)
LEMMA WriteMediaInv ==
  ASSUME Typed, OriginsOK, MediaInv, NEW h \in Handlers, Handle(h), At(h, "write"),
         req[h] \in Requests, Execute(req[h], kept[h]), Proceed(h), UNCHANGED kept,
         UNCHANGED <<media, taken>>
  PROVE  MediaInv'
<1>0. PICK r \in Requests : r = req[h]
  OBVIOUS
<1> DEFINE c == r.id
<1>1. /\ Busy(h) /\ req' = req /\ step'[h] = step[h] + 1 /\ created' = created
      /\ step[h] \in 1 .. 5
  BY DEF At, Busy, Proceed, Typed, HandlersInv, HandlersOK
<1>2. /\ r.op \in OnContent \cap (Creating \cup Keepers) => step[h] = 2
      /\ r.op \in OnContent \cap Creating => Making(h)
      /\ r.op \in OnContent \cap Keepers => Taking(h)
  BY <1>0, <1>1, ContentStages
<1>3. ~Making(h)' /\ (Taking(h)' <=> r.op \in OnContent \cap Keepers)
  <2>1. step[h] # 1 \/ r.op \notin OnContent \cap (Creating \cup Keepers)
    BY <1>2
  <2>2. Taking(h)' => r.op \in OnContent \cap Keepers
    BY <1>0, <1>1 DEF Taking
  <2>3. r.op \in OnContent \cap Keepers => Taking(h)'
    BY <1>0, <1>1, <1>2 DEF Taking, Busy
  <2>4. ~Making(h)'
    BY <1>0, <1>1, <1>2 DEF Making
  <2> QED BY <2>2, <2>3, <2>4
<1>4. \A g, i \in Handlers :
        Making(g)' /\ (Making(i)' \/ Taking(i)') /\ req'[g].id = req'[i].id => g = i
  <2>1. Taking(h)' => Taking(h)
    BY <1>2, <1>3
  <2> QED BY <1>1, <1>3, <2>1, OthersStay DEF MediaInv
<1>5. ASSUME r.op \in OnContent \cap Creating, InsertContent(r)
      PROVE  MediaInv'
  <2>1. /\ DOMAIN contentItems' = DOMAIN contentItems \cup {c}
        /\ c \in created
        /\ c \in Media => HasFile(c)
    BY <1>0, <1>2, <1>5 DEF InsertContent, PutContent, With, MediaInv, MakingOK
  <2>2. \A g \in Handlers \ {h} : Making(g) \/ Taking(g) => req[g].id # c
    BY <1>0, <1>2, <1>5 DEF MediaInv
  <2>3. FilesAreThere' /\ DOMAIN contentItems' \subseteq created' \cup ForeignIds
    BY <1>1, <2>1 DEF MediaInv, FilesAreThere, HasFile
  <2>4. \A g \in Handlers \ {h} : MakingOK(g)' /\ TakingOK(g)'
    BY <1>1, <2>1, <2>2, OthersStay DEF MediaInv, MakingOK, TakingOK, HasFile
  <2>5. ~Taking(h)'
    BY <1>3, <1>5, ContentRoutes
  <2> QED BY <1>3, <1>4, <2>3, <2>4, <2>5 DEF MediaInv, MakingOK, TakingOK, HasFile
<1>6. ASSUME r.op = "updateContent", UpdateContent(r, kept[h])
      PROVE  MediaInv'
  <2>1. r.op \in OnContent \cap Keepers /\ r.op \notin Removers
    BY <1>6 DEF OnContent, Keepers, Removers
  <2>2. Taking(h) /\ step[h] = 2
    BY <1>2, <2>1
  <2>3. DOMAIN contentItems' = DOMAIN contentItems
    BY <1>6 DEF UpdateContent, PutContent, With, tables
  <2>5. FilesAreThere'
    BY <2>3 DEF MediaInv, FilesAreThere, HasFile
  <2>6. \A g \in Handlers \ {h} : MakingOK(g)' /\ TakingOK(g)'
    BY <1>1, <2>3, OthersStay DEF MediaInv, MakingOK, TakingOK, HasFile
  <2>7. TakingOK(h)'
    <3>1. req[h].id \in created \cup ForeignIds
      BY <2>2 DEF MediaInv, TakingOK
    <3> QED BY <1>0, <1>1, <2>1, <2>2, <3>1 DEF TakingOK
  <2>8. DOMAIN contentItems' \subseteq created' \cup ForeignIds
    BY <1>1, <2>3 DEF MediaInv
  <2> QED BY <1>3, <1>4, <2>5, <2>6, <2>7, <2>8 DEF MediaInv, MakingOK
<1>7. ASSUME r.op \in Removers, DeleteContentRow(c)
      PROVE  MediaInv'
  <2>1. r.op \in OnContent \cap Keepers /\ r.op # "updateContent"
    BY <1>7 DEF OnContent, Keepers, Removers
  <2>2. Taking(h) /\ step[h] = 2
    BY <1>2, <2>1
  <2>3. contentItems' = Without(contentItems, c)
    BY <1>7 DEF DeleteContentRow
  <2>4. FilesAreThere' /\ DOMAIN contentItems' \subseteq created' \cup ForeignIds
    BY <1>1, <2>3 DEF Without, MediaInv, FilesAreThere, HasFile
  <2>5. \A g \in Handlers \ {h} : MakingOK(g)' /\ TakingOK(g)'
    BY <1>1, <2>3, OthersStay DEF Without, MediaInv, MakingOK, TakingOK, HasFile
  <2>6. TakingOK(h)'
    <3>1. req[h].id \in created \cup ForeignIds
      BY <2>2 DEF MediaInv, TakingOK
    <3>2. req'[h].id \notin DOMAIN contentItems'
      BY <1>0, <1>1, <2>3 DEF Without
    <3> QED BY <1>1, <3>1, <3>2 DEF TakingOK
  <2> QED BY <1>3, <1>4, <2>4, <2>5, <2>6 DEF MediaInv, MakingOK
<1>8. ASSUME UNCHANGED contentItems, r.op \notin OnContent
      PROVE  MediaInv'
  BY <1>1, <1>3, <1>8, OthersStay, QuietMediaInv
<1>9. \/ r.op \in OnContent \cap Creating /\ InsertContent(r)
      \/ r.op = "updateContent" /\ UpdateContent(r, kept[h])
      \/ r.op \in Removers /\ DeleteContentRow(c)
      \/ r.op \notin OnContent /\ UNCHANGED contentItems
  <2>1. Execute(r, kept[h])
    BY <1>0
  <2> QED BY <2>1, Effects
          DEF InsertPlaylist, PutPlaylist, ReplaceItems, DeletePlaylistRow,
              SetDefault, InsertSchedule, UpdateSchedule, PutSchedule,
              DeleteScheduleRow, OnContent, tables
<1> QED BY <1>5, <1>6, <1>7, <1>8, <1>9

LEMMA HandleMediaInv ==
  ASSUME Typed, OriginsOK, MediaInv, NEW h \in Handlers, Handle(h)
  PROVE  MediaInv'
<1>1. CASE Write(h) /\ ~Return(h)
  <2>1. /\ At(h, "write") /\ req[h] \in Requests /\ Execute(req[h], kept[h])
        /\ Proceed(h) /\ UNCHANGED kept /\ UNCHANGED <<media, taken>>
    BY <1>1, Serving DEF Write, Typed
  <2> QED BY <2>1, WriteMediaInv
<1>2. CASE \/ Read(h) \/ NotDefault(h) \/ Count(h) \/ CheckContent(h)
           \/ CheckTarget(h) \/ ReadBack(h) \/ Signal(h)
           \/ Write(h) /\ Return(h)
  <2>1. UNCHANGED <<contentItems, media, taken>>
    <3>1. CASE Write(h) /\ Return(h)
      <4>1. ~Proceed(h)
        BY <3>1 DEF Write, At, Return, Proceed, Typed, HandlersInv, HandlersOK
      <4> QED BY <3>1, <4>1 DEF Write, tables
    <3> QED BY <1>2, <3>1 DEF Read, NotDefault, Count, CheckContent, CheckTarget,
                              ReadBack, Signal, stored, tables
  <2>2. Busy(h)
    BY <1>2 DEF Read, NotDefault, Count, CheckContent, CheckTarget, Write,
                ReadBack, Signal, At, Busy
  <2>3. CASE Return(h)
    <3>1. ~Making(h)' /\ ~Taking(h)'
      BY <2>3 DEF Return, Making, Taking, Busy, Typed, HandlersInv, HandlersOK
    <3> QED BY <2>1, <3>1, OthersStay, QuietMediaInv
  <2>4. CASE ~Return(h)
    <3>1. ~At(h, "save") /\ ~At(h, "keep") /\ ~At(h, "write")
      BY <1>2, <2>4 DEF Read, NotDefault, Count, CheckContent, CheckTarget,
                        ReadBack, Signal, At
    <3>2. \/ Proceed(h) /\ UNCHANGED kept
          \/ UNCHANGED <<req, step, kept>>
      BY <1>2, <2>4 DEF Read, NotDefault, Count, CheckContent, CheckTarget,
                        ReadBack, Signal, Unless
    <3>3. /\ Making(h) => step[h] \notin {1, 2}
          /\ Taking(h) => step[h] \in {3, 4, 5}
          /\ req[h].op \in OnContent \cap Keepers => step[h] # 1
          /\ step[h] \in 1 .. 5
      BY <2>2, <3>1, ContentStages DEF Taking
    <3>4. ~Making(h)
      BY <3>3 DEF Making
    <3>5. CASE UNCHANGED <<req, step, kept>>
      BY <2>1, <3>5, OthersStay, QuietMediaInv DEF Making, Taking, Busy
    <3>6. CASE Proceed(h) /\ UNCHANGED kept
      <4>1. req' = req /\ step'[h] = step[h] + 1
        BY <3>6 DEF Proceed, Typed, HandlersInv, HandlersOK
      <4>2. ~Making(h)'
        BY <2>2, <3>3, <3>4, <4>1 DEF Making, Busy
      <4>3. Taking(h)' => Taking(h) /\ step'[h] \in {4, 5, 6}
        BY <2>2, <3>3, <4>1 DEF Taking, Busy
      <4> QED BY <2>1, <3>6, <4>1, <4>2, <4>3, OthersStay, QuietMediaInv
    <3> QED BY <3>2, <3>5, <3>6
  <2> QED BY <2>3, <2>4
<1> QED BY <1>1, <1>2, SaveMediaInv, RemoveMediaInv, KeepMediaInv DEF Handle

LEMMA MediaInit == Init => MediaInv
<1> SUFFICES ASSUME Init PROVE MediaInv
  OBVIOUS
<1>1. /\ \A h \in Handlers : ~Busy(h)
      /\ created = DOMAIN playlists \cup DOMAIN schedules \cup DOMAIN contentItems
      /\ media = [c \in Contents |->
           IF c \in Media \cap DOMAIN contentItems
           THEN contentItems[c].version ELSE NoFile]
  BY DEF Init, Busy
<1>2. IsTable(contentItems, Contents, ContentRow)
  BY TypedInit DEF Typed, TablesOK, RowsOK
<1>3. FilesAreThere
  BY <1>1, <1>2 DEF FilesAreThere, HasFile, IsTable, ContentRow
<1> QED BY <1>1, <1>3 DEF MediaInv, MakingOK, TakingOK, Making, Taking

LEMMA MediaNext == Typed /\ OriginsOK /\ MediaInv /\ [Next]_vars => MediaInv'
<1> SUFFICES ASSUME Typed, OriginsOK, MediaInv, [Next]_vars PROVE MediaInv'
  OBVIOUS
<1>1. CASE Restart
  <2>1. /\ \A h \in Handlers : ~Busy(h)'
        /\ UNCHANGED <<contentItems, media, taken, created>>
    BY <1>1 DEF Restart, Busy, stored, tables
  <2> QED BY <2>1 DEF MediaInv, FilesAreThere, HasFile, MakingOK, TakingOK, Making, Taking
<1>2. CASE LoopReloads \/ UNCHANGED vars
  <2>1. UNCHANGED <<contentItems, media, taken, created, req, step, kept>>
    BY <1>2 DEF LoopReloads, vars, stored, tables, handlerVars
  <2> QED BY <2>1 DEF MediaInv, FilesAreThere, HasFile, MakingOK, TakingOK, Making,
                      Taking, Busy
<1> QED BY <1>1, <1>2, ReceiveMediaInv, HandleMediaInv, SyncMediaInv DEF Next

(* At whichever steps of creations, deletions and syncs the process dies,  *)
(* a row of this player that names its own file has the whole file: it is  *)
(* there before its row, and is removed only when its row is gone for      *)
(* good, or as what `taken` records, with the row of other content whose   *)
(* source was given its name.                                              *)
THEOREM LocalFilesArePresent == Spec => []LocalMediaPresent
<1>1. OriginsOK /\ MediaInv => LocalMediaPresent
  BY OwnIsNotForeign DEF MediaInv, FilesAreThere, HasFile, LocalMediaPresent,
                         NamesOwnFile
<1> QED BY <1>1, TypedInit, TypedNext, OriginsInit, OriginsNext, MediaInit,
           MediaNext, PTL DEF Spec

=============================================================================
