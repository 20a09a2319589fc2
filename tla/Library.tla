------------------------------- MODULE Library -------------------------------
(***************************************************************************)
(* The library of the player: HTTP handlers (internal/api/handlers.go and  *)
(* admin.go) and the cloud syncs (internal/cloud/playlist.go, schedule.go, *)
(* content.go) that change the tables and the media files at the same time *)
(* and the signal to the scheduler each of them owes afterwards.           *)
(*                                                                         *)
(* A handler is a sequence of stages: it looks rows up, runs one statement *)
(* or transaction that changes them, reads the row back and signals.       *)
(* Every other goroutine may run between two stages.  The scheduler is     *)
(* reduced to what SchedulerProofs shows of it: a token in its channel     *)
(* makes it read all the rows that were committed when it was sent.        *)
(*                                                                         *)
(* Media files (internal/content/manager.go) are named after the content   *)
(* they belong to and are written and removed in steps of their own.       *)
(***************************************************************************)
EXTENDS Tables

CONSTANTS
  Handlers,           \* HTTP goroutines
  Requests,           \* the requests clients may send
  NoRequest,
  NoRow,
  NoPriority, NoURL,  \* absent fields of a request
  Media,              \* content of type image or video
  NoFile, Partial,    \* no file, and one that is not all there
  InitialTables,      \* the databases the player may start with
  DriverEnforces,     \* whether drivers may, or may not, enforce REFERENCES
  PlaylistManifests,  \* the manifests the cloud may send, each a sequence
  ScheduleManifests,  \*   of rows
  ContentManifests,
  MaxArrivals         \* bound on the requests and manifests that arrive

ASSUME LibraryAssumption ==
  /\ NoPlaylist \notin Playlists
  /\ NoRow \notin ScheduleRow \cup ContentRow
  /\ Media \subseteq Contents
  /\ {NoFile, Partial} \cap Versions = {}
  /\ NoRequest \notin Requests
  /\ NoPriority \notin Nat
  /\ NoChecksum \notin Versions
  /\ Elsewhere \notin Contents /\ NoURL \notin Contents \cup {Elsewhere}
  /\ DriverEnforces \subseteq BOOLEAN
  /\ MaxArrivals \in Nat

VARIABLES
  media,     \* the file of each content: none, partial, or of some version
  taken,     \* history: files that went with the row of other content
  req,       \* the request each handler serves
  step,      \* how far it is
  asked,     \* how many content ids setPlaylistItems has looked up
  kept,      \* the row updateSchedule, updateContent, deleteContent read
  phase,     \* where the cloud connector's read loop is in a sync
  kind,      \* which sync it runs
  todo,      \* manifest rows still to be applied
  manifest,  \* ids in the manifest
  stale,     \* ids deleteStale has still to delete
  reload,    \* whether the scheduler's channel holds its token
  seen,      \* history: what the scheduler's last reload read
  silent,    \* history: rows changed since by a sync that will not signal
  created,   \* history: ids handed out by uuid.New, never reused
  applied,   \* history: manifest ids of the last sync of each kind
  arrivals   \* how many requests and manifests have arrived, for the bound

handlerVars == <<req, step, asked, kept, created>>
arrivalVars == <<arrivals, foreignKeys>>
syncVars    == <<phase, kind, todo, manifest, stale, applied>>
loopVars    == <<reload, seen, silent>>
stored      == <<tables, media, taken>>
vars        == <<stored, arrivalVars, handlerVars, syncVars, loopVars>>

Kinds == {"playlist", "schedule", "content"}
None  == {"none"}

-----------------------------------------------------------------------------
(***************************************************************************)
(* The stages of each handler.                                             *)
(***************************************************************************)

(* A fault, see below: deleteContent removes the file before the row.      *)
FileFirst == <<"keep", "remove", "write", "signal">>

createContentJSON     == <<"save", "write", "readBack", "signal">>
createContentUpload   == createContentJSON
adminContentAddForm   == <<"save", "write", "signal">>
adminContentAddUpload == adminContentAddForm
updateContent         == <<"keep", "write", "readBack", "signal">>
deleteContent         == <<"keep", "write", "remove", "signal">>
adminContentDelete    == deleteContent
createPlaylist        == <<"write", "readBack", "signal">>
adminPlaylistCreate   == <<"write", "signal">>
setPlaylistItems      == <<"read", "contents", "write", "readBack", "signal">>
deletePlaylist        == <<"notDefault", "count", "write", "signal">>
adminPlaylistDelete   == <<"notDefault", "write", "signal">>
activatePlaylist      == <<"read", "write", "readBack", "signal">>
adminPlaylistActivate == <<"read", "write", "signal">>
createSchedule        == <<"target", "write", "readBack", "signal">>
adminScheduleCreate   == <<"write", "signal">>
updateSchedule        == <<"keep", "target", "write", "readBack", "signal">>
deleteSchedule        == <<"read", "write", "signal">>
adminScheduleDelete   == deleteSchedule

Routes ==
  [createContentJSON     |-> createContentJSON,
   createContentUpload   |-> createContentUpload,
   adminContentAddForm   |-> adminContentAddForm,
   adminContentAddUpload |-> adminContentAddUpload,
   updateContent         |-> updateContent,
   deleteContent         |-> deleteContent,
   adminContentDelete    |-> adminContentDelete,
   createPlaylist        |-> createPlaylist,
   adminPlaylistCreate   |-> adminPlaylistCreate,
   setPlaylistItems      |-> setPlaylistItems,
   deletePlaylist        |-> deletePlaylist,
   adminPlaylistDelete   |-> adminPlaylistDelete,
   activatePlaylist      |-> activatePlaylist,
   adminPlaylistActivate |-> adminPlaylistActivate,
   createSchedule        |-> createSchedule,
   adminScheduleCreate   |-> adminScheduleCreate,
   updateSchedule        |-> updateSchedule,
   deleteSchedule        |-> deleteSchedule,
   adminScheduleDelete   |-> adminScheduleDelete]

OnContent  == {"createContentJSON", "createContentUpload", "updateContent",
               "deleteContent", "adminContentAddForm", "adminContentAddUpload",
               "adminContentDelete"}
OnSchedule == {"createSchedule", "updateSchedule", "deleteSchedule",
               "adminScheduleCreate", "adminScheduleDelete"}

(* The ids of the rows of the table a request is about.                    *)
Rows(op) ==
  CASE op \in OnContent  -> DOMAIN contentItems
    [] op \in OnSchedule -> DOMAIN schedules
    [] OTHER             -> DOMAIN playlists

(* The rows of a kind that came from the cloud.                            *)
CloudIds(k) ==
  CASE k = "playlist" -> {p \in DOMAIN playlists : playlists[p].origin = "cloud"}
    [] k = "schedule" -> {s \in DOMAIN schedules : schedules[s].origin = "cloud"}
    [] OTHER -> {c \in DOMAIN contentItems : contentItems[c].origin = "cloud"}

At(h, stage) == req[h] # NoRequest /\ Routes[req[h].op][step[h]] = stage
Serves(h, ops) == req[h].op \in ops

(* To the handler's next stage, and to its return.                         *)
Proceed(h) == /\ step' = [step EXCEPT ![h] = @ + 1]
              /\ asked' = [asked EXCEPT ![h] = 0]
              /\ UNCHANGED <<req, created>>
Return(h)  == /\ req' = [req EXCEPT ![h] = NoRequest]
              /\ step' = [step EXCEPT ![h] = 1]
              /\ asked' = [asked EXCEPT ![h] = 0]
              /\ kept' = [kept EXCEPT ![h] = NoRow]
              /\ UNCHANGED created

(* Go on if the condition holds, else answer with an error.                *)
Unless(h, found) ==
  \/ found /\ Proceed(h) /\ UNCHANGED kept
  \/ ~found /\ Return(h)

-----------------------------------------------------------------------------
(***************************************************************************)
(* Faults: plausible slips in the operations below, which the properties   *)
(* must be able to tell from the code.                                     *)
(***************************************************************************)

(* deletePlaylist without its question for is_default.                     *)
DeleteAny(h) ==
  /\ At(h, "notDefault")
  /\ Unless(h, req[h].id \in DOMAIN playlists)
  /\ UNCHANGED <<arrivals, stored, syncVars, loopVars>>

(* updateSchedule writes the priority of the request though it has none.   *)
ReplacePriority(r, row) == r.priority

(* deleteStale takes an empty manifest for a manifest that is missing, or  *)
(* lists the rows without asking for their origin.                         *)
CollectUnlessEmpty ==
  /\ phase = "apply" /\ todo = <<>>
  /\ stale' = IF manifest = {} THEN {} ELSE CloudIds(kind) \ manifest
  /\ phase' = "delete"
  /\ UNCHANGED <<arrivals, kind, todo, manifest, applied, stored, handlerVars, loopVars>>
CollectAll ==
  /\ phase = "apply" /\ todo = <<>>
  /\ stale' = DOMAIN playlists \ manifest
  /\ phase' = "delete"
  /\ UNCHANGED <<arrivals, kind, todo, manifest, applied, stored, handlerVars, loopVars>>

(* The schedule sync ends like the content sync.                           *)
SignalsPlaylists == {"playlist"}

(* Run does not begin with a reload.                                       *)
RestartEmpty ==
  /\ req' = [h \in Handlers |-> NoRequest]
  /\ step' = [h \in Handlers |-> 1]
  /\ asked' = [h \in Handlers |-> 0]
  /\ kept' = [h \in Handlers |-> NoRow]
  /\ phase' = "idle" /\ kind' = "playlist"
  /\ todo' = <<>> /\ manifest' = {} /\ stale' = {}
  /\ reload' = FALSE
  /\ seen' = <<>>
  /\ silent' = FALSE
  /\ UNCHANGED <<arrivals, stored, created, applied>>

-----------------------------------------------------------------------------
Init ==
  /\ \E t \in InitialTables :
       /\ playlists = t.playlists
       /\ playlistItems = t.playlistItems
       /\ schedules = t.schedules
       /\ contentItems = t.contentItems
       /\ media = [k \in Contents |->
            IF k \in Media \cap DOMAIN t.contentItems
            THEN t.contentItems[k].version ELSE NoFile]
       /\ taken = {}
       /\ created = DOMAIN t.playlists \cup DOMAIN t.schedules
                      \cup DOMAIN t.contentItems
  /\ foreignKeys \in DriverEnforces
  /\ arrivals = 0
  /\ req = [h \in Handlers |-> NoRequest]
  /\ step = [h \in Handlers |-> 1]
  /\ asked = [h \in Handlers |-> 0]
  /\ kept = [h \in Handlers |-> NoRow]
  /\ phase = "idle" /\ kind = "playlist"
  /\ todo = <<>> /\ manifest = {} /\ stale = {}
  /\ applied = [k \in Kinds |-> None]
  /\ reload = FALSE
  /\ seen = Shown
  /\ silent = FALSE

-----------------------------------------------------------------------------
(***************************************************************************)
(* HTTP handlers.                                                          *)
(***************************************************************************)

Creating == {"createContentJSON", "createContentUpload", "adminContentAddForm",
             "adminContentAddUpload", "createPlaylist", "adminPlaylistCreate",
             "createSchedule", "adminScheduleCreate"}

(* A request arrives; one that creates a row gets an id never used before. *)
(* An address on this player names the file of content clients know of.    *)
Receive(h, r) ==
  /\ req[h] = NoRequest
  /\ arrivals < MaxArrivals /\ arrivals' = arrivals + 1
  /\ r.op \in Creating => r.id \notin created
  /\ r.url \in Contents => r.url \in DOMAIN contentItems
  /\ req' = [req EXCEPT ![h] = r]
  /\ created' = IF r.op \in Creating THEN created \cup {r.id} ELSE created
  /\ UNCHANGED <<step, asked, kept, stored, syncVars, loopVars>>

(* SELECT of the row the request names: 404 if there is none.              *)
Read(h) ==
  /\ At(h, "read")
  /\ Unless(h, req[h].id \in Rows(req[h].op))
  /\ UNCHANGED <<arrivals, stored, syncVars, loopVars>>

(* updateSchedule and updateContent keep the row they have read, to merge  *)
(* the request into it, and deleteContent to know the file it names.       *)
Keep(h) ==
  /\ At(h, "keep")
  /\ \/ /\ req[h].id \in Rows(req[h].op)
        /\ kept' = [kept EXCEPT ![h] =
             IF Serves(h, OnContent) THEN contentItems[req[h].id]
             ELSE schedules[req[h].id]]
        /\ Proceed(h)
     \/ req[h].id \notin Rows(req[h].op) /\ Return(h)
  /\ UNCHANGED <<arrivals, stored, syncVars, loopVars>>

(* A playlist is deleted only if it is there and is not the default.       *)
NotDefault(h) ==
  /\ At(h, "notDefault")
  /\ Unless(h, req[h].id \in DOMAIN playlists \ Defaults)
  /\ UNCHANGED <<arrivals, stored, syncVars, loopVars>>

(* ... and not the last one.                                               *)
Count(h) ==
  /\ At(h, "count")
  /\ Unless(h, \E p, r \in DOMAIN playlists : p # r)
  /\ UNCHANGED <<arrivals, stored, syncVars, loopVars>>

(* Every content id of the new items must exist; one query after another.  *)
CheckContent(h) ==
  /\ At(h, "contents")
  /\ \/ /\ asked[h] = Len(req[h].items)
        /\ Proceed(h) /\ UNCHANGED kept
     \/ /\ asked[h] < Len(req[h].items)
        /\ req[h].items[asked[h] + 1] \in DOMAIN contentItems
        /\ asked' = [asked EXCEPT ![h] = @ + 1]
        /\ UNCHANGED <<req, step, kept, created>>
     \/ /\ asked[h] < Len(req[h].items)
        /\ req[h].items[asked[h] + 1] \notin DOMAIN contentItems
        /\ Return(h)
  /\ UNCHANGED <<arrivals, stored, syncVars, loopVars>>

(* The playlist a schedule shall select must exist; updateSchedule looks   *)
(* only if the request names one.                                          *)
CheckTarget(h) ==
  /\ At(h, "target")
  /\ Unless(h, \/ req[h].playlist \in DOMAIN playlists
               \/ Serves(h, {"updateSchedule"}) /\ req[h].playlist = NoPlaylist)
  /\ UNCHANGED <<arrivals, stored, syncVars, loopVars>>

(* The statement, or the transaction, of each operation.                   *)
InsertContent(r)  ==
  PutContent(r.id, r.version, "local", NoChecksum,
             IF r.id \in Media THEN r.id ELSE Elsewhere)
InsertPlaylist(r) == PutPlaylist(r.id, "local") /\ UNCHANGED playlistItems
InsertSchedule(r) == PutSchedule(r.id, r.playlist, r.priority, "local")

(* A request with a URL replaces the source, whatever the URL is; the file *)
(* is left behind, and so is the checksum.                                 *)
Source(r, row) == IF r.url = NoURL THEN row.file ELSE r.url

UpdateContent(r, row) ==
  IF r.id \in DOMAIN contentItems
  THEN PutContent(r.id, r.version, contentItems[r.id].origin,
                  contentItems[r.id].checksum, Source(r, row))
  ELSE UNCHANGED tables

ReplaceItems(r) ==
  SetItems(r.id, r.items) /\ UNCHANGED <<playlists, schedules, contentItems>>

(* updateSchedule merges the request, field by field, into the row it read.*)
Target(r, row)   == IF r.playlist = NoPlaylist THEN row.playlist ELSE r.playlist
Priority(r, row) == IF r.priority = NoPriority THEN row.priority ELSE r.priority

UpdateSchedule(r, row) ==
  IF r.id \in DOMAIN schedules
  THEN PutSchedule(r.id, Target(r, row), Priority(r, row), schedules[r.id].origin)
  ELSE UNCHANGED tables

Execute(r, row) ==
  CASE r.op \in OnContent \cap Creating         -> InsertContent(r)
    [] r.op = "updateContent"                   -> UpdateContent(r, row)
    [] r.op \in {"deleteContent", "adminContentDelete"} -> DeleteContentRow(r.id)
    [] r.op \in {"createPlaylist", "adminPlaylistCreate"} -> InsertPlaylist(r)
    [] r.op = "setPlaylistItems"                -> ReplaceItems(r)
    [] r.op \in {"deletePlaylist", "adminPlaylistDelete"} -> DeletePlaylistRow(r.id)
    [] r.op \in {"activatePlaylist", "adminPlaylistActivate"} -> SetDefault(r.id)
    [] r.op \in {"createSchedule", "adminScheduleCreate"} -> InsertSchedule(r)
    [] r.op = "updateSchedule"                  -> UpdateSchedule(r, row)
    [] OTHER                                    -> DeleteScheduleRow(r.id)

(* Whether the rows the statement refers to are there.                     *)
Accepted(r, row) ==
  CASE r.op = "setPlaylistItems" -> HasPlaylist(r.id) /\ HasContents(r.items)
    [] r.op \in {"createSchedule", "adminScheduleCreate"} -> HasPlaylist(r.playlist)
    [] r.op = "updateSchedule" ->
         r.id \in DOMAIN schedules => HasPlaylist(Target(r, row))
    [] OTHER -> TRUE

(* The write stage: a statement SQLite refuses leaves the tables alone and *)
(* ends the request with an error.                                         *)
Write(h) ==
  /\ At(h, "write")
  /\ \/ /\ Accepted(req[h], kept[h])
        /\ Execute(req[h], kept[h])
        /\ Proceed(h) /\ UNCHANGED kept
     \/ /\ ~Accepted(req[h], kept[h])
        /\ Return(h) /\ UNCHANGED tables
  /\ UNCHANGED <<arrivals, media, taken, syncVars, loopVars>>

(* The file of new content.  DownloadMedia writes it under another name    *)
(* and renames it; SaveUpload writes it in place; if they fail they remove *)
(* what they wrote and the request ends.                                   *)
Uploads == {"createContentUpload", "adminContentAddUpload"}

Store(k, file) == media' = [media EXCEPT ![k] = file] /\ UNCHANGED taken

Save(h) ==
  /\ At(h, "save")
  /\ \/ /\ Serves(h, Uploads) => media[req[h].id] = Partial
        /\ Store(req[h].id, IF req[h].id \in Media THEN req[h].version ELSE NoFile)
        /\ Proceed(h) /\ UNCHANGED kept
     \/ /\ req[h].id \in Media
        /\ Store(req[h].id, NoFile)
        /\ Return(h)
  /\ UNCHANGED <<arrivals, tables, syncVars, loopVars>>

BeginUpload(h) ==
  /\ At(h, "save")
  /\ Serves(h, Uploads)
  /\ media[req[h].id] = NoFile
  /\ Store(req[h].id, Partial)
  /\ UNCHANGED <<arrivals, tables, handlerVars, syncVars, loopVars>>

(* deleteContent removes, once the row of an image or video is gone, the   *)
(* file that the last part of its source names, whatever its source is.    *)
Remove(h) ==
  /\ At(h, "remove")
  /\ IF req[h].id \in Media /\ kept[h].file \in Contents
     THEN /\ media' = [media EXCEPT ![kept[h].file] = NoFile]
          /\ taken' = taken \cup ({kept[h].file} \ {req[h].id})
     ELSE UNCHANGED <<media, taken>>
  /\ Proceed(h)
  /\ UNCHANGED <<kept, arrivals, tables, syncVars, loopVars>>

(* The handler reads the row it wrote back to answer with it.  If the row  *)
(* is gone again it answers with an error and does not signal.             *)
ReadBack(h) ==
  /\ At(h, "readBack")
  /\ Unless(h, req[h].id \in Rows(req[h].op))
  /\ UNCHANGED <<arrivals, stored, syncVars, loopVars>>

(* TriggerReload, BroadcastCurrent, and the answer.                        *)
Signal(h) ==
  /\ At(h, "signal")
  /\ reload' = TRUE
  /\ Return(h)
  /\ UNCHANGED <<arrivals, stored, seen, silent, syncVars>>

-----------------------------------------------------------------------------
(***************************************************************************)
(* Cloud syncs, one at a time in the connector's read loop.                *)
(***************************************************************************)

Manifests(k) ==
  CASE k = "playlist" -> PlaylistManifests
    [] k = "schedule" -> ScheduleManifests
    [] OTHER          -> ContentManifests

Ids(rows) == {rows[i].id : i \in DOMAIN rows}

(* A manifest arrives.                                                     *)
SyncReceive(k) ==
  /\ phase = "idle"
  /\ arrivals < MaxArrivals /\ arrivals' = arrivals + 1
  /\ \E m \in Manifests(k) : todo' = m /\ manifest' = Ids(m)
  /\ phase' = "apply" /\ kind' = k
  /\ applied' = [applied EXCEPT ![k] = None]
  /\ UNCHANGED <<stale, stored, handlerVars, loopVars>>

(* One row of the manifest fails: logged, and the sync goes on.            *)
Skip == UNCHANGED tables

(* syncPlaylist: one transaction upserts the row and replaces its items.   *)
SyncPlaylist(row) ==
  IF HasContents(row.items)
  THEN PutPlaylist(row.id, "cloud") /\ SetItems(row.id, row.items)
  ELSE Skip

(* syncSchedule: an invalid window is refused before the statement.        *)
SyncSchedule(row) ==
  IF row.valid /\ HasPlaylist(row.playlist)
  THEN PutSchedule(row.id, row.playlist, row.priority, "cloud")
  ELSE Skip

(* syncItem, for what is no image or video: an item already there with the *)
(* manifest's checksum, if it gives one, is left alone.                    *)
Cached(row) ==
  /\ row.checksum # NoChecksum
  /\ row.id \in DOMAIN contentItems
  /\ contentItems[row.id].checksum = row.checksum

SyncItem(row) ==
  IF Cached(row) THEN Skip
  ELSE PutContent(row.id, row.version, "cloud", row.checksum, Elsewhere)

Downloads(row) == kind = "content" /\ row.id \in Media /\ ~Cached(row)

Sync(row) ==
  CASE kind = "playlist" -> SyncPlaylist(row)
    [] kind = "schedule" -> SyncSchedule(row)
    [] OTHER             -> SyncItem(row)

(* content.go has no TriggerReload: this change waits for the ticker.      *)
Unsignalled == kind = "content" /\ tables' # tables

Apply(row) ==
  /\ Sync(row)
  /\ todo' = Tail(todo)
  /\ silent' = (silent \/ Unsignalled)
  /\ phase' = "apply"
  /\ UNCHANGED <<arrivals, kind, manifest, stale, applied, handlerVars, reload, seen>>

SyncApply ==
  /\ phase = "apply" /\ todo # <<>>
  /\ ~Downloads(Head(todo))
  /\ Apply(Head(todo))
  /\ UNCHANGED <<media, taken>>

(* downloadAndVerify: the server answers and the file is truncated.        *)
SyncDownload ==
  /\ phase = "apply" /\ todo # <<>>
  /\ Downloads(Head(todo))
  /\ Store(Head(todo).id, Partial)
  /\ phase' = "download"
  /\ UNCHANGED <<arrivals, kind, todo, manifest, stale, applied, tables,
                 handlerVars, loopVars>>

(* All of it has come and has the checksum, which is taken of what comes:  *)
(* that the file has been removed meanwhile is not noticed.                *)
SyncVerified ==
  /\ phase = "download"
  /\ LET row == Head(todo)
     IN  Store(row.id, IF media[row.id] = Partial THEN row.version ELSE NoFile)
  /\ phase' = "upsert"
  /\ UNCHANGED <<arrivals, kind, todo, manifest, stale, applied, tables,
                 handlerVars, loopVars>>

(* The upsert of the item that was downloaded.                             *)
SyncUpsert ==
  /\ phase = "upsert"
  /\ LET row == Head(todo)
     IN  PutContent(row.id, row.version, "cloud", row.version, row.id)
  /\ todo' = Tail(todo)
  /\ silent' = (silent \/ Unsignalled)
  /\ phase' = "apply"
  /\ UNCHANGED <<arrivals, media, taken, kind, manifest, stale, applied,
                 handlerVars, reload, seen>>

(* The request fails, or the file does not have the checksum and is        *)
(* removed: logged, and the sync goes on with the next item.               *)
SyncItemFails ==
  /\ phase \in {"apply", "download"} /\ todo # <<>>
  /\ \/ phase = "download" /\ Store(Head(todo).id, NoFile)
     \/ phase = "apply" /\ Downloads(Head(todo))
        /\ UNCHANGED <<media, taken>>
  /\ todo' = Tail(todo)
  /\ phase' = "apply"
  /\ UNCHANGED <<arrivals, kind, manifest, stale, applied, tables, handlerVars,
                 loopVars>>

(* deleteStale: the ids are collected first, since the one connection is   *)
(* held while the rows are open.                                           *)
SyncCollect ==
  /\ phase = "apply" /\ todo = <<>>
  /\ stale' = CloudIds(kind) \ manifest
  /\ phase' = "delete"
  /\ UNCHANGED <<arrivals, kind, todo, manifest, applied, stored, handlerVars, loopVars>>

(* The file of stale content stays: IsLocalMedia compares the directory    *)
(* with /media/..., which is never inside it.                              *)
DeleteStale(id) ==
  CASE kind = "playlist" -> DeletePlaylistRow(id)
    [] kind = "schedule" -> DeleteScheduleRow(id)
    [] OTHER             -> DeleteContentRow(id)

SyncDelete(id) ==
  /\ phase = "delete" /\ id \in stale
  /\ DeleteStale(id)
  /\ stale' = stale \ {id}
  /\ silent' = (silent \/ Unsignalled)
  /\ UNCHANGED <<arrivals, media, taken, phase, kind, todo, manifest, applied,
                 handlerVars, reload, seen>>

(* Which syncs end with TriggerReload.                                     *)
Signals == {"playlist", "schedule"}

(* The sync ends and is acknowledged.                                      *)
SyncEnd ==
  /\ phase = "delete" /\ stale = {}
  /\ reload' = (reload \/ kind \in Signals)
  /\ applied' = [applied EXCEPT ![kind] = manifest]
  /\ phase' = "idle" /\ kind' = "playlist" /\ manifest' = {}
  /\ UNCHANGED <<arrivals, todo, stale, seen, silent, stored, handlerVars>>

-----------------------------------------------------------------------------
(* The scheduler's loop reads the rows: it takes the token, or its 30      *)
(* second ticker fires and the token stays.                                *)
LoopReloads ==
  /\ reload' \in {FALSE, reload}
  /\ seen' = Shown
  /\ silent' = FALSE
  /\ UNCHANGED <<arrivals, stored, handlerVars, syncVars>>

(* The process dies and is started again: every goroutine is gone, a       *)
(* transaction is there or is not, and the scheduler begins with a reload. *)
Restart ==
  /\ req' = [h \in Handlers |-> NoRequest]
  /\ step' = [h \in Handlers |-> 1]
  /\ asked' = [h \in Handlers |-> 0]
  /\ kept' = [h \in Handlers |-> NoRow]
  /\ phase' = "idle" /\ kind' = "playlist"
  /\ todo' = <<>> /\ manifest' = {} /\ stale' = {}
  /\ reload' = FALSE
  /\ seen' = Shown
  /\ silent' = FALSE
  /\ UNCHANGED <<arrivals, stored, created, applied>>

Handle(h) ==
  \/ Read(h) \/ Keep(h) \/ NotDefault(h) \/ Count(h)
  \/ CheckContent(h) \/ CheckTarget(h) \/ Write(h) \/ ReadBack(h) \/ Signal(h)
  \/ Save(h) \/ BeginUpload(h) \/ Remove(h)

SyncStep ==
  \/ \E k \in Kinds : SyncReceive(k)
  \/ SyncApply \/ SyncDownload \/ SyncVerified \/ SyncUpsert \/ SyncItemFails
  \/ SyncCollect \/ SyncEnd
  \/ \E id \in Playlists \cup Schedules \cup Contents : SyncDelete(id)

Next ==
  /\ \/ \E h \in Handlers, r \in Requests : Receive(h, r)
     \/ \E h \in Handlers : Handle(h)
     \/ SyncStep
     \/ LoopReloads
     \/ Restart
  /\ UNCHANGED foreignKeys

Spec == Init /\ [][Next]_vars

-----------------------------------------------------------------------------
(***************************************************************************)
(* What the constants may be: well-formed requests (the handlers refuse    *)
(* others before they look at a row), manifests and databases, and ids     *)
(* that are UUIDs, so that what the cloud names and what is created on     *)
(* this player never have one in common.                                   *)
(***************************************************************************)
About(op) ==
  CASE op \in OnContent  -> Contents
    [] op \in OnSchedule -> Schedules
    [] OTHER             -> Playlists

AnyId == Playlists \cup Schedules \cup Contents

RequestRow ==
  [op : DOMAIN Routes, id : AnyId,
   items : Seq(Contents), version : Versions,
   playlist : Playlists \cup {NoPlaylist}, priority : Nat \cup {NoPriority},
   url : Contents \cup {Elsewhere, NoURL}]

ASSUME RequestAssumption ==
  \A r \in Requests :
    /\ r \in RequestRow /\ r.id \in About(r.op)
    /\ r.op \in Creating \cap OnSchedule =>
         r.playlist \in Playlists /\ r.priority \in Nat

ManifestRow(k) ==
  CASE k = "playlist" -> [id : Playlists, items : Seq(Contents)]
    [] k = "schedule" ->
         [id : Schedules, playlist : Playlists, priority : Nat, valid : BOOLEAN]
    [] OTHER -> [id : Contents, version : Versions,
                 checksum : Versions \cup {NoChecksum}]

ASSUME ManifestAssumption ==
  \A k \in Kinds : Manifests(k) \subseteq Seq(ManifestRow(k))

RowsOK(lists, items, rows, contents) ==
  /\ IsTable(lists, Playlists, PlaylistRow)
  /\ DOMAIN items = Playlists
  /\ \A p \in Playlists : IsTable(items[p], Nat, Contents)
  /\ IsTable(rows, Schedules, ScheduleRow)
  /\ IsTable(contents, Contents, ContentRow)

ASSUME TablesAssumption ==
  \A t \in InitialTables :
    /\ RowsOK(t.playlists, t.playlistItems, t.schedules, t.contentItems)
    /\ \E p \in DOMAIN t.playlists : t.playlists[p].isDefault

IdsFrom(t, origin) ==
  {p \in DOMAIN t.playlists : t.playlists[p].origin = origin}
    \cup {s \in DOMAIN t.schedules : t.schedules[s].origin = origin}
    \cup {c \in DOMAIN t.contentItems : t.contentItems[c].origin = origin}

Initially(origin) == UNION {IdsFrom(t, origin) : t \in InitialTables}

OwnIds ==
  {r.id : r \in {q \in Requests : q.op \in Creating}} \cup Initially("local")

SentIds == UNION {Ids(m) : m \in UNION {Manifests(k) : k \in Kinds}}

ForeignIds == SentIds \cup Initially("cloud")

ASSUME IdAssumption == OwnIds \cap ForeignIds = {}

-----------------------------------------------------------------------------
TypeOK ==
  /\ RowsOK(playlists, playlistItems, schedules, contentItems)
  /\ media \in [Contents -> Versions \cup {NoFile, Partial}]
  /\ taken \subseteq Contents
  /\ req \in [Handlers -> Requests \cup {NoRequest}]
  /\ step \in [Handlers -> 1 .. 5]
  /\ asked \in [Handlers -> Nat]
  /\ kept \in [Handlers -> ScheduleRow \cup ContentRow \cup {NoRow}]
  /\ phase \in {"idle", "apply", "download", "upsert", "delete"}
  /\ kind \in Kinds
  /\ todo \in Seq(ManifestRow(kind))
  /\ {manifest, stale, created} \subseteq SUBSET AnyId
  /\ applied \in [Kinds -> {None} \cup SUBSET AnyId]
  /\ reload \in BOOLEAN
  /\ silent \in BOOLEAN

(* A goroutine that has changed rows and has its signal still to send.     *)
WillSignal ==
  \/ \E h \in Handlers : At(h, "readBack") \/ At(h, "remove") \/ At(h, "signal")
  \/ phase # "idle" /\ kind \in Signals

(* Whatever is committed, by handlers and syncs in any order, is shown or  *)
(* the scheduler will be told, except for what a content sync did: a       *)
(* handler that skips its signal because the row it reads back is gone     *)
(* relies on whoever deleted the row.                                      *)
EditsAreSignalled == seen = Shown \/ reload \/ WillSignal \/ silent

(* The contract of FreshCopy, of what the player should show and what the  *)
(* scheduler has read: while anybody owes a reload it may lag behind, and  *)
(* no interleaving of handlers, syncs and restarts ends the last           *)
(* obligation with a queue of other rows.                                  *)
Contract == INSTANCE FreshCopy WITH
              truth <- Shown, copy <- seen,
              owed <- reload \/ WillSignal \/ silent

KeepsShownFresh == Contract!Spec

(* Every change of content or playlists is signalled, without waiting for  *)
(* the ticker.                                                             *)
NeverWaitsForTicker == seen = Shown \/ reload \/ WillSignal

(* There is a default playlist for the player to fall back on.             *)
HasDefault == Defaults # {}

(* "cannot delete the default playlist": none is deleted while it is it.   *)
DefaultNotDeleted == [][Defaults \subseteq DOMAIN playlists']_vars

(* After a sync the rows that came from the cloud are rows of its manifest,*)
(* whatever handlers and other syncs did meanwhile, and across a restart.  *)
CloudRowsFollowManifest ==
  \A k \in Kinds : applied[k] # None => CloudIds(k) \subseteq applied[k]

LocalRows(k) ==
  CASE k = "playlist" ->
         {<<p, playlists[p]>> : p \in DOMAIN playlists \ CloudIds(k)}
    [] k = "schedule" ->
         {<<s, schedules[s]>> : s \in DOMAIN schedules \ CloudIds(k)}
    [] OTHER ->
         {<<c, contentItems[c]>> : c \in DOMAIN contentItems \ CloudIds(k)}

(* A sync of one kind never touches a row of that kind that is of local    *)
(* origin.                                                                 *)
LocalRowsPreserved ==
  [][SyncStep => \A k \in {kind} : LocalRows(k)' = LocalRows(k)]_vars

(* The file of content that was uploaded or downloaded on this player.     *)
NamesOwnFile(c) ==
  c \in Media /\ contentItems[c].origin = "local" /\ contentItems[c].file = c

(* Content that was uploaded or downloaded on this player has its whole    *)
(* file as long as it has a row naming it, at whichever step of a creation *)
(* or deletion the process dies, unless other content has been deleted     *)
(* whose source was given the name of this file.                           *)
LocalMediaPresent ==
  \A c \in DOMAIN contentItems :
    NamesOwnFile(c) => media[c] \in Versions \/ c \in taken

(* "Clean up local media file if applicable": what is deleted with a row   *)
(* is its own file.                                                        *)
OthersKeepFiles ==
  \A c \in DOMAIN contentItems : NamesOwnFile(c) => media[c] \in Versions

(* A content sync leaves a row alone whose checksum is the manifest's; the *)
(* file should then be there.                                              *)
CachedIsStored ==
  phase = "idle" =>
    \A c \in CloudIds("content") :
      contentItems[c].file = c => media[c] = contentItems[c].checksum

(* No item or schedule of a row that was deleted stays behind.             *)
NoOrphans ==
  /\ \A p \in Playlists : playlistItems[p] # <<>> => p \in DOMAIN playlists
  /\ \A s \in DOMAIN schedules : schedules[s].playlist \in DOMAIN playlists

=============================================================================
