-------------------------------- MODULE Tables --------------------------------
(***************************************************************************)
(* The SQLite tables behind the player (internal/db/migrations.go) and the *)
(* statements the HTTP handlers and the cloud syncs run on them.           *)
(*                                                                         *)
(* A table is a function from the ids of its rows to the rows.  db.Open    *)
(* allows one connection, so a statement outside a transaction, and a      *)
(* whole transaction, is one step.                                         *)
(***************************************************************************)
EXTENDS Naturals, Sequences

CONSTANTS
  Playlists, Contents, Schedules,  \* ids a row may have
  Versions,                        \* what a content row can say
  NoChecksum,                      \* the empty checksum
  Elsewhere,                       \* a source that names no file of ours
  NoPlaylist                       \* the empty playlist id

VARIABLES
  playlists,      \* id -> [origin, isDefault]
  playlistItems,  \* playlist id -> position -> content id of the item there
  schedules,      \* id -> [playlist, priority, origin]
  contentItems,   \* id -> [version, origin, checksum, file]: the content after
                  \* which the last part of source is named, if any is
  foreignKeys     \* whether the driver enforces REFERENCES: db.Open asks
                  \* for it in a form not every driver understands

tables == <<playlists, playlistItems, schedules, contentItems>>

Origins == {"local", "cloud"}

PlaylistRow == [origin : Origins, isDefault : BOOLEAN]

ScheduleRow == [playlist : Playlists, priority : Nat, origin : Origins]

ContentRow ==
  [version : Versions, origin : Origins, checksum : Versions \cup {NoChecksum},
   file : Contents \cup {Elsewhere}]

(* A table with keys among S.                                              *)
IsTable(t, S, Row) ==
  DOMAIN t \subseteq S /\ \A id \in DOMAIN t : t[id] \in Row

With(table, id, row) ==
  [x \in DOMAIN table \cup {id} |-> IF x = id THEN row ELSE table[x]]

Without(table, id) == [x \in DOMAIN table \ {id} |-> table[x]]

-----------------------------------------------------------------------------
(***************************************************************************)
(* What the scheduler's queries return.                                    *)
(***************************************************************************)

Defaults == {p \in DOMAIN playlists : playlists[p].isDefault}

(* evaluateSchedules with every window open: ORDER BY priority DESC.       *)
Scheduled ==
  IF DOMAIN schedules = {} THEN NoPlaylist
  ELSE LET best == CHOOSE s \in DOMAIN schedules :
                     \A t \in DOMAIN schedules :
                       schedules[t].priority <= schedules[s].priority
       IN  schedules[best].playlist

(* The join of playlists, playlist_items and content_items: what is shown  *)
(* at each position.                                                       *)
Joined(p) ==
  IF p \notin DOMAIN playlists THEN <<>>
  ELSE LET items == playlistItems[p]
       IN  [i \in {j \in DOMAIN items : items[j] \in DOMAIN contentItems} |->
              <<items[i], contentItems[items[i]].version>>]

(* What the player should be showing.                                      *)
Shown ==
  IF Scheduled # NoPlaylist THEN Joined(Scheduled)
  ELSE IF Defaults = {} THEN <<>>
  ELSE Joined(CHOOSE p \in Defaults : TRUE)

-----------------------------------------------------------------------------
(***************************************************************************)
(* Statements.  A statement REFERENCES refuses is disabled here; what the  *)
(* program does then is up to its caller.                                  *)
(***************************************************************************)

HasPlaylist(p) == foreignKeys => p \in DOMAIN playlists
HasContents(s) == foreignKeys => \A i \in DOMAIN s : s[i] \in DOMAIN contentItems

(* INSERT or upsert of one row.                                            *)
PutPlaylist(p, origin) ==
  /\ playlists' = With(playlists, p,
       [origin |-> origin,
        isDefault |-> p \in DOMAIN playlists /\ playlists[p].isDefault])
  /\ UNCHANGED <<schedules, contentItems>>

PutSchedule(s, p, priority, origin) ==
  /\ schedules' = With(schedules, s,
       [playlist |-> p, priority |-> priority, origin |-> origin])
  /\ UNCHANGED <<playlists, playlistItems, contentItems>>

PutContent(k, version, origin, checksum, file) ==
  /\ contentItems' = With(contentItems, k,
       [version |-> version, origin |-> origin, checksum |-> checksum,
        file |-> file])
  /\ UNCHANGED <<playlists, playlistItems, schedules>>

(* DELETE FROM playlist_items, then one INSERT per item.                   *)
SetItems(p, s) == playlistItems' = [playlistItems EXCEPT ![p] = s]

(* DELETE FROM playlists: ON DELETE CASCADE takes its items and the        *)
(* schedules that select it, if foreign keys are enforced.                 *)
DeletePlaylistRow(p) ==
  /\ playlists' = Without(playlists, p)
  /\ IF foreignKeys
     THEN /\ playlistItems' = [playlistItems EXCEPT ![p] = <<>>]
          /\ schedules' =
               [s \in {t \in DOMAIN schedules : schedules[t].playlist # p}
                  |-> schedules[s]]
     ELSE UNCHANGED <<playlistItems, schedules>>
  /\ UNCHANGED contentItems

DeleteScheduleRow(s) ==
  /\ schedules' = Without(schedules, s)
  /\ UNCHANGED <<playlists, playlistItems, contentItems>>

(* The items that are left keep their positions.                           *)
DeleteContentRow(k) ==
  /\ contentItems' = Without(contentItems, k)
  /\ IF foreignKeys
     THEN playlistItems' =
            [p \in Playlists |->
               [i \in {j \in DOMAIN playlistItems[p] : playlistItems[p][j] # k}
                  |-> playlistItems[p][i]]]
     ELSE UNCHANGED playlistItems
  /\ UNCHANGED <<playlists, schedules>>

(* The transaction of activatePlaylist: UPDATE ... SET is_default = 0      *)
(* WHERE is_default = 1, then SET is_default = 1 WHERE id = p.             *)
SetDefault(p) ==
  /\ playlists' =
       [r \in DOMAIN playlists |-> [playlists[r] EXCEPT !.isDefault = (r = p)]]
  /\ UNCHANGED <<playlistItems, schedules, contentItems>>

=============================================================================
