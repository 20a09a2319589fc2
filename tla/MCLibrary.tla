------------------------------ MODULE MCLibrary ------------------------------
(* A small library for the model checker.                                  *)
EXTENDS Library, TLC

CONSTANTS
  h1, h2,       \* HTTP goroutines
  d, p, c,      \* playlists: the default, one to create, one from the cloud
  k, l, n, w,   \* content: local, from the cloud, one to create, a web page
  s, cs         \* schedules: one to create, one from the cloud

MCHandlers  == {h1, h2}
MCPlaylists == {d, p, c}
MCContents  == {k, l, n, w}
MCMedia     == {k, l, n}
MCSchedules == {s, cs}

Local(default) == [origin |-> "local", isDefault |-> default]
Cloud(default) == [origin |-> "cloud", isDefault |-> default]

(* The default playlist shows both contents, the cloud playlist shows l.   *)
(* Some edits later there are p and a schedule that selects c.             *)
Contents1 == k :> [version |-> 1, origin |-> "local", checksum |-> NoChecksum,
                   file |-> k]
          @@ l :> [version |-> 1, origin |-> "cloud", checksum |-> 1, file |-> l]

FewRows ==
  [playlists     |-> d :> Local(TRUE) @@ c :> Cloud(FALSE),
   playlistItems |-> d :> <<k, l>> @@ p :> <<>> @@ c :> <<l>>,
   schedules     |-> <<>>,
   contentItems  |-> Contents1]

MoreRows ==
  [playlists     |-> d :> Local(TRUE) @@ c :> Cloud(FALSE) @@ p :> Local(FALSE),
   playlistItems |-> d :> <<k, l>> @@ p :> <<k>> @@ c :> <<l>>,
   schedules     |-> s :> [playlist |-> c, priority |-> 1, origin |-> "local"],
   contentItems  |-> Contents1]

SmallTables == {FewRows, MoreRows}

Request(op, id) ==
  [op |-> op, id |-> id, items |-> <<>>, version |-> 2,
   playlist |-> NoPlaylist, priority |-> NoPriority, url |-> NoURL]

(* p may be activated and is never deleted; d is deleted once it may be.   *)
CalmRequests ==
  {Request("createPlaylist", p),
   [Request("setPlaylistItems", p) EXCEPT !.items = <<k, l>>],
   Request("adminPlaylistActivate", p),
   Request("deletePlaylist", d),
   Request("adminPlaylistDelete", c),
   Request("createContentUpload", n), Request("adminContentAddForm", n),
   Request("updateContent", k),
   [Request("updateContent", k) EXCEPT !.url = Elsewhere],
   [Request("updateContent", n) EXCEPT !.url = k],
   Request("deleteContent", k), Request("adminContentDelete", n),
   [Request("createSchedule", s) EXCEPT !.playlist = c, !.priority = 1],
   [Request("updateSchedule", s) EXCEPT !.playlist = d],
   Request("deleteSchedule", s)}

MCPlaylistManifests == {<<>>, <<[id |-> c, items |-> <<l>>]>>}
MCScheduleManifests ==
  {<<>>, <<[id |-> cs, playlist |-> c, priority |-> 2, valid |-> TRUE]>>}
MCContentManifests ==
  {<<>>, <<[id |-> w, version |-> 1, checksum |-> NoChecksum],
           [id |-> l, version |-> 2, checksum |-> 2]>>}

NoManifests == {}
NoRequests  == {}

(* One client activates a playlist, another deletes it.                    *)
RacingRequests == {Request("activatePlaylist", c), Request("deletePlaylist", c)}

(* The playlist a client activates is one the cloud drops.                 *)
ActivatingRequests == {Request("activatePlaylist", c)}
EmptyManifests     == {<<>>}

(* A schedule is created and the playlist it selects deleted.              *)
DeletingRequests ==
  {[Request("createSchedule", s) EXCEPT !.playlist = c, !.priority = 1],
   Request("deletePlaylist", c)}

(* An image gets the address of another one's file, and is deleted.        *)
SharingRequests ==
  {Request("createContentJSON", n),
   [Request("updateContent", n) EXCEPT !.url = k],
   Request("deleteContent", n)}

Symmetry == Permutations(MCHandlers)

=============================================================================
