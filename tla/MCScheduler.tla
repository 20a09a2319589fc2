----------------------------- MODULE MCScheduler -----------------------------
(* Small databases for the model checker.                                  *)
EXTENDS Scheduler, TLC

CONSTANTS
  editor, editor2, viewer, viewer2, loop,  \* goroutines
  p, q,                                    \* playlists
  x, y, z,                                 \* items
  t1, t2                                   \* timers

MCPlaylists == {p, q}
MCItems     == {x, y, z}
MCTimerIds  == {t1, t2}

(* p is the playlist of two items that is the default, if there is one; a  *)
(* schedule may select q; the default may move to q.                       *)
Database(s, d, qs) ==
  [scheduled |-> s, default |-> d,
   items |-> [r \in MCPlaylists |-> IF r = p THEN <<x, y>> ELSE qs]]

FullDatabases ==
  {Database(NoPlaylist, NoPlaylist, <<x>>),  \* nothing to play
   Database(q, p, <<y, x>>),                 \* a schedule; also a default
   Database(q, p, <<x>>)}                    \* the scheduled one cut short

(* No playlist is ever empty.                                              *)
NonEmptyDatabases ==
  {Database(NoPlaylist, p, <<z>>), Database(q, p, <<z>>),
   Database(q, p, <<z, y, x>>)}

(* One playlist of two items, which may be emptied and filled again.       *)
RefillDatabases ==
  {Database(q, p, <<z, y>>), Database(q, p, <<>>)}

(* The default moves from one playlist to another of the same length.      *)
DefaultMoves ==
  {Database(NoPlaylist, p, <<z, y>>), Database(NoPlaylist, q, <<z, y>>)}

NoGoroutine == {}
OneEditor   == {editor}
OneViewer   == {viewer}
TwoEditors  == {editor, editor2}
TwoViewers  == {viewer, viewer2}

ViewersAlike == Permutations(TwoViewers)

=============================================================================
