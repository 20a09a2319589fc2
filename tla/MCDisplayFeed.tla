---------------------------- MODULE MCDisplayFeed ----------------------------
(* One page and the goroutines that talk to it.                            *)
EXTENDS DisplayFeed

CONSTANTS
  x,             \* an item
  page,
  loop, viewer,  \* goroutines that change the current item
  ann, bob       \* and the setting

MCItems   == {x}
MCPages   == {page}
MCViewers == {viewer}
MCAdmins  == {ann, bob}

=============================================================================
