---------------------------- MODULE MCDisplayPage ----------------------------
(* A playlist with an item of each kind for the model checker.             *)
EXTENDS DisplayPage, TLC

CONSTANTS image, photo, website, video, widget

MCItems == {image, photo, website, video, widget}
MCKindOf ==
  image :> "image" @@ photo :> "image" @@ website :> "iframe"
  @@ video :> "video" @@ widget :> "other"

=============================================================================
