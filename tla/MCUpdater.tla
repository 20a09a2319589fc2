------------------------------ MODULE MCUpdater ------------------------------
(* A device, three releases and a release candidate, for the model checker. *)
EXTENDS Updater, TLC

CONSTANTS r1, c2, r2, r3  \* v1.0.0, v2.0.0-rc1, v2.0.0, v3.0.0

MCReleases == {r1, c2, r2, r3}

MCCore == (r1 :> 1) @@ (c2 :> 2) @@ (r2 :> 2) @@ (r3 :> 3)

(* Units that may do all they need, one of the two, or nothing of it.      *)
MCUnits == [mayMove : BOOLEAN, mayRestart : BOOLEAN]

(* deploy/afficho.service: User=afficho, and ProtectSystem=strict with     *)
(* nothing writable but the data and the logs.                             *)
ShippedUnit == {[mayMove |-> FALSE, mayRestart |-> FALSE]}

=============================================================================
