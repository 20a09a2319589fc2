------------------------------ MODULE Connector ------------------------------
(***************************************************************************)
(* The connection to the cloud (internal/cloud/connector.go): the goroutine*)
(* of Run, which dials, registers, runs the callbacks of OnConnect, reads  *)
(* until the connection breaks and waits before it dials again; and        *)
(* SendMessage, which any goroutine may call at any moment.                *)
(*                                                                         *)
(* A message is on the wire once Write has returned.  What is on the wire  *)
(* arrives in order, unless the connection breaks first.                   *)
(***************************************************************************)
EXTENDS Naturals, Sequences, FiniteSets

CONSTANTS
  NoConn,   \* c.conn when it is nil
  MaxDials  \* bound on the connections of a behaviour

ASSUME ConnectorAssumption == MaxDials \in Nat /\ NoConn \notin Nat

VARIABLES
  run,   \* where Run is
  conn,  \* c.conn: the number of a connection
  dials, \* connections so far; the last one is the only one that may be up
  up,    \* whether it is
  wire   \* messages written to it that have not arrived

connectorVars == <<run, conn, dials, up, wire>>

(* A message is its type and the records in its payload; the registration  *)
(* has none.                                                               *)
Register == [type |-> "register", records |-> {}]

(* Dial, and c.conn set under c.mu; the dial may fail.                     *)
Dial ==
  /\ run = "dial"
  /\ \/ /\ dials < MaxDials
        /\ dials' = dials + 1
        /\ conn' = dials + 1
        /\ up' = TRUE /\ wire' = <<>>
        /\ run' = "register"
     \/ /\ run' = "wait"
        /\ UNCHANGED <<conn, dials, up, wire>>

(* conn.Write on the connection a goroutine took from c.conn: one that is  *)
(* broken or replaced gives an error.                                      *)
Usable(c)     == c = dials /\ up
Write(c, msg) == Usable(c) /\ wire' = Append(wire, msg)

(* sendRegistration: c.conn has been visible to others for some time.      *)
SendRegistration ==
  /\ run = "register"
  /\ \/ Write(conn, Register) /\ run' = "callbacks"
     \/ ~Usable(conn) /\ run' = "close" /\ UNCHANGED wire
  /\ UNCHANGED <<conn, dials, up>>

(* The callbacks have returned; the heartbeat and the read loop start.     *)
CallbacksReturn ==
  /\ run = "callbacks"
  /\ run' = "read"
  /\ UNCHANGED <<conn, dials, up, wire>>

(* readLoop: conn.Read fails.                                              *)
ReadFails ==
  /\ run = "read" /\ ~up
  /\ run' = "close"
  /\ UNCHANGED <<conn, dials, up, wire>>

(* The deferred function of connect.                                       *)
CloseConn ==
  /\ run = "close"
  /\ conn' = NoConn
  /\ run' = "wait"
  /\ UNCHANGED <<dials, up, wire>>

(* time.After(delay).                                                      *)
DelayOver ==
  /\ run = "wait"
  /\ run' = "dial"
  /\ UNCHANGED <<conn, dials, up, wire>>

(* The connection breaks: what is on the wire is lost.                     *)
Break ==
  /\ up
  /\ up' = FALSE /\ wire' = <<>>
  /\ UNCHANGED <<run, conn, dials>>

(* The first message on the wire arrives.                                  *)
Arrive ==
  /\ wire # <<>>
  /\ wire' = Tail(wire)
  /\ UNCHANGED <<run, conn, dials, up>>

ConnectorInit ==
  /\ run = "dial" /\ conn = NoConn
  /\ dials = 0 /\ up = FALSE /\ wire = <<>>

(* The process is gone, and its connection with it.                        *)
ConnectorRestart ==
  /\ run' = "dial" /\ conn' = NoConn
  /\ up' = FALSE /\ wire' = <<>>
  /\ UNCHANGED dials

ConnectorTypeOK ==
  /\ run \in {"dial", "register", "callbacks", "read", "close", "wait"}
  /\ conn \in Nat \cup {NoConn}
  /\ dials \in 0 .. MaxDials
  /\ up \in BOOLEAN

=============================================================================
