------------------------------- MODULE PlayLog -------------------------------
(***************************************************************************)
(* Proof of play (internal/cloud/playlog.go): every change of the item on  *)
(* the screen closes the record of the item before it, and records are     *)
(* sent to the cloud in batches, by a ticker and on every new connection,  *)
(* and marked as synced.  The cloud acknowledges nothing.                  *)
(*                                                                         *)
(* pl.mu makes RecordTransition one step.  Flush takes no lock.            *)
(***************************************************************************)
EXTENDS Connector

CONSTANTS
  Items, NoItem,
  Callers,         \* goroutines of the scheduler's OnChange callback
  Logger, Runner,  \* the goroutines of PlayLogger.Run and Connector.Run
  BatchSize,       \* pl.batchSize
  TicksPerSecond,  \* how finely time.Now tells time
  MaxTicks, MaxMoves, MaxRestarts  \* bounds on a behaviour

Flushers == {Logger, Runner}

ASSUME PlayLogAssumption ==
  /\ NoItem \notin Items
  /\ BatchSize \in Nat \ {0}
  /\ TicksPerSecond \in Nat \ {0}
  /\ {MaxTicks, MaxMoves, MaxRestarts} \subseteq Nat

VARIABLES
  now,        \* the clock, in ticks
  showing,    \* the scheduler's current item
  callback,   \* where each caller of OnChange is, and the item it has read
  currentID,  \* pl.currentID
  startedAt,  \* pl.startedAt
  rows,       \* proof_of_play, in the order of started_at
  pc,         \* where each Flush is
  batch,      \* its records, as positions in rows
  held,       \* the connection its SendMessage took from c.conn
  arrived,    \* history: records the cloud has got
  lost,       \* history: records that were on the wire when it broke
  moves, restarts  \* for the bounds

recordVars == <<currentID, startedAt>>
flushVars  == <<pc, batch, held>>
callVars   == <<showing, callback, moves>>
cloudVars  == <<arrived, lost>>
vars == <<connectorVars, now, callVars, recordVars, rows, flushVars, cloudVars,
          restarts>>

Idle == [at |-> "idle", item |-> NoItem]

(* The records in the messages on the wire.                                *)
OnWire == UNION {wire[i].records : i \in DOMAIN wire}

Unsynced == {i \in DOMAIN rows : ~rows[i].synced}

(* ORDER BY started_at LIMIT n.                                            *)
FirstOf(S, n) == {i \in S : Cardinality({j \in S : j < i}) < n}

-----------------------------------------------------------------------------
(***************************************************************************)
(* Faults: plausible slips in the operations below.                        *)
(***************************************************************************)

(* The duration is rounded up, not cut off.                                *)
RoundUp(ticks) == (ticks + TicksPerSecond - 1) \div TicksPerSecond

(* A stay of less than a second is recorded as well.                       *)
CountsAny(ticks) == TRUE

(* UPDATE proof_of_play SET synced = 1, without its WHERE.                 *)
MarkAll(f) == DOMAIN rows

(* loadUnsynced without WHERE synced = 0.                                  *)
LoadAny == FirstOf(DOMAIN rows, BatchSize)

-----------------------------------------------------------------------------
Init ==
  /\ ConnectorInit
  /\ now = 0
  /\ showing = NoItem
  /\ callback = [c \in Callers |-> Idle]
  /\ currentID = NoItem /\ startedAt = 0
  /\ rows = <<>>
  /\ pc = [f \in Flushers |-> "idle"]
  /\ batch = [f \in Flushers |-> {}]
  /\ held = [f \in Flushers |-> NoConn]
  /\ arrived = {} /\ lost = {}
  /\ moves = 0 /\ restarts = 0

-----------------------------------------------------------------------------
(***************************************************************************)
(* The scheduler and its OnChange callback, as main wires it.              *)
(***************************************************************************)

Tick ==
  /\ now < MaxTicks
  /\ now' = now + 1
  /\ UNCHANGED <<connectorVars, callVars, recordVars, rows, flushVars, cloudVars,
                 restarts>>

(* A goroutine changes the current item, or announces it again, and has    *)
(* the callback to make.                                                   *)
Move(c) ==
  /\ callback[c].at = "idle" /\ moves < MaxMoves
  /\ showing' \in Items \cup {NoItem}
  /\ callback' = [callback EXCEPT ![c] = [at |-> "read", item |-> NoItem]]
  /\ moves' = moves + 1
  /\ UNCHANGED <<connectorVars, now, recordVars, rows, flushVars, cloudVars,
                 restarts>>

ReadCurrent(c) ==
  /\ callback[c].at = "read"
  /\ callback' = [callback EXCEPT ![c] = [at |-> "record", item |-> showing]]
  /\ UNCHANGED <<connectorVars, now, showing, moves, recordVars, rows, flushVars,
                 cloudVars, restarts>>

(* int(d.Seconds()), and the seconds RFC 3339 keeps.                       *)
DurationS(ticks) == ticks \div TicksPerSecond
Second(tick)     == tick \div TicksPerSecond

Counts(ticks) == DurationS(ticks) > 0

PlayRecord ==
  [item |-> currentID, from |-> Second(startedAt),
   secs |-> DurationS(now - startedAt), synced |-> FALSE]

RecordTransition(c) ==
  /\ callback[c].at = "record"
  /\ rows' = IF currentID # NoItem /\ Counts(now - startedAt)
             THEN Append(rows, PlayRecord) ELSE rows
  /\ currentID' = callback[c].item
  /\ startedAt' = IF callback[c].item = NoItem THEN 0 ELSE now
  /\ callback' = [callback EXCEPT ![c] = Idle]
  /\ UNCHANGED <<connectorVars, now, showing, moves, flushVars, cloudVars, restarts>>

-----------------------------------------------------------------------------
(***************************************************************************)
(* Flush.                                                                  *)
(***************************************************************************)

(* The ticker of PlayLogger.Run, or connect with its callbacks to run.     *)
Called(f) == f = Logger \/ run = "callbacks"

Returns(f) ==
  /\ pc' = [pc EXCEPT ![f] = IF f = Runner THEN "done" ELSE "idle"]
  /\ batch' = [batch EXCEPT ![f] = {}]
  /\ held' = [held EXCEPT ![f] = NoConn]

Goes(f, label) == pc' = [pc EXCEPT ![f] = label]

Loaded == FirstOf(Unsynced, BatchSize)

LoadUnsynced(f) ==
  /\ pc[f] = "idle" /\ Called(f)
  /\ \/ /\ Loaded # {}
        /\ batch' = [batch EXCEPT ![f] = Loaded]
        /\ Goes(f, "send")
        /\ UNCHANGED held
     \/ Loaded = {} /\ Returns(f)
  /\ UNCHANGED <<connectorVars, now, callVars, recordVars, rows, cloudVars, restarts>>

(* SendMessage, under c.mu: the connection there is now, if there is one.  *)
TakeConn(f) ==
  /\ pc[f] = "send"
  /\ \/ /\ conn # NoConn
        /\ held' = [held EXCEPT ![f] = conn]
        /\ Goes(f, "write")
        /\ UNCHANGED batch
     \/ conn = NoConn /\ Returns(f)
  /\ UNCHANGED <<connectorVars, now, callVars, recordVars, rows, cloudVars, restarts>>

ProofOfPlay(S) == [type |-> "proof_of_play", records |-> S]

(* ... and Write; an error leaves the records for the next Flush.          *)
SendBatch(f) ==
  /\ pc[f] = "write"
  /\ \/ /\ Usable(held[f]) /\ Write(held[f], ProofOfPlay(batch[f]))
        /\ Goes(f, "mark")
        /\ UNCHANGED <<batch, held>>
     \/ ~Usable(held[f]) /\ Returns(f) /\ UNCHANGED wire
  /\ UNCHANGED <<run, conn, dials, up, now, callVars, recordVars, rows, cloudVars,
                 restarts>>

(* markSynced: one UPDATE per record.                                      *)
Marked(f) == FirstOf(batch[f], 1)

MarkSynced(f) ==
  /\ pc[f] = "mark"
  /\ \/ /\ batch[f] # {}
        /\ rows' = [i \in DOMAIN rows |->
             [rows[i] EXCEPT !.synced = @ \/ i \in Marked(f)]]
        /\ batch' = [batch EXCEPT ![f] = @ \ FirstOf(@, 1)]
        /\ UNCHANGED <<pc, held>>
     \/ batch[f] = {} /\ Returns(f) /\ UNCHANGED rows
  /\ UNCHANGED <<connectorVars, now, callVars, recordVars, cloudVars, restarts>>

-----------------------------------------------------------------------------
(***************************************************************************)
(* The connection.                                                         *)
(***************************************************************************)

(* connect goes on to its read loop when Flush has returned.               *)
EndCallbacks ==
  /\ pc[Runner] = "done"
  /\ CallbacksReturn
  /\ pc' = [pc EXCEPT ![Runner] = "idle"]
  /\ UNCHANGED <<batch, held, cloudVars>>

(* A batch that arrives is kept; one that was on the wire is lost.         *)
ArriveBatch ==
  /\ Arrive
  /\ arrived' = arrived \cup Head(wire).records
  /\ UNCHANGED <<lost, flushVars>>

LoseBatches == lost' = lost \cup OnWire /\ UNCHANGED arrived

BreakConnection == Break /\ LoseBatches /\ UNCHANGED flushVars

RunStep ==
  \/ EndCallbacks
  \/ /\ Dial \/ SendRegistration \/ ReadFails \/ CloseConn \/ DelayOver
     /\ UNCHANGED <<flushVars, cloudVars>>

ConnectionStep ==
  /\ RunStep \/ ArriveBatch \/ BreakConnection
  /\ UNCHANGED <<now, callVars, recordVars, rows, restarts>>

(* The process dies: what is in memory is gone, the item on the screen     *)
(* among it, of which there will be no record.                             *)
Restart ==
  /\ restarts < MaxRestarts /\ restarts' = restarts + 1
  /\ ConnectorRestart /\ LoseBatches
  /\ showing' = NoItem
  /\ callback' = [c \in Callers |-> Idle]
  /\ currentID' = NoItem /\ startedAt' = 0
  /\ pc' = [f \in Flushers |-> "idle"]
  /\ batch' = [f \in Flushers |-> {}]
  /\ held' = [f \in Flushers |-> NoConn]
  /\ UNCHANGED <<now, rows, moves>>

Callback(c) == ReadCurrent(c) \/ RecordTransition(c)

Flush(f) == LoadUnsynced(f) \/ TakeConn(f) \/ SendBatch(f) \/ MarkSynced(f)

Next ==
  \/ Tick
  \/ \E c \in Callers : Move(c) \/ Callback(c)
  \/ \E f \in Flushers : Flush(f)
  \/ ConnectionStep
  \/ Restart

Spec == Init /\ [][Next]_vars

(* A Flush that has begun goes on, the ticker fires for ever, and Run goes *)
(* on.  Nothing is assumed of the network, the clock or the scheduler.     *)
FairSpec ==
  /\ Spec
  /\ \A f \in Flushers : WF_vars(Flush(f))
  /\ WF_vars(RunStep /\ UNCHANGED <<now, callVars, recordVars, rows, restarts>>)

-----------------------------------------------------------------------------
Row ==
  [item : Items, from : 0 .. Second(now), secs : 1 .. Second(MaxTicks),
   synced : BOOLEAN]

Message ==
  [type : {"register", "proof_of_play"}, records : SUBSET DOMAIN rows]

TypeOK ==
  /\ ConnectorTypeOK
  /\ wire \in Seq(Message)
  /\ now \in 0 .. MaxTicks
  /\ showing \in Items \cup {NoItem}
  /\ callback \in [Callers -> [at : {"idle", "read", "record"},
                              item : Items \cup {NoItem}]]
  /\ currentID \in Items \cup {NoItem}
  /\ startedAt \in 0 .. now
  /\ rows \in Seq(Row)
  /\ pc \in [Flushers -> {"idle", "send", "write", "mark", "done"}]
  /\ batch \in [Flushers -> SUBSET DOMAIN rows]
  /\ held \in [Flushers -> Nat \cup {NoConn}]
  /\ arrived \subseteq DOMAIN rows
  /\ lost \subseteq DOMAIN rows

(* A record marked as synced has been handed to the network: it arrived,   *)
(* or is on the wire, or went down with a connection, however two flushes, *)
(* reconnects and crashes fall between the steps of one another.           *)
MarkedWereSent ==
  \A i \in DOMAIN rows : rows[i].synced => i \in arrived \cup OnWire \cup lost

(* No two records claim the same second, although start and duration are   *)
(* cut to whole seconds each on its own and callbacks overtake each other. *)
SpansDisjoint ==
  \A i, j \in DOMAIN rows :
    i < j => rows[i].from + rows[i].secs <= rows[j].from

(* Once the connection stays up, every record is sent and marked: a batch  *)
(* that could not be sent, or that two flushes sent at once, does not keep *)
(* those behind it waiting.                                                *)
Drains == <>[]up => <>[](Unsynced = {})

=============================================================================
