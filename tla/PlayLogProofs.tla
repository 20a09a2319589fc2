---------------------------- MODULE PlayLogProofs ----------------------------
(***************************************************************************)
(* What holds of proof of play for every batch size, every number of       *)
(* callers and items, and however often the connection breaks and the      *)
(* process is started again.                                               *)
(***************************************************************************)
EXTENDS PlayLog, SequenceTheorems, TLAPS

-----------------------------------------------------------------------------
(***************************************************************************)
(* Lemmas about the operators.                                             *)
(***************************************************************************)

(* Seconds are counted by natural numbers, and never backwards.            *)
LEMMA SecondsMonotone ==
  ASSUME NEW a \in Nat, NEW b \in Nat, a <= b
  PROVE  Second(a) \in Nat /\ Second(b) \in Nat /\ Second(a) <= Second(b)
BY PlayLogAssumption DEF Second

(* Two spans that are cut to whole seconds each on its own are together no *)
(* longer than both of them cut at once.                                   *)
LEMMA SecondsCut ==
  ASSUME NEW a \in Nat, NEW b \in Nat, a <= b
  PROVE  /\ DurationS(b - a) \in Nat
         /\ Second(a) + DurationS(b - a) <= Second(b)
<1>1. b - a \in Nat /\ a + (b - a) = b
  OBVIOUS
<1>2. \A c \in Nat : /\ c \div TicksPerSecond \in Nat
                     /\ a \div TicksPerSecond + c \div TicksPerSecond
                          <= (a + c) \div TicksPerSecond
  BY PlayLogAssumption
<1> QED BY <1>1, <1>2 DEF Second, DurationS

(* A query with a limit returns some of what it selects from.              *)
LEMMA FirstOfSome == \A S, n : FirstOf(S, n) \subseteq S
BY DEF FirstOf

-----------------------------------------------------------------------------
(***************************************************************************)
(* Type correctness.                                                       *)
(***************************************************************************)

(* The positions of a log are those of its records, and adding a record or *)
(* marking some takes none away.                                           *)
LEMMA RowsTyped ==
  ASSUME TypeOK
  PROVE  /\ Len(rows) \in Nat
         /\ DOMAIN rows = 1 .. Len(rows)
         /\ \A i \in DOMAIN rows : rows[i] \in Row
BY LenProperties, ElementOfSeq DEF TypeOK

(* What is on the wire are positions of the log.                           *)
LEMMA WireTyped ==
  ASSUME TypeOK
  PROVE  OnWire \subseteq DOMAIN rows
<1>1. wire \in Seq(Message)
  BY DEF TypeOK
<1>2. \A i \in DOMAIN wire : wire[i] \in Message
  BY <1>1, LenProperties, ElementOfSeq
<1> QED BY <1>2 DEF OnWire, Message

LEMMA TypeInit == Init => TypeOK
<1> SUFFICES ASSUME Init PROVE TypeOK
  OBVIOUS
<1>1. rows \in Seq(Row) /\ wire \in Seq(Message)
  BY EmptySeq DEF Init, ConnectorInit
<1>2. ConnectorTypeOK
  <2>1. up \in BOOLEAN
    BY Zenon DEF Init, ConnectorInit
  <2> QED BY <2>1, ConnectorAssumption DEF Init, ConnectorInit, ConnectorTypeOK
<1>3. now \in 0 .. MaxTicks /\ startedAt \in 0 .. now
  BY PlayLogAssumption DEF Init
<1>4. callback \in [Callers -> [at : {"idle", "read", "record"},
                               item : Items \cup {NoItem}]]
  BY DEF Init, Idle
<1> QED BY <1>1, <1>2, <1>3, <1>4 DEF Init, TypeOK

(* The record of a stay that counts is one.                                *)
LEMMA PlayRecordTyped ==
  ASSUME TypeOK, currentID # NoItem, Counts(now - startedAt)
  PROVE  PlayRecord \in Row
<1>1. now \in Nat /\ startedAt \in Nat /\ startedAt <= now /\ now <= MaxTicks
  BY PlayLogAssumption DEF TypeOK
<1>2. /\ Second(startedAt) \in 0 .. Second(now)
      /\ Second(now) <= Second(MaxTicks) /\ Second(MaxTicks) \in Nat
  BY <1>1, SecondsMonotone, PlayLogAssumption
<1>3. DurationS(now - startedAt) \in 1 .. Second(MaxTicks)
  <2>1. Second(startedAt) + DurationS(now - startedAt) <= Second(now)
    BY <1>1, SecondsCut
  <2>2. DurationS(now - startedAt) \in Nat /\ DurationS(now - startedAt) > 0
    BY <1>1, SecondsCut DEF Counts
  <2>3. Second(startedAt) \in Nat /\ Second(now) \in Nat
    BY <1>1, SecondsMonotone
  <2> QED BY <1>2, <2>1, <2>2, <2>3
<1> QED BY <1>2, <1>3 DEF PlayRecord, Row, TypeOK

LEMMA TypeNext == TypeOK /\ [Next]_vars => TypeOK'
<1> SUFFICES ASSUME TypeOK, [Next]_vars PROVE TypeOK'
  OBVIOUS
<1> USE ConnectorAssumption, PlayLogAssumption
<1>1. CASE Tick
  <2>1. now \in Nat /\ now' = now + 1 /\ now' \in 0 .. MaxTicks
    BY <1>1 DEF Tick, TypeOK
  <2>2. Row \subseteq Row'
    <3>1. /\ Second(now) \in Nat /\ Second(now') \in Nat
          /\ Second(now) <= Second(now')
      BY <2>1, SecondsMonotone
    <3>2. 0 .. Second(now) \subseteq 0 .. Second(now')
      BY <3>1
    <3> QED BY <3>2 DEF Row
  <2>3. rows' \in Seq(Row')
    BY <1>1, <2>2, SeqMonotonic DEF Tick, TypeOK
  <2> QED BY <1>1, <2>1, <2>3
          DEF Tick, TypeOK, ConnectorTypeOK, Message, connectorVars, callVars,
              recordVars, flushVars, cloudVars
<1>2. ASSUME NEW c \in Callers, Move(c) \/ ReadCurrent(c) PROVE TypeOK'
  <2>1. /\ callback' \in [Callers -> [at : {"idle", "read", "record"},
                                     item : Items \cup {NoItem}]]
        /\ showing' \in Items \cup {NoItem}
    BY <1>2 DEF Move, ReadCurrent, TypeOK
  <2> QED BY <1>2, <2>1
          DEF Move, ReadCurrent, TypeOK, ConnectorTypeOK, Row, Message, Message,
              connectorVars, recordVars, flushVars, cloudVars
<1>3. ASSUME NEW c \in Callers, RecordTransition(c) PROVE TypeOK'
  <2>1. rows' \in Seq(Row) /\ DOMAIN rows \subseteq DOMAIN rows'
    BY <1>3, PlayRecordTyped, RowsTyped, AppendProperties, LenProperties
       DEF RecordTransition, TypeOK
  <2>2. Row' = Row
    BY <1>3 DEF RecordTransition, Row
  <2>3. wire' \in Seq(Message')
    <3>1. Message \subseteq Message'
      BY <2>1 DEF Message
    <3> QED BY <1>3, <3>1, SeqMonotonic DEF RecordTransition, connectorVars, TypeOK
  <2> QED BY <1>3, <2>1, <2>2, <2>3
          DEF RecordTransition, TypeOK, ConnectorTypeOK, Idle, connectorVars,
              flushVars, cloudVars
<1>4. ASSUME NEW f \in Flushers, LoadUnsynced(f) PROVE TypeOK'
  <2>1. Loaded \subseteq DOMAIN rows
    BY FirstOfSome DEF Loaded, Unsynced
  <2> QED BY <1>4, <2>1
          DEF LoadUnsynced, Returns, Goes, TypeOK, ConnectorTypeOK, Row, Message,
              connectorVars, callVars, recordVars, cloudVars
<1>5. ASSUME NEW f \in Flushers, TakeConn(f) PROVE TypeOK'
  BY <1>5 DEF TakeConn, Returns, Goes, TypeOK, ConnectorTypeOK, Row, Message,
              connectorVars, callVars, recordVars, cloudVars
<1>6. ASSUME NEW f \in Flushers, SendBatch(f) PROVE TypeOK'
  <2>1. wire' \in Seq(Message)
    <3>1. ProofOfPlay(batch[f]) \in Message
      BY DEF ProofOfPlay, Message, TypeOK
    <3>2. wire \in Seq(Message)
      BY DEF TypeOK
    <3>3. Append(wire, ProofOfPlay(batch[f])) \in Seq(Message)
      BY <3>1, <3>2, AppendProperties
    <3> QED BY <1>6, <3>2, <3>3 DEF SendBatch, Write
  <2> QED BY <1>6, <2>1
          DEF SendBatch, Returns, Goes, TypeOK, ConnectorTypeOK, Row, Message,
              callVars, recordVars, cloudVars
<1>7. ASSUME NEW f \in Flushers, MarkSynced(f) PROVE TypeOK'
  <2>1. DOMAIN rows' = DOMAIN rows /\ rows' \in Seq(Row)
    <3>1. CASE batch[f] # {}
      <4>1. \A i \in 1 .. Len(rows) :
              [rows[i] EXCEPT !.synced = @ \/ i \in Marked(f)] \in Row
        BY RowsTyped DEF Row
      <4>2. rows' = [i \in 1 .. Len(rows) |->
                       [rows[i] EXCEPT !.synced = @ \/ i \in Marked(f)]]
        BY <1>7, <3>1, RowsTyped DEF MarkSynced
      <4>3. rows' \in Seq(Row)
        BY <4>1, <4>2, RowsTyped, IsASeq
      <4> QED BY <4>2, <4>3, RowsTyped
    <3>2. CASE batch[f] = {}
      BY <1>7, <3>2 DEF MarkSynced, TypeOK
    <3> QED BY <3>1, <3>2
  <2>2. Row' = Row
    BY <1>7 DEF MarkSynced, Row
  <2>3. batch' \in [Flushers -> SUBSET DOMAIN rows]
    <3>1. batch \in [Flushers -> SUBSET DOMAIN rows]
      BY DEF TypeOK
    <3>2. \E S \in SUBSET batch[f] : batch' = [batch EXCEPT ![f] = S]
      <4>1. batch[f] \ FirstOf(batch[f], 1) \subseteq batch[f]
        OBVIOUS
      <4> QED BY <1>7, <4>1 DEF MarkSynced, Returns
    <3> QED BY <3>1, <3>2
  <2> QED BY <1>7, <2>1, <2>2, <2>3
          DEF MarkSynced, Returns, TypeOK, ConnectorTypeOK, Message,
              connectorVars, callVars, recordVars, cloudVars
<1>8. CASE ConnectionStep
  <2>1. CASE ArriveBatch
    <3>1. Head(wire) \in Message /\ wire' \in Seq(Message)
      <4>1. wire \in Seq(Message) /\ wire # <<>> /\ wire' = Tail(wire)
        BY <2>1 DEF ArriveBatch, Arrive, TypeOK
      <4> QED BY <4>1, HeadTailProperties
    <3> QED BY <1>8, <2>1, <3>1
            DEF ConnectionStep, ArriveBatch, Arrive, TypeOK, ConnectorTypeOK,
                Row, Message, callVars, recordVars, flushVars
  <2>2. CASE BreakConnection
    <3>1. wire' \in Seq(Message) /\ up' \in BOOLEAN
      BY <2>2, EmptySeq DEF BreakConnection, Break
    <3> QED BY <1>8, <2>2, <3>1, WireTyped
            DEF ConnectionStep, BreakConnection, Break, LoseBatches, TypeOK,
                ConnectorTypeOK, Row, Message, callVars, recordVars, flushVars
  <2>3. CASE RunStep
    <3>1. ConnectorTypeOK'
      <4>1. CASE Dial
        <5>1. up' \in BOOLEAN
          BY <4>1, ZenonT(30) DEF Dial, TypeOK, ConnectorTypeOK
        <5> QED BY <4>1, <5>1, ConnectorAssumption
                DEF Dial, TypeOK, ConnectorTypeOK
      <4>2. CASE SendRegistration
        BY <4>2 DEF SendRegistration, TypeOK, ConnectorTypeOK
      <4> QED BY <2>3, <4>1, <4>2
              DEF RunStep, EndCallbacks, CallbacksReturn, ReadFails, CloseConn,
                  DelayOver, TypeOK, ConnectorTypeOK
    <3>2. wire' \in Seq(Message)
      <4>1. wire \in Seq(Message)
        BY DEF TypeOK
      <4>2. Append(wire, Register) \in Seq(Message)
        <5>1. Register \in Message
          BY DEF Register, Message
        <5> QED BY <4>1, <5>1, AppendProperties
      <4>3. wire' \in {wire, <<>>, Append(wire, Register)}
        BY <2>3 DEF RunStep, EndCallbacks, CallbacksReturn, Dial,
                    SendRegistration, Write, ReadFails, CloseConn, DelayOver
      <4> QED BY <4>1, <4>2, <4>3, EmptySeq
    <3>3. /\ pc' \in [Flushers -> {"idle", "send", "write", "mark", "done"}]
          /\ UNCHANGED <<batch, held, arrived, lost>>
      BY <2>3 DEF RunStep, EndCallbacks, TypeOK, flushVars, cloudVars
    <3> QED BY <1>8, <3>1, <3>2, <3>3
            DEF ConnectionStep, TypeOK, Row, Message, callVars, recordVars
  <2> QED BY <1>8, <2>1, <2>2, <2>3 DEF ConnectionStep
<1>9. CASE Restart
  <2>1. ConnectorTypeOK'
    <3>1. up' \in BOOLEAN
      BY <1>9, Zenon DEF Restart, ConnectorRestart
    <3> QED BY <1>9, <3>1
            DEF Restart, ConnectorRestart, TypeOK, ConnectorTypeOK
  <2>2. wire' \in Seq(Message)
    BY <1>9, EmptySeq DEF Restart, ConnectorRestart
  <2> QED BY <1>9, <2>2, <2>1, WireTyped
          DEF Restart, LoseBatches, TypeOK, Row, Message, Idle
<1>10. CASE UNCHANGED vars
  BY <1>10 DEF TypeOK, ConnectorTypeOK, Row, Message, vars, connectorVars, callVars,
               recordVars, flushVars, cloudVars
<1> QED BY <1>1, <1>2, <1>3, <1>4, <1>5, <1>6, <1>7, <1>8, <1>9, <1>10
        DEF Next, Callback, Flush

(* Every variable of the play log and of the connection keeps its type: in *)
(* particular a Flush only ever holds positions of records there are, the  *)
(* seconds of a record are positive, and the start of the item on the      *)
(* screen is never later than the clock, also across a restart.            *)
THEOREM TypeCorrect == Spec => []TypeOK
BY TypeInit, TypeNext, PTL DEF Spec

-----------------------------------------------------------------------------
(***************************************************************************)
(* The connection.                                                         *)
(***************************************************************************)

(* While Run registers, runs its callbacks or reads, the connection it has *)
(* is the newest; before it dials there is none that is up; and only one   *)
(* that is up has anything on its wire.                                    *)
OneConnection ==
  /\ run \in {"register", "callbacks", "read"} => conn = dials
  /\ run \in {"dial", "close", "wait"} => ~up
  /\ ~up => wire = <<>>

LEMMA OneConnectionNext ==
  TypeOK /\ OneConnection /\ [Next]_vars => OneConnection'
<1> SUFFICES ASSUME TypeOK, OneConnection, [Next]_vars PROVE OneConnection'
  OBVIOUS
<1>1. CASE UNCHANGED connectorVars
  BY <1>1 DEF OneConnection, connectorVars
<1>2. ASSUME NEW f \in Flushers, SendBatch(f) PROVE OneConnection'
  BY <1>2 DEF SendBatch, Write, Usable, OneConnection
<1>3. CASE ConnectionStep
  <2>1. CASE ArriveBatch
    BY <2>1 DEF ArriveBatch, Arrive, OneConnection
  <2>2. CASE BreakConnection
    BY <2>2 DEF BreakConnection, Break, OneConnection
  <2>3. CASE RunStep
    BY <2>3 DEF RunStep, EndCallbacks, CallbacksReturn, Dial, SendRegistration,
                Write, Usable, ReadFails, CloseConn, DelayOver, OneConnection
  <2> QED BY <1>3, <2>1, <2>2, <2>3 DEF ConnectionStep
<1>4. CASE Restart
  BY <1>4 DEF Restart, ConnectorRestart, OneConnection
<1>5. ASSUME NEW f \in Flushers, LoadUnsynced(f) \/ TakeConn(f) \/ MarkSynced(f)
      PROVE  UNCHANGED connectorVars
  BY <1>5 DEF LoadUnsynced, TakeConn, MarkSynced
<1>6. ASSUME NEW c \in Callers, Move(c) \/ Callback(c)
      PROVE  UNCHANGED connectorVars
  BY <1>6 DEF Move, Callback, ReadCurrent, RecordTransition
<1> QED BY <1>1, <1>2, <1>3, <1>4, <1>5, <1>6 DEF Next, Flush, Tick, vars

-----------------------------------------------------------------------------
(***************************************************************************)
(* What has been sent.                                                     *)
(***************************************************************************)

(* What has been handed to the network.                                    *)
Sent == arrived \cup OnWire \cup lost

(* A message that is written adds its records to the wire.                 *)
LEMMA WireAppend ==
  ASSUME TypeOK, NEW m \in Message, wire' = Append(wire, m)
  PROVE  OnWire' = OnWire \cup m.records
<1>1. wire \in Seq(Message) /\ Len(wire) \in Nat /\ DOMAIN wire = 1 .. Len(wire)
  BY LenProperties DEF TypeOK
<1>2. /\ DOMAIN wire' = 1 .. (Len(wire) + 1)
      /\ \A i \in 1 .. Len(wire) : wire'[i] = wire[i]
      /\ wire'[Len(wire) + 1] = m
  BY <1>1, AppendProperties, LenProperties
<1> QED BY <1>1, <1>2 DEF OnWire

(* A message that arrives takes only its own records off the wire.         *)
LEMMA WireTail ==
  ASSUME TypeOK, wire # <<>>, wire' = Tail(wire)
  PROVE  OnWire \subseteq OnWire' \cup Head(wire).records
<1>1. /\ wire \in Seq(Message) /\ Len(wire) \in Nat \ {0}
      /\ DOMAIN wire = 1 .. Len(wire)
  BY LenProperties, EmptySeq DEF TypeOK
<1>2. /\ DOMAIN wire' = 1 .. (Len(wire) - 1)
      /\ \A i \in 1 .. (Len(wire) - 1) : wire'[i] = wire[i + 1]
      /\ wire[1] = Head(wire)
  BY <1>1, HeadTailProperties, LenProperties
<1>3. ASSUME NEW i \in DOMAIN wire, i # 1
      PROVE  i - 1 \in DOMAIN wire' /\ wire[i] = wire'[i - 1]
  <2>1. i \in Nat /\ i >= 2 /\ i <= Len(wire)
    BY <1>1, <1>3
  <2>2. i - 1 \in 1 .. (Len(wire) - 1) /\ (i - 1) + 1 = i
    BY <1>1, <2>1
  <2>3. wire'[i - 1] = wire[(i - 1) + 1]
    BY <1>2, <2>2
  <2> QED BY <1>2, <2>2, <2>3
<1>4. ASSUME NEW i \in DOMAIN wire
      PROVE  wire[i].records \subseteq OnWire' \cup Head(wire).records
  <2>1. CASE i = 1
    BY <1>2, <2>1
  <2>2. CASE i # 1
    BY <1>3, <2>2 DEF OnWire
  <2> QED BY <2>1, <2>2
<1> QED BY <1>4 DEF OnWire

(* Nothing on the wire, no records on it.                                  *)
LEMMA WireEmpty == wire = <<>> => OnWire = {}
BY DEF OnWire

(* What has been sent stays sent: a record goes from the wire to the cloud *)
(* or is lost with its connection, and no new connection forgets it.       *)
LEMMA SentGrows ==
  ASSUME TypeOK, OneConnection, [Next]_vars
  PROVE  Sent \subseteq Sent'
<1>1. CASE UNCHANGED <<wire, arrived, lost>>
  BY <1>1 DEF Sent, OnWire
<1>2. ASSUME NEW f \in Flushers, Flush(f) PROVE Sent \subseteq Sent'
  <2>1. CASE SendBatch(f)
    <3>1. ProofOfPlay(batch[f]) \in Message
      BY DEF ProofOfPlay, Message, TypeOK
    <3>2. wire' \in {wire, Append(wire, ProofOfPlay(batch[f]))}
      BY <2>1 DEF SendBatch, Write
    <3>3. OnWire \subseteq OnWire'
      BY <3>1, <3>2, WireAppend DEF OnWire
    <3> QED BY <2>1, <3>3 DEF SendBatch, cloudVars, Sent
  <2> QED BY <1>1, <1>2, <2>1
          DEF Flush, LoadUnsynced, TakeConn, MarkSynced, connectorVars, cloudVars
<1>3. CASE ConnectionStep
  <2>1. CASE ArriveBatch
    BY <2>1, WireTail DEF ArriveBatch, Arrive, Sent
  <2>2. CASE BreakConnection
    BY <2>2 DEF BreakConnection, LoseBatches, Sent
  <2>3. CASE RunStep
    <3>1. UNCHANGED <<arrived, lost>>
      BY <2>3 DEF RunStep, EndCallbacks, cloudVars
    <3>2. \/ wire' = wire
          \/ wire' = Append(wire, Register)
          \/ wire = <<>>
      BY <2>3 DEF RunStep, EndCallbacks, CallbacksReturn, Dial,
                  SendRegistration, Write, ReadFails, CloseConn, DelayOver,
                  OneConnection
    <3>3. Register \in Message
      BY DEF Register, Message
    <3>4. OnWire \subseteq OnWire'
      BY <3>2, <3>3, WireAppend, WireEmpty DEF OnWire
    <3> QED BY <3>1, <3>4 DEF Sent
  <2> QED BY <1>3, <2>1, <2>2, <2>3 DEF ConnectionStep
<1>4. CASE Restart
  BY <1>4 DEF Restart, LoseBatches, Sent
<1>5. ASSUME NEW c \in Callers, Move(c) \/ Callback(c) PROVE Sent \subseteq Sent'
  BY <1>1, <1>5 DEF Move, Callback, ReadCurrent, RecordTransition,
                    connectorVars, cloudVars
<1>6. CASE Tick \/ UNCHANGED vars
  BY <1>1, <1>6 DEF Tick, vars, connectorVars, cloudVars
<1> QED BY <1>2, <1>3, <1>4, <1>5, <1>6 DEF Next

(* A Flush that has come to marking has sent what it is going to mark.     *)
BatchesWereSent == \A f \in Flushers : pc[f] = "mark" => batch[f] \subseteq Sent

IInv == TypeOK /\ OneConnection /\ BatchesWereSent /\ MarkedWereSent

LEMMA BatchesWereSentNext == IInv /\ [Next]_vars => BatchesWereSent'
<1> SUFFICES ASSUME IInv, [Next]_vars,
                    NEW g \in Flushers, pc'[g] = "mark"
             PROVE  batch'[g] \subseteq Sent'
  BY DEF BatchesWereSent
<1> USE DEF IInv
<1>1. CASE pc[g] = "mark" /\ batch'[g] \subseteq batch[g]
  BY <1>1, SentGrows DEF BatchesWereSent
<1>2. CASE UNCHANGED <<pc, batch>>
  BY <1>1, <1>2
<1>3. ASSUME NEW f \in Flushers, Flush(f) PROVE batch'[g] \subseteq Sent'
  <2>1. CASE f # g
    <3>1. pc'[g] = pc[g] /\ batch'[g] = batch[g]
      BY <1>3, <2>1 DEF Flush, LoadUnsynced, TakeConn, SendBatch, MarkSynced,
                        Returns, Goes, TypeOK
    <3> QED BY <1>1, <3>1
  <2>2. CASE f = g /\ SendBatch(f)
    <3>1. wire' = Append(wire, ProofOfPlay(batch[f])) /\ batch' = batch
      BY <2>2 DEF SendBatch, Write, Returns, TypeOK
    <3>2. ProofOfPlay(batch[f]) \in Message
      BY DEF ProofOfPlay, Message, TypeOK
    <3>3. batch[f] \subseteq OnWire'
      BY <3>1, <3>2, WireAppend DEF ProofOfPlay
    <3> QED BY <2>2, <3>1, <3>3 DEF Sent
  <2>3. CASE f = g /\ MarkSynced(f)
    BY <1>1, <2>3 DEF MarkSynced, Returns, TypeOK
  <2>4. CASE f = g /\ (LoadUnsynced(f) \/ TakeConn(f))
    BY <2>4 DEF LoadUnsynced, TakeConn, Returns, Goes, TypeOK
  <2> QED BY <1>3, <2>1, <2>2, <2>3, <2>4 DEF Flush
<1>4. CASE ConnectionStep
  <2>1. batch' = batch /\ pc[g] = "mark"
    BY <1>4 DEF ConnectionStep, RunStep, EndCallbacks, ArriveBatch,
                BreakConnection, flushVars, TypeOK
  <2> QED BY <1>1, <2>1
<1>5. CASE Restart
  BY <1>5 DEF Restart
<1>6. ASSUME NEW c \in Callers, Move(c) \/ Callback(c)
      PROVE  batch'[g] \subseteq Sent'
  BY <1>2, <1>6 DEF Move, Callback, ReadCurrent, RecordTransition, flushVars
<1>7. CASE Tick \/ UNCHANGED vars
  BY <1>2, <1>7 DEF Tick, vars, flushVars
<1> QED BY <1>3, <1>4, <1>5, <1>6, <1>7 DEF Next

(* Only a callback and the marking of a batch write the records.           *)
LEMMA OnlyRecordAndMark ==
  ASSUME [Next]_vars,
         \A c \in Callers : ~RecordTransition(c),
         \A f \in Flushers : ~MarkSynced(f)
  PROVE  UNCHANGED rows
BY DEF Next, Tick, Move, Callback, ReadCurrent, Flush, LoadUnsynced, TakeConn,
       SendBatch, ConnectionStep, Restart, vars

(* A callback keeps the records there are and may add one.                 *)
LEMMA RecordAdds ==
  ASSUME TypeOK, NEW c \in Callers, RecordTransition(c)
  PROVE  \/ rows' = rows
         \/ /\ currentID # NoItem /\ Counts(now - startedAt)
            /\ DOMAIN rows' = 1 .. (Len(rows) + 1)
            /\ \A i \in 1 .. Len(rows) : rows'[i] = rows[i]
            /\ rows'[Len(rows) + 1] = PlayRecord
<1>1. SUFFICES ASSUME currentID # NoItem, Counts(now - startedAt),
                      rows' = Append(rows, PlayRecord)
               PROVE  /\ DOMAIN rows' = 1 .. (Len(rows) + 1)
                      /\ \A i \in 1 .. Len(rows) : rows'[i] = rows[i]
                      /\ rows'[Len(rows) + 1] = PlayRecord
  BY DEF RecordTransition
<1>2. rows \in Seq(Row) /\ PlayRecord \in Row
  BY <1>1, PlayRecordTyped DEF TypeOK
<1> QED BY <1>1, <1>2, AppendProperties, LenProperties

(* Marking changes nothing of a record but that it is synced, and that     *)
(* only of records of the batch.                                           *)
LEMMA MarkMarks ==
  ASSUME TypeOK, NEW f \in Flushers, MarkSynced(f)
  PROVE  /\ DOMAIN rows' = DOMAIN rows
         /\ \A i \in DOMAIN rows :
              /\ rows'[i].from = rows[i].from /\ rows'[i].secs = rows[i].secs
              /\ rows'[i].synced => rows[i].synced \/ i \in batch[f]
<1>1. Marked(f) \subseteq batch[f]
  BY FirstOfSome DEF Marked
<1>2. \A i \in DOMAIN rows : rows[i] \in Row
  BY RowsTyped
<1> QED BY <1>1, <1>2 DEF MarkSynced, Row

LEMMA MarkedWereSentNext == IInv /\ [Next]_vars => MarkedWereSent'
<1> SUFFICES ASSUME IInv, [Next]_vars,
                    NEW i \in DOMAIN rows', rows'[i].synced
             PROVE  i \in Sent'
  BY DEF MarkedWereSent, Sent
<1> USE DEF IInv
<1>1. ASSUME i \in DOMAIN rows, rows[i].synced PROVE i \in Sent'
  BY <1>1, SentGrows DEF MarkedWereSent, Sent
<1>2. ASSUME NEW c \in Callers, RecordTransition(c) PROVE i \in Sent'
  <2>1. CASE rows' = rows
    BY <1>1, <2>1
  <2>2. CASE i = Len(rows) + 1 /\ rows'[i] = PlayRecord
    BY <2>2 DEF PlayRecord
  <2>3. CASE i \in 1 .. Len(rows) /\ rows'[i] = rows[i]
    BY <1>1, <2>3, RowsTyped
  <2> QED BY <1>2, <2>1, <2>2, <2>3, RecordAdds, RowsTyped
<1>3. ASSUME NEW f \in Flushers, MarkSynced(f) PROVE i \in Sent'
  <2>1. i \in DOMAIN rows /\ (rows[i].synced \/ i \in batch[f])
    BY <1>3, MarkMarks
  <2>2. batch[f] \subseteq Sent'
    BY <1>3, SentGrows DEF MarkSynced, BatchesWereSent
  <2> QED BY <1>1, <2>1, <2>2
<1>4. CASE UNCHANGED rows
  BY <1>1, <1>4
<1> QED BY <1>2, <1>3, <1>4, OnlyRecordAndMark

(* No record is marked as synced that has not been handed to the network,  *)
(* whatever the size of a batch, however often the connection breaks       *)
(* between a write and the marking, and wherever the process dies.         *)
THEOREM MarkedRecordsWereSent == Spec => []MarkedWereSent
<1>1. Init => IInv
  <2>1. Init => OneConnection /\ BatchesWereSent /\ MarkedWereSent
    BY DEF Init, ConnectorInit, OneConnection, BatchesWereSent, MarkedWereSent
  <2> QED BY <2>1, TypeInit DEF IInv
<1>2. IInv /\ [Next]_vars => IInv'
  BY TypeNext, OneConnectionNext, BatchesWereSentNext, MarkedWereSentNext
     DEF IInv
<1>3. IInv => MarkedWereSent
  BY DEF IInv
<1> QED BY <1>1, <1>2, <1>3, PTL DEF Spec

-----------------------------------------------------------------------------
(***************************************************************************)
(* The spans of the records.                                               *)
(***************************************************************************)

(* Every record ends before the item on the screen has begun, and before   *)
(* now if there is none.                                                   *)
RecordsAreOver ==
  \A i \in DOMAIN rows :
    /\ rows[i].from + rows[i].secs <= Second(now)
    /\ currentID # NoItem => rows[i].from + rows[i].secs <= Second(startedAt)

SpansInv == SpansDisjoint /\ RecordsAreOver

LEMMA SpansInvNext == TypeOK /\ SpansInv /\ [Next]_vars => SpansInv'
<1> SUFFICES ASSUME TypeOK, SpansInv, [Next]_vars PROVE SpansInv'
  OBVIOUS
<1> USE DEF SpansInv
<1>1. \A i \in DOMAIN rows : rows[i].from \in Nat /\ rows[i].secs \in Nat
  <2>1. Second(now) \in Nat /\ Second(MaxTicks) \in Nat
    BY SecondsMonotone, PlayLogAssumption DEF TypeOK
  <2>2. \A r \in Row : r.from \in Nat /\ r.secs \in Nat
    BY <2>1 DEF Row
  <2> QED BY <2>2, RowsTyped
<1>2. ASSUME NEW c \in Callers, RecordTransition(c) PROVE SpansInv'
  <2>1. now' = now /\ (currentID' # NoItem => startedAt' = now)
    BY <1>2 DEF RecordTransition
  <2>2. CASE rows' = rows
    BY <2>1, <2>2 DEF SpansDisjoint, RecordsAreOver
  <2>3. CASE /\ currentID # NoItem /\ Counts(now - startedAt)
             /\ DOMAIN rows' = 1 .. (Len(rows) + 1)
             /\ \A i \in 1 .. Len(rows) : rows'[i] = rows[i]
             /\ rows'[Len(rows) + 1] = PlayRecord
    <3>1. Second(startedAt) + DurationS(now - startedAt) <= Second(now)
      BY SecondsCut, PlayLogAssumption DEF TypeOK
    <3>2. RecordsAreOver'
      BY <2>1, <2>3, <3>1, RowsTyped DEF RecordsAreOver, PlayRecord
    <3>3. SpansDisjoint'
      <4> SUFFICES ASSUME NEW i \in DOMAIN rows', NEW j \in DOMAIN rows', i < j
                   PROVE  rows'[i].from + rows'[i].secs <= rows'[j].from
        BY DEF SpansDisjoint
      <4>1. /\ DOMAIN rows = 1 .. Len(rows) /\ Len(rows) \in Nat
            /\ i \in DOMAIN rows /\ rows'[i] = rows[i]
        BY <2>3, RowsTyped
      <4>2. CASE j \in DOMAIN rows
        <5>1. rows'[j] = rows[j]
          BY <2>3, <4>1, <4>2
        <5> QED BY <4>1, <4>2, <5>1 DEF SpansDisjoint
      <4>3. CASE j \notin DOMAIN rows
        <5>1. j = Len(rows) + 1
          BY <2>3, <4>1, <4>3
        <5>2. rows'[j].from = Second(startedAt)
          BY <2>3, <5>1 DEF PlayRecord
        <5> QED BY <2>3, <4>1, <5>2 DEF RecordsAreOver
      <4> QED BY <4>2, <4>3
    <3> QED BY <3>2, <3>3
  <2> QED BY <1>2, <2>2, <2>3, RecordAdds
<1>3. ASSUME NEW f \in Flushers, MarkSynced(f) PROVE SpansInv'
  <2>1. UNCHANGED <<now, currentID, startedAt>>
    BY <1>3 DEF MarkSynced, recordVars
  <2> QED BY <1>3, <2>1, MarkMarks DEF SpansDisjoint, RecordsAreOver
<1>4. CASE Tick
  <2>1. Second(now) <= Second(now') /\ Second(now') \in Nat /\ Second(now) \in Nat
    <3>1. now \in Nat /\ now' = now + 1
      BY <1>4, PlayLogAssumption DEF Tick, TypeOK
    <3>2. now' \in Nat /\ now <= now'
      BY <3>1
    <3> QED BY <3>1, <3>2, SecondsMonotone
  <2>2. UNCHANGED <<rows, currentID, startedAt>>
    BY <1>4 DEF Tick, recordVars
  <2> QED BY <1>1, <2>1, <2>2 DEF SpansDisjoint, RecordsAreOver
<1>5. CASE Restart
  BY <1>5 DEF Restart, SpansDisjoint, RecordsAreOver
<1>6. CASE UNCHANGED <<rows, now, currentID, startedAt>>
  BY <1>6 DEF SpansDisjoint, RecordsAreOver
<1>7. ASSUME NEW c \in Callers, Move(c) \/ ReadCurrent(c)
      PROVE  UNCHANGED <<rows, now, currentID, startedAt>>
  BY <1>7 DEF Move, ReadCurrent, recordVars
<1>8. ASSUME NEW f \in Flushers, LoadUnsynced(f) \/ TakeConn(f) \/ SendBatch(f)
      PROVE  UNCHANGED <<rows, now, currentID, startedAt>>
  BY <1>8 DEF LoadUnsynced, TakeConn, SendBatch, recordVars
<1>9. CASE ConnectionStep \/ UNCHANGED vars
  BY <1>6, <1>9 DEF ConnectionStep, vars, recordVars
<1> QED BY <1>2, <1>3, <1>4, <1>5, <1>6, <1>7, <1>8, <1>9
        DEF Next, Callback, Flush

(* No two records claim the same second, for every resolution of the clock *)
(* and whichever callbacks overtake each other.                            *)
THEOREM RecordsDoNotOverlap == Spec => []SpansDisjoint
<1>1. Init => SpansInv
  BY DEF Init, SpansInv, SpansDisjoint, RecordsAreOver
<1>2. TypeOK /\ SpansInv /\ [Next]_vars => SpansInv'
  BY SpansInvNext
<1>3. SpansInv => SpansDisjoint
  BY DEF SpansInv
<1> QED BY <1>1, <1>2, <1>3, TypeCorrect, PTL DEF Spec

=============================================================================
