---------------------------- MODULE UpdaterProofs ----------------------------
(***************************************************************************)
(* What holds of the updater for any number of releases, published and     *)
(* withdrawn in any order, and however often a step fails or power is lost.*)
(***************************************************************************)
EXTENDS Updater, TLAPS

-----------------------------------------------------------------------------
(***************************************************************************)
(* Type correctness.                                                       *)
(***************************************************************************)
Labels == HasArchive \cup HasBinary \cup {"idle", "stage", "restart"}

(* A check that moves goes to a step, and leaves the other where it is.    *)
LEMMA GoesTyped ==
  ASSUME TypeOK, NEW c \in Checks, NEW label \in Labels, Goes(c, label)
  PROVE  /\ pc' \in [Checks -> Labels]
         /\ pc'[c] = label
         /\ \A d \in Checks : d # c => pc'[d] = pc[d]
BY DEF Goes, TypeOK, Labels

(* systemd moves only what is there, and no check runs meanwhile.          *)
MovesAFile == service = "moving" => Movable

LEMMA MovesAFileNext == MovesAFile /\ [Next]_vars => MovesAFile'
<1> SUFFICES ASSUME MovesAFile, [Next]_vars, service' = "moving" PROVE Movable'
  BY DEF MovesAFile
<1>1. CASE BeginMove
  BY <1>1 DEF BeginMove, Movable
<1>2. CASE UNCHANGED <<service, newFile>>
  BY <1>2 DEF MovesAFile, Movable
<1>3. ~BeginMove => UNCHANGED <<service, newFile>>
  BY DEF Next, Publish, Check, FetchLatestRelease, CreateArchive, FillArchive,
         VerifyChecksum, CreateBinary, FillBinary, MarkPending,
         RestartService, RestartRefused, Fails, Crash, Stopped, At, Up, Systemd, EndMove,
         MoveFails, RemovePending, ExecStart, disk, vars
<1> QED BY <1>1, <1>2, <1>3

LEMMA TypeNext == TypeOK /\ MovesAFile /\ [Next]_vars => TypeOK'
<1> SUFFICES ASSUME TypeOK, MovesAFile, [Next]_vars PROVE TypeOK'
  OBVIOUS
<1> USE UpdaterAssumption DEF outside
<1>1. CASE Publish
  BY <1>1 DEF Publish, TypeOK, disk, checkVars
<1>2. ASSUME NEW c \in Checks, FetchLatestRelease(c) PROVE TypeOK'
  BY <1>2, GoesTyped DEF FetchLatestRelease, TypeOK, Labels, disk, bounds
<1>3. ASSUME NEW c \in Checks, CreateArchive(c) PROVE TypeOK'
  <2>1. overlapped' \in BOOLEAN
    BY <1>3, Zenon DEF CreateArchive
  <2> QED BY <1>3, <2>1, GoesTyped
          DEF CreateArchive, TypeOK, Labels, HasArchive, disk, bounds
<1>4. ASSUME NEW c \in Checks, FillArchive(c) PROVE TypeOK'
  <2>1. sound' \in [Checks -> BOOLEAN]
    BY <1>4 DEF FillArchive, TypeOK
  <2>2. faults' \in 0 .. MaxFaults
    BY <1>4 DEF FillArchive, Fault, TypeOK
  <2> QED BY <1>4, <2>1, <2>2, GoesTyped
          DEF FillArchive, TypeOK, Labels, HasArchive, disk
<1>5. ASSUME NEW c \in Checks, VerifyChecksum(c) PROVE TypeOK'
  BY <1>5, GoesTyped
     DEF VerifyChecksum, TypeOK, Labels, HasArchive, disk, bounds
<1>6. ASSUME NEW c \in Checks, CreateBinary(c) PROVE TypeOK'
  <2>1. mixed' \in [Checks -> BOOLEAN]
    BY <1>6 DEF CreateBinary, TypeOK
  <2>2. overlapped' \in BOOLEAN
    BY <1>6, Zenon DEF CreateBinary
  <2> QED BY <1>6, <2>1, <2>2, GoesTyped
          DEF CreateBinary, TypeOK, Labels, HasBinary, bounds
<1>7. ASSUME NEW c \in Checks, FillBinary(c) PROVE TypeOK'
  <2>1. newFile' \in Releases \cup {Broken, NoFile}
    BY <1>7 DEF FillBinary, Extracted, TypeOK
  <2> QED BY <1>7, <2>1, GoesTyped
          DEF FillBinary, TypeOK, Labels, HasBinary, bounds
<1>8. ASSUME NEW c \in Checks, MarkPending(c) PROVE TypeOK'
  BY <1>8, GoesTyped DEF MarkPending, TypeOK, Labels, bounds
<1>9. ASSUME NEW c \in Checks, Fails(c) \/ RestartRefused(c) PROVE TypeOK'
  BY <1>9, GoesTyped
     DEF Fails, RestartRefused, Fault, TypeOK, Labels, disk, bounds
<1>10. CASE Crash \/ \E c \in Checks : RestartService(c)
  <2>1. cut' \in BOOLEAN
    BY <1>10, Zenon DEF Crash, RestartService, TypeOK
  <2>2. faults' \in 0 .. MaxFaults
    BY <1>10 DEF Crash, RestartService, Fault, TypeOK
  <2> QED BY <1>10, <2>1, <2>2 DEF Crash, RestartService, Stopped, TypeOK, disk
<1>11. CASE Systemd
  <2>1. pending' \in BOOLEAN
    BY <1>11, Zenon DEF Systemd, BeginMove, EndMove, MoveFails, RemovePending,
                        ExecStart, TypeOK, disk
  <2>2. CASE BeginMove
    BY <2>1, <2>2 DEF BeginMove, TypeOK, checkVars, bounds
  <2>3. CASE EndMove
    BY <2>1, <2>3 DEF EndMove, MovesAFile, Movable, TypeOK, checkVars, bounds
  <2>4. CASE RemovePending
    BY <2>1, <2>4 DEF RemovePending, TypeOK, checkVars, bounds
  <2>5. CASE ExecStart
    <3>1. running' \in Releases
      BY <2>5 DEF ExecStart, TypeOK
    <3> QED BY <2>5, <3>1 DEF ExecStart, TypeOK, disk, checkVars, bounds
  <2>6. CASE MoveFails
    BY <2>1, <2>6 DEF MoveFails, Fault, TypeOK, disk, checkVars
  <2> QED BY <1>11, <2>2, <2>3, <2>4, <2>5, <2>6 DEF Systemd
<1>12. CASE UNCHANGED vars
  BY <1>12 DEF vars, TypeOK, disk, checkVars, bounds
<1> QED BY <1>1, <1>2, <1>3, <1>4, <1>5, <1>6, <1>7, <1>8, <1>9, <1>10, <1>11,
           <1>12 DEF Next, Check

LEMMA TypeInit == Init => TypeOK
<1> SUFFICES ASSUME Init PROVE TypeOK
  OBVIOUS
<1>1. pending \in BOOLEAN /\ overlapped \in BOOLEAN /\ cut \in BOOLEAN
  BY Zenon DEF Init
<1> QED BY <1>1, UpdaterAssumption DEF Init, TypeOK

(* Every variable of the updater keeps its type: what is installed is a    *)
(* release or broken, never missing, and only releases ever run.           *)
THEOREM TypeCorrect == Spec => []TypeOK
<1>1. Init => MovesAFile
  BY DEF Init, MovesAFile
<1> QED BY <1>1, TypeInit, TypeNext, MovesAFileNext, PTL DEF Spec

-----------------------------------------------------------------------------
(***************************************************************************)
(* No step back.                                                           *)
(***************************************************************************)
NotOlder(file, tag) == file \in Releases => Core[file] >= Core[tag]

Busy(c) == pc[c] # "idle"

(* A check that is busy has a release newer than the program it runs in;   *)
(* nothing on the disk is older than what it would replace.                *)
NothingOlder ==
  /\ Up => installed = running
  /\ \A c \in Checks : Busy(c) => Up /\ Core[release[c]] > Core[running]
  /\ NotOlder(installed, running)
  /\ NotOlder(newFile, running)
  /\ installed \in Releases => NotOlder(newFile, installed)

LEMMA NothingOlderNext == TypeOK /\ NothingOlder /\ [Next]_vars => NothingOlder'
<1> SUFFICES ASSUME TypeOK, NothingOlder, [Next]_vars PROVE NothingOlder'
  OBVIOUS
<1> USE UpdaterAssumption
<1>1. CASE UNCHANGED <<service, running, disk, pc, release>>
  BY <1>1 DEF NothingOlder, NotOlder, Busy, Up, disk
<1>2. CASE Publish \/ UNCHANGED vars
  BY <1>1, <1>2 DEF Publish, vars, checkVars
<1>3. ASSUME NEW c \in Checks, FetchLatestRelease(c) PROVE NothingOlder'
  BY <1>3, GoesTyped DEF FetchLatestRelease, At, isNewer, NothingOlder, NotOlder,
                         Busy, Up, TypeOK, Labels, disk
<1>4. ASSUME NEW c \in Checks,
             \/ CreateArchive(c) \/ FillArchive(c) \/ VerifyChecksum(c)
             \/ MarkPending(c) \/ RestartRefused(c) \/ Fails(c)
      PROVE  NothingOlder'
  <2>1. /\ UNCHANGED <<service, running, installed, newFile, release>>
        /\ Busy(c)
    BY <1>4 DEF CreateArchive, FillArchive, VerifyChecksum, MarkPending,
                RestartRefused, Fails, At, Busy, disk
  <2>2. \A d \in Checks : d # c => pc'[d] = pc[d]
    BY <1>4, GoesTyped DEF CreateArchive, FillArchive, VerifyChecksum,
                           MarkPending, RestartRefused, Fails, Labels, HasArchive
  <2> QED BY <2>1, <2>2 DEF NothingOlder, NotOlder, Busy, Up
<1>5. ASSUME NEW c \in Checks, CreateBinary(c) \/ FillBinary(c)
      PROVE  NothingOlder'
  <2>1. /\ UNCHANGED <<service, running, installed, release>>
        /\ Busy(c)
    BY <1>5 DEF CreateBinary, FillBinary, At, Busy
  <2>2. \A d \in Checks : d # c => pc'[d] = pc[d]
    BY <1>5, GoesTyped DEF CreateBinary, FillBinary, Labels, HasBinary
  <2>3. newFile' \in {newFile, Broken, release[c]}
    BY <1>5 DEF CreateBinary, FillBinary, Extracted
  <2>4. /\ Up /\ Core[release[c]] > Core[running] /\ installed = running
        /\ Core[release[c]] \in Nat /\ Core[running] \in Nat
    BY <2>1 DEF NothingOlder, TypeOK
  <2> QED BY <2>1, <2>2, <2>3, <2>4 DEF NothingOlder, NotOlder, Busy, Up
<1>6. CASE Crash \/ \E c \in Checks : RestartService(c)
  BY <1>6 DEF Crash, RestartService, Stopped, NothingOlder, NotOlder, Busy, Up,
              disk
<1>7. CASE BeginMove
  BY <1>7 DEF BeginMove, NothingOlder, NotOlder, Busy, Up, checkVars
<1>8. CASE EndMove
  BY <1>8 DEF EndMove, NothingOlder, NotOlder, Busy, Up, checkVars
<1>9. CASE MoveFails \/ RemovePending
  BY <1>9 DEF MoveFails, RemovePending, disk, NothingOlder, NotOlder, Busy, Up, checkVars
<1>10. CASE ExecStart
  <2>1. /\ service = "stopped" /\ installed \in Releases
        /\ service' = "up" /\ running' = installed
        /\ UNCHANGED <<installed, newFile, pc, release>>
    BY <1>10 DEF ExecStart, TypeOK, disk, checkVars
  <2>2. \A c \in Checks : pc[c] = "idle"
    BY <2>1 DEF NothingOlder, Busy, Up
  <2>3. Core[installed] \in Nat
    BY <2>1
  <2> QED BY <2>1, <2>2, <2>3 DEF NothingOlder, NotOlder, Busy, Up
<1> QED BY <1>2, <1>3, <1>4, <1>5, <1>6, <1>7, <1>8, <1>9, <1>10
        DEF Next, Check, Systemd

(* No start of the program runs an older version than the one before,      *)
(* whichever releases are published, withdrawn and staged, by how many     *)
(* checks at once, and whatever is left on the disk by a crash.            *)
THEOREM NeverGoesBack == Spec => OnlyForward
<1>1. Init => NothingOlder
  BY UpdaterAssumption DEF Init, NothingOlder, NotOlder, Busy, Up
<1>2. TypeOK /\ NothingOlder /\ [Next]_vars => NothingOlder'
  BY NothingOlderNext
<1>3. TypeOK /\ NothingOlder /\ [Next]_vars => [Core[running'] >= Core[running]]_vars
  <2> SUFFICES ASSUME TypeOK, NothingOlder, [Next]_vars
               PROVE  Core[running'] >= Core[running]
    OBVIOUS
  <2>1. Core[running] \in Nat
    BY UpdaterAssumption DEF TypeOK
  <2>2. CASE ExecStart
    BY <2>2 DEF ExecStart, NothingOlder, NotOlder, TypeOK
  <2>3. CASE UNCHANGED running
    BY <2>1, <2>3
  <2>4. ~ExecStart => UNCHANGED running
    BY DEF Next, Publish, Check, FetchLatestRelease, CreateArchive, FillArchive,
           VerifyChecksum, CreateBinary, FillBinary, MarkPending,
           RestartService, RestartRefused, Fails, Crash, Stopped, Systemd, BeginMove, EndMove,
           MoveFails, RemovePending, vars
  <2> QED BY <2>2, <2>3, <2>4
<1> QED BY <1>1, <1>2, <1>3, TypeCorrect, PTL DEF Spec, OnlyForward

-----------------------------------------------------------------------------
(***************************************************************************)
(* A device that starts again.                                             *)
(***************************************************************************)

(* Two checks never hold one file.                                         *)
Apart ==
  \A c, d \in Checks : c # d =>
    /\ ~(pc[c] \in HasBinary /\ pc[d] \in HasBinary)
    /\ ~(/\ pc[c] \in HasArchive /\ pc[d] \in HasArchive
         /\ release[c] = release[d])

(* What each step of a check has achieved.                                 *)
Verified ==
  \A c \in Checks :
    /\ pc[c] \in {"extract", "extracting"} => sound[c]
    /\ pc[c] = "extracting" => ~mixed[c]
    /\ pc[c] \in HasBinary => ~pending
    /\ pc[c] = "staged" => newFile \in Releases

(* At every moment of a restart a whole binary is left, the staged one     *)
(* until it is moved and the installed one from then on.                   *)
OneIsWhole ==
  /\ pending /\ service # "moved" => newFile \in Releases
  /\ ~pending \/ service = "moved" => installed \in Releases
  /\ service \in {"moving", "moved"} => pending
  /\ service = "moved" => ~Movable

(* Power lost between mv and rm: what was moved stays, and nothing starts. *)
Halted ==
  /\ service = "stopped" /\ pending /\ ~Movable
  /\ installed \in Releases

Orderly ==
  ~overlapped => IF cut THEN Halted ELSE Apart /\ Verified /\ OneIsWhole

LEMMA OrderlyInit == Init => Orderly
BY UpdaterAssumption
   DEF Init, Orderly, Apart, Verified, OneIsWhole, HasArchive, HasBinary

(* Nobody else is between creating the archive of c's release and the end  *)
(* of its extraction, and nobody else has the binary.                      *)
LEMMA Alone ==
  ASSUME Apart, NEW c \in Checks
  PROVE  /\ pc[c] \in HasArchive => Sharers(c) = {} /\ ~Rewritten(c)
         /\ pc[c] \in HasBinary => Extracting(c) = {}
BY DEF Apart, Sharers, Rewritten, Extracting, HasBinary

(* A step of one check: the others stay where they are.                    *)
LEMMA OrderlyCheck ==
  ASSUME TypeOK, NothingOlder, Orderly, NEW c \in Checks, Check(c) \/ Fails(c)
  PROVE  Orderly'
<1> SUFFICES ASSUME ~overlapped'
             PROVE  ~cut' /\ (Apart /\ Verified /\ OneIsWhole)'
  BY DEF Orderly
<1>1. ~overlapped /\ ~cut /\ ~cut'
  <2>1. ~overlapped
    BY Zenon DEF Check, FetchLatestRelease, CreateArchive, FillArchive,
                 VerifyChecksum, CreateBinary, FillBinary, MarkPending,
                 RestartService, RestartRefused, Fails, Stopped
  <2>2. service = "up" /\ UNCHANGED cut
    BY Zenon DEF Check, FetchLatestRelease, CreateArchive, FillArchive,
                 VerifyChecksum, CreateBinary, FillBinary, MarkPending,
                 RestartService, RestartRefused, Fails, At, Up
  <2> QED BY <2>1, <2>2 DEF Orderly, Halted
<1>2. Apart /\ Verified /\ OneIsWhole
  BY <1>1 DEF Orderly
<1> USE DEF HasArchive, HasBinary
<1>3. CASE FetchLatestRelease(c)
  <2>1. /\ pc'[c] = "stage" /\ \A d \in Checks : d # c => pc'[d] = pc[d]
        /\ \A d \in Checks : d # c => release'[d] = release[d]
        /\ UNCHANGED <<service, installed, newFile, pending, sound, mixed>>
    BY <1>3, GoesTyped DEF FetchLatestRelease, Labels, disk, TypeOK
  <2> QED BY <1>1, <1>2, <2>1 DEF Apart, Verified, OneIsWhole, Movable
<1>4. CASE CreateArchive(c)
  <2>1. /\ pc'[c] = "download" /\ \A d \in Checks : d # c => pc'[d] = pc[d]
        /\ UNCHANGED <<service, installed, newFile, pending, release, sound, mixed>>
        /\ Sharers(c) = {}
    BY <1>4, GoesTyped DEF CreateArchive, Labels, disk
  <2> QED BY <1>1, <1>2, <2>1 DEF Apart, Verified, OneIsWhole, Movable, Sharers
<1>5. CASE FillArchive(c)
  <2>1. /\ pc'[c] = "verify" /\ \A d \in Checks : d # c => pc'[d] = pc[d]
        /\ pc[c] = "download"
        /\ UNCHANGED <<service, installed, newFile, pending, release, mixed>>
    BY <1>5, GoesTyped DEF FillArchive, At, Labels, disk
  <2>2. \A d \in Checks : d # c => sound'[d] = sound[d]
    BY <1>2, <1>5, <2>1, Alone DEF FillArchive
  <2> QED BY <1>1, <1>2, <2>1, <2>2 DEF Apart, Verified, OneIsWhole, Movable
<1>6. CASE VerifyChecksum(c)
  <2>1. /\ pc[c] = "verify" /\ \A d \in Checks : d # c => pc'[d] = pc[d]
        /\ UNCHANGED <<service, installed, newFile, pending, release, sound, mixed>>
        /\ pc'[c] = "idle" \/ (pc'[c] = "extract" /\ sound[c])
    <3>1. Goes(c, "idle") \/ (Goes(c, "extract") /\ sound[c])
      BY <1>6 DEF VerifyChecksum, Matches
    <3> QED BY <1>6, <3>1, GoesTyped DEF VerifyChecksum, At, Labels, disk
  <2> QED BY <1>1, <1>2, <2>1 DEF Apart, Verified, OneIsWhole, Movable
<1>7. CASE CreateBinary(c)
  <2>1. /\ pc'[c] = "extracting" /\ \A d \in Checks : d # c => pc'[d] = pc[d]
        /\ pc[c] = "extract"
        /\ UNCHANGED <<service, installed, pending, release, sound>>
        /\ ~pending /\ \A d \in Checks \ {c} : pc[d] \notin HasBinary
    BY <1>7, GoesTyped DEF CreateBinary, At, Labels
  <2>2. ~mixed'[c]
    BY <1>7, <2>1 DEF CreateBinary, Extracting
  <2> QED BY <1>1, <1>2, <2>1, <2>2 DEF Apart, Verified, OneIsWhole, Movable
<1>8. CASE FillBinary(c)
  <2>1. /\ pc[c] = "extracting" /\ \A d \in Checks : d # c => pc'[d] = pc[d]
        /\ UNCHANGED <<service, installed, pending, release, sound, mixed>>
    BY <1>8, GoesTyped DEF FillBinary, At, Labels
  <2>2. sound[c] /\ ~mixed[c] /\ ~pending /\ ~Rewritten(c) /\ Extracting(c) = {}
    BY <1>2, <2>1, Alone DEF Verified
  <2>3. pc'[c] = "staged" /\ newFile' = release[c]
    BY <1>8, <2>2, GoesTyped DEF FillBinary, Extracted, Labels
  <2>4. newFile' \in Releases
    BY <2>3 DEF TypeOK
  <2> QED BY <1>1, <1>2, <2>1, <2>2, <2>3, <2>4 DEF Apart, Verified, OneIsWhole, Movable
<1>9. CASE MarkPending(c)
  <2>1. /\ pc'[c] = "restart" /\ \A d \in Checks : d # c => pc'[d] = pc[d]
        /\ pc[c] = "staged" /\ service = "up" /\ pending'
        /\ UNCHANGED <<service, installed, newFile, release, sound, mixed>>
    BY <1>9, GoesTyped DEF MarkPending, At, Up, Labels
  <2> QED BY <1>1, <1>2, <2>1 DEF Apart, Verified, OneIsWhole, Movable
<1>10. CASE RestartService(c)
  <2>1. /\ \A d \in Checks : pc'[d] = "idle"
        /\ service = "up" /\ service' = "stopped"
        /\ UNCHANGED <<installed, newFile, pending>>
    BY <1>10 DEF RestartService, Stopped, At, Up, disk
  <2> QED BY <1>1, <1>2, <2>1 DEF Apart, Verified, OneIsWhole, Movable
<1>11. CASE RestartRefused(c) \/ Fails(c)
  <2>1. /\ pc'[c] = "idle" /\ \A d \in Checks : d # c => pc'[d] = pc[d]
        /\ UNCHANGED <<service, installed, newFile, pending, release, sound, mixed>>
    BY <1>11, GoesTyped DEF RestartRefused, Fails, Labels, disk
  <2> QED BY <1>1, <1>2, <2>1 DEF Apart, Verified, OneIsWhole, Movable
<1> QED BY <1>3, <1>4, <1>5, <1>6, <1>7, <1>8, <1>9, <1>10, <1>11 DEF Check

LEMMA OrderlyNext == TypeOK /\ NothingOlder /\ Orderly /\ [Next]_vars => Orderly'
<1> SUFFICES ASSUME TypeOK, NothingOlder, Orderly, [Next]_vars PROVE Orderly'
  OBVIOUS
<1>1. ASSUME NEW c \in Checks, Check(c) \/ Fails(c) PROVE Orderly'
  BY <1>1, OrderlyCheck
<1>2. CASE Publish \/ UNCHANGED vars
  <2>1. UNCHANGED <<service, installed, newFile, pending, pc, release, sound,
                    mixed, overlapped, cut>>
    BY <1>2 DEF Publish, vars, disk, checkVars
  <2> QED BY <2>1 DEF Orderly, Apart, Verified, OneIsWhole, Halted, Movable
<1>3. CASE Crash
  <2>1. /\ \A d \in Checks : pc'[d] = "idle"
        /\ service' = "stopped"
        /\ UNCHANGED <<installed, newFile, pending, overlapped>>
        /\ cut' = (cut \/ service = "moved")
    BY <1>3 DEF Crash, Stopped, disk
  <2> QED BY <2>1 DEF Orderly, Apart, Verified, OneIsWhole, Halted, Movable,
                  HasArchive, HasBinary
<1>4. CASE Systemd
  <2>1. /\ UNCHANGED <<pc, release, sound, mixed, overlapped, cut>>
        /\ service # "up"
    BY <1>4 DEF Systemd, BeginMove, EndMove, MoveFails, RemovePending, ExecStart,
               checkVars
  <2>2. \A c \in Checks : pc'[c] = "idle"
    BY <2>1 DEF NothingOlder, Busy, Up
  <2>3. (Apart /\ Verified)'
    BY <2>2 DEF Apart, Verified, HasArchive, HasBinary
  <2>4. CASE cut
    BY <1>4, <2>1, <2>4 DEF Systemd, BeginMove, EndMove, MoveFails, RemovePending,
                            ExecStart, Orderly, Halted
  <2>5. CASE ~cut
    <3> SUFFICES ASSUME ~overlapped PROVE OneIsWhole'
      BY <2>1, <2>3, <2>5 DEF Orderly
    <3>1. OneIsWhole
      BY <2>5 DEF Orderly
    <3>2. CASE BeginMove \/ EndMove
      BY <3>1, <3>2 DEF BeginMove, EndMove, OneIsWhole, Movable
    <3>3. CASE MoveFails \/ RemovePending \/ ExecStart
      BY <3>1, <3>3 DEF MoveFails, RemovePending, ExecStart, OneIsWhole, Movable,
                        disk
    <3> QED BY <1>4, <3>2, <3>3 DEF Systemd
  <2> QED BY <2>4, <2>5
<1> QED BY <1>1, <1>2, <1>3, <1>4 DEF Next

(* Wherever a check fails and whenever the device stops, also while mv     *)
(* writes the new binary over the old one and if that breaks off, a whole  *)
(* binary is left on the disk, unless two checks have written one file or  *)
(* one wrote over an update that was pending.                              *)
THEOREM ABinaryIsLeft == Spec => []WholeBinaryLeft
<1>1. Init => NothingOlder
  BY UpdaterAssumption DEF Init, NothingOlder, NotOlder, Busy, Up
<1>2. Orderly => WholeBinaryLeft
  BY DEF Orderly, OneIsWhole, Halted, WholeBinaryLeft
<1> QED BY <1>1, <1>2, TypeCorrect, NothingOlderNext, OrderlyInit, OrderlyNext,
           PTL DEF Spec

(* A unit that cannot be started may not replace the binary, unless two    *)
(* checks have written one file, one wrote over an update that was         *)
(* pending, or power was lost between mv and rm: nothing else that fails   *)
(* keeps the program from starting again.                                  *)
THEOREM StuckForAReason ==
  Spec => [](Stuck => ~unit.mayMove \/ overlapped \/ cut)
<1>1. Init => NothingOlder
  BY UpdaterAssumption DEF Init, NothingOlder, NotOlder, Busy, Up
<1>2. TypeOK /\ Orderly => (Stuck => ~unit.mayMove \/ overlapped \/ cut)
  BY UpdaterAssumption DEF Orderly, OneIsWhole, Stuck, Movable
<1> QED BY <1>1, <1>2, TypeCorrect, NothingOlderNext, OrderlyInit, OrderlyNext,
           PTL DEF Spec

(* What is staged for the next restart is the verified binary of a         *)
(* release, with the same two exceptions: no failure or crash of one check *)
(* at a time leaves anything else to be installed.                         *)
THEOREM StagedUnlessOverlapped == Spec => [](~overlapped /\ ~cut => StagedIsWhole)
<1>1. Init => NothingOlder
  BY UpdaterAssumption DEF Init, NothingOlder, NotOlder, Busy, Up
<1>2. Orderly => (~overlapped /\ ~cut => StagedIsWhole)
  BY DEF Orderly, OneIsWhole, StagedIsWhole
<1> QED BY <1>1, <1>2, TypeCorrect, NothingOlderNext, OrderlyInit, OrderlyNext,
           PTL DEF Spec

=============================================================================
