------------------------------- MODULE Updater -------------------------------
(***************************************************************************)
(* The updater (internal/updater) and the unit that applies what it has    *)
(* staged (deploy/afficho.service).  check runs in the periodic loop and   *)
(* in every caller of CheckNow at once, with no lock around it:            *)
(* checks of one release share the path of the archive, and all checks     *)
(* share the path of the extracted binary and the signal file.             *)
(***************************************************************************)
EXTENDS Naturals

CONSTANTS
  Releases, Core,   \* tags, and their semantic version without its suffix
  Installed,        \* the release the device is delivered with
  Broken, NoFile,   \* a binary that is not a release's, and no file
  Periodic, Now,    \* the goroutine of Run, and one that calls CheckNow
  Units,            \* what systemd may let the user of the unit do
  MaxPublished, MaxFaults  \* bounds on a behaviour

Checks == {Periodic, Now}

ASSUME UpdaterAssumption ==
  /\ Core \in [Releases -> Nat]
  /\ Installed \in Releases
  /\ {Broken, NoFile} \cap Releases = {} /\ Broken # NoFile
  /\ Periodic # Now
  /\ Units \subseteq [mayMove : BOOLEAN, mayRestart : BOOLEAN]
  /\ {MaxPublished, MaxFaults} \subseteq Nat

VARIABLES
  unit,       \* whether ExecStartPre may write to /usr/local/bin, and
              \* whether the program may ask for its restart
  latest,     \* what GitHub answers
  service,    \* where systemd is with the unit
  installed,  \* /usr/local/bin/afficho
  running,    \* u.currentVersion
  newFile,    \* .update/afficho.new
  pending,    \* whether .update/pending is there
  pc,         \* where each check is
  release,    \* the release it applies
  sound,      \* whether its archive is what was published
  mixed,      \* whether a check of another release writes the binary with it
  overlapped, \* history: two checks have written one file, or a check the
              \* binary of an update that was pending
  cut,        \* history: power was lost between mv and rm
  published, faults  \* for the bounds

outside   == <<unit, latest>>
disk      == <<installed, newFile, pending>>
checkVars == <<pc, release, sound, mixed>>
bounds    == <<published, faults>>
vars == <<outside, service, running, disk, checkVars, overlapped, cut, bounds>>

Up == service = "up"

(* Steps of applyUpdate.                                                   *)
HasArchive == {"download", "verify", "extract", "extracting"}
HasBinary  == {"extracting", "staged"}

-----------------------------------------------------------------------------
(***************************************************************************)
(* Faults: plausible slips in the operations below.                        *)
(***************************************************************************)

(* Any release but the one that is running is applied.                     *)
Different(current, tag) == current # tag

(* The archive is not verified.                                            *)
Unverified(c) == TRUE

(* mv ...; rm: that mv failed is not noticed.                              *)
MoveAnyway == TRUE

(* No check while an update is pending.                                    *)
NotIfPending(c) == ~pending

-----------------------------------------------------------------------------
Init ==
  /\ unit \in Units
  /\ latest = Installed
  /\ service = "up" /\ running = Installed
  /\ installed = Installed /\ newFile = NoFile /\ pending = FALSE
  /\ pc = [c \in Checks |-> "idle"]
  /\ release = [c \in Checks |-> Installed]
  /\ sound = [c \in Checks |-> TRUE]
  /\ mixed = [c \in Checks |-> FALSE]
  /\ overlapped = FALSE /\ cut = FALSE
  /\ published = 0 /\ faults = 0

(* A release is published, or withdrawn so that an older one is the latest. *)
Publish ==
  /\ published < MaxPublished /\ published' = published + 1
  /\ latest' \in Releases \ {latest}
  /\ UNCHANGED <<unit, service, running, disk, checkVars, overlapped, cut,
                 faults>>

Fault == faults < MaxFaults /\ faults' = faults + 1

-----------------------------------------------------------------------------
(***************************************************************************)
(* check and applyUpdate.                                                  *)
(***************************************************************************)

At(c, label)   == Up /\ pc[c] = label
Goes(c, label) == pc' = [pc EXCEPT ![c] = label]

(* Versions that are both semantic, as the tags of the project are; the    *)
(* suffix of a pre-release is cut.  A build without a version takes any    *)
(* tag, and other tags are compared as strings: neither is modelled.       *)
isNewer(current, tag) == current # tag /\ Core[tag] > Core[current]

(* The loop's ticker has fired, or someone has asked.                      *)
Begins(c) == TRUE

FetchLatestRelease(c) ==
  /\ At(c, "idle") /\ Begins(c)
  /\ isNewer(running, latest)
  /\ release' = [release EXCEPT ![c] = latest]
  /\ Goes(c, "stage")
  /\ UNCHANGED <<outside, service, running, disk, sound, mixed, overlapped,
                 cut, bounds>>

(* The other checks that have the archive of c's release in their hands.   *)
Sharers(c) ==
  {d \in Checks \ {c} : pc[d] \in HasArchive /\ release[d] = release[c]}

Rewritten(c) == \E d \in Sharers(c) : pc[d] = "download"

(* downloadFile: os.Create empties the file, also under those who have it. *)
CreateArchive(c) ==
  /\ At(c, "stage")
  /\ overlapped' = (overlapped \/ Sharers(c) # {})
  /\ Goes(c, "download")
  /\ UNCHANGED <<outside, service, running, disk, release, sound, mixed, cut,
                 bounds>>

(* ... and io.Copy fills it, for all of them, with what was published or   *)
(* not; who is extracting may have read what was there before.             *)
FillArchive(c) ==
  /\ At(c, "download")
  /\ \E s \in BOOLEAN :
       /\ sound' = [d \in Checks |->
            IF d \notin {c} \cup Sharers(c) THEN sound[d]
            ELSE s /\ (pc[d] = "extracting" => sound[d])]
       /\ IF s THEN UNCHANGED faults ELSE Fault
  /\ Goes(c, "verify")
  /\ UNCHANGED <<outside, service, running, disk, release, mixed, overlapped,
                 cut, published>>

Matches(c) == sound[c]

VerifyChecksum(c) ==
  /\ At(c, "verify")
  /\ \/ Matches(c) /\ Goes(c, "extract")
     \/ (~Matches(c) \/ Rewritten(c)) /\ Goes(c, "idle")
  /\ UNCHANGED <<outside, service, running, disk, release, sound, mixed,
                 overlapped, cut, bounds>>

Extracting(c) == {d \in Checks \ {c} : pc[d] = "extracting"}

(* extractBinary: os.Create, then the bytes; two of it write one file.     *)
CreateBinary(c) ==
  /\ At(c, "extract")
  /\ newFile' = Broken
  /\ mixed' = [d \in Checks |->
       IF d = c THEN \E e \in Extracting(c) : release[e] # release[c]
       ELSE mixed[d] \/ (d \in Extracting(c) /\ release[d] # release[c])]
  /\ overlapped' =
       (overlapped \/ pending \/ \E d \in Checks \ {c} : pc[d] \in HasBinary)
  /\ Goes(c, "extracting")
  /\ UNCHANGED <<outside, service, running, installed, pending, release, sound,
                 cut, bounds>>

(* What the file holds then: gzip's own checksum is never read.            *)
Extracted(c) ==
  IF Extracting(c) # {} THEN {Broken}
  ELSE IF mixed[c] \/ ~sound[c] THEN {release[c], Broken}
  ELSE {release[c]}

FillBinary(c) ==
  /\ At(c, "extracting")
  /\ \/ newFile' \in Extracted(c) /\ Goes(c, "staged")
     \/ Rewritten(c) /\ UNCHANGED newFile /\ Goes(c, "idle")
  /\ UNCHANGED <<outside, service, running, installed, pending, release, sound,
                 mixed, overlapped, cut, bounds>>

MarkPending(c) ==
  /\ At(c, "staged")
  /\ pending' = TRUE
  /\ Goes(c, "restart")
  /\ UNCHANGED <<outside, service, running, installed, newFile, release, sound,
                 mixed, overlapped, cut, bounds>>

(* Any step may fail, and leaves the files as they are; so it does when    *)
(* another check has removed the archive they share.  That systemctl       *)
(* failed is only logged, also when the program may not use it.            *)
Fails(c) ==
  /\ Up /\ pc[c] # "idle" /\ Fault
  /\ Goes(c, "idle")
  /\ UNCHANGED <<outside, service, running, disk, release, sound, mixed,
                 overlapped, cut, published>>

RestartRefused(c) ==
  /\ At(c, "restart") /\ ~unit.mayRestart
  /\ Goes(c, "idle")
  /\ UNCHANGED <<outside, service, running, disk, release, sound, mixed,
                 overlapped, cut, bounds>>

(* Every goroutine is gone.                                                *)
Stopped ==
  /\ service' = "stopped"
  /\ pc' = [c \in Checks |-> "idle"]
  /\ UNCHANGED <<outside, running, disk, release, sound, mixed, overlapped,
                 published>>

RestartService(c) ==
  /\ At(c, "restart") /\ unit.mayRestart
  /\ Stopped
  /\ UNCHANGED <<cut, faults>>

(* A crash, a loss of power or a restart by hand, at any moment.           *)
Crash ==
  /\ Fault /\ Stopped
  /\ cut' = (cut \/ service = "moved")

-----------------------------------------------------------------------------
(***************************************************************************)
(* systemd: ExecStartPre, then ExecStart, until it succeeds.  ExecStartPre *)
(* runs as the user of the unit, in what the unit lets it write to: a unit *)
(* whose user may not replace the binary fails before mv has done anything.*)
(***************************************************************************)

Movable == newFile # NoFile

(* mv between two file systems first writes half of the new binary.        *)
BeginMove ==
  /\ service = "stopped" /\ pending /\ unit.mayMove /\ Movable
  /\ service' = "moving" /\ installed' = Broken
  /\ UNCHANGED <<outside, running, newFile, pending, checkVars, overlapped,
                 cut, bounds>>

EndMove ==
  /\ service = "moving"
  /\ service' = "moved" /\ installed' = newFile /\ newFile' = NoFile
  /\ UNCHANGED <<outside, running, pending, checkVars, overlapped, cut,
                 bounds>>

(* mv breaks off, on a full disk say, and the start fails.                 *)
MoveFails ==
  /\ service = "moving" /\ Fault
  /\ service' = "stopped"
  /\ UNCHANGED <<outside, running, disk, checkVars, overlapped, cut,
                 published>>

RemovePending ==
  /\ service = "moved"
  /\ service' = "stopped" /\ pending' = FALSE
  /\ UNCHANGED <<outside, running, installed, newFile, checkVars, overlapped,
                 cut, bounds>>

ExecStart ==
  /\ service = "stopped" /\ ~pending /\ installed # Broken
  /\ service' = "up" /\ running' = installed
  /\ UNCHANGED <<outside, disk, checkVars, overlapped, cut, bounds>>

Systemd == BeginMove \/ EndMove \/ MoveFails \/ RemovePending \/ ExecStart

Check(c) ==
  \/ FetchLatestRelease(c) \/ CreateArchive(c) \/ FillArchive(c)
  \/ VerifyChecksum(c) \/ CreateBinary(c) \/ FillBinary(c)
  \/ MarkPending(c) \/ RestartService(c) \/ RestartRefused(c)

Next ==
  \/ Publish
  \/ \E c \in Checks : Check(c) \/ Fails(c)
  \/ Crash
  \/ Systemd

Spec == Init /\ [][Next]_vars

(* The loop's ticker fires for ever, and systemd goes on.  Nobody need     *)
(* ever call CheckNow; what can go wrong is bounded by MaxFaults.          *)
FairSpec == Spec /\ WF_vars(Check(Periodic)) /\ WF_vars(Systemd)

-----------------------------------------------------------------------------
TypeOK ==
  /\ unit \in Units
  /\ latest \in Releases
  /\ service \in {"up", "stopped", "moving", "moved"}
  /\ installed \in Releases \cup {Broken}
  /\ running \in Releases
  /\ newFile \in Releases \cup {Broken, NoFile}
  /\ pending \in BOOLEAN /\ overlapped \in BOOLEAN /\ cut \in BOOLEAN
  /\ pc \in [Checks -> HasArchive \cup HasBinary \cup {"idle", "stage", "restart"}]
  /\ release \in [Checks -> Releases]
  /\ sound \in [Checks -> BOOLEAN] /\ mixed \in [Checks -> BOOLEAN]
  /\ published \in 0 .. MaxPublished /\ faults \in 0 .. MaxFaults

(* The unit cannot be started any more: mv may not move the binary or has  *)
(* none to move, or the installed one is not a program.                    *)
Stuck ==
  /\ service = "stopped"
  /\ IF pending THEN ~unit.mayMove \/ ~Movable ELSE installed = Broken

(* Whatever fails and whenever the device stops, also while mv writes over *)
(* the installed binary or after it has, a whole binary of a release is on *)
(* the disk, the staged one or the installed one, unless checks wrote over *)
(* one another or over a pending update.                                   *)
WholeBinaryLeft ==
  overlapped \/ installed \in Releases \/ newFile \in Releases

(* "so it can replace the binary": a restart that finds an update staged   *)
(* ends with a program that runs.                                          *)
StartsAgain == Stuck => overlapped \/ cut

(* No start runs an older version than the one before it, also when a      *)
(* release is withdrawn, or an update staged before the latest one is      *)
(* applied after it.                                                       *)
OnlyForward == [][Core[running'] >= Core[running]]_vars

(* A program that may ask for its restart comes to run a version that no   *)
(* published one is newer than, also if nobody asks for it: a check that   *)
(* failed or was cut off at any step does not keep later ones from         *)
(* succeeding.  What can is a unit whose user may not replace the binary,  *)
(* checks that wrote over one another or over a pending update, power lost *)
(* between mv and rm, and callers of CheckNow who never stop.              *)
UpToDate ==
  unit.mayRestart /\ <>[](pc[Now] = "idle")
    => \/ <>[](Up /\ Core[running] >= Core[latest])
       \/ <>(Stuck /\ (~unit.mayMove \/ overlapped \/ cut))

(* "Stages it for the next service restart": what a restart finds staged   *)
(* is the verified binary.                                                 *)
StagedIsWhole == service = "stopped" /\ pending => newFile \in Releases

=============================================================================
