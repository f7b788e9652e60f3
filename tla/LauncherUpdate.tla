--------------------------- MODULE LauncherUpdate ---------------------------
(***************************************************************************)
(* A managed update as the launcher carries it out (apply_update): it      *)
(* waits for the old server to leave, copies the data that the new build   *)
(* may upgrade, moves the old files aside and the new ones in, starts the  *)
(* new build as a trial that acknowledges nothing, and commits it; or it   *)
(* puts files and data back and starts the old build again.                *)
(*                                                                         *)
(* Every file operation is an action, so the launcher may fail or be       *)
(* killed between any two.  Nothing resumes a killed launcher: its lock is *)
(* free, the service may start whatever is installed, and the rollback may *)
(* be run again over what the first run left.                              *)
(***************************************************************************)
EXTENDS Integers, Sequences, SequencesExt

CONSTANTS
  Setups, \* the installations to consider
  Bounds  \* model bound: how often, together, an operation fails, the launcher
          \* is killed, the service starts a server outside an update and the
          \* PID of a new server is lost

ASSUME LauncherAssumption ==
  /\ Setups \subseteq [web : BOOLEAN, version : BOOLEAN, trials : BOOLEAN, links : BOOLEAN]
  /\ Bounds \subseteq Nat \X Nat \X Nat \X Nat

VARIABLES
  setup,     \* the installation and the new build, fixed from the start
  installed, \* the managed files in the installation folder
  package,   \* the staged files of the new version
  backup,    \* the files moved to update-backups/<time>
  live,      \* operalibre.db and library-identities.json
  log,       \* the database as its write-ahead log has it
  snapshot,  \* the copies taken before the new build runs
  prepared,  \* their restore copies, and those made during a restore
  kept,      \* failed-data and failed-data.partial: the failed build's data
  whole,     \* the kept data was renamed to failed-data
  marker,    \* restore-pending, or restore-required
  server,    \* the server process, if any
  pc, todo,  \* the launcher: what it does, and with which files
  stopped,   \* what stop_server returned
  answer,    \* what the new build answered to the commit
  result,    \* update-result.txt
  faults, kills, boots, lost,
  \* History, read by the properties only:
  acked,     \* changes acknowledged to clients
  unclear,   \* the launcher does not know if the new build was committed
  excused,   \* a server was not stopped, its PID or the restore not recorded
  written    \* stores the failed build wrote before its data was put away

fileVars == <<installed, package, backup>>
dataVars == <<live, log, kept>>
copyVars == <<snapshot, prepared, whole, marker>>
launcherVars == <<pc, todo, stopped, answer, result>>
boundVars == <<faults, kills, boots, lost>>
historyVars == <<acked, unclear, excused, written>>
launcherUpdateVars ==
  <<setup, fileVars, dataVars, copyVars, server, launcherVars, boundVars, historyVars>>

Parts == {"server", "web", "version"}
Stores == <<"database", "identities">>
Store == ToSet(Stores)
File == {"old", "new", "none"}

(***************************************************************************)
(* A store has the format of the build that last upgraded it: 0 is the old *)
(* build's, 1 the new one's, and what cannot be read counts as newer than  *)
(* both.  "copy" tells a file put back from the snapshot from the original *)
(* one: the log of one does not fit the other.                             *)
(***************************************************************************)
Unreadable == 2
Content == [format : 0 .. Unreadable, by : {"old", "new", "nobody"},
            changes : SUBSET {"before", "after"}, copy : BOOLEAN]
Missing == [format |-> Unreadable, by |-> "nobody", changes |-> {}, copy |-> FALSE]
Nothing == [s \in Store |-> Missing]

\* What a build opening the store reads.
Data(s) ==
  IF s = "identities" \/ log = Missing \/ live[s] = Missing THEN live[s]
  ELSE IF log.copy = live[s].copy THEN log ELSE Missing

Supports(build) == IF build = "old" THEN 0 ELSE 1
Reads(build) == \A s \in Store : Data(s).format <= Supports(build)

\* A kept database is linked to the live one until that is replaced.
Linked == setup.links /\ kept["database"] # Missing /\ ~live["database"].copy

InFile(s, content) ==
  /\ live' = [live EXCEPT ![s] = content]
  /\ kept' = IF s = "database" /\ Linked THEN [kept EXCEPT ![s] = content] ELSE kept

\* The last reader of the database merges the log, unless the disk is full.
Checkpointed ==
  IF Missing \in {live["database"], log} THEN UNCHANGED dataVars
  ELSE InFile("database", Data("database")) /\ log' = Missing

Down == [build |-> "none", mode |-> "down", gate |-> "none", tracked |-> FALSE]
Server == [build : {"old", "new"}, mode : {"starting", "up", "broken"},
           gate : {"none", "closed", "open"}, tracked : BOOLEAN] \cup {Down}

Result == {"none", "refused", "notPrepared", "notRestarted", "succeeded",
           "restored", "rollbackFailed"}

\* apply_update holds update.lock.
Active == pc \notin {"idle", "dead", "done"}

Within(f, k, b, l) ==
  \E bound \in Bounds : f <= bound[1] /\ k <= bound[2] /\ b <= bound[3] /\ l <= bound[4]

Fault == Within(faults + 1, kills, boots, lost) /\ faults' = faults + 1

Managed == IF setup.web THEN <<"server", "web", "version">> ELSE <<"server", "version">>
InstallOrder == IF setup.web THEN <<"server", "web", "launchers", "version">>
                ELSE <<"server", "launchers", "version">>
PutBackOrder == IF setup.web THEN <<"version", "server", "web">> ELSE <<"version", "server">>

LauncherInit ==
  /\ setup \in Setups
  /\ installed = [p \in Parts |->
                    IF p = "version" /\ ~setup.version THEN "none" ELSE "old"]
  /\ package = [p \in Parts |-> "new"]
  /\ backup = [p \in Parts |-> "none"]
  /\ live = [s \in Store |-> [format |-> 0, by |-> "old", changes |-> {}, copy |-> FALSE]]
  /\ log = Missing
  /\ snapshot = Nothing /\ prepared = Nothing /\ kept = [s \in Store |-> Missing]
  /\ whole = FALSE /\ marker = "none"
  /\ server = [build |-> "old", mode |-> "up", gate |-> "none", tracked |-> TRUE]
  /\ pc = "idle" /\ todo = <<>> /\ stopped = TRUE /\ answer = "none" /\ result = "none"
  /\ faults = 0 /\ kills = 0 /\ boots = 0 /\ lost = 0
  /\ acked = {} /\ unclear = FALSE /\ excused = FALSE /\ written = {}

(***************************************************************************)
(* Steps of the launcher.                                                  *)
(***************************************************************************)
Goto(phase, items) == pc' = phase /\ todo' = items

\* The next file of this phase, or the next phase.
Proceed(phase, items) ==
  IF Len(todo) > 1 THEN pc' = pc /\ todo' = Tail(todo) ELSE Goto(phase, items)

\* The result is renamed into place, unless that fails too.
Publish(outcome) ==
  /\ Goto("done", <<>>)
  /\ \/ result' = outcome /\ UNCHANGED faults
     \/ Fault /\ UNCHANGED result

BeginUpdate ==
  /\ pc = "idle"
  /\ Goto("wait", <<>>)
  /\ UNCHANGED <<setup, fileVars, dataVars, copyVars, server, stopped, answer, result,
                 boundVars, historyVars>>

WaitForExit ==
  /\ pc = "wait" /\ server.mode = "down"
  /\ Goto("snapshot", Stores)
  /\ UNCHANGED <<setup, fileVars, dataVars, copyVars, server, stopped, answer, result,
                 boundVars, historyVars>>

ExitTooLate ==
  /\ pc = "wait" /\ server.mode # "down" /\ Fault
  /\ Goto("done", <<>>)
  /\ result' = "refused"
  /\ UNCHANGED <<setup, fileVars, dataVars, copyVars, server, stopped, answer,
                 kills, boots, lost, historyVars>>

\* VACUUM INTO yields what the log has as well.
SnapshotStore ==
  /\ pc = "snapshot"
  /\ LET s == Head(todo) IN
       snapshot' = [snapshot EXCEPT ![s] = [Data(s) EXCEPT !.copy = TRUE]]
  /\ Checkpointed
  /\ Proceed("copies", Stores)
  /\ UNCHANGED <<setup, fileVars, prepared, whole, marker, server, stopped, answer,
                 result, boundVars, historyVars>>

PrepareCopy ==
  /\ pc = "copies"
  /\ prepared' = [prepared EXCEPT ![Head(todo)] = snapshot[Head(todo)]]
  /\ Proceed("records", <<>>)
  /\ UNCHANGED <<setup, fileVars, dataVars, snapshot, whole, marker, server, stopped,
                 answer, result, boundVars, historyVars>>

\* A missing VERSION.txt is recorded.
PrepareRecords ==
  /\ pc = "records"
  /\ marker' = "pending"
  /\ Goto("stage", Managed)
  /\ UNCHANGED <<setup, fileVars, dataVars, snapshot, prepared, whole, server, stopped,
                 answer, result, boundVars, historyVars>>

\* The copies of a failed preparation are removed, after the files it had staged
\* went back.
PreparationFails ==
  /\ \/ pc \in {"snapshot", "copies", "records"} /\ Fault
     \/ pc = "undone" /\ UNCHANGED faults
  /\ snapshot' = Nothing /\ prepared' = Nothing
  /\ Goto("restart", <<>>)
  /\ UNCHANGED <<setup, fileVars, dataVars, whole, marker, server, stopped, answer,
                 result, kills, boots, lost, historyVars>>

\* A file that is not there is passed over.
StageFile ==
  /\ pc = "stage"
  /\ LET p == Head(todo) IN
       /\ backup' = [backup EXCEPT ![p] = installed[p]]
       /\ installed' = [installed EXCEPT ![p] = "none"]
  /\ Proceed("install", InstallOrder)
  /\ UNCHANGED <<setup, package, dataVars, copyVars, server, stopped, answer, result,
                 boundVars, historyVars>>

\* What was already moved goes back in reverse order.
StageFails ==
  /\ pc = "stage" /\ installed[Head(todo)] # "none" /\ Fault
  /\ Goto("unstage", Reverse(Managed))
  /\ UNCHANGED <<setup, fileVars, dataVars, copyVars, server, stopped, answer, result,
                 kills, boots, lost, historyVars>>

UnstageFile ==
  /\ pc = "unstage"
  /\ LET p == Head(todo) IN
       \/ /\ installed' = [installed EXCEPT ![p] = IF backup[p] # "none" THEN backup[p] ELSE @]
          /\ backup' = [backup EXCEPT ![p] = "none"]
          /\ UNCHANGED faults
       \/ backup[p] # "none" /\ Fault /\ UNCHANGED <<installed, backup>>
  /\ Proceed("undone", <<>>)
  /\ UNCHANGED <<setup, package, dataVars, copyVars, server, stopped, answer, result,
                 kills, boots, lost, historyVars>>

InstallFile ==
  /\ pc = "install"
  /\ LET p == Head(todo) IN
       IF p \in Parts
         THEN /\ installed' = [installed EXCEPT ![p] = package[p]]
              /\ package' = [package EXCEPT ![p] = "none"]
         ELSE UNCHANGED <<installed, package>>
  /\ Proceed("start trial", <<>>)
  /\ UNCHANGED <<setup, backup, dataVars, copyVars, server, stopped, answer, result,
                 boundVars, historyVars>>

InstallFails ==
  /\ pc = "install" /\ Fault
  /\ Goto("stop", <<>>)
  /\ UNCHANGED <<setup, fileVars, dataVars, copyVars, server, stopped, answer, result,
                 kills, boots, lost, historyVars>>

(***************************************************************************)
(* Starting a server: as a trial, as part of a rollback, or because the    *)
(* preparation failed.                                                     *)
(***************************************************************************)
Starting == {"start trial", "start rollback", "restart"}
Awaiting == {"await trial", "await rollback", "await restart"}
AwaitOf(phase) ==
  CASE phase = "start trial" -> "await trial"
    [] phase = "start rollback" -> "await rollback"
    [] OTHER -> "await restart"

\* A start that failed ends the rollback or the preparation, or rolls back.
StartFailed ==
  CASE pc \in {"start trial", "await trial"} -> Goto("stop", <<>>) /\ UNCHANGED <<result, faults>>
    [] pc \in {"start rollback", "await rollback"} -> Publish("rollbackFailed")
    [] OTHER -> Publish("notRestarted")

Spawned(build, gate, tracked) ==
  server' = [build |-> build, mode |-> "starting", gate |-> gate, tracked |-> tracked]

\* A server that is up, or coming up, is waited on rather than started twice.
StartServer ==
  /\ pc \in Starting
  /\ server.mode # "down" \/ installed["server"] # "none"
  /\ IF server.mode = "down"
       THEN Spawned(installed["server"],
                    IF pc = "start trial" /\ setup.trials THEN "closed" ELSE "none", TRUE)
       ELSE UNCHANGED server
  /\ Goto(AwaitOf(pc), <<>>)
  /\ UNCHANGED <<setup, fileVars, dataVars, copyVars, stopped, answer, result, boundVars,
                 historyVars>>

NoServerFile ==
  /\ pc \in Starting
  /\ server.mode = "down" /\ installed["server"] = "none"
  /\ StartFailed
  /\ UNCHANGED <<setup, fileVars, dataVars, copyVars, server, stopped, answer, kills, boots, lost,
                 historyVars>>

\* The process runs and its PID cannot be saved.
PidNotSaved ==
  /\ pc = "start trial"
  /\ server.mode = "down" /\ installed["server"] # "none"
  /\ Within(faults, kills, boots, lost + 1)
  /\ lost' = lost + 1
  /\ Spawned(installed["server"], IF setup.trials THEN "closed" ELSE "none", FALSE)
  /\ excused' = TRUE
  /\ Goto("stop", <<>>)
  /\ UNCHANGED <<setup, fileVars, dataVars, copyVars, stopped, answer, result, faults, kills, boots,
                 acked, unclear, written>>

AwaitReady ==
  /\ pc \in Awaiting /\ server.mode = "up"
  /\ CASE pc = "await trial" -> Goto("commit", <<>>) /\ UNCHANGED <<result, faults>>
       [] pc = "await rollback" -> Goto("clean", <<>>) /\ UNCHANGED <<result, faults>>
       [] OTHER -> Publish("notPrepared")
  /\ UNCHANGED <<setup, fileVars, dataVars, copyVars, server, stopped, answer, kills, boots, lost,
                 historyVars>>

\* It exited, cannot load its library, or is still scanning when time is up.
AwaitFails ==
  /\ pc \in Awaiting
  /\ server.mode # "up"
  /\ StartFailed
  /\ UNCHANGED <<setup, fileVars, dataVars, copyVars, server, stopped, answer, kills, boots, lost,
                 historyVars>>

(***************************************************************************)
(* The trial and its commit.                                               *)
(***************************************************************************)
\* The handler restores the read-along queue before it opens the routes.
ServerCommits ==
  /\ pc = "commit" /\ answer = "none" /\ server.mode = "up"
  /\ IF server.gate = "closed"
       THEN \/ /\ server' = [server EXCEPT !.gate = "open"]
               /\ answer' = "committed"
               /\ UNCHANGED faults
            \/ /\ Fault
               /\ answer' = "refused"
               /\ UNCHANGED server
       ELSE /\ answer' = "unsupported"
            /\ UNCHANGED <<server, faults>>
  /\ UNCHANGED <<setup, fileVars, dataVars, copyVars, pc, todo, stopped, result, kills,
                 boots, lost, historyVars>>

\* Mutant: any answer is taken for a commit.
ReadAnyAnswer ==
  /\ pc = "commit" /\ answer # "none"
  /\ Goto("accept", <<>>)
  /\ answer' = "none"
  /\ UNCHANGED <<setup, fileVars, dataVars, copyVars, server, stopped, result, boundVars,
                 historyVars>>

\* Anything but a clear answer counts as a failed start.
ReadAnswer ==
  /\ pc = "commit" /\ answer # "none"
  /\ IF answer = "refused" THEN Goto("stop", <<>>) ELSE Goto("accept", <<>>)
  /\ answer' = "none"
  /\ UNCHANGED <<setup, fileVars, dataVars, copyVars, server, stopped, result, boundVars,
                 historyVars>>

NoAnswer ==
  /\ pc = "commit"
  /\ server.mode # "up" \/ answer # "none"
  /\ Fault
  /\ Goto("stop", <<>>)
  /\ unclear' = (unclear \/ answer # "none")
  /\ answer' = "none"
  /\ UNCHANGED <<setup, fileVars, dataVars, copyVars, server, stopped, result, kills, boots, lost,
                 acked, excused, written>>

FinishUpdate ==
  /\ pc = "accept"
  /\ snapshot' = Nothing /\ prepared' = Nothing /\ marker' = "none"
  /\ Publish("succeeded")
  /\ UNCHANGED <<setup, fileVars, dataVars, whole, server, stopped, answer, kills,
                 boots, lost, historyVars>>

(***************************************************************************)
(* The rollback.                                                           *)
(***************************************************************************)
\* Asked to stop, a server merges its log; killed, it may leave it behind.
StopServer ==
  /\ pc = "stop" /\ server.tracked
  /\ server' = Down /\ stopped' = TRUE
  /\ Checkpointed \/ UNCHANGED dataVars
  /\ Goto("decide", <<>>)
  /\ UNCHANGED <<setup, fileVars, copyVars, answer, result, boundVars, historyVars>>

\* Without a PID there is nothing to stop, or no PID that could be read.
StopNothing ==
  /\ pc = "stop" /\ ~server.tracked
  /\ stopped' \in IF server.mode = "down" THEN {TRUE} ELSE BOOLEAN
  /\ Goto("decide", <<>>)
  /\ UNCHANGED <<setup, fileVars, dataVars, copyVars, server, answer, result, boundVars,
                 historyVars>>

\* It is still running after being killed.
StopFails ==
  /\ pc = "stop" /\ server.tracked /\ Fault
  /\ stopped' = FALSE /\ excused' = TRUE
  /\ Goto("decide", <<>>)
  /\ UNCHANGED <<setup, fileVars, dataVars, copyVars, server, answer, result, kills, boots, lost,
                 acked, unclear, written>>

\* data_was_upgraded: a readable copy against data that is newer or unreadable.
WasUpgraded ==
  \E s \in Store : /\ snapshot[s].format < Unreadable
                   /\ Data(s).format > snapshot[s].format

MustRestore == marker = "required" \/ WasUpgraded

RollbackFails == Publish("rollbackFailed")

Preserving == <<"database", "identities", "log">>
Replacing == <<"log", "database", "identities">>

\* Mutant: what an earlier rollback restored is kept for the failed build's.
ThenKeepAgain ==
  IF whole THEN Goto("mark", <<>>) ELSE Goto("preserve", Preserving)

\* Once a restore was begun, nothing of the live data is the failed build's.
ThenRestore ==
  CASE marker = "required" -> Goto("restore", Replacing)
    [] marker # "required" /\ whole -> Goto("mark", <<>>)
    [] OTHER -> Goto("preserve", Preserving)

\* Decided from the data unless an earlier run has recorded the decision.
DecideRestore ==
  /\ pc = "decide"
  /\ IF MustRestore /\ ~stopped THEN RollbackFails
     ELSE /\ IF MustRestore THEN ThenRestore
             ELSE Goto("files", PutBackOrder)
          /\ UNCHANGED <<result, faults>>
  /\ \/ marker # "required" /\ server.mode = "down" /\ Checkpointed
     \/ UNCHANGED dataVars
  /\ written' = IF marker # "required" /\ kept = Nothing
                  THEN {s \in Store : Data(s).by = "new"} ELSE written
  /\ UNCHANGED <<setup, fileVars, copyVars, server, stopped, answer, kills, boots, lost, acked,
                 unclear, excused>>

\* Linked where the volume has hard links, moved otherwise; a file already
\* kept is never replaced.  The log is moved after its database.
PreserveStore ==
  /\ pc = "preserve"
  /\ LET item == Head(todo) IN
       IF item = "log"
         THEN /\ kept' = [kept EXCEPT !["database"] = IF log = Missing THEN @ ELSE log]
              /\ log' = Missing
              /\ UNCHANGED live
         ELSE IF live[item] = Missing \/ kept[item] # Missing
         THEN UNCHANGED <<live, log, kept>>
         ELSE /\ kept' = [kept EXCEPT ![item] = live[item]]
              /\ live' = IF setup.links THEN live ELSE [live EXCEPT ![item] = Missing]
              /\ UNCHANGED log
  /\ Proceed("keep", <<>>)
  /\ UNCHANGED <<setup, fileVars, snapshot, prepared, whole, marker, server, stopped, answer,
                 result, boundVars, historyVars>>

KeepFailedData ==
  /\ pc = "keep"
  /\ whole' = TRUE
  /\ Goto("mark", <<>>)
  /\ UNCHANGED <<setup, fileVars, dataVars, snapshot, prepared, marker, server, stopped,
                 answer, result, boundVars, historyVars>>

\* Worth having, never worth leaving the installation down for.
PreserveFails ==
  /\ pc \in {"preserve", "keep"} /\ Fault
  /\ Goto("mark", <<>>)
  /\ UNCHANGED <<setup, fileVars, dataVars, copyVars, server, stopped, answer, result, kills,
                 boots, lost, historyVars>>

MarkRestore ==
  /\ pc = "mark"
  /\ \/ marker' = "required" /\ UNCHANGED <<faults, excused>>
     \/ Fault /\ excused' = TRUE /\ UNCHANGED marker
  /\ Goto("restore", Replacing)
  /\ UNCHANGED <<setup, fileVars, dataVars, snapshot, prepared, whole, server, stopped,
                 answer, result, kills, boots, lost, acked, unclear, written>>

\* Mutant: only what was upgraded is put back.
RestoredIfUpgraded ==
  {s \in Store : snapshot[s] # Missing /\ Data(s).format > snapshot[s].format}


Restored == {s \in Store : snapshot[s] # Missing}

\* An earlier restore used the prepared copy: another one is made first.
CopyBack ==
  /\ pc = "restore" /\ todo = Replacing
  /\ \E s \in Restored :
       /\ prepared[s] = Missing
       /\ prepared' = [prepared EXCEPT ![s] = snapshot[s]]
  /\ UNCHANGED <<setup, fileVars, dataVars, snapshot, whole, marker, server,
                 launcherVars, boundVars, historyVars>>

\* The failed build's log goes before its database is replaced.
RemoveLog ==
  /\ pc = "restore" /\ Head(todo) = "log"
  /\ \A s \in Restored : prepared[s] # Missing
  /\ log' = IF "database" \in Restored THEN Missing ELSE log
  /\ todo' = Tail(todo)
  /\ UNCHANGED <<setup, fileVars, live, kept, copyVars, server, pc, stopped, answer, result,
                 boundVars, historyVars>>

PutStoreBack ==
  /\ pc = "restore" /\ Head(todo) # "log"
  /\ LET s == Head(todo) IN
       IF s \in Restored
         THEN /\ live' = [live EXCEPT ![s] = prepared[s]]
              /\ prepared' = [prepared EXCEPT ![s] = Missing]
         ELSE UNCHANGED <<live, prepared>>
  /\ Proceed("files", PutBackOrder)
  /\ UNCHANGED <<setup, fileVars, log, snapshot, kept, whole, marker, server, stopped, answer,
                 result, boundVars, historyVars>>

RestoreFails ==
  /\ pc = "restore" /\ Fault
  /\ Goto("done", <<>>) /\ result' = "rollbackFailed"
  /\ UNCHANGED <<setup, fileVars, dataVars, copyVars, server, stopped, answer, kills, boots, lost,
                 historyVars>>

\* Mutant: the installed file is removed whether or not there is a backup.
RemoveInstalledFirst ==
  /\ pc = "files"
  /\ installed[Head(todo)] # "none"
  /\ installed' = [installed EXCEPT ![Head(todo)] = "none"]
  /\ UNCHANGED <<setup, package, backup, dataVars, copyVars, server, launcherVars, boundVars,
                 historyVars>>

\* The new file goes first; only then is the old one moved back.
RemoveInstalled ==
  /\ pc = "files"
  /\ LET p == Head(todo) IN
       /\ installed[p] # "none"
       /\ backup[p] # "none"
       /\ installed' = [installed EXCEPT ![p] = "none"]
  /\ UNCHANGED <<setup, package, backup, dataVars, copyVars, server, launcherVars, boundVars,
                 historyVars>>

\* A backup already gone was put back by an earlier run.
PutFileBack ==
  /\ pc = "files"
  /\ LET p == Head(todo) IN
       /\ backup[p] = "none" \/ installed[p] = "none"
       /\ p = "version" \/ backup[p] # "none" \/ installed[p] # "none"
       /\ installed' = [installed EXCEPT ![p] =
                          IF backup[p] # "none" THEN backup[p]
                          ELSE IF p = "version" /\ ~setup.version THEN "none" ELSE @]
       /\ backup' = [backup EXCEPT ![p] = "none"]
  /\ Proceed("start rollback", <<>>)
  /\ UNCHANGED <<setup, package, dataVars, copyVars, server, stopped, answer, result,
                 boundVars, historyVars>>

PutBackFails ==
  /\ pc = "files"
  /\ LET p == Head(todo) IN
       IF p # "version" /\ backup[p] = "none" /\ installed[p] = "none"
         THEN UNCHANGED faults ELSE Fault
  /\ Goto("done", <<>>) /\ result' = "rollbackFailed"
  /\ UNCHANGED <<setup, fileVars, dataVars, copyVars, server, stopped, answer, kills, boots, lost,
                 historyVars>>

FinishRollback ==
  /\ pc = "clean"
  /\ snapshot' = Nothing /\ prepared' = Nothing /\ marker' = "none"
  /\ Publish("restored")
  /\ UNCHANGED <<setup, fileVars, dataVars, whole, server, stopped, answer, kills,
                 boots, lost, historyVars>>

(***************************************************************************)
(* The launcher is killed; the rollback may then be run again, as after a  *)
(* rollback that failed, unless the new build works.                       *)
(***************************************************************************)
Kill ==
  /\ Active /\ Within(faults, kills + 1, boots, lost)
  /\ kills' = kills + 1
  /\ Goto("dead", <<>>)
  /\ unclear' = (unclear \/ answer # "none")
  /\ answer' = "none"
  /\ UNCHANGED <<setup, fileVars, dataVars, copyVars, server, stopped, result, faults, boots, lost,
                 acked, excused, written>>

RollBackAgain ==
  /\ pc = "dead" \/ (pc = "done" /\ result = "rollbackFailed")
  /\ snapshot # Nothing
  /\ server.mode # "up" \/ server.build # "new" \/ server.gate = "closed"
  /\ Goto("stop", <<>>)
  /\ UNCHANGED <<setup, fileVars, dataVars, copyVars, server, stopped, answer, result,
                 boundVars, historyVars>>

(***************************************************************************)
(* The servers.                                                            *)
(***************************************************************************)
\* start_supervised_server: it waits for the lock, stops what runs and
\* becomes the installed server, which is no trial.
SupervisedStart ==
  /\ ~Active /\ Within(faults, kills, boots + 1, lost)
  /\ boots' = boots + 1
  /\ IF installed["server"] = "none" THEN server' = Down
     ELSE Spawned(installed["server"], "none", TRUE)
  /\ excused' = (excused \/ pc # "idle")
  /\ UNCHANGED <<setup, fileVars, dataVars, copyVars, launcherVars, faults, kills, lost, acked,
                 unclear, written>>

\* The old server was asked to leave by the request that began the update.
OldServerLeaves ==
  /\ pc \in {"wait", "done"} /\ server.build = "old" /\ server.mode = "up"
  /\ pc = "done" => result = "refused"
  /\ server' = Down
  /\ UNCHANGED <<setup, fileVars, dataVars, copyVars, launcherVars, boundVars, historyVars>>

\* What becomes of a store as the new build starts: written in the old format
\* or in its own, or left unreadable; the
\* database through its log, which may reach the file or not.
NewBuildWrites ==
  /\ server.build = "new" /\ server.mode = "starting"
  /\ \E s \in Store, f \in 0 .. Unreadable :
       /\ Data(s).by # "new"
       /\ f >= Data(s).format \/ Data(s) = Missing
       /\ LET content == [Data(s) EXCEPT !.format = f, !.by = "new", !.copy = live[s].copy] IN
            \/ s = "database" /\ log' = content /\ UNCHANGED <<live, kept>>
            \/ /\ InFile(s, content)
               /\ log' = IF s = "database" THEN Missing ELSE log
  /\ UNCHANGED <<setup, fileVars, copyVars, server, launcherVars, boundVars, historyVars>>

\* A build records its PID and serves only what it can read.
ServerReady ==
  /\ server.mode = "starting" /\ Reads(server.build)
  /\ server' = [server EXCEPT !.mode = "up", !.tracked = TRUE]
  /\ UNCHANGED <<setup, fileVars, dataVars, copyVars, launcherVars, boundVars, historyVars>>

\* Its first scan fails, or it ends; of the old build that is a fault.
ServerFails ==
  /\ \/ server.mode = "starting"
     \/ server.mode = "up" /\ server.build = "new" /\ pc = "commit" /\ answer = "none"
  /\ IF server.build = "old" /\ Reads("old") THEN Fault ELSE UNCHANGED faults
  /\ \/ server' = Down
     \/ server.mode = "starting" /\ server' = [server EXCEPT !.mode = "broken", !.tracked = TRUE]
  /\ UNCHANGED <<setup, fileVars, dataVars, copyVars, launcherVars, kills, boots, lost, historyVars>>

\* update_trial_gate refuses a change until the trial is committed.  What an
\* older build acknowledges while it starts, and what a build started outside
\* the update does, is not protected.
AcceptChange ==
  /\ server.mode = "up" /\ server.gate # "closed"
  /\ \E change \in {"before", "after"} :
       /\ change = "before" => server.build = "old" /\ pc \in {"idle", "wait"}
       /\ change = "after" => server.build = "new"
       /\ change \notin Data("database").changes
       /\ log' = [Data("database") EXCEPT !.changes = @ \cup {change}]
       /\ acked' = IF change = "before" \/ server.gate = "open"
                     THEN acked \cup {change} ELSE acked
  /\ UNCHANGED <<setup, fileVars, live, kept, copyVars, server, launcherVars, boundVars, unclear,
                 excused, written>>

Settled ==
  /\ ~Active /\ server.mode # "starting"
  /\ UNCHANGED launcherUpdateVars

LauncherStep ==
  \/ BeginUpdate \/ WaitForExit \/ ExitTooLate
  \/ SnapshotStore \/ PrepareCopy \/ PrepareRecords \/ PreparationFails
  \/ StageFile \/ StageFails \/ UnstageFile \/ InstallFile \/ InstallFails
  \/ StartServer \/ NoServerFile \/ PidNotSaved \/ AwaitReady \/ AwaitFails
  \/ ReadAnswer \/ NoAnswer \/ FinishUpdate
  \/ StopServer \/ StopNothing \/ StopFails \/ DecideRestore
  \/ PreserveStore \/ KeepFailedData \/ PreserveFails \/ MarkRestore
  \/ CopyBack \/ RemoveLog \/ PutStoreBack \/ RestoreFails
  \/ RemoveInstalled \/ PutFileBack \/ PutBackFails \/ FinishRollback

ServerStep ==
  \/ OldServerLeaves \/ NewBuildWrites \/ ServerReady \/ ServerFails \/ ServerCommits
  \/ AcceptChange

LauncherNext ==
  \/ LauncherStep \/ ServerStep
  \/ Kill \/ RollBackAgain \/ SupervisedStart \/ Settled

LauncherSpec == LauncherInit /\ [][LauncherNext]_launcherUpdateVars

-----------------------------------------------------------------------------
\* Whatever fails and wherever the launcher is killed, each file of the old
\* version is installed or in the backup (stage_installed_files and
\* restore_backed_up never drop the last copy), and until the update is
\* accepted or rolled back the data can be read by the old build, or the
\* snapshot of both stores is there to be put back (restore_data).
OldFiles == {p \in ToSet(Managed) : p = "version" => setup.version}

\* Until the rollback has succeeded.  A success that could not be written down
\* leaves the result of an earlier run; a new server taken for the old one may
\* have let it succeed.
Undecided ==
  \/ Active /\ pc \notin {"wait", "snapshot", "copies", "records", "unstage", "undone",
                          "restart", "await restart", "accept", "clean"}
  \/ pc = "done" /\ result = "rollbackFailed" /\ (excused => snapshot # Nothing)

WayBackIsKept ==
  /\ \A p \in OldFiles : "old" \in {installed[p], backup[p]}
  /\ Undecided =>
       \/ Reads("old")
       \/ \A s \in Store : snapshot[s].format = 0 /\ snapshot[s].by = "old"

\* The old build is started by a rollback only on data it can read, and on a
\* pair: both stores as they were before the update or both as the failed
\* build left them.  Not promised of a server that could not be stopped.
OldBuildReadsItsData ==
  pc \in {"start rollback", "await rollback", "clean"} /\ ~excused =>
    /\ Reads("old")
    /\ (\E s \in Store : live[s].copy) => \A s \in Store : live[s].copy

\* update-result.txt tells what is installed and running: a success means the
\* new version and a committed build, a restored version means the old one.
ResultIsTrue ==
  ~Active /\ boots = 0 /\ ~excused =>
    /\ result = "succeeded" =>
         /\ \A p \in ToSet(Managed) : installed[p] = "new"
         /\ server.build = "new" /\ server.gate # "closed"
    /\ result \in {"restored", "notPrepared"} => server.build = "old"
    /\ result = "restored" => \A p \in OldFiles : installed[p] = "old"

\* An acknowledged change is in the data once the update is over, and before
\* that in the data, in the failed build's or in the snapshot: the snapshot
\* is taken after the last answer of the old build, and a trial answers
\* nothing that a rollback could undo.  What a new build acknowledged while
\* its commit went unanswered may be rolled back.
Promised == acked \ (IF unclear THEN {"after"} ELSE {})

AcknowledgedAreKept ==
  ~excused =>
    /\ ~Active /\ result \in {"succeeded", "restored", "notPrepared", "notRestarted"}
         => Promised \subseteq Data("database").changes
    /\ Promised \subseteq Data("database").changes \cup snapshot["database"].changes
                          \cup kept["database"].changes

\* failed-data holds what the failed build wrote, never a file that a restore
\* had put back, however often the rollback is run.
KeptIsTheFailedBuilds ==
  ~excused =>
    /\ \A s \in Store : ~kept[s].copy
    /\ whole => \A s \in written : kept[s].by = "new"

\* Neither what clients were promised nor what the failed build wrote is lost.
NothingIsLost == AcknowledgedAreKept /\ KeptIsTheFailedBuilds

=============================================================================
