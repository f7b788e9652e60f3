---------------------------- MODULE LauncherProofs ----------------------------
(***************************************************************************)
(* Proofs about LauncherUpdate, for any installations and any bounds on    *)
(* failures, kills, starts by the service and lost PIDs.                   *)
(***************************************************************************)
EXTENDS LauncherUpdate, SequenceTheorems, TLAPS

-----------------------------------------------------------------------------
(* What the launcher is at: the files of the phase that are left.          *)

Phase ==
  {"idle", "wait", "snapshot", "copies", "records", "stage", "unstage", "undone", "install",
   "start trial", "await trial", "commit", "accept", "stop", "decide", "preserve",
   "keep", "mark", "restore", "files", "start rollback", "await rollback", "clean",
   "restart", "await restart", "dead", "done"}

Item == {"server", "web", "version", "launchers", "database", "identities", "log"}

ItemsOf(phase) ==
  CASE phase \in {"snapshot", "copies"} -> {"database", "identities"}
    [] phase \in {"preserve", "restore"} -> {"database", "identities", "log"}
    [] phase = "install" -> ToSet(Managed) \cup {"launchers"}
    [] OTHER -> ToSet(Managed)

Working == {"snapshot", "copies", "stage", "unstage", "install", "preserve", "restore", "files"}

Left == ToSet(todo)

\* Non-empty and without repetition.
Items(list) ==
  /\ list \in Seq(Item) /\ list # <<>>
  /\ \A i, j \in 1 .. Len(list) : list[i] = list[j] => i = j

TodoInv ==
  /\ pc \in Working => Items(todo) /\ Left \subseteq ItemsOf(pc)
  /\ pc = "restore" => todo = Replacing \/ Left \subseteq Store

(* Types.                                                                  *)
FilesTyped ==
  /\ setup \in [web : BOOLEAN, version : BOOLEAN, trials : BOOLEAN, links : BOOLEAN]
  /\ installed \in [Parts -> File] /\ package \in [Parts -> File]
  /\ backup \in [Parts -> {"old", "none"}]

DataTyped ==
  /\ live \in [Store -> Content] /\ kept \in [Store -> Content] /\ log \in Content
  /\ snapshot \in [Store -> Content] /\ prepared \in [Store -> Content]

LauncherTyped ==
  /\ marker \in {"none", "pending", "required"}
  /\ pc \in Phase
  /\ answer \in {"none", "committed", "refused", "unsupported"}
  /\ result \in Result
  /\ stopped \in BOOLEAN /\ excused \in BOOLEAN /\ boots \in Int /\ boots >= 0

Typed == FilesTyped /\ DataTyped /\ LauncherTyped /\ server \in Server

-----------------------------------------------------------------------------
(* Each old file is installed or in the backup.                            *)

First == {"idle", "wait", "snapshot", "copies", "records"}
Trying == {"start trial", "await trial", "commit", "accept"}
Restarted == {"start rollback", "await rollback", "clean"}

FilesInv ==
  /\ \A p \in OldFiles : "old" \in {installed[p], backup[p]}
  /\ pc \in First \cup {"stage", "unstage", "undone", "restart", "await restart"} =>
       \A p \in Parts : installed[p] # "new"
  /\ pc \in First =>
       /\ \A p \in OldFiles : installed[p] = "old"
       /\ \A p \in Parts : backup[p] = "none"
  /\ pc = "stage" =>
       /\ \A p \in OldFiles \cap Left : installed[p] = "old"
       /\ \A p \in OldFiles \ Left : backup[p] = "old"
  /\ pc = "install" =>
       /\ \A p \in OldFiles : backup[p] = "old"
       /\ \A p \in Left \cap Parts : package[p] = "new"
       /\ \A p \in ToSet(Managed) \ Left : installed[p] = "new"
  /\ pc \in Trying => \A p \in ToSet(Managed) : installed[p] = "new"
  /\ pc = "files" => \A p \in OldFiles \ Left : installed[p] = "old"
  /\ pc \in Restarted => \A p \in OldFiles : installed[p] = "old"
  /\ pc \in First \cup {"stage"} => \A p \in Parts : package[p] = "new"

-----------------------------------------------------------------------------
(* Which server runs.                                                      *)

NotStarted == {"snapshot", "copies", "records", "stage", "unstage", "undone", "install",
               "start trial", "restart"}
Stopped == {"decide", "preserve", "keep", "mark", "restore", "files", "start rollback"}

ServerInv ==
  /\ ~excused => server.tracked \/ server = Down
  /\ pc \in NotStarted => server = Down
  /\ pc \in {"await trial", "commit"} => server.build # "old"
  /\ (pc = "commit" /\ answer \in {"committed", "unsupported"}) \/ pc = "accept" =>
       server.build = "new" /\ server.mode = "up" /\ server.gate # "closed"
  /\ answer # "none" => pc = "commit"
  /\ ~excused =>
       /\ pc \in Stopped => server = Down
       /\ pc \in {"await rollback", "clean"} => server.build # "new"
       /\ pc = "clean" => server.mode = "up"
  /\ pc \in {"idle", "wait", "await restart"} => server.build # "new"

-----------------------------------------------------------------------------
(* The data, and the copies of it.                                         *)

Original(content) == content.format = 0 /\ content.by = "old"
Copied(content) == Original(content) /\ content.copy

Full == \A s \in Store : Copied(snapshot[s])

\* No new build has run and none is installed.
Untouched ==
  /\ server.build # "new" /\ installed["server"] # "new"
  /\ \A s \in Store : Original(Data(s)) /\ ~live[s].copy
  /\ marker # "required"
  /\ pc \notin {"preserve", "keep", "mark", "restore"}

Guarded == {"copies", "records", "stage", "unstage", "undone", "install", "start trial",
            "await trial", "commit", "accept", "preserve", "keep", "mark", "restore"}
RollingBack == {"stop", "decide", "files", "start rollback", "await rollback", "clean"}

CopiesInv ==
  /\ pc \in First => Untouched
  /\ pc = "snapshot" => \A s \in Store \ Left : Copied(snapshot[s])
  /\ pc \in Guarded => Full
  /\ pc \in RollingBack \/ (pc \in {"dead", "done"} /\ snapshot # Nothing) =>
       Full \/ Untouched
  /\ pc \in {"idle", "wait", "restart", "await restart"} => snapshot = Nothing
  /\ \A s \in Store : prepared[s] = Missing \/ Copied(prepared[s])

Paired == (\E s \in Store : live[s].copy) => \A s \in Store : live[s].copy

RestoreInv ==
  ~excused =>
    /\ marker # "required" =>
         (\A s \in Store : ~live[s].copy) \/ (pc = "done" /\ snapshot = Nothing)
    /\ pc = "restore" =>
         /\ marker = "required"
         /\ \/ todo = Replacing
            \/ /\ log = Missing
               /\ Left \subseteq Store
               /\ \A s \in Store \cap Left : prepared[s] # Missing
               /\ \A s \in Store \ Left : Copied(live[s])
    /\ pc \in {"files"} \cup Restarted => Reads("old") /\ Paired
    /\ pc = "done" /\ result = "rollbackFailed" /\ snapshot = Nothing =>
         server.build # "new" /\ Reads("old")

-----------------------------------------------------------------------------
(* The result.                                                             *)

ResultInv ==
  /\ result \notin {"none", "rollbackFailed"} => pc = "done"
  /\ pc \in First \cup Trying \cup {"stage", "unstage", "undone", "install", "restart",
                                "await restart"} =>
       result = "none"
  /\ pc = "done" /\ result = "succeeded" => \A p \in ToSet(Managed) : installed[p] = "new"
  /\ pc = "done" /\ boots = 0 /\ ~excused =>
       /\ result = "succeeded" => server.build = "new" /\ server.mode = "up" /\ server.gate # "closed"
       /\ result \in {"restored", "notPrepared"} => server.build = "old" /\ server.mode = "up"
       /\ result = "restored" => \A p \in OldFiles : installed[p] = "old"

LauncherInv == Typed /\ TodoInv /\ FilesInv /\ ServerInv /\ CopiesInv /\ RestoreInv /\ ResultInv

-----------------------------------------------------------------------------
(* The lists the launcher works through.                                   *)

\* The stores, and the files of an installation with and without a web client.
LEMMA StoresAndFiles ==
  /\ Store = {"database", "identities"}
  /\ ToSet(Managed) = (IF setup.web THEN {"server", "web", "version"} ELSE {"server", "version"})
  /\ OldFiles = ToSet(Managed) \ (IF setup.version THEN {} ELSE {"version"})
<1>1. Store = {"database", "identities"}
  BY DEF Store, Stores, ToSet
<1>2. ToSet(Managed) = IF setup.web THEN {"server", "web", "version"} ELSE {"server", "version"}
  BY DEF Managed, ToSet
<1> QED BY <1>1, <1>2 DEF OldFiles

\* Lists written out have no item twice.
LEMMA PairHasItems == \A a, b \in Item : a # b => Items(<<a, b>>)
<1> SUFFICES ASSUME NEW a \in Item, NEW b \in Item, a # b PROVE Items(<<a, b>>)
  OBVIOUS
<1> DEFINE list == <<a, b>>
<1>1. list \in Seq(Item) /\ list # <<>> /\ Len(list) = 2 /\ list[1] = a /\ list[2] = b
  OBVIOUS
<1> HIDE DEF list
<1>2. Items(list)
  BY <1>1 DEF Items
<1> QED BY <1>2 DEF list

\* The same of three items.
LEMMA TripleHasItems ==
  \A a, b, c \in Item : a # b /\ a # c /\ b # c => Items(<<a, b, c>>)
<1> SUFFICES ASSUME NEW a \in Item, NEW b \in Item, NEW c \in Item, a # b, a # c, b # c
             PROVE  Items(<<a, b, c>>)
  OBVIOUS
<1> DEFINE list == <<a, b, c>>
<1>1. list \in Seq(Item) /\ list # <<>> /\ Len(list) = 3 /\ list[1] = a /\ list[2] = b /\ list[3] = c
  OBVIOUS
<1> HIDE DEF list
<1>2. Items(list)
  BY <1>1 DEF Items
<1> QED BY <1>2 DEF list

\* The same of four.
LEMMA FourHaveItems ==
  \A a, b, c, d \in Item :
    a # b /\ a # c /\ a # d /\ b # c /\ b # d /\ c # d => Items(<<a, b, c, d>>)
<1> SUFFICES ASSUME NEW a \in Item, NEW b \in Item, NEW c \in Item, NEW d \in Item,
                    a # b, a # c, a # d, b # c, b # d, c # d
             PROVE  Items(<<a, b, c, d>>)
  OBVIOUS
<1> DEFINE list == <<a, b, c, d>>
<1>1. /\ list \in Seq(Item) /\ list # <<>> /\ Len(list) = 4
      /\ list[1] = a /\ list[2] = b /\ list[3] = c /\ list[4] = d
  OBVIOUS
<1> HIDE DEF list
<1>2. Items(list)
  BY <1>1 DEF Items
<1> QED BY <1>2 DEF list

\* What each list of the launcher goes through.
LEMMA ListsHaveItems ==
  /\ Items(Stores) /\ ToSet(Stores) = {"database", "identities"}
  /\ Items(Managed)
  /\ Items(Reverse(Managed)) /\ ToSet(Reverse(Managed)) = ToSet(Managed)
  /\ Items(InstallOrder) /\ ToSet(InstallOrder) = ToSet(Managed) \cup {"launchers"}
  /\ Items(PutBackOrder) /\ ToSet(PutBackOrder) = ToSet(Managed)
  /\ Items(Preserving) /\ ToSet(Preserving) = {"database", "identities", "log"}
  /\ Items(Replacing) /\ ToSet(Replacing) = {"database", "identities", "log"}
<1>1. ToSet(Stores) = {"database", "identities"}
  BY DEF Stores, ToSet
<1>2. ToSet(Preserving) = {"database", "identities", "log"}
  BY DEF Preserving, ToSet
<1>3. ToSet(Replacing) = {"database", "identities", "log"}
  BY DEF Replacing, ToSet
<1>4. ToSet(InstallOrder) = ToSet(Managed) \cup {"launchers"}
  BY DEF InstallOrder, Managed, ToSet
<1>5. ToSet(PutBackOrder) = ToSet(Managed)
  BY DEF PutBackOrder, Managed, ToSet
<1>6. Reverse(Managed) = IF setup.web THEN <<"version", "web", "server">>
                         ELSE <<"version", "server">>
  <2>1. CASE setup.web
    <3>1. Managed = <<"server", "web", "version">>
      BY <2>1 DEF Managed
    <3> QED BY <2>1, <3>1 DEF Reverse
  <2>2. CASE ~setup.web
    <3>1. Managed = <<"server", "version">>
      BY <2>2 DEF Managed
    <3> QED BY <2>2, <3>1 DEF Reverse
  <2> QED BY <2>1, <2>2
<1>7. ToSet(Reverse(Managed)) = ToSet(Managed)
  BY <1>6 DEF Managed, ToSet
<1>8. Items(Stores) /\ Items(Preserving) /\ Items(Replacing)
  BY PairHasItems, TripleHasItems DEF Item, Stores, Preserving, Replacing
<1>9. Items(Managed) /\ Items(InstallOrder) /\ Items(PutBackOrder)
  BY PairHasItems, TripleHasItems, FourHaveItems DEF Item, Managed, InstallOrder, PutBackOrder
<1>10. Items(Reverse(Managed))
  BY <1>6, PairHasItems, TripleHasItems DEF Item
<1> QED BY <1>1, <1>2, <1>3, <1>4, <1>5, <1>7, <1>8, <1>9, <1>10

\* Without its first item a list has one item less.
LEMMA TailHasItems ==
  ASSUME NEW list, Items(list), Len(list) > 1
  PROVE  /\ Items(Tail(list)) /\ Head(list) \notin ToSet(Tail(list))
         /\ ToSet(list) = {Head(list)} \cup ToSet(Tail(list))
<1> DEFINE n == Len(list)
           rest == Tail(list)
<1>1. list \in Seq(Item) /\ list # <<>> /\ Head(list) = list[1]
  BY DEF Items
<1>2. n \in Nat /\ DOMAIN list = 1 .. n
  BY <1>1, LenProperties
<1>3. /\ rest \in Seq(Item) /\ Len(rest) = n - 1
      /\ \A i \in 1 .. n - 1 : rest[i] = list[i + 1]
  BY <1>1, HeadTailProperties
<1>4. n > 1
  OBVIOUS
<1>5. DOMAIN rest = 1 .. n - 1 /\ rest # <<>>
  <2>1. DOMAIN rest = 1 .. Len(rest)
    BY <1>3, LenProperties
  <2> HIDE DEF n, rest
  <2>2. rest # <<>>
    BY <1>2, <1>3, <1>4, EmptySeq
  <2> QED BY <1>3, <2>1, <2>2
<1>6. \A i, j \in 1 .. n : list[i] = list[j] => i = j
  BY DEF Items
<1> HIDE DEF n, rest
<1>7. Items(rest)
  BY <1>2, <1>3, <1>4, <1>5, <1>6 DEF Items
<1>8. Head(list) \notin ToSet(rest)
  BY <1>1, <1>2, <1>3, <1>4, <1>5, <1>6 DEF ToSet
<1>9. ASSUME NEW i \in 1 .. n, i # 1 PROVE list[i] \in ToSet(rest)
  <2>1. i - 1 \in DOMAIN rest /\ rest[i - 1] = list[i]
    BY <1>2, <1>3, <1>4, <1>5, <1>9
  <2> QED BY <2>1 DEF ToSet
<1>10. ASSUME NEW i \in 1 .. n - 1 PROVE rest[i] \in ToSet(list)
  <2>1. i + 1 \in DOMAIN list /\ rest[i] = list[i + 1]
    BY <1>2, <1>3, <1>4
  <2> QED BY <2>1 DEF ToSet
<1>11. Head(list) \in ToSet(list)
  BY <1>1, <1>2, <1>4 DEF ToSet
<1>12. ToSet(list) = {Head(list)} \cup ToSet(rest)
  <2>1. \A x \in ToSet(list) : x \in {Head(list)} \cup ToSet(rest)
    BY <1>1, <1>2, <1>9 DEF ToSet
  <2>2. \A x \in ToSet(rest) : x \in ToSet(list)
    BY <1>5, <1>10 DEF ToSet
  <2> QED BY <1>11, <2>1, <2>2
<1> QED BY <1>7, <1>8, <1>12 DEF rest

\* The next item is one of those left.
LEMMA HeadIsLeft ==
  ASSUME Items(todo)
  PROVE  Head(todo) \in Left /\ Head(todo) \in Item
<1> DEFINE n == Len(todo)
<1>1. todo \in Seq(Item) /\ todo # <<>> /\ Head(todo) = todo[1] /\ todo[1] \in Item
  BY DEF Items
<1>2. n \in Nat /\ DOMAIN todo = 1 .. n
  BY <1>1, LenProperties
<1>3. n >= 1
  BY <1>1, <1>2, EmptySeq
<1> QED BY <1>1, <1>2, <1>3 DEF Left, ToSet

\* One item less, or the next phase with its own list.
LEMMA NextItem ==
  ASSUME Items(todo), NEW phase, NEW items, Proceed(phase, items)
  PROVE  /\ Head(todo) \in Left /\ Head(todo) \in Item
         /\ \/ /\ pc' = pc /\ todo' = Tail(todo) /\ Items(todo')
               /\ Head(todo) \notin Left' /\ Left = {Head(todo)} \cup Left'
            \/ /\ pc' = phase /\ todo' = items
               /\ Left = {Head(todo)}
<1> DEFINE n == Len(todo)
<1>1. todo \in Seq(Item) /\ todo # <<>> /\ Head(todo) = todo[1] /\ todo[1] \in Item
  BY DEF Items
<1>2. n \in Nat /\ DOMAIN todo = 1 .. n
  BY <1>1, LenProperties
<1>3. n >= 1
  BY <1>1, <1>2, EmptySeq
<1>4. Head(todo) \in Left /\ Head(todo) \in Item
  BY <1>1, <1>2, <1>3 DEF Left, ToSet
<1>5. CASE n > 1
  <2>1. pc' = pc /\ todo' = Tail(todo)
    BY <1>5 DEF Proceed
  <2> QED BY <1>4, <1>5, <2>1, TailHasItems DEF Left
<1>6. CASE ~(n > 1)
  <2>1. pc' = phase /\ todo' = items
    BY <1>6 DEF Proceed, Goto
  <2> HIDE DEF n
  <2>2. n = 1
    BY <1>2, <1>3, <1>6
  <2>3. Left = {Head(todo)}
    BY <1>1, <1>2, <2>2 DEF Left, ToSet
  <2> QED BY <1>4, <2>1, <2>3
<1> QED BY <1>5, <1>6

-----------------------------------------------------------------------------
(* The data.                                                               *)

\* What a build reads of a store.
LEMMA DataIsTyped ==
  ASSUME DataTyped
  PROVE  /\ Missing \in Content /\ Nothing \in [Store -> Content]
         /\ \A s \in Store : Data(s) \in Content
<1>1. Missing \in Content
  BY DEF Missing, Content, Unreadable
<1> QED BY <1>1 DEF Nothing, DataTyped, Data

\* A store may be written through its link.
LEMMA InFileIsTyped ==
  ASSUME DataTyped, NEW s \in Store, NEW content \in Content, InFile(s, content)
  PROVE  live' \in [Store -> Content] /\ kept' \in [Store -> Content]
BY DEF InFile, DataTyped

\* The last reader merges what the log has: the data are what they were.
LEMMA CheckpointKeepsData ==
  ASSUME DataTyped, Checkpointed \/ UNCHANGED dataVars
  PROVE  /\ live' \in [Store -> Content] /\ kept' \in [Store -> Content] /\ log' \in Content
         /\ \A s \in Store : Data(s)' = Data(s)
         /\ \A s \in Store : live'[s].copy => live[s].copy
         /\ log = Missing => log' = Missing
<1>1. CASE live' = live /\ log' = log /\ kept' = kept
  BY <1>1 DEF DataTyped, Data
<1>2. CASE Missing \notin {live["database"], log} /\ Checkpointed
  <2>1. InFile("database", Data("database")) /\ log' = Missing
    BY <1>2 DEF Checkpointed
  <2>2. "database" \in Store /\ Data("database") \in Content /\ Missing \in Content
    BY StoresAndFiles, DataIsTyped
  <2>3. live' \in [Store -> Content] /\ kept' \in [Store -> Content]
    BY <2>1, <2>2, InFileIsTyped
  <2>4. live' = [live EXCEPT !["database"] = Data("database")]
    BY <2>1 DEF InFile
  <2>5. \A s \in Store : Data(s)' = Data(s)
    <3>1. live'["database"] = Data("database") /\ live'["identities"] = live["identities"]
      BY <2>2, <2>4, StoresAndFiles DEF DataTyped
    <3>2. Data("database")' = live'["database"]
      BY <2>1 DEF Data
    <3>3. Data("identities")' = live'["identities"] /\ Data("identities") = live["identities"]
      BY DEF Data
    <3> QED BY <3>1, <3>2, <3>3, StoresAndFiles
  <2>6. Data("database").copy => live["database"].copy
    BY <1>2 DEF Data, Missing
  <2> QED BY <1>2, <2>1, <2>2, <2>3, <2>4, <2>5, <2>6 DEF DataTyped
<1> QED BY <1>1, <1>2 DEF Checkpointed, dataVars

\* The steps that move a file of the installation.
LEMMA FileSteps ==
  ASSUME [LauncherNext]_launcherUpdateVars
  PROVE  \/ UNCHANGED <<setup, fileVars>>
         \/ StageFile \/ UnstageFile \/ InstallFile \/ RemoveInstalled \/ PutFileBack
BY DEF fileVars, launcherUpdateVars, LauncherNext, LauncherStep, ServerStep, Settled,
       BeginUpdate, WaitForExit, ExitTooLate, SnapshotStore, PrepareCopy, PrepareRecords,
       PreparationFails, StageFile, StageFails, UnstageFile, InstallFile, InstallFails,
       StartServer, NoServerFile, PidNotSaved, AwaitReady, AwaitFails, ReadAnswer,
       NoAnswer, FinishUpdate, StopServer, StopNothing, StopFails, DecideRestore,
       PreserveStore, KeepFailedData, PreserveFails, MarkRestore, CopyBack, RemoveLog,
       PutStoreBack, RestoreFails, RemoveInstalled, PutFileBack, PutBackFails,
       FinishRollback, OldServerLeaves, NewBuildWrites, ServerReady, ServerFails,
       ServerCommits, AcceptChange, Kill, RollBackAgain, SupervisedStart

\* The steps that touch the data.
LEMMA DataSteps ==
  ASSUME [LauncherNext]_launcherUpdateVars
  PROVE  \/ UNCHANGED dataVars
         \/ SnapshotStore \/ StopServer \/ DecideRestore \/ PreserveStore \/ RemoveLog
         \/ PutStoreBack \/ NewBuildWrites \/ AcceptChange
BY DEF dataVars, launcherUpdateVars, LauncherNext, LauncherStep, ServerStep, Settled,
       BeginUpdate, WaitForExit, ExitTooLate, SnapshotStore, PrepareCopy, PrepareRecords,
       PreparationFails, StageFile, StageFails, UnstageFile, InstallFile, InstallFails,
       StartServer, NoServerFile, PidNotSaved, AwaitReady, AwaitFails, ReadAnswer,
       NoAnswer, FinishUpdate, StopServer, StopNothing, StopFails, DecideRestore,
       PreserveStore, KeepFailedData, PreserveFails, MarkRestore, CopyBack, RemoveLog,
       PutStoreBack, RestoreFails, RemoveInstalled, PutFileBack, PutBackFails,
       FinishRollback, OldServerLeaves, NewBuildWrites, ServerReady, ServerFails,
       ServerCommits, AcceptChange, Kill, RollBackAgain, SupervisedStart

\* The steps that make, use or drop a copy of the data.
LEMMA CopySteps ==
  ASSUME [LauncherNext]_launcherUpdateVars
  PROVE  \/ UNCHANGED <<snapshot, prepared>>
         \/ SnapshotStore \/ PrepareCopy \/ PreparationFails \/ CopyBack
         \/ PutStoreBack \/ FinishUpdate \/ FinishRollback
BY DEF copyVars, launcherUpdateVars, LauncherNext, LauncherStep, ServerStep, Settled,
       BeginUpdate, WaitForExit, ExitTooLate, SnapshotStore, PrepareCopy, PrepareRecords,
       PreparationFails, StageFile, StageFails, UnstageFile, InstallFile, InstallFails,
       StartServer, NoServerFile, PidNotSaved, AwaitReady, AwaitFails, ReadAnswer,
       NoAnswer, FinishUpdate, StopServer, StopNothing, StopFails, DecideRestore,
       PreserveStore, KeepFailedData, PreserveFails, MarkRestore, CopyBack, RemoveLog,
       PutStoreBack, RestoreFails, RemoveInstalled, PutFileBack, PutBackFails,
       FinishRollback, OldServerLeaves, NewBuildWrites, ServerReady, ServerFails,
       ServerCommits, AcceptChange, Kill, RollBackAgain, SupervisedStart

\* The steps that record a restore.
LEMMA MarkerSteps ==
  ASSUME [LauncherNext]_launcherUpdateVars
  PROVE  \/ UNCHANGED <<marker, excused>>
         \/ PidNotSaved \/ StopFails \/ PrepareRecords \/ MarkRestore \/ FinishUpdate
         \/ FinishRollback \/ SupervisedStart
BY DEF copyVars, historyVars, launcherUpdateVars, LauncherNext, LauncherStep, ServerStep, Settled,
       BeginUpdate, WaitForExit, ExitTooLate, SnapshotStore, PrepareCopy, PrepareRecords,
       PreparationFails, StageFile, StageFails, UnstageFile, InstallFile, InstallFails,
       StartServer, NoServerFile, PidNotSaved, AwaitReady, AwaitFails, ReadAnswer,
       NoAnswer, FinishUpdate, StopServer, StopNothing, StopFails, DecideRestore,
       PreserveStore, KeepFailedData, PreserveFails, MarkRestore, CopyBack, RemoveLog,
       PutStoreBack, RestoreFails, RemoveInstalled, PutFileBack, PutBackFails,
       FinishRollback, OldServerLeaves, NewBuildWrites, ServerReady, ServerFails,
       ServerCommits, AcceptChange, Kill, RollBackAgain, SupervisedStart

\* The steps that start, stop or change a server.
LEMMA ServerSteps ==
  ASSUME [LauncherNext]_launcherUpdateVars
  PROVE  \/ UNCHANGED <<server, boots>>
         \/ StartServer \/ PidNotSaved \/ StopServer \/ OldServerLeaves \/ ServerReady
         \/ ServerFails \/ ServerCommits \/ SupervisedStart
BY DEF boundVars, launcherUpdateVars, LauncherNext, LauncherStep, ServerStep, Settled,
       BeginUpdate, WaitForExit, ExitTooLate, SnapshotStore, PrepareCopy, PrepareRecords,
       PreparationFails, StageFile, StageFails, UnstageFile, InstallFile, InstallFails,
       StartServer, NoServerFile, PidNotSaved, AwaitReady, AwaitFails, ReadAnswer,
       NoAnswer, FinishUpdate, StopServer, StopNothing, StopFails, DecideRestore,
       PreserveStore, KeepFailedData, PreserveFails, MarkRestore, CopyBack, RemoveLog,
       PutStoreBack, RestoreFails, RemoveInstalled, PutFileBack, PutBackFails,
       FinishRollback, OldServerLeaves, NewBuildWrites, ServerReady, ServerFails,
       ServerCommits, AcceptChange, Kill, RollBackAgain, SupervisedStart

\* The steps of the launcher that end a phase or take an item off its list.
LEMMA PhaseSteps ==
  ASSUME [LauncherNext]_launcherUpdateVars
  PROVE  \/ UNCHANGED <<pc, todo>>
         \/ BeginUpdate \/ WaitForExit \/ ExitTooLate \/ PrepareRecords \/ PreparationFails
         \/ StageFails \/ InstallFails \/ StartServer \/ NoServerFile \/ PidNotSaved
         \/ AwaitReady \/ AwaitFails \/ ReadAnswer \/ NoAnswer \/ FinishUpdate
         \/ StopServer \/ StopNothing \/ StopFails \/ DecideRestore \/ KeepFailedData
         \/ PreserveFails \/ MarkRestore \/ RestoreFails \/ PutBackFails \/ FinishRollback
         \/ Kill \/ RollBackAgain \/ SnapshotStore \/ PrepareCopy \/ StageFile
         \/ UnstageFile \/ InstallFile \/ PreserveStore \/ PutStoreBack \/ PutFileBack
         \/ RemoveLog
BY DEF launcherVars, launcherUpdateVars, LauncherNext, LauncherStep, ServerStep, Settled,
       BeginUpdate, WaitForExit, ExitTooLate, SnapshotStore, PrepareCopy, PrepareRecords,
       PreparationFails, StageFile, StageFails, UnstageFile, InstallFile, InstallFails,
       StartServer, NoServerFile, PidNotSaved, AwaitReady, AwaitFails, ReadAnswer,
       NoAnswer, FinishUpdate, StopServer, StopNothing, StopFails, DecideRestore,
       PreserveStore, KeepFailedData, PreserveFails, MarkRestore, CopyBack, RemoveLog,
       PutStoreBack, RestoreFails, RemoveInstalled, PutFileBack, PutBackFails,
       FinishRollback, OldServerLeaves, NewBuildWrites, ServerReady, ServerFails,
       ServerCommits, AcceptChange, Kill, RollBackAgain, SupervisedStart

\* The steps that may write the result down.
LEMMA ResultSteps ==
  ASSUME [LauncherNext]_launcherUpdateVars
  PROVE  \/ UNCHANGED result
         \/ ExitTooLate \/ NoServerFile \/ AwaitReady \/ AwaitFails \/ FinishUpdate
         \/ DecideRestore \/ RestoreFails \/ PutBackFails \/ FinishRollback
BY DEF launcherVars, launcherUpdateVars, LauncherNext, LauncherStep, ServerStep, Settled,
       BeginUpdate, WaitForExit, ExitTooLate, SnapshotStore, PrepareCopy, PrepareRecords,
       PreparationFails, StageFile, StageFails, UnstageFile, InstallFile, InstallFails,
       StartServer, NoServerFile, PidNotSaved, AwaitReady, AwaitFails, ReadAnswer,
       NoAnswer, FinishUpdate, StopServer, StopNothing, StopFails, DecideRestore,
       PreserveStore, KeepFailedData, PreserveFails, MarkRestore, CopyBack, RemoveLog,
       PutStoreBack, RestoreFails, RemoveInstalled, PutFileBack, PutBackFails,
       FinishRollback, OldServerLeaves, NewBuildWrites, ServerReady, ServerFails,
       ServerCommits, AcceptChange, Kill, RollBackAgain, SupervisedStart

\* Only the service starts a server outside an update.
LEMMA BootSteps ==
  ASSUME [LauncherNext]_launcherUpdateVars
  PROVE  \/ UNCHANGED boots
         \/ SupervisedStart
BY DEF boundVars, launcherUpdateVars, LauncherNext, LauncherStep, ServerStep, Settled,
       BeginUpdate, WaitForExit, ExitTooLate, SnapshotStore, PrepareCopy, PrepareRecords,
       PreparationFails, StageFile, StageFails, UnstageFile, InstallFile, InstallFails,
       StartServer, NoServerFile, PidNotSaved, AwaitReady, AwaitFails, ReadAnswer,
       NoAnswer, FinishUpdate, StopServer, StopNothing, StopFails, DecideRestore,
       PreserveStore, KeepFailedData, PreserveFails, MarkRestore, CopyBack, RemoveLog,
       PutStoreBack, RestoreFails, RemoveInstalled, PutFileBack, PutBackFails,
       FinishRollback, OldServerLeaves, NewBuildWrites, ServerReady, ServerFails,
       ServerCommits, AcceptChange, Kill, RollBackAgain, SupervisedStart

\* A step leaves old, new or no files.
LEMMA FilesAreTyped ==
  ASSUME LauncherInv, [LauncherNext]_launcherUpdateVars
  PROVE  FilesTyped'
<1> USE DEF LauncherInv, Typed, FilesTyped
<1>1. CASE UNCHANGED <<setup, fileVars>>
  BY <1>1 DEF fileVars
<1>2. CASE StageFile
  <2>1. Head(todo) \in Left
    BY <1>2, NextItem DEF StageFile, TodoInv, Working
  <2>2. installed[Head(todo)] \in {"old", "none"}
    BY <1>2, <2>1, StoresAndFiles DEF StageFile, TodoInv, Working, ItemsOf, FilesInv, Parts, File
  <2> QED BY <1>2, <2>2 DEF StageFile, File
<1>3. CASE UnstageFile
  BY <1>3 DEF UnstageFile, File
<1>4. CASE InstallFile
  <2>1. CASE Head(todo) \in Parts
    <3>1. /\ installed' = [installed EXCEPT ![Head(todo)] = package[Head(todo)]]
          /\ package' = [package EXCEPT ![Head(todo)] = "none"]
          /\ UNCHANGED <<setup, backup>>
      BY <1>4, <2>1 DEF InstallFile
    <3>2. package[Head(todo)] \in File /\ "none" \in File
      BY <2>1 DEF File
    <3>3. installed' \in [Parts -> File] /\ package' \in [Parts -> File]
      BY <3>1, <3>2
    <3> QED BY <3>1, <3>3
  <2>2. CASE Head(todo) \notin Parts
    BY <1>4, <2>2 DEF InstallFile
  <2> QED BY <2>1, <2>2
<1>5. CASE RemoveInstalled
  BY <1>5 DEF RemoveInstalled, File
<1>6. CASE PutFileBack
  BY <1>6 DEF PutFileBack, File
<1> QED BY <1>1, <1>2, <1>3, <1>4, <1>5, <1>6, FileSteps

\* A step leaves stores and copies of stores.
LEMMA DataAreTyped ==
  ASSUME LauncherInv, [LauncherNext]_launcherUpdateVars
  PROVE  DataTyped'
<1> USE DataIsTyped DEF LauncherInv, Typed
<1>1. live' \in [Store -> Content] /\ kept' \in [Store -> Content] /\ log' \in Content
  <2>1. CASE UNCHANGED dataVars
    BY <2>1 DEF dataVars, DataTyped
  <2>2. CASE SnapshotStore
    BY <2>2, CheckpointKeepsData DEF SnapshotStore
  <2>3. CASE StopServer
    BY <2>3, CheckpointKeepsData DEF StopServer
  <2>4. CASE DecideRestore
    BY <2>4, CheckpointKeepsData DEF DecideRestore
  <2>5. CASE PreserveStore
    BY <2>5 DEF PreserveStore, DataTyped
  <2>6. CASE RemoveLog
    BY <2>6 DEF RemoveLog, DataTyped
  <2>7. CASE PutStoreBack
    BY <2>7 DEF PutStoreBack, DataTyped
  <2>8. CASE NewBuildWrites
    <3>1. PICK s \in Store, f \in 0 .. Unreadable :
            LET content == [Data(s) EXCEPT !.format = f, !.by = "new", !.copy = live[s].copy]
            IN  \/ s = "database" /\ log' = content /\ UNCHANGED <<live, kept>>
                \/ /\ InFile(s, content)
                   /\ log' = IF s = "database" THEN Missing ELSE log
      BY <2>8 DEF NewBuildWrites
    <3>2. [Data(s) EXCEPT !.format = f, !.by = "new", !.copy = live[s].copy] \in Content
      BY DEF DataTyped, Content
    <3> QED BY <3>1, <3>2, InFileIsTyped DEF DataTyped
  <2>9. CASE AcceptChange
    <3>1. "database" \in Store
      BY StoresAndFiles
    <3>2. PICK change \in {"before", "after"} :
            log' = [Data("database") EXCEPT !.changes = @ \cup {change}]
      BY <2>9 DEF AcceptChange
    <3>3. log' \in Content
      BY <3>1, <3>2 DEF Content
    <3> QED BY <2>9, <3>3 DEF AcceptChange, DataTyped
  <2> QED BY <2>1, <2>2, <2>3, <2>4, <2>5, <2>6, <2>7, <2>8, <2>9, DataSteps
<1>2. snapshot' \in [Store -> Content] /\ prepared' \in [Store -> Content]
  <2>1. CASE UNCHANGED <<snapshot, prepared>>
    BY <2>1 DEF DataTyped
  <2>2. CASE SnapshotStore
    <3>1. Head(todo) \in Left
      BY <2>2, NextItem DEF SnapshotStore, TodoInv, Working
    <3>2. Head(todo) \in Store
      BY <2>2, <3>1, StoresAndFiles DEF SnapshotStore, TodoInv, Working, ItemsOf
    <3>3. [Data(Head(todo)) EXCEPT !.copy = TRUE] \in Content
      BY <3>2 DEF Content
    <3> QED BY <2>2, <3>3 DEF SnapshotStore, DataTyped
  <2>3. CASE PrepareCopy
    <3>1. Head(todo) \in Left
      BY <2>3, NextItem DEF PrepareCopy, TodoInv, Working
    <3>2. Head(todo) \in Store
      BY <2>3, <3>1, StoresAndFiles DEF PrepareCopy, TodoInv, Working, ItemsOf
    <3> QED BY <2>3, <3>2 DEF PrepareCopy, DataTyped
  <2>4. CASE CopyBack
    BY <2>4 DEF CopyBack, Restored, DataTyped
  <2>5. CASE PutStoreBack
    BY <2>5 DEF PutStoreBack, DataTyped
  <2>6. CASE PreparationFails \/ FinishUpdate \/ FinishRollback
    BY <2>6 DEF PreparationFails, FinishUpdate, FinishRollback
  <2> QED BY <2>1, <2>2, <2>3, <2>4, <2>5, <2>6, CopySteps
<1> QED BY <1>1, <1>2 DEF DataTyped

\* A step leaves a server or none.
LEMMA ServerIsTyped ==
  ASSUME LauncherInv, [LauncherNext]_launcherUpdateVars
  PROVE  server' \in Server
<1> USE DEF LauncherInv, Typed, Server, Down
<1>0. installed["server"] \in {"old", "new", "none"}
  BY DEF FilesTyped, Parts, File
<1>1. CASE UNCHANGED <<server, boots>>
  BY <1>1
<1>2. CASE StartServer
  <2>1. CASE server.mode = "down"
    <3>1. installed["server"] \in {"old", "new"}
      BY <1>0, <1>2, <2>1 DEF StartServer
    <3>2. PICK gate \in {"none", "closed"} : Spawned(installed["server"], gate, TRUE)
      BY <1>2, <2>1 DEF StartServer
    <3> QED BY <3>1, <3>2 DEF Spawned
  <2>2. CASE server.mode # "down"
    BY <1>2, <2>2 DEF StartServer
  <2> QED BY <2>1, <2>2
<1>3. CASE PidNotSaved
  BY <1>0, <1>3 DEF PidNotSaved, Spawned
<1>4. CASE StopServer
  BY <1>4 DEF StopServer
<1>5. CASE OldServerLeaves
  BY <1>5 DEF OldServerLeaves
<1>6. CASE ServerReady
  <2>1. server # Down
    BY <1>6 DEF ServerReady
  <2> QED BY <1>6, <2>1 DEF ServerReady
<1>7. CASE ServerFails
  <2>1. CASE server' = Down
    BY <2>1
  <2>2. CASE server.mode = "starting" /\ server' = [server EXCEPT !.mode = "broken", !.tracked = TRUE]
    <3>1. server # Down
      BY <2>2
    <3> QED BY <2>2, <3>1
  <2> QED BY <1>7, <2>1, <2>2 DEF ServerFails
<1>8. CASE ServerCommits
  BY <1>8 DEF ServerCommits
<1>9. CASE SupervisedStart
  <2>1. CASE installed["server"] = "none"
    BY <1>9, <2>1 DEF SupervisedStart
  <2>2. CASE installed["server"] # "none"
    <3>1. Spawned(installed["server"], "none", TRUE)
      BY <1>9, <2>2, Zenon DEF SupervisedStart
    <3> QED BY <1>0, <2>2, <3>1 DEF Spawned
  <2> QED BY <2>1, <2>2
<1> QED BY <1>1, <1>2, <1>3, <1>4, <1>5, <1>6, <1>7, <1>8, <1>9, ServerSteps

\* A step leaves the launcher in a phase.
LEMMA LauncherIsTyped ==
  ASSUME LauncherInv, [LauncherNext]_launcherUpdateVars
  PROVE  LauncherTyped'
<1> USE DEF LauncherInv, Typed, LauncherTyped, Goto, Phase, copyVars, launcherVars, boundVars,
            historyVars
<1>1. CASE BeginUpdate
  BY <1>1 DEF BeginUpdate
<1>2. CASE WaitForExit
  BY <1>2 DEF WaitForExit
<1>3. CASE ExitTooLate
  BY <1>3 DEF ExitTooLate, Result
<1>4. CASE SnapshotStore
  BY <1>4 DEF SnapshotStore, Proceed
<1>5. CASE PrepareCopy
  BY <1>5 DEF PrepareCopy, Proceed
<1>6. CASE PrepareRecords
  BY <1>6 DEF PrepareRecords
<1>7. CASE PreparationFails
  BY <1>7 DEF PreparationFails
<1>8. CASE StageFile
  BY <1>8 DEF StageFile, Proceed
<1>9. CASE StageFails
  BY <1>9 DEF StageFails
<1>10. CASE UnstageFile
  BY <1>10 DEF UnstageFile, Proceed
<1>11. CASE InstallFile
  BY <1>11 DEF InstallFile, Proceed
<1>12. CASE InstallFails
  BY <1>12 DEF InstallFails
<1>13. CASE StartServer
  BY <1>13 DEF StartServer, Starting, AwaitOf
<1>14. CASE NoServerFile
  BY <1>14 DEF NoServerFile, Starting, Awaiting, StartFailed, Publish, Result
<1>15. CASE PidNotSaved
  BY <1>15 DEF PidNotSaved
<1>16. CASE AwaitReady
  BY <1>16 DEF AwaitReady, Starting, Awaiting, StartFailed, Publish, Result
<1>17. CASE AwaitFails
  BY <1>17 DEF AwaitFails, Starting, Awaiting, StartFailed, Publish, Result
<1>18. CASE ReadAnswer
  BY <1>18 DEF ReadAnswer
<1>19. CASE NoAnswer
  BY <1>19 DEF NoAnswer
<1>20. CASE FinishUpdate
  BY <1>20 DEF FinishUpdate, Publish, Result
<1>21. CASE StopServer
  BY <1>21 DEF StopServer
<1>22. CASE StopNothing
  BY <1>22 DEF StopNothing
<1>23. CASE StopFails
  BY <1>23 DEF StopFails
<1>24. CASE DecideRestore
  BY <1>24 DEF DecideRestore, RollbackFails, Publish, ThenRestore, Result
<1>25. CASE PreserveStore
  BY <1>25 DEF PreserveStore, Proceed
<1>26. CASE KeepFailedData
  BY <1>26 DEF KeepFailedData
<1>27. CASE PreserveFails
  BY <1>27 DEF PreserveFails
<1>28. CASE MarkRestore
  BY <1>28 DEF MarkRestore
<1>29. CASE CopyBack
  BY <1>29 DEF CopyBack
<1>30. CASE RemoveLog
  BY <1>30 DEF RemoveLog
<1>31. CASE PutStoreBack
  BY <1>31 DEF PutStoreBack, Proceed
<1>32. CASE RestoreFails
  BY <1>32 DEF RestoreFails, Result
<1>33. CASE RemoveInstalled
  BY <1>33 DEF RemoveInstalled
<1>34. CASE PutFileBack
  BY <1>34 DEF PutFileBack, Proceed
<1>35. CASE PutBackFails
  BY <1>35 DEF PutBackFails, Result
<1>36. CASE FinishRollback
  BY <1>36 DEF FinishRollback, Publish, Result
<1>37. CASE OldServerLeaves
  BY <1>37 DEF OldServerLeaves
<1>38. CASE NewBuildWrites
  BY <1>38 DEF NewBuildWrites
<1>39. CASE ServerReady
  BY <1>39 DEF ServerReady
<1>40. CASE ServerFails
  BY <1>40 DEF ServerFails
<1>41. CASE ServerCommits
  BY <1>41 DEF ServerCommits
<1>42. CASE AcceptChange
  BY <1>42 DEF AcceptChange
<1>43. CASE Kill
  BY <1>43 DEF Kill
<1>44. CASE RollBackAgain
  BY <1>44 DEF RollBackAgain
<1>45. CASE SupervisedStart
  <2>1. excused' \in BOOLEAN
    BY <1>45, Zenon DEF SupervisedStart
  <2>2. boots' = boots + 1
    BY <1>45, Zenon DEF SupervisedStart
  <2>3. boots \in Int /\ boots >= 0
    OBVIOUS
  <2>4. boots' \in Int /\ boots' >= 0
    BY ONLY <2>2, <2>3
  <2>5. marker' = marker /\ launcherVars' = launcherVars
    BY <1>45, Zenon DEF SupervisedStart
  <2> QED BY <2>1, <2>4, <2>5
<1>46. CASE UNCHANGED launcherUpdateVars
  BY <1>46 DEF launcherUpdateVars
<1> QED BY <1>1, <1>2, <1>3, <1>4, <1>5, <1>6, <1>7, <1>8, <1>9, <1>10, <1>11, <1>12,
           <1>13, <1>14, <1>15, <1>16, <1>17, <1>18, <1>19, <1>20, <1>21, <1>22, <1>23,
           <1>24, <1>25, <1>26, <1>27, <1>28, <1>29, <1>30, <1>31, <1>32, <1>33, <1>34,
           <1>35, <1>36, <1>37, <1>38, <1>39, <1>40, <1>41, <1>42, <1>43, <1>44, <1>45,
           <1>46
        DEF LauncherNext, LauncherStep, ServerStep, Settled

\* A new phase has a list of its own, the same phase one item less.
LEMMA TodoStep ==
  ASSUME LauncherInv, [LauncherNext]_launcherUpdateVars
  PROVE  TodoInv'
<1> USE StoresAndFiles, ListsHaveItems DEF LauncherInv
<1>0. /\ ToSet(Managed)' = ToSet(Managed)
      /\ \A phase : ItemsOf(phase)' = ItemsOf(phase)
  <2>1. setup' = setup
    BY FileSteps DEF StageFile, UnstageFile, InstallFile, RemoveInstalled, PutFileBack
  <2> QED BY <2>1 DEF ItemsOf, Managed
<1>1. CASE UNCHANGED <<pc, todo>>
  BY <1>0, <1>1 DEF TodoInv, Left
<1>2. CASE BeginUpdate
  BY <1>0, <1>2 DEF BeginUpdate, Goto, TodoInv, Working, ItemsOf, Left
<1>3. CASE WaitForExit
  BY <1>0, <1>3 DEF WaitForExit, Goto, TodoInv, Working, ItemsOf, Left
<1>4. CASE ExitTooLate
  BY <1>0, <1>4 DEF ExitTooLate, Goto, TodoInv, Working, ItemsOf, Left
<1>5. CASE PrepareRecords
  BY <1>0, <1>5 DEF PrepareRecords, Goto, TodoInv, Working, ItemsOf, Left
<1>6. CASE PreparationFails
  BY <1>0, <1>6 DEF PreparationFails, Goto, TodoInv, Working, ItemsOf, Left
<1>7. CASE StageFails
  BY <1>0, <1>7 DEF StageFails, Goto, TodoInv, Working, ItemsOf, Left
<1>8. CASE InstallFails
  BY <1>0, <1>8 DEF InstallFails, Goto, TodoInv, Working, ItemsOf, Left
<1>9. CASE StartServer
  BY <1>0, <1>9 DEF StartServer, AwaitOf, Goto, TodoInv, Working, ItemsOf, Left
<1>10. CASE NoServerFile
  BY <1>0, <1>10 DEF NoServerFile, StartFailed, Publish, Starting, Goto, TodoInv, Working, ItemsOf, Left
<1>11. CASE PidNotSaved
  BY <1>0, <1>11 DEF PidNotSaved, Goto, TodoInv, Working, ItemsOf, Left
<1>12. CASE AwaitReady
  BY <1>0, <1>12 DEF AwaitReady, StartFailed, Publish, Awaiting, Goto, TodoInv, Working, ItemsOf, Left
<1>13. CASE AwaitFails
  BY <1>0, <1>13 DEF AwaitFails, StartFailed, Publish, Awaiting, Goto, TodoInv, Working, ItemsOf, Left
<1>14. CASE ReadAnswer
  BY <1>0, <1>14 DEF ReadAnswer, Goto, TodoInv, Working, ItemsOf, Left
<1>15. CASE NoAnswer
  BY <1>0, <1>15 DEF NoAnswer, Goto, TodoInv, Working, ItemsOf, Left
<1>16. CASE FinishUpdate
  BY <1>0, <1>16 DEF FinishUpdate, Publish, Goto, TodoInv, Working, ItemsOf, Left
<1>17. CASE StopServer
  BY <1>0, <1>17 DEF StopServer, Goto, TodoInv, Working, ItemsOf, Left
<1>18. CASE StopNothing
  BY <1>0, <1>18 DEF StopNothing, Goto, TodoInv, Working, ItemsOf, Left
<1>19. CASE StopFails
  BY <1>0, <1>19 DEF StopFails, Goto, TodoInv, Working, ItemsOf, Left
<1>20. CASE DecideRestore
  BY <1>0, <1>20 DEF DecideRestore, ThenRestore, RollbackFails, Publish, Goto, TodoInv, Working, ItemsOf, Left
<1>21. CASE KeepFailedData
  BY <1>0, <1>21 DEF KeepFailedData, Goto, TodoInv, Working, ItemsOf, Left
<1>22. CASE PreserveFails
  BY <1>0, <1>22 DEF PreserveFails, Goto, TodoInv, Working, ItemsOf, Left
<1>23. CASE MarkRestore
  BY <1>0, <1>23 DEF MarkRestore, Goto, TodoInv, Working, ItemsOf, Left
<1>24. CASE RestoreFails
  BY <1>0, <1>24 DEF RestoreFails, Goto, TodoInv, Working, ItemsOf, Left
<1>25. CASE PutBackFails
  BY <1>0, <1>25 DEF PutBackFails, Goto, TodoInv, Working, ItemsOf, Left
<1>26. CASE FinishRollback
  BY <1>0, <1>26 DEF FinishRollback, Publish, Goto, TodoInv, Working, ItemsOf, Left
<1>27. CASE Kill
  BY <1>0, <1>27 DEF Kill, Goto, TodoInv, Working, ItemsOf, Left
<1>28. CASE RollBackAgain
  BY <1>0, <1>28 DEF RollBackAgain, Goto, TodoInv, Working, ItemsOf, Left
<1>29. CASE SnapshotStore
  BY <1>0, <1>29, NextItem DEF SnapshotStore, TodoInv, Working, ItemsOf, Left
<1>30. CASE PrepareCopy
  BY <1>0, <1>30, NextItem DEF PrepareCopy, TodoInv, Working, ItemsOf, Left
<1>31. CASE StageFile
  BY <1>0, <1>31, NextItem DEF StageFile, TodoInv, Working, ItemsOf, Left
<1>32. CASE UnstageFile
  BY <1>0, <1>32, NextItem DEF UnstageFile, TodoInv, Working, ItemsOf, Left
<1>33. CASE InstallFile
  <2>1. Items(todo) /\ Left \subseteq ItemsOf(pc)
    BY <1>33 DEF InstallFile, TodoInv, Working
  <2>2. Proceed("start trial", <<>>)
    BY <1>33 DEF InstallFile
  <2>3. \/ pc' = pc /\ Items(todo') /\ Left' \subseteq Left
        \/ pc' = "start trial"
    BY <2>1, <2>2, NextItem
  <2>4. pc = "install"
    BY <1>33 DEF InstallFile
  <2> QED BY <1>0, <2>1, <2>3, <2>4 DEF TodoInv, Working
<1>34. CASE PreserveStore
  BY <1>0, <1>34, NextItem DEF PreserveStore, TodoInv, Working, ItemsOf, Left
<1>35. CASE PutStoreBack
  <2>1. pc = "restore" /\ Head(todo) # "log" /\ Proceed("files", PutBackOrder)
    BY <1>35 DEF PutStoreBack
  <2>2. Items(todo) /\ Left \subseteq ItemsOf(pc)
    BY <2>1 DEF TodoInv, Working
  <2>3. Left \subseteq Store
    BY <2>1 DEF TodoInv, Replacing
  <2>4. \/ pc' = pc /\ Items(todo') /\ Left' \subseteq Left
        \/ pc' = "files" /\ todo' = PutBackOrder
    BY <2>1, <2>2, NextItem
  <2> QED BY <1>0, <2>1, <2>2, <2>3, <2>4 DEF TodoInv, Working, ItemsOf, Left
<1>36. CASE PutFileBack
  <2>1. Items(todo) /\ Left \subseteq ItemsOf(pc)
    BY <1>36 DEF PutFileBack, TodoInv, Working
  <2>2. Proceed("start rollback", <<>>)
    BY <1>36 DEF PutFileBack
  <2>3. \/ pc' = pc /\ Items(todo') /\ Left' \subseteq Left
        \/ pc' = "start rollback"
    BY <2>1, <2>2, NextItem
  <2>4. pc = "files"
    BY <1>36 DEF PutFileBack
  <2> QED BY <1>0, <2>1, <2>3, <2>4 DEF TodoInv, Working
<1>37. CASE RemoveLog
  <2>1. pc = "restore" /\ Head(todo) = "log" /\ todo' = Tail(todo) /\ pc' = pc
    BY <1>37 DEF RemoveLog
  <2>2. todo = Replacing
    <3>1. Items(todo)
      BY <2>1 DEF TodoInv, Working
    <3>2. Head(todo) \in Left
      BY <3>1, HeadIsLeft
    <3> QED BY <2>1, <3>2 DEF TodoInv
  <2>3. todo' = Stores
    BY <2>1, <2>2 DEF Replacing, Stores
  <2>4. Items(todo') /\ Left' = Store
    BY <2>3 DEF Left
  <2> QED BY <2>1, <2>4 DEF TodoInv, Working, ItemsOf
<1> QED BY <1>1, <1>2, <1>3, <1>4, <1>5, <1>6, <1>7, <1>8, <1>9, <1>10, <1>11, <1>12,
           <1>13, <1>14, <1>15, <1>16, <1>17, <1>18, <1>19, <1>20, <1>21, <1>22, <1>23,
           <1>24, <1>25, <1>26, <1>27, <1>28, <1>29, <1>30, <1>31, <1>32, <1>33, <1>34,
           <1>35, <1>36, <1>37, PhaseSteps

\* No step changes the setup, and so none the files of the installation.
LEMMA SetupIsFixed ==
  ASSUME [LauncherNext]_launcherUpdateVars
  PROVE  /\ setup' = setup /\ ToSet(Managed)' = ToSet(Managed) /\ OldFiles' = OldFiles
         /\ \A phase : ItemsOf(phase)' = ItemsOf(phase)
<1>1. setup' = setup
  BY FileSteps DEF StageFile, UnstageFile, InstallFile, RemoveInstalled, PutFileBack
<1> QED BY <1>1 DEF ItemsOf, OldFiles, Managed

Early == First \cup {"stage", "unstage", "undone", "restart", "await restart"}

\* Where a phase is entered from, by a step that moves no file.
LEMMA PhasesFollow ==
  ASSUME [LauncherNext]_launcherUpdateVars, UNCHANGED fileVars
  PROVE  \/ UNCHANGED <<pc, todo>>
         \/ /\ pc' \in Early \ {"stage"} => pc \in Early
            /\ pc' \in First => pc \in First
            /\ pc' = "stage" => todo' = Managed /\ pc \in First
            /\ pc' # "install"
            /\ pc' \in Trying => pc \in Trying
            /\ pc' = "files" => todo' = PutBackOrder
            /\ pc' \in Restarted => pc \in Restarted
         \/ StageFile \/ UnstageFile \/ InstallFile \/ PutFileBack
<1> USE DEF Early, First, Trying, Restarted, Goto
<1>1. CASE BeginUpdate
  BY <1>1 DEF BeginUpdate
<1>2. CASE WaitForExit
  BY <1>2 DEF WaitForExit
<1>3. CASE ExitTooLate
  BY <1>3 DEF ExitTooLate
<1>4. CASE PrepareRecords
  BY <1>4 DEF PrepareRecords
<1>5. CASE PreparationFails
  BY <1>5 DEF PreparationFails
<1>6. CASE StageFails
  BY <1>6 DEF StageFails
<1>7. CASE InstallFails
  BY <1>7 DEF InstallFails
<1>8. CASE StartServer
  BY <1>8 DEF StartServer, Starting, AwaitOf
<1>9. CASE NoServerFile
  BY <1>9 DEF NoServerFile, Starting, Awaiting, StartFailed, Publish
<1>10. CASE PidNotSaved
  BY <1>10 DEF PidNotSaved
<1>11. CASE AwaitReady
  BY <1>11 DEF AwaitReady, Starting, Awaiting, StartFailed, Publish
<1>12. CASE AwaitFails
  BY <1>12 DEF AwaitFails, Starting, Awaiting, StartFailed, Publish
<1>13. CASE ReadAnswer
  BY <1>13 DEF ReadAnswer
<1>14. CASE NoAnswer
  BY <1>14 DEF NoAnswer
<1>15. CASE FinishUpdate
  BY <1>15 DEF FinishUpdate, Publish
<1>16. CASE StopServer
  BY <1>16 DEF StopServer
<1>17. CASE StopNothing
  BY <1>17 DEF StopNothing
<1>18. CASE StopFails
  BY <1>18 DEF StopFails
<1>19. CASE DecideRestore
  BY <1>19 DEF DecideRestore, RollbackFails, Publish, ThenRestore
<1>20. CASE KeepFailedData
  BY <1>20 DEF KeepFailedData
<1>21. CASE PreserveFails
  BY <1>21 DEF PreserveFails
<1>22. CASE MarkRestore
  BY <1>22 DEF MarkRestore
<1>23. CASE RestoreFails
  BY <1>23 DEF RestoreFails
<1>24. CASE PutBackFails
  BY <1>24 DEF PutBackFails
<1>25. CASE FinishRollback
  BY <1>25 DEF FinishRollback, Publish
<1>26. CASE Kill
  BY <1>26 DEF Kill
<1>27. CASE RollBackAgain
  BY <1>27 DEF RollBackAgain
<1>28. CASE SnapshotStore
  BY <1>28 DEF SnapshotStore, Proceed
<1>29. CASE PrepareCopy
  BY <1>29 DEF PrepareCopy, Proceed
<1>30. CASE PreserveStore
  BY <1>30 DEF PreserveStore, Proceed
<1>31. CASE PutStoreBack
  BY <1>31 DEF PutStoreBack, Proceed
<1>32. CASE RemoveLog
  BY <1>32 DEF RemoveLog
<1> QED BY <1>1, <1>2, <1>3, <1>4, <1>5, <1>6, <1>7, <1>8, <1>9, <1>10, <1>11, <1>12,
           <1>13, <1>14, <1>15, <1>16, <1>17, <1>18, <1>19, <1>20, <1>21, <1>22, <1>23,
           <1>24, <1>25, <1>26, <1>27, <1>28, <1>29, <1>30, <1>31, <1>32, PhaseSteps

\* The last copy of a file is never dropped.
LEMMA FilesStep ==
  ASSUME LauncherInv, [LauncherNext]_launcherUpdateVars
  PROVE  FilesInv'
<1> USE SetupIsFixed, StoresAndFiles DEF LauncherInv
<1> DEFINE p == Head(todo)
<1>0. ASSUME pc \in {"stage", "unstage", "files"}
      PROVE  p \in Left /\ p \in ToSet(Managed) /\ p \in Parts /\ Left \subseteq Parts
  BY <1>0, HeadIsLeft DEF TodoInv, Working, ItemsOf, Parts
<1>1. CASE StageFile
  <2>1. /\ installed' = [installed EXCEPT ![p] = "none"]
        /\ backup' = [backup EXCEPT ![p] = installed[p]] /\ UNCHANGED package
        /\ Proceed("install", InstallOrder) /\ pc = "stage" /\ Items(todo)
    BY <1>1 DEF StageFile, TodoInv, Working
  <2>2. p \in Parts /\ (p \in OldFiles => installed[p] = "old")
    BY <1>0, <2>1 DEF FilesInv
  <2>3. /\ \A q \in Parts : installed'[q] # "new" /\ package'[q] = "new"
        /\ \A q \in OldFiles : "old" \in {installed'[q], backup'[q]}
    BY <2>1, <2>2 DEF FilesInv, Typed, FilesTyped, Parts, First, OldFiles
  <2>4. CASE pc' = pc /\ p \notin Left' /\ Left = {p} \cup Left'
    <3>1. /\ \A q \in OldFiles \cap Left' : installed'[q] = "old"
          /\ \A q \in OldFiles \ Left' : backup'[q] = "old"
      BY <1>0, <2>1, <2>2, <2>4 DEF FilesInv, Typed, FilesTyped
    <3> QED BY <2>1, <2>3, <2>4, <3>1 DEF FilesInv, First, Trying, Restarted
  <2>5. CASE pc' = "install" /\ todo' = InstallOrder /\ Left = {p}
    <3>1. \A q \in OldFiles : backup'[q] = "old"
      BY <1>0, <2>1, <2>2, <2>5 DEF FilesInv, Typed, FilesTyped, Parts
    <3>2. Left' = ToSet(Managed) \cup {"launchers"}
      BY <2>5, ListsHaveItems DEF Left
    <3> QED BY <2>3, <2>5, <3>1, <3>2 DEF FilesInv, First, Trying, Restarted
  <2> QED BY <2>1, <2>4, <2>5, NextItem
<1>2. CASE UnstageFile
  <2>1. /\ \/ /\ installed' = [installed EXCEPT ![p] = IF backup[p] # "none" THEN backup[p] ELSE @]
              /\ backup' = [backup EXCEPT ![p] = "none"]
           \/ UNCHANGED <<installed, backup>>
        /\ Proceed("undone", <<>>) /\ pc = "unstage" /\ Items(todo)
    BY <1>2 DEF UnstageFile, TodoInv, Working
  <2>2. /\ \A q \in Parts : installed'[q] # "new"
        /\ \A q \in OldFiles : "old" \in {installed'[q], backup'[q]}
    BY <1>0, <2>1 DEF FilesInv, Typed, FilesTyped, Parts, OldFiles
  <2>3. pc' \in {"unstage", "undone"}
    BY <2>1, NextItem
  <2> QED BY <2>2, <2>3 DEF FilesInv, First, Trying, Restarted
<1>3. CASE InstallFile
  <2>1. /\ IF p \in Parts THEN /\ installed' = [installed EXCEPT ![p] = package[p]]
                               /\ package' = [package EXCEPT ![p] = "none"]
                          ELSE UNCHANGED <<installed, package>>
        /\ UNCHANGED backup
        /\ Proceed("start trial", <<>>) /\ pc = "install" /\ Items(todo)
    BY <1>3 DEF InstallFile, TodoInv, Working
  <2>2. \A q \in OldFiles : backup'[q] = "old"
    BY <2>1 DEF FilesInv
  <2>3. p \in Parts => package[p] = "new"
    BY <2>1, HeadIsLeft DEF FilesInv
  <2>8. \A q \in Parts : q # p => installed'[q] = installed[q] /\ package'[q] = package[q]
    <3>1. CASE p \in Parts
      BY <2>1, <3>1 DEF Typed, FilesTyped
    <3> QED BY <2>1, <3>1
  <2>4. \A q \in ToSet(Managed) \ Left : installed'[q] = "new"
    <3>1. \A q \in ToSet(Managed) \ Left : installed[q] = "new" /\ q # p /\ q \in Parts
      <4>1. \A q \in ToSet(Managed) \ Left : installed[q] = "new"
        BY <2>1 DEF FilesInv
      <4>2. p \in Left
        BY <2>1, HeadIsLeft
      <4>3. ToSet(Managed) \subseteq Parts
        BY DEF Parts
      <4> QED BY <4>1, <4>2, <4>3
    <3> QED BY <2>8, <3>1
  <2>5. p \in ToSet(Managed) => installed'[p] = "new"
    BY <2>1, <2>3 DEF Typed, FilesTyped, Parts
  <2>6. CASE pc' = pc /\ p \notin Left' /\ Left = {p} \cup Left'
    <3>1. \A q \in Left' \cap Parts : package'[q] = "new"
      <4>1. \A q \in Left' \cap Parts : package[q] = "new" /\ q # p
        BY <2>1, <2>6 DEF FilesInv
      <4> QED BY <2>8, <4>1
    <3>2. \A q \in ToSet(Managed) \ Left' : installed'[q] = "new"
      BY <2>4, <2>5, <2>6
    <3> QED BY <2>1, <2>2, <2>6, <3>1, <3>2 DEF FilesInv, First, Trying, Restarted
  <2>7. CASE pc' = "start trial" /\ Left = {p}
    BY <2>2, <2>4, <2>5, <2>7 DEF FilesInv, First, Trying, Restarted
  <2> QED BY <2>1, <2>6, <2>7, NextItem
<1>4. CASE RemoveInstalled
  <2>1. /\ installed' = [installed EXCEPT ![p] = "none"] /\ backup[p] # "none"
        /\ UNCHANGED <<backup, package, pc, todo>> /\ pc = "files"
    BY <1>4 DEF RemoveInstalled, launcherVars
  <2>2. backup'[p] = "old" /\ p \in Left'
    BY <1>0, <2>1 DEF Typed, FilesTyped, Left
  <2>3. /\ \A q \in OldFiles : "old" \in {installed'[q], backup'[q]}
        /\ \A q \in OldFiles \ Left' : installed'[q] = "old"
    BY <1>0, <2>1, <2>2 DEF FilesInv, Typed, FilesTyped, Parts, OldFiles, Left
  <2> QED BY <2>1, <2>3 DEF FilesInv, First, Trying, Restarted
<1>5. CASE PutFileBack
  <2>1. /\ installed' = [installed EXCEPT ![p] =
                           IF backup[p] # "none" THEN backup[p]
                           ELSE IF p = "version" /\ ~setup.version THEN "none" ELSE @]
        /\ backup' = [backup EXCEPT ![p] = "none"]
        /\ Proceed("start rollback", <<>>) /\ pc = "files" /\ Items(todo)
    BY <1>5 DEF PutFileBack, TodoInv, Working
  <2>2. p \in OldFiles => installed'[p] = "old"
    BY <1>0, <2>1 DEF FilesInv, Typed, FilesTyped, OldFiles
  <2>3. \A q \in OldFiles : q # p => installed'[q] = installed[q] /\ backup'[q] = backup[q]
    BY <1>0, <2>1 DEF Typed, FilesTyped, OldFiles, Parts
  <2>4. \A q \in OldFiles : "old" \in {installed'[q], backup'[q]}
    BY <2>2, <2>3 DEF FilesInv
  <2>5. \A q \in OldFiles \ Left : installed'[q] = "old"
    <3>1. p \in Left
      BY <1>0, <2>1
    <3>2. \A q \in OldFiles \ Left : installed[q] = "old" /\ q # p
      BY <2>1, <3>1 DEF FilesInv
    <3> QED BY <2>3, <3>2
  <2>6. CASE pc' = pc /\ p \notin Left' /\ Left = {p} \cup Left'
    <3>1. pc' = "files"
      BY <2>1, <2>6
    <3>2. \A q \in OldFiles \ Left' : installed'[q] = "old"
      BY <2>2, <2>5, <2>6
    <3> QED BY <2>4, <3>1, <3>2 DEF FilesInv, First, Trying, Restarted
  <2>7. CASE pc' = "start rollback" /\ Left = {p}
    BY <2>2, <2>4, <2>5, <2>7 DEF FilesInv, First, Trying, Restarted
  <2> QED BY <2>1, <2>6, <2>7, NextItem
<1>6. CASE /\ UNCHANGED fileVars
           /\ ~(StageFile \/ UnstageFile \/ InstallFile \/ PutFileBack)
  <2>1. CASE UNCHANGED <<pc, todo>>
    BY <1>6, <2>1 DEF FilesInv, fileVars, Left
  <2>2. CASE ~UNCHANGED <<pc, todo>>
    <3>1. pc' = "stage" => Left' = ToSet(Managed)
      BY <1>6, <2>2, PhasesFollow DEF Left
    <3>2. pc' = "files" => Left' = ToSet(Managed)
      BY <1>6, <2>2, PhasesFollow, ListsHaveItems DEF Left
    <3>3. OldFiles \subseteq ToSet(Managed)
      BY DEF OldFiles
    <3> QED BY <1>6, <2>2, <3>1, <3>2, <3>3, PhasesFollow DEF FilesInv, fileVars, Early
  <2> QED BY <2>1, <2>2
<1> QED BY <1>1, <1>2, <1>3, <1>4, <1>5, <1>6, FileSteps

\* No server runs exactly when it is down.
LEMMA ServerModes ==
  ASSUME server \in Server
  PROVE  /\ server.mode = "down" <=> server = Down
         /\ Down.build = "none" /\ Down.mode = "down" /\ Down.gate = "none"
         /\ Down.tracked = FALSE
         /\ server # Down =>
              /\ server \in [build : {"old", "new"}, mode : {"starting", "up", "broken"},
                             gate : {"none", "closed", "open"}, tracked : BOOLEAN]
BY DEF Server, Down

\* What is known of the server holds until a step of the server, or of the
\* launcher, ends it.
LEMMA ServerStepKeeps ==
  ASSUME LauncherInv, [LauncherNext]_launcherUpdateVars
  PROVE  ServerInv'
<1> USE DEF LauncherInv, ServerInv, NotStarted, Stopped, Goto, launcherVars, historyVars
<1>1. CASE BeginUpdate
  BY <1>1 DEF BeginUpdate
<1>2. CASE WaitForExit
  BY <1>2 DEF WaitForExit, Typed, Server, Down, Fault
<1>3. CASE ExitTooLate
  BY <1>3 DEF ExitTooLate
<1>4. CASE SnapshotStore
  BY <1>4 DEF SnapshotStore, Proceed
<1>5. CASE PrepareCopy
  BY <1>5 DEF PrepareCopy, Proceed
<1>6. CASE PrepareRecords
  BY <1>6 DEF PrepareRecords
<1>7. CASE PreparationFails
  BY <1>7 DEF PreparationFails
<1>8. CASE StageFile
  BY <1>8 DEF StageFile, Proceed
<1>9. CASE StageFails
  BY <1>9 DEF StageFails
<1>10. CASE UnstageFile
  BY <1>10 DEF UnstageFile, Proceed
<1>11. CASE InstallFile
  BY <1>11 DEF InstallFile, Proceed
<1>12. CASE InstallFails
  BY <1>12 DEF InstallFails
<1>13. CASE StartServer
  <2>1. /\ pc \in Starting /\ pc' = AwaitOf(pc) /\ UNCHANGED <<answer, excused>>
        /\ server.mode = "down" => installed["server"] # "none"
        /\ IF server.mode = "down"
             THEN \E gate \in {"none", "closed"} : Spawned(installed["server"], gate, TRUE)
             ELSE UNCHANGED server
    BY <1>13 DEF StartServer
  <2>2. "server" \in OldFiles /\ "server" \in ToSet(Managed) /\ "server" \in Parts
    BY StoresAndFiles DEF Parts
  <2>3. CASE server = Down
    <3>1. server'.tracked /\ server'.build = installed["server"]
      BY <2>1, <2>3 DEF Spawned, Down
    <3>2. /\ pc = "start trial" => server'.build = "new"
          /\ pc = "start rollback" => server'.build = "old"
          /\ pc = "restart" => server'.build # "new"
      BY <2>2, <3>1 DEF FilesInv, Trying, Restarted
    <3> QED BY <2>1, <3>1, <3>2 DEF Starting, AwaitOf
  <2>4. CASE server # Down
    <3>1. pc = "start rollback" /\ excused
      BY <2>1, <2>4 DEF Starting
    <3> QED BY <2>1, <3>1 DEF AwaitOf
  <2> QED BY <2>3, <2>4
<1>14. CASE NoServerFile
  BY <1>14 DEF NoServerFile, Starting, Awaiting, StartFailed, Publish, Typed, Server, Down
<1>15. CASE PidNotSaved
  BY <1>15 DEF PidNotSaved, Down, Spawned
<1>16. CASE AwaitReady
  BY <1>16 DEF AwaitReady, Starting, Awaiting, StartFailed, Publish, Typed, Server, Down
<1>17. CASE AwaitFails
  BY <1>17 DEF AwaitFails, Starting, Awaiting, StartFailed, Publish, Typed, Server, Down
<1>18. CASE ReadAnswer
  BY <1>18 DEF ReadAnswer, Typed, LauncherTyped
<1>19. CASE NoAnswer
  BY <1>19 DEF NoAnswer
<1>20. CASE FinishUpdate
  BY <1>20 DEF FinishUpdate, Publish
<1>21. CASE StopServer
  BY <1>21 DEF StopServer, Down, Spawned
<1>22. CASE StopNothing
  BY <1>22 DEF StopNothing, Typed, Server, Down, Fault
<1>23. CASE StopFails
  BY <1>23 DEF StopFails
<1>24. CASE DecideRestore
  BY <1>24 DEF DecideRestore, RollbackFails, Publish, ThenRestore
<1>25. CASE PreserveStore
  BY <1>25 DEF PreserveStore, Proceed
<1>26. CASE KeepFailedData
  BY <1>26 DEF KeepFailedData
<1>27. CASE PreserveFails
  BY <1>27 DEF PreserveFails
<1>28. CASE MarkRestore
  BY <1>28 DEF MarkRestore
<1>29. CASE CopyBack
  BY <1>29 DEF CopyBack
<1>30. CASE RemoveLog
  BY <1>30 DEF RemoveLog
<1>31. CASE PutStoreBack
  BY <1>31 DEF PutStoreBack, Proceed
<1>32. CASE RestoreFails
  BY <1>32 DEF RestoreFails
<1>33. CASE RemoveInstalled
  BY <1>33 DEF RemoveInstalled
<1>34. CASE PutFileBack
  BY <1>34 DEF PutFileBack, Proceed
<1>35. CASE PutBackFails
  BY <1>35 DEF PutBackFails
<1>36. CASE FinishRollback
  BY <1>36 DEF FinishRollback, Publish
<1>37. CASE OldServerLeaves
  BY <1>37 DEF OldServerLeaves, Down, Spawned
<1>38. CASE NewBuildWrites
  BY <1>38 DEF NewBuildWrites
<1>39. CASE ServerReady
  <2>1. /\ server.mode = "starting" /\ server' = [server EXCEPT !.mode = "up", !.tracked = TRUE]
        /\ UNCHANGED <<pc, answer, excused>>
    BY <1>39 DEF ServerReady
  <2>3. server # Down
    BY <2>1, ServerModes DEF Typed
  <2>2. server'.tracked /\ server'.build = server.build /\ server'.mode = "up"
    BY <2>1, <2>3, ServerModes DEF Typed
  <2> QED BY <2>1, <2>2, <2>3
<1>40. CASE ServerFails
  <2>1. /\ UNCHANGED <<pc, answer, excused>>
        /\ server.mode = "starting" \/ (server.mode = "up" /\ pc = "commit" /\ answer = "none")
        /\ server' = Down \/ server' = [server EXCEPT !.mode = "broken", !.tracked = TRUE]
        /\ server' # Down => server.mode = "starting"
    BY <1>40 DEF ServerFails, Down, Fault
  <2>2. CASE server' = Down
    BY <2>1, <2>2 DEF Down
  <2>3. CASE server' # Down
    <3>1. server # Down
      BY <2>1, <2>3, ServerModes DEF Typed
    <3>2. server'.tracked /\ server'.build = server.build
      BY <2>1, <2>3, <3>1, ServerModes DEF Typed
    <3> QED BY <2>1, <2>3, <3>1, <3>2
  <2> QED BY <2>2, <2>3
<1>41. CASE ServerCommits
  BY <1>41 DEF ServerCommits, Typed, Server, Down, Fault
<1>42. CASE AcceptChange
  BY <1>42 DEF AcceptChange
<1>43. CASE Kill
  BY <1>43 DEF Kill
<1>44. CASE RollBackAgain
  BY <1>44 DEF RollBackAgain
<1>45. CASE SupervisedStart
  <2>1. /\ pc \in {"idle", "dead", "done"} /\ UNCHANGED <<pc, answer>>
        /\ server' = Down \/ Spawned(installed["server"], "none", TRUE)
    BY <1>45, Zenon DEF SupervisedStart, Active
  <2>2. CASE server' = Down
    BY <2>1, <2>2, ServerModes DEF Typed
  <2>3. CASE Spawned(installed["server"], "none", TRUE)
    <3>1. server'.tracked = TRUE /\ server'.build = installed["server"]
      BY ONLY <2>3 DEF Spawned
    <3>2. pc = "idle" => installed["server"] # "new"
      BY DEF FilesInv, First, Parts
    <3> QED BY <2>1, <3>1, <3>2
  <2> QED BY <2>1, <2>2, <2>3
<1>46. CASE UNCHANGED launcherUpdateVars
  BY <1>46 DEF launcherUpdateVars
<1> QED BY <1>1, <1>2, <1>3, <1>4, <1>5, <1>6, <1>7, <1>8, <1>9, <1>10, <1>11, <1>12,
           <1>13, <1>14, <1>15, <1>16, <1>17, <1>18, <1>19, <1>20, <1>21, <1>22, <1>23,
           <1>24, <1>25, <1>26, <1>27, <1>28, <1>29, <1>30, <1>31, <1>32, <1>33, <1>34,
           <1>35, <1>36, <1>37, <1>38, <1>39, <1>40, <1>41, <1>42, <1>43, <1>44, <1>45,
           <1>46
        DEF LauncherNext, LauncherStep, ServerStep, Settled

-----------------------------------------------------------------------------
(* What a rollback may rely on.                                            *)

\* A change leaves what the file is, and who wrote it, as it was.
LEMMA ChangesKeepFormat ==
  ASSUME DataTyped, Data("database") # Missing, AcceptChange
  PROVE  /\ \A s \in Store : /\ Data(s)'.format = Data(s).format /\ Data(s)'.by = Data(s).by
         /\ live' = live
<1>0. "database" \in Store /\ "identities" # "database"
  BY StoresAndFiles
<1>1. PICK change \in {"before", "after"} :
        log' = [Data("database") EXCEPT !.changes = @ \cup {change}]
  BY DEF AcceptChange
<1>2. live' = live
  BY DEF AcceptChange
<1>3. /\ Data("database") \in Content /\ live["database"] # Missing
      /\ Data("database").copy = live["database"].copy
  BY <1>0, DataIsTyped DEF Data
<1>4. /\ log'.format = Data("database").format /\ log'.by = Data("database").by
      /\ log'.copy = Data("database").copy /\ change \in log'.changes
  BY <1>1, <1>3 DEF Content
<1>5. log' # Missing
  BY <1>4 DEF Missing
<1>6. Data("database")' = log' /\ Data("identities")' = Data("identities")
  BY <1>2, <1>3, <1>4, <1>5 DEF Data
<1> QED BY <1>2, <1>4, <1>6, StoresAndFiles

\* Without a new build nothing upgrades the data.
LEMMA UntouchedStays ==
  ASSUME LauncherInv, [LauncherNext]_launcherUpdateVars, Untouched,
         pc' \in First \cup RollingBack \cup {"dead", "done"}
  PROVE  Untouched'
<1> USE StoresAndFiles DEF LauncherInv, First, RollingBack
<1>1. pc \notin {"preserve", "keep", "mark", "restore"} /\ pc' \notin {"preserve", "keep", "mark", "restore"}
  BY DEF Untouched
<1>2. marker' # "required"
  <2>1. ~MarkRestore
    BY <1>1 DEF MarkRestore
  <2> QED BY <2>1, MarkerSteps DEF Untouched, PrepareRecords, FinishUpdate, FinishRollback,
          PidNotSaved, StopFails, SupervisedStart, copyVars
<1>3. installed'["server"] # "new"
  <2>1. /\ installed \in [Parts -> File] /\ backup \in [Parts -> {"old", "none"}]
        /\ "server" \in Parts /\ installed["server"] # "new" /\ backup["server"] # "new"
    BY DEF Typed, FilesTyped, Parts, Untouched
  <2>2. ~InstallFile
    <3>1. ASSUME InstallFile PROVE pc' \in {"install", "start trial"}
      <4>1. Items(todo) /\ Proceed("start trial", <<>>) /\ pc = "install"
        BY <3>1 DEF InstallFile, TodoInv, Working
      <4> QED BY <4>1, NextItem
    <3> QED BY <3>1
  <2> QED BY <2>1, <2>2, FileSteps DEF fileVars, StageFile, UnstageFile, RemoveInstalled, PutFileBack
<1>4. server'.build # "new"
  <2>1. CASE UNCHANGED <<server, boots>>
    BY <2>1 DEF Untouched
  <2>2. CASE StartServer
    <3>1. UNCHANGED server \/ \E gate \in {"none", "closed"} : Spawned(installed["server"], gate, TRUE)
      BY <2>2 DEF StartServer
    <3>2. CASE UNCHANGED server
      BY <3>2 DEF Untouched
    <3>3. ASSUME NEW gate \in {"none", "closed"}, Spawned(installed["server"], gate, TRUE)
          PROVE  server'.build # "new"
      BY <3>3 DEF Spawned, Untouched
    <3> QED BY <3>1, <3>2, <3>3
  <2>3. CASE PidNotSaved
    BY <2>3 DEF PidNotSaved, Spawned, Untouched
  <2>4. CASE StopServer \/ OldServerLeaves
    BY <2>4, ServerModes DEF StopServer, OldServerLeaves, Typed
  <2>5. CASE ServerReady
    <3>1. server' = [server EXCEPT !.mode = "up", !.tracked = TRUE] /\ server # Down
      BY <2>5, ServerModes DEF ServerReady, Typed
    <3> QED BY <3>1, ServerModes DEF Untouched, Typed
  <2>6. CASE ServerFails
    <3>1. \/ server' = Down
          \/ server' = [server EXCEPT !.mode = "broken", !.tracked = TRUE] /\ server # Down
      BY <2>6, ServerModes DEF ServerFails, Typed
    <3> QED BY <3>1, ServerModes DEF Untouched, Typed
  <2>7. CASE ServerCommits
    <3>1. server.build = "new"
      BY <2>7, ServerModes DEF ServerCommits, ServerInv, Typed
    <3> QED BY <3>1 DEF Untouched
  <2>8. CASE SupervisedStart
    <3>1. server' = Down \/ Spawned(installed["server"], "none", TRUE)
      BY <2>8, Zenon DEF SupervisedStart
    <3>2. CASE server' = Down
      BY <3>2, ServerModes DEF Typed
    <3>3. CASE Spawned(installed["server"], "none", TRUE)
      BY <3>3 DEF Spawned, Untouched
    <3> QED BY <3>1, <3>2, <3>3
  <2> QED BY <2>1, <2>2, <2>3, <2>4, <2>5, <2>6, <2>7, <2>8, ServerSteps
<1>5. \A s \in Store : Original(Data(s)') /\ ~live'[s].copy
  <2>0. \A s \in Store : Original(Data(s)) /\ ~live[s].copy
    BY DEF Untouched
  <2>1. CASE UNCHANGED dataVars
    BY <2>0, <2>1 DEF dataVars, Data
  <2>2. CASE Checkpointed \/ UNCHANGED dataVars
    BY <2>0, <2>2, CheckpointKeepsData DEF Typed, Original
  <2>3. CASE SnapshotStore \/ StopServer \/ DecideRestore
    BY <2>2, <2>3 DEF SnapshotStore, StopServer, DecideRestore
  <2>4. CASE AcceptChange
    <3>1. Original(Data("database"))
      BY <2>0
    <3>2. Data("database") # Missing
      BY ONLY <3>1 DEF Original, Missing, Unreadable
    <3> QED BY <2>0, <2>4, <3>2, ChangesKeepFormat DEF Typed, Original
  <2>5. ~PreserveStore /\ ~RemoveLog /\ ~PutStoreBack /\ ~NewBuildWrites
    BY <1>1 DEF PreserveStore, RemoveLog, PutStoreBack, NewBuildWrites, Untouched
  <2> QED BY <2>1, <2>3, <2>4, <2>5, DataSteps
<1> QED BY <1>1, <1>2, <1>3, <1>4, <1>5 DEF Untouched

\* The steps that drop a copy go to phases without a rollback; a copy made is
\* one of the original.
LEMMA CopiesStay ==
  ASSUME LauncherInv, [LauncherNext]_launcherUpdateVars
  PROVE  /\ \/ snapshot' = snapshot
            \/ SnapshotStore
            \/ PreparationFails \/ FinishUpdate \/ FinishRollback
         /\ \A s \in Store : prepared'[s] = Missing \/ Copied(prepared'[s])
<1> USE StoresAndFiles DEF LauncherInv
<1>1. \A s \in Store : prepared[s] = Missing \/ Copied(prepared[s])
  BY DEF CopiesInv
<1>2. CASE UNCHANGED <<snapshot, prepared>>
  BY <1>1, <1>2
<1>3. CASE SnapshotStore
  BY <1>1, <1>3 DEF SnapshotStore
<1>4. CASE PrepareCopy
  <2>1. /\ prepared' = [prepared EXCEPT ![Head(todo)] = snapshot[Head(todo)]]
        /\ snapshot' = snapshot /\ Full
    BY <1>4 DEF PrepareCopy, CopiesInv, Guarded
  <2> QED BY <1>1, <2>1 DEF Typed, DataTyped, Full
<1>5. CASE CopyBack
  <2>1. PICK s \in Store : prepared' = [prepared EXCEPT ![s] = snapshot[s]]
    BY <1>5 DEF CopyBack, Restored
  <2>2. Full /\ snapshot' = snapshot
    BY <1>5 DEF CopyBack, CopiesInv, Guarded
  <2> QED BY <1>1, <2>1, <2>2 DEF Typed, DataTyped, Full
<1>6. CASE PutStoreBack
  <2>1. /\ snapshot' = snapshot
        /\ prepared' = prepared \/ prepared' = [prepared EXCEPT ![Head(todo)] = Missing]
    BY <1>6 DEF PutStoreBack
  <2> QED BY <1>1, <2>1 DEF Typed, DataTyped
<1>7. CASE PreparationFails \/ FinishUpdate \/ FinishRollback
  BY <1>7 DEF PreparationFails, FinishUpdate, FinishRollback, Nothing
<1> QED BY <1>2, <1>3, <1>4, <1>5, <1>6, <1>7, CopySteps

\* Data of the original format are never restored from an older copy.
LEMMA OriginalIsKept ==
  ASSUME Typed, \A s \in Store : Original(Data(s))
  PROVE  ~WasUpgraded
<1>1. \A s \in Store : snapshot[s].format \in 0 .. Unreadable
  BY DEF Typed, DataTyped, Content
<1> QED BY <1>1 DEF WasUpgraded, Original, Unreadable

\* Until the update is decided, the data are untouched or both are copied.
LEMMA CopiesStep ==
  ASSUME LauncherInv, [LauncherNext]_launcherUpdateVars
  PROVE  CopiesInv'
<1> USE DEF LauncherInv, CopiesInv, First, Guarded, RollingBack, Goto, copyVars, launcherVars
<1>0. /\ Untouched /\ pc' \in First \cup RollingBack \cup {"dead", "done"} => Untouched'
      /\ \A s \in Store : prepared'[s] = Missing \/ Copied(prepared'[s])
      /\ snapshot' = snapshot => (Full' <=> Full)
  BY UntouchedStays, CopiesStay DEF Full
<1>1. CASE BeginUpdate
  BY <1>1, <1>0 DEF BeginUpdate
<1>2. CASE WaitForExit
  <2>1. pc = "wait" /\ pc' = "snapshot" /\ Left' = Store /\ snapshot' = snapshot
    BY <1>2 DEF WaitForExit, Left, Store
  <2> QED BY <1>0, <2>1
<1>3. CASE ExitTooLate
  BY <1>3, <1>0 DEF ExitTooLate
<1>4. CASE SnapshotStore
  <2> DEFINE s == Head(todo)
  <2>1. /\ pc = "snapshot" /\ Items(todo) /\ Proceed("copies", Stores) /\ Untouched
        /\ snapshot' = [snapshot EXCEPT ![s] = [Data(s) EXCEPT !.copy = TRUE]]
        /\ s \in Store
    BY <1>4, HeadIsLeft, StoresAndFiles DEF SnapshotStore, TodoInv, Working, ItemsOf
  <2>2. Copied(snapshot'[s])
    <3>1. Original(Data(s)) /\ Data(s) \in Content
      BY <2>1, DataIsTyped DEF Untouched, Typed
    <3>2. /\ [Data(s) EXCEPT !.copy = TRUE].format = Data(s).format
          /\ [Data(s) EXCEPT !.copy = TRUE].by = Data(s).by
          /\ [Data(s) EXCEPT !.copy = TRUE].copy = TRUE
      BY <3>1 DEF Content
    <3>3. snapshot'[s] = [Data(s) EXCEPT !.copy = TRUE]
      BY <2>1 DEF Typed, DataTyped
    <3> QED BY <3>1, <3>2, <3>3 DEF Copied, Original
  <2>3. \A t \in Store \ Left : Copied(snapshot'[t])
    <3>1. \A t \in Store \ Left : Copied(snapshot[t]) /\ t # s
      BY <2>1, HeadIsLeft
    <3>2. \A t \in Store : t # s => snapshot'[t] = snapshot[t]
      BY <2>1 DEF Typed, DataTyped
    <3> QED BY <3>1, <3>2
  <2>4. CASE pc' = pc /\ Left = {s} \cup Left'
    BY <1>0, <2>1, <2>2, <2>3, <2>4
  <2>5. CASE pc' = "copies" /\ Left = {s}
    <3>1. Full'
      BY <2>2, <2>3, <2>5 DEF Full
    <3> QED BY <1>0, <2>1, <2>5, <3>1
  <2> QED BY <2>1, <2>4, <2>5, NextItem
<1>5. CASE PrepareCopy
  BY <1>5, <1>0 DEF PrepareCopy, Proceed
<1>6. CASE PrepareRecords
  BY <1>6, <1>0 DEF PrepareRecords
<1>7. CASE PreparationFails
  BY <1>7, <1>0 DEF PreparationFails
<1>8. CASE StageFile
  BY <1>8, <1>0 DEF StageFile, Proceed
<1>9. CASE StageFails
  BY <1>9, <1>0 DEF StageFails
<1>10. CASE UnstageFile
  BY <1>10, <1>0 DEF UnstageFile, Proceed
<1>11. CASE InstallFile
  BY <1>11, <1>0 DEF InstallFile, Proceed
<1>12. CASE InstallFails
  BY <1>12, <1>0 DEF InstallFails
<1>13. CASE StartServer
  BY <1>13, <1>0 DEF StartServer, Starting, AwaitOf
<1>14. CASE NoServerFile
  BY <1>14, <1>0 DEF NoServerFile, Starting, Awaiting, StartFailed, Publish
<1>15. CASE PidNotSaved
  BY <1>15, <1>0 DEF PidNotSaved
<1>16. CASE AwaitReady
  BY <1>16, <1>0 DEF AwaitReady, Starting, Awaiting, StartFailed, Publish
<1>17. CASE AwaitFails
  BY <1>17, <1>0 DEF AwaitFails, Starting, Awaiting, StartFailed, Publish
<1>18. CASE ReadAnswer
  BY <1>18, <1>0 DEF ReadAnswer
<1>19. CASE NoAnswer
  BY <1>19, <1>0 DEF NoAnswer
<1>20. CASE FinishUpdate
  BY <1>20, <1>0 DEF FinishUpdate, Publish
<1>21. CASE StopServer
  BY <1>21, <1>0 DEF StopServer
<1>22. CASE StopNothing
  BY <1>22, <1>0 DEF StopNothing
<1>23. CASE StopFails
  BY <1>23, <1>0 DEF StopFails
<1>24. CASE DecideRestore
  <2>1. pc = "decide" /\ UNCHANGED snapshot /\ (Full \/ Untouched)
    BY <1>24 DEF DecideRestore
  <2>2. pc' \in {"restore", "mark", "preserve", "files", "done"}
    BY <1>24 DEF DecideRestore, RollbackFails, Publish, ThenRestore
  <2>3. CASE Full
    BY <1>0, <2>1, <2>2, <2>3
  <2>4. CASE Untouched
    <3>1. ~MustRestore
      BY <2>4, OriginalIsKept DEF MustRestore, Untouched
    <3>2. pc' = "files"
      BY <1>24, <3>1 DEF DecideRestore
    <3> QED BY <1>0, <2>1, <2>4, <3>2
  <2> QED BY <2>1, <2>3, <2>4
<1>25. CASE PreserveStore
  BY <1>25, <1>0 DEF PreserveStore, Proceed
<1>26. CASE KeepFailedData
  BY <1>26, <1>0 DEF KeepFailedData
<1>27. CASE PreserveFails
  BY <1>27, <1>0 DEF PreserveFails
<1>28. CASE MarkRestore
  BY <1>28, <1>0 DEF MarkRestore
<1>29. CASE CopyBack
  BY <1>29, <1>0 DEF CopyBack
<1>30. CASE RemoveLog
  BY <1>30, <1>0 DEF RemoveLog
<1>31. CASE PutStoreBack
  BY <1>31, <1>0 DEF PutStoreBack, Proceed
<1>32. CASE RestoreFails
  BY <1>32, <1>0 DEF RestoreFails
<1>33. CASE RemoveInstalled
  BY <1>33, <1>0 DEF RemoveInstalled
<1>34. CASE PutFileBack
  BY <1>34, <1>0 DEF PutFileBack, Proceed
<1>35. CASE PutBackFails
  BY <1>35, <1>0 DEF PutBackFails
<1>36. CASE FinishRollback
  BY <1>36, <1>0 DEF FinishRollback, Publish
<1>37. CASE OldServerLeaves
  BY <1>37, <1>0 DEF OldServerLeaves
<1>38. CASE NewBuildWrites
  <2>1. UNCHANGED <<snapshot, pc, todo>>
    BY <1>38, Zenon DEF NewBuildWrites
  <2> QED BY <1>0, <2>1 DEF Left
<1>39. CASE ServerReady
  <2>1. UNCHANGED <<snapshot, pc, todo>>
    BY <1>39, Zenon DEF ServerReady
  <2> QED BY <1>0, <2>1 DEF Left
<1>40. CASE ServerFails
  <2>1. UNCHANGED <<snapshot, pc, todo>>
    BY <1>40, Zenon DEF ServerFails
  <2> QED BY <1>0, <2>1 DEF Left
<1>41. CASE ServerCommits
  BY <1>41, <1>0 DEF ServerCommits
<1>42. CASE AcceptChange
  <2>1. UNCHANGED <<snapshot, pc, todo>>
    BY <1>42, Zenon DEF AcceptChange
  <2> QED BY <1>0, <2>1 DEF Left
<1>43. CASE Kill
  <2>1. Active /\ pc' = "dead" /\ snapshot' = snapshot
    BY <1>43, Zenon DEF Kill
  <2>2. pc \in Phase
    BY DEF Typed, LauncherTyped
  <2> QED BY <1>0, <2>1, <2>2 DEF Active, Phase
<1>44. CASE RollBackAgain
  BY <1>44, <1>0 DEF RollBackAgain
<1>45. CASE SupervisedStart
  <2>1. UNCHANGED <<snapshot, pc, todo>>
    BY <1>45, Zenon DEF SupervisedStart
  <2> QED BY <1>0, <2>1 DEF Left
<1>46. CASE UNCHANGED launcherUpdateVars
  BY <1>0, <1>46 DEF launcherUpdateVars, Left
<1> QED BY <1>1, <1>2, <1>3, <1>4, <1>5, <1>6, <1>7, <1>8, <1>9, <1>10, <1>11, <1>12,
           <1>13, <1>14, <1>15, <1>16, <1>17, <1>18, <1>19, <1>20, <1>21, <1>22, <1>23,
           <1>24, <1>25, <1>26, <1>27, <1>28, <1>29, <1>30, <1>31, <1>32, <1>33, <1>34,
           <1>35, <1>36, <1>37, <1>38, <1>39, <1>40, <1>41, <1>42, <1>43, <1>44, <1>45,
           <1>46
        DEF LauncherNext, LauncherStep, ServerStep, Settled

-----------------------------------------------------------------------------
(* What a restore leaves.                                                  *)

\* Which steps enter the phases of a rollback, and end an update.
LEMMA RollbackPhases ==
  ASSUME LauncherInv, [LauncherNext]_launcherUpdateVars
  PROVE  /\ pc' = "restore" => pc = "restore" \/ DecideRestore \/ MarkRestore
         /\ pc' = "files" => pc = "files" \/ DecideRestore \/ PutStoreBack
         /\ pc' \in Restarted => pc \in Restarted \cup {"files"}
         /\ pc' = "done" => \/ UNCHANGED <<pc, todo>>
                            \/ ExitTooLate \/ NoServerFile \/ AwaitReady \/ AwaitFails
                            \/ FinishUpdate \/ DecideRestore \/ RestoreFails \/ PutBackFails
                            \/ FinishRollback
         /\ pc = "done" => pc' = "done" \/ RollBackAgain \/ Kill
<1> USE DEF Restarted, Goto
<1>1. CASE UNCHANGED <<pc, todo>>
  BY <1>1
<1>2. CASE BeginUpdate
  BY <1>2 DEF BeginUpdate
<1>3. CASE WaitForExit
  BY <1>3 DEF WaitForExit
<1>4. CASE PrepareRecords
  BY <1>4 DEF PrepareRecords
<1>5. CASE PreparationFails
  BY <1>5 DEF PreparationFails
<1>6. CASE StageFails
  BY <1>6 DEF StageFails
<1>7. CASE InstallFails
  BY <1>7 DEF InstallFails
<1>8. CASE StartServer
  BY <1>8 DEF StartServer, Starting, AwaitOf
<1>9. CASE PidNotSaved
  BY <1>9 DEF PidNotSaved
<1>10. CASE ReadAnswer
  BY <1>10 DEF ReadAnswer
<1>11. CASE NoAnswer
  BY <1>11 DEF NoAnswer
<1>12. CASE StopServer
  BY <1>12 DEF StopServer
<1>13. CASE StopNothing
  BY <1>13 DEF StopNothing
<1>14. CASE StopFails
  BY <1>14 DEF StopFails
<1>15. CASE KeepFailedData
  BY <1>15 DEF KeepFailedData
<1>16. CASE PreserveFails
  BY <1>16 DEF PreserveFails
<1>17. CASE MarkRestore
  BY <1>17 DEF MarkRestore
<1>18. CASE Kill
  BY <1>18 DEF Kill
<1>19. CASE RollBackAgain
  BY <1>19 DEF RollBackAgain
<1>20. CASE SnapshotStore
  BY <1>20 DEF SnapshotStore, Proceed
<1>21. CASE PrepareCopy
  BY <1>21 DEF PrepareCopy, Proceed
<1>22. CASE StageFile
  BY <1>22 DEF StageFile, Proceed
<1>23. CASE UnstageFile
  BY <1>23 DEF UnstageFile, Proceed
<1>24. CASE InstallFile
  BY <1>24 DEF InstallFile, Proceed
<1>25. CASE PreserveStore
  BY <1>25 DEF PreserveStore, Proceed
<1>26. CASE PutStoreBack
  BY <1>26 DEF PutStoreBack, Proceed
<1>27. CASE PutFileBack
  BY <1>27 DEF PutFileBack, Proceed
<1>28. CASE RemoveLog
  BY <1>28 DEF RemoveLog
<1>29. CASE NoServerFile
  BY <1>29 DEF NoServerFile, StartFailed, Publish, Starting, Awaiting
<1>30. CASE AwaitReady
  BY <1>30 DEF AwaitReady, StartFailed, Publish, Starting, Awaiting
<1>31. CASE AwaitFails
  BY <1>31 DEF AwaitFails, StartFailed, Publish, Starting, Awaiting
<1>32. CASE DecideRestore
  BY <1>32 DEF DecideRestore, ThenRestore, RollbackFails, Publish
<1>33. CASE ExitTooLate
  BY <1>33 DEF ExitTooLate
<1>34. CASE FinishUpdate
  BY <1>34 DEF FinishUpdate, Publish
<1>35. CASE RestoreFails
  BY <1>35 DEF RestoreFails
<1>36. CASE PutBackFails
  BY <1>36 DEF PutBackFails
<1>37. CASE FinishRollback
  BY <1>37 DEF FinishRollback, Publish
<1> QED BY <1>1, <1>2, <1>3, <1>4, <1>5, <1>6, <1>7, <1>8, <1>9, <1>10, <1>11, <1>12,
           <1>13, <1>14, <1>15, <1>16, <1>17, <1>18, <1>19, <1>20, <1>21, <1>22, <1>23,
           <1>24, <1>25, <1>26, <1>27, <1>28, <1>29, <1>30, <1>31, <1>32, <1>33, <1>34,
           <1>35, <1>36, <1>37, PhaseSteps

\* What the launcher could not do or record is not forgotten.
LEMMA ExcusesStay ==
  ASSUME LauncherInv, [LauncherNext]_launcherUpdateVars, ~excused'
  PROVE  /\ ~excused /\ ~PidNotSaved /\ ~StopFails
         /\ MarkRestore => marker' = "required"
         /\ SupervisedStart => pc = "idle"
<1>1. ~PidNotSaved /\ ~StopFails
  BY DEF PidNotSaved, StopFails
<1>2. CASE UNCHANGED <<marker, excused>> /\ ~SupervisedStart /\ ~MarkRestore
  BY <1>1, <1>2
<1>3. CASE PrepareRecords \/ FinishUpdate \/ FinishRollback
  <2>1. pc \in {"records", "accept", "clean"} /\ excused' = excused
    BY <1>3 DEF PrepareRecords, FinishUpdate, FinishRollback, historyVars
  <2>2. ~MarkRestore
    BY <2>1 DEF MarkRestore
  <2>3. ASSUME SupervisedStart PROVE FALSE
    <3>1. pc \in {"idle", "dead", "done"}
      BY <2>3, Zenon DEF SupervisedStart, Active
    <3> QED BY <2>1, <3>1
  <2> QED BY <1>1, <2>1, <2>2, <2>3
<1>4. CASE MarkRestore
  BY <1>1, <1>4 DEF MarkRestore, SupervisedStart, Active
<1>5. CASE SupervisedStart
  <2>1. excused' = (excused \/ pc # "idle") /\ pc \in {"idle", "dead", "done"}
    BY <1>5, Zenon DEF SupervisedStart, Active
  <2>2. ~excused /\ pc = "idle"
    BY <2>1
  <2> QED BY <1>1, <2>2 DEF MarkRestore
<1> QED BY <1>1, <1>2, <1>3, <1>4, <1>5, MarkerSteps

\* Only a restore puts a copy in the place of live data.
LEMMA OnlyRestoresCopy ==
  ASSUME LauncherInv, [LauncherNext]_launcherUpdateVars, ~PutStoreBack
  PROVE  \A s \in Store : live'[s].copy => live[s].copy
<1> USE DEF LauncherInv, Typed
<1>1. CASE UNCHANGED dataVars
  BY <1>1 DEF dataVars
<1>2. CASE SnapshotStore \/ StopServer \/ DecideRestore
  BY <1>2, CheckpointKeepsData DEF SnapshotStore, StopServer, DecideRestore
<1>3. CASE PreserveStore
  <2>1. live' = live \/ live' = [live EXCEPT ![Head(todo)] = Missing]
    BY <1>3 DEF PreserveStore
  <2> QED BY <2>1 DEF DataTyped, Missing
<1>4. CASE RemoveLog \/ AcceptChange
  BY <1>4 DEF RemoveLog, AcceptChange
<1>5. CASE NewBuildWrites
  <2>1. PICK s \in Store, f \in 0 .. Unreadable :
          live' = live \/ InFile(s, [Data(s) EXCEPT !.format = f, !.by = "new", !.copy = live[s].copy])
    BY <1>5 DEF NewBuildWrites
  <2>2. [Data(s) EXCEPT !.format = f, !.by = "new", !.copy = live[s].copy].copy = live[s].copy
    BY DataIsTyped DEF Content
  <2> QED BY <2>1, <2>2 DEF InFile, DataTyped
<1> QED BY <1>1, <1>2, <1>3, <1>4, <1>5, DataSteps

\* What the old build can read it can read on, unless a new one runs.
LEMMA ReadableStays ==
  ASSUME LauncherInv, [LauncherNext]_launcherUpdateVars, Reads("old"), server.build # "new",
         ~PreserveStore, ~RemoveLog, ~PutStoreBack
  PROVE  Reads("old")'
<1> USE DEF LauncherInv, Typed, Reads, Supports
<1>1. CASE UNCHANGED dataVars
  BY <1>1 DEF dataVars, Data
<1>2. CASE SnapshotStore \/ StopServer \/ DecideRestore
  <2>1. \A s \in Store : Data(s)' = Data(s)
    BY <1>2, CheckpointKeepsData DEF SnapshotStore, StopServer, DecideRestore
  <2> QED BY <2>1
<1>3. CASE AcceptChange
  <2>1. Data("database") # Missing
    BY StoresAndFiles DEF Missing, Unreadable
  <2> QED BY <1>3, <2>1, ChangesKeepFormat
<1>4. ~NewBuildWrites
  BY DEF NewBuildWrites
<1> QED BY <1>1, <1>2, <1>3, <1>4, DataSteps

\* What a rollback that goes on may rely on, unless a server was not stopped.
LEMMA RestoreStep ==
  ASSUME LauncherInv, [LauncherNext]_launcherUpdateVars
  PROVE  RestoreInv'
<1> SUFFICES ASSUME ~excused'
             PROVE  /\ (marker # "required" =>
                          (\A s \in Store : ~live[s].copy) \/ (pc = "done" /\ snapshot = Nothing))'
                    /\ (pc = "restore" =>
                          /\ marker = "required"
                          /\ \/ todo = Replacing
                             \/ /\ log = Missing
                                /\ Left \subseteq Store
                                /\ \A s \in Store \cap Left : prepared[s] # Missing
                                /\ \A s \in Store \ Left : Copied(live[s]))'
                    /\ (pc \in {"files"} \cup Restarted => Reads("old") /\ Paired)'
                    /\ (pc = "done" /\ result = "rollbackFailed" /\ snapshot = Nothing =>
                          server.build # "new" /\ Reads("old"))'
  BY DEF RestoreInv
<1> USE StoresAndFiles DEF LauncherInv
<1>1. /\ ~excused /\ ~PidNotSaved /\ ~StopFails
      /\ MarkRestore => marker' = "required"
      /\ SupervisedStart => pc = "idle"
  BY ExcusesStay
<1>2. pc \in Stopped => server = Down
  BY <1>1 DEF ServerInv
<1>3. pc \in Stopped => ~NewBuildWrites /\ ~AcceptChange
  <2>1. pc \in Stopped => server.mode = "down"
    BY <1>2, ServerModes DEF Typed
  <2> QED BY <2>1 DEF NewBuildWrites, AcceptChange
<1>4. (marker # "required" => (\A s \in Store : ~live[s].copy) \/ (pc = "done" /\ snapshot = Nothing))'
  <2> SUFFICES ASSUME marker' # "required"
               PROVE  (\A s \in Store : ~live'[s].copy) \/ (pc' = "done" /\ snapshot' = Nothing)
    OBVIOUS
  <2>1. CASE FinishUpdate \/ FinishRollback
    BY <2>1 DEF FinishUpdate, FinishRollback, Publish, Goto
  <2>2. CASE PrepareRecords
    <3>1. Untouched /\ live' = live
      BY <2>2 DEF PrepareRecords, CopiesInv, First, dataVars
    <3> QED BY <3>1 DEF Untouched
  <2>3. CASE marker' = marker
    <3>1. ~PutStoreBack
      BY <1>1, <2>3 DEF PutStoreBack, RestoreInv
    <3>2. CASE \A s \in Store : ~live[s].copy
      BY <3>1, <3>2, OnlyRestoresCopy
    <3>3. CASE pc = "done" /\ snapshot = Nothing
      <4>1. ~RollBackAgain /\ ~Kill
        BY <3>3, Zenon DEF RollBackAgain, Kill, Active
      <4>2. pc' = "done"
        BY <3>3, <4>1, RollbackPhases
      <4>3. snapshot' = Nothing
        BY <3>3, CopiesStay DEF SnapshotStore, PreparationFails, FinishUpdate, FinishRollback
      <4> QED BY <4>2, <4>3
    <3> QED BY <1>1, <2>3, <3>2, <3>3 DEF RestoreInv
  <2> QED BY <1>1, <2>1, <2>2, <2>3, MarkerSteps DEF copyVars, SupervisedStart
<1>5. (pc = "restore" =>
         /\ marker = "required"
         /\ \/ todo = Replacing
            \/ /\ log = Missing
               /\ Left \subseteq Store
               /\ \A s \in Store \cap Left : prepared[s] # Missing
               /\ \A s \in Store \ Left : Copied(live[s]))'
  <2> SUFFICES ASSUME pc' = "restore"
               PROVE  /\ marker' = "required"
                      /\ \/ todo' = Replacing
                         \/ /\ log' = Missing
                            /\ Left' \subseteq Store
                            /\ \A s \in Store \cap Left' : prepared'[s] # Missing
                            /\ \A s \in Store \ Left' : Copied(live'[s])
    OBVIOUS
  <2>1. CASE DecideRestore
    BY <2>1 DEF DecideRestore, RollbackFails, Publish, ThenRestore, Goto, copyVars
  <2>2. CASE MarkRestore
    BY <1>1, <2>2 DEF MarkRestore, Goto
  <2>3. CASE pc = "restore"
    <3>1. /\ marker = "required" /\ Items(todo)
          /\ \/ todo = Replacing
             \/ /\ log = Missing
                /\ Left \subseteq Store
                /\ \A s \in Store \cap Left : prepared[s] # Missing
                /\ \A s \in Store \ Left : Copied(live[s])
      BY <1>1, <2>3 DEF RestoreInv, TodoInv, Working
    <3>2. Full /\ \A s \in Store : snapshot[s] # Missing
      BY <2>3 DEF CopiesInv, Guarded, Full, Copied, Original, Missing
    <3>3. marker' = "required"
      BY <1>1, <2>3, <3>1, MarkerSteps DEF PrepareRecords, FinishUpdate, FinishRollback
    <3>4. CASE CopyBack
      BY <3>3, <3>4 DEF CopyBack, launcherVars
    <3>5. CASE RemoveLog
      <4>1. todo = Replacing
        <5>1. Head(todo) = "log" /\ Head(todo) \in Left
          BY <3>1, <3>5, HeadIsLeft DEF RemoveLog
        <5> QED BY <3>1, <5>1
      <4>2. todo' = Stores
        BY <3>5, <4>1 DEF RemoveLog, Replacing, Stores
      <4>3. Left' = Store
        BY <4>2 DEF Left, Store
      <4>4. log' = Missing /\ prepared' = prepared /\ \A s \in Store : prepared[s] # Missing
        BY <3>2, <3>5 DEF RemoveLog, Restored, copyVars
      <4> QED BY <3>3, <4>3, <4>4
    <3>6. CASE PutStoreBack
      <4> DEFINE p == Head(todo)
      <4>1. /\ Proceed("files", PutBackOrder) /\ p # "log" /\ log' = log
            /\ p \in Restored => /\ live' = [live EXCEPT ![p] = prepared[p]]
                                 /\ prepared' = [prepared EXCEPT ![p] = Missing]
        BY <3>6 DEF PutStoreBack
      <4>2. /\ todo # Replacing /\ p \in Left
        BY <3>1, <4>1, HeadIsLeft DEF Replacing
      <4>3. p \in Store /\ p \in Restored
        BY <3>1, <3>2, <4>2 DEF Restored
      <4>4. Copied(prepared[p])
        BY <3>1, <4>2, <4>3 DEF CopiesInv
      <4>5. p \notin Left' /\ Left = {p} \cup Left'
        BY <2>3, <3>1, <4>1, NextItem
      <4>6. /\ live'[p] = prepared[p]
            /\ \A s \in Store : s # p => live'[s] = live[s] /\ prepared'[s] = prepared[s]
        BY <4>1, <4>3 DEF Typed, DataTyped
      <4>7. \A s \in Store \cap Left' : prepared'[s] # Missing
        BY <3>1, <4>2, <4>5, <4>6
      <4>8. \A s \in Store \ Left' : Copied(live'[s])
        BY <3>1, <4>2, <4>4, <4>5, <4>6
      <4> QED BY <3>1, <3>3, <4>1, <4>2, <4>5, <4>7, <4>8
    <3>7. CASE ~CopyBack /\ ~RemoveLog /\ ~PutStoreBack
      <4>1. UNCHANGED <<pc, todo>>
        BY <2>3, <3>7, PhaseSteps
           DEF BeginUpdate, WaitForExit, ExitTooLate, PrepareRecords, PreparationFails, StageFails,
               InstallFails, StartServer, NoServerFile, PidNotSaved, AwaitReady, AwaitFails,
               ReadAnswer, NoAnswer, FinishUpdate, StopServer, StopNothing, StopFails,
               DecideRestore, KeepFailedData, PreserveFails, MarkRestore, RestoreFails,
               PutBackFails, FinishRollback, Kill, RollBackAgain, SnapshotStore, PrepareCopy,
               StageFile, UnstageFile, InstallFile, PreserveStore, PutFileBack, Starting,
               Awaiting, Goto
      <4>2. UNCHANGED dataVars
        BY <1>3, <2>3, <3>7, DataSteps
           DEF Stopped, SnapshotStore, StopServer, DecideRestore, PreserveStore
      <4>3. UNCHANGED <<snapshot, prepared>>
        BY <2>3, <3>7, CopySteps
           DEF SnapshotStore, PrepareCopy, PreparationFails, FinishUpdate, FinishRollback
      <4> QED BY <3>1, <3>3, <4>1, <4>2, <4>3 DEF dataVars, Left
    <3> QED BY <3>4, <3>5, <3>6, <3>7
  <2> QED BY <2>1, <2>2, <2>3, RollbackPhases
<1>6. (pc \in {"files"} \cup Restarted => Reads("old") /\ Paired)'
  <2> SUFFICES ASSUME pc' \in {"files"} \cup Restarted PROVE Reads("old")' /\ Paired'
    OBVIOUS
  <2>1. CASE DecideRestore
    <3>1. pc = "decide" /\ ~MustRestore /\ (Checkpointed \/ UNCHANGED dataVars)
      BY <2>1 DEF DecideRestore, RollbackFails, Publish, ThenRestore, Goto, Restarted
    <3>2. marker # "required" /\ ~WasUpgraded /\ (Full \/ Untouched)
      BY <3>1 DEF MustRestore, CopiesInv, RollingBack
    <3>3. \A s \in Store : ~live'[s].copy
      BY <1>1, <2>1, <3>1, <3>2, CheckpointKeepsData DEF RestoreInv, Typed
    <3>4. \A s \in Store : Data(s).format <= 0
      <4>1. \A s \in Store : Data(s).format \in 0 .. Unreadable
        BY DataIsTyped DEF Typed, Content
      <4>2. CASE Full
        BY <3>2, <4>1, <4>2 DEF WasUpgraded, Full, Copied, Original, Unreadable
      <4>3. CASE Untouched
        BY <4>3 DEF Untouched, Original
      <4> QED BY <3>2, <4>2, <4>3
    <3>5. \A s \in Store : Data(s)' = Data(s)
      BY <3>1, CheckpointKeepsData DEF Typed
    <3> QED BY <3>3, <3>4, <3>5 DEF Reads, Supports, Paired
  <2>2. CASE PutStoreBack
    <3> DEFINE p == Head(todo)
    <3>1. /\ pc = "restore" /\ Proceed("files", PutBackOrder) /\ p # "log" /\ log' = log
          /\ p \in Restored => live' = [live EXCEPT ![p] = prepared[p]]
          /\ Items(todo)
      BY <2>2 DEF PutStoreBack, TodoInv, Working
    <3>2. Full /\ \A s \in Store : snapshot[s] # Missing
      BY <3>1 DEF CopiesInv, Guarded, Full, Copied, Original, Missing
    <3>3. p \in Left /\ Left = {p}
      BY <3>1, NextItem DEF Restarted
    <3>4. /\ log = Missing /\ p \in Store /\ prepared[p] # Missing
          /\ \A s \in Store \ Left : Copied(live[s])
      <4>1. todo # Replacing
        BY <3>1 DEF Replacing
      <4> QED BY <1>1, <3>1, <3>3, <4>1 DEF RestoreInv
    <3>5. Copied(prepared[p]) /\ live' = [live EXCEPT ![p] = prepared[p]]
      BY <3>1, <3>2, <3>4 DEF CopiesInv, Restored
    <3>6. \A s \in Store : Copied(live'[s])
      BY <3>3, <3>4, <3>5 DEF Typed, DataTyped
    <3>7. \A s \in Store : Data(s)' = live'[s]
      BY <3>1, <3>4 DEF Data
    <3> QED BY <3>6, <3>7 DEF Reads, Supports, Paired, Copied, Original
  <2>3. CASE pc \in {"files"} \cup Restarted
    <3>1. Reads("old") /\ Paired /\ server.build # "new"
      <4>1. server = Down \/ server.build # "new"
        BY <1>1, <2>3 DEF ServerInv, Stopped, Restarted
      <4> QED BY <1>1, <2>3, <4>1, ServerModes DEF RestoreInv, Typed
    <3>2. ~PreserveStore /\ ~RemoveLog /\ ~PutStoreBack
      BY <2>3 DEF PreserveStore, RemoveLog, PutStoreBack, Restarted
    <3>3. live' = live
      <4>1. ~SnapshotStore /\ ~StopServer /\ ~DecideRestore /\ ~NewBuildWrites
        BY <2>3, <3>1 DEF SnapshotStore, StopServer, DecideRestore, NewBuildWrites, Restarted
      <4> QED BY <3>2, <4>1, DataSteps DEF dataVars, AcceptChange
    <3> QED BY <3>1, <3>2, <3>3, ReadableStays DEF Paired
  <2> QED BY <2>1, <2>2, <2>3, RollbackPhases
<1>7. (pc = "done" /\ result = "rollbackFailed" /\ snapshot = Nothing =>
         server.build # "new" /\ Reads("old"))'
  <2> SUFFICES ASSUME pc' = "done", result' = "rollbackFailed", snapshot' = Nothing
               PROVE  server'.build # "new" /\ Reads("old")'
    OBVIOUS
  <2>1. /\ Full => snapshot # Nothing
        /\ Untouched => server.build # "new" /\ Reads("old")
    BY DEF Full, Copied, Original, Nothing, Missing, Untouched, Reads, Supports
  <2>2. CASE FinishRollback
    <3>1. /\ server.build # "new" /\ Reads("old") /\ server' = server
      BY <1>1, <2>2 DEF FinishRollback, RestoreInv, ServerInv, Restarted
    <3>2. ~PreserveStore /\ ~RemoveLog /\ ~PutStoreBack
      BY <2>2 DEF FinishRollback, PreserveStore, RemoveLog, PutStoreBack
    <3> QED BY <3>1, <3>2, ReadableStays
  <2>3. CASE FinishUpdate
    <3>1. result = "none"
      BY <2>3 DEF FinishUpdate, ResultInv, Trying
    <3> QED BY <2>3, <3>1 DEF FinishUpdate, Publish
  <2>4. CASE ExitTooLate
    BY <2>4 DEF ExitTooLate
  <2>5. CASE DecideRestore \/ PutBackFails
    <3>1. /\ server' = server /\ snapshot' = snapshot /\ (Full \/ Untouched)
      BY <2>5 DEF DecideRestore, PutBackFails, CopiesInv, RollingBack, copyVars
    <3>2. ~PreserveStore /\ ~RemoveLog /\ ~PutStoreBack
      BY <2>5 DEF DecideRestore, PutBackFails, PreserveStore, RemoveLog, PutStoreBack
    <3> QED BY <2>1, <3>1, <3>2, ReadableStays
  <2>6. CASE RestoreFails
    BY <2>1, <2>6 DEF RestoreFails, CopiesInv, Guarded, copyVars
  <2>7. CASE NoServerFile \/ AwaitReady \/ AwaitFails
    <3>1. CASE pc \in {"restart", "await restart"}
      <4>1. result' \in {"none", "notPrepared", "notRestarted"}
        BY <2>7, <3>1 DEF NoServerFile, AwaitReady, AwaitFails, StartFailed, Publish, ResultInv
      <4> QED BY <4>1
    <3>2. CASE pc \in {"start rollback", "await rollback"}
      <4>1. server' = server /\ UNCHANGED dataVars
        BY <2>7 DEF NoServerFile, AwaitReady, AwaitFails
      <4>2. Reads("old") /\ server.build # "new"
        BY <1>1, <3>2, ServerModes DEF RestoreInv, ServerInv, Stopped, Restarted, Typed
      <4> QED BY <4>1, <4>2 DEF dataVars, Reads, Data
    <3>3. pc \in {"restart", "await restart", "start rollback", "await rollback"}
      BY <2>7 DEF NoServerFile, AwaitReady, AwaitFails, Starting, Awaiting, StartFailed, Goto
    <3> QED BY <3>1, <3>2, <3>3
  <2>8. CASE UNCHANGED <<pc, todo>>
    <3>1. result' = result
      BY <2>8, ResultSteps
         DEF ExitTooLate, NoServerFile, AwaitReady, AwaitFails, FinishUpdate, DecideRestore,
             RestoreFails, PutBackFails, FinishRollback, Starting, Awaiting
    <3>2. snapshot' = snapshot
      BY <2>8, CopiesStay DEF SnapshotStore, PreparationFails, FinishUpdate, FinishRollback
    <3>3. server.build # "new" /\ Reads("old")
      BY <1>1, <2>8, <3>1, <3>2 DEF RestoreInv
    <3>4. ~PreserveStore /\ ~RemoveLog /\ ~PutStoreBack
      BY <2>8 DEF PreserveStore, RemoveLog, PutStoreBack
    <3>5. server'.build # "new"
      <4>1. ~StartServer /\ ~PidNotSaved /\ ~ServerCommits /\ ~SupervisedStart /\ ~StopServer
        BY <1>1, <2>8 DEF StartServer, PidNotSaved, ServerCommits, StopServer, Starting
      <4>2. CASE UNCHANGED <<server, boots>>
        BY <3>3, <4>2
      <4>3. CASE OldServerLeaves
        BY <4>3, ServerModes DEF OldServerLeaves, Typed
      <4>4. CASE ServerReady
        <5>1. server' = [server EXCEPT !.mode = "up", !.tracked = TRUE] /\ server # Down
          BY <4>4, ServerModes DEF ServerReady, Typed
        <5> QED BY <3>3, <5>1, ServerModes DEF Typed
      <4>5. CASE ServerFails
        <5>1. \/ server' = Down
              \/ server' = [server EXCEPT !.mode = "broken", !.tracked = TRUE] /\ server # Down
          BY <4>5, ServerModes DEF ServerFails, Typed
        <5> QED BY <3>3, <5>1, ServerModes DEF Typed
      <4> QED BY <4>1, <4>2, <4>3, <4>4, <4>5, ServerSteps
    <3> QED BY <3>3, <3>4, <3>5, ReadableStays
  <2> QED BY <2>2, <2>3, <2>4, <2>5, <2>6, <2>7, <2>8, RollbackPhases
<1> QED BY <1>4, <1>5, <1>6, <1>7

-----------------------------------------------------------------------------
(* The result that is written down.                                        *)

\* A server that is up is left alone once the update is over.
LEMMA UpStays ==
  ASSUME LauncherInv, [LauncherNext]_launcherUpdateVars, pc = "done", pc' = "done",
         server.mode = "up", result # "refused", boots' = 0
  PROVE  boots = 0 /\ server' = server
<1>1. CASE UNCHANGED <<server, boots>>
  BY <1>1
<1>2. ~SupervisedStart
  <2>1. ASSUME SupervisedStart PROVE FALSE
    <3>1. boots' = boots + 1
      BY <2>1, Zenon DEF SupervisedStart
    <3>2. boots \in Int /\ boots >= 0
      BY DEF LauncherInv, Typed, LauncherTyped
    <3> QED BY <3>1, <3>2
  <2> QED BY <2>1
<1>3. ~StartServer /\ ~PidNotSaved /\ ~StopServer /\ ~ServerCommits
  BY DEF StartServer, PidNotSaved, StopServer, ServerCommits, Starting
<1>4. ~OldServerLeaves /\ ~ServerReady /\ ~ServerFails
  BY DEF OldServerLeaves, ServerReady, ServerFails
<1> QED BY <1>1, <1>2, <1>3, <1>4, ServerSteps

\* Nothing but the end of an update writes a result, and never after it.
LEMMA ResultStays ==
  ASSUME LauncherInv, [LauncherNext]_launcherUpdateVars, pc = "done"
  PROVE  /\ result' = result /\ UNCHANGED fileVars
         /\ pc' = "done" \/ result = "rollbackFailed"
<1>1. result' = result
  BY ResultSteps DEF ExitTooLate, NoServerFile, AwaitReady, AwaitFails, FinishUpdate, DecideRestore,
     RestoreFails, PutBackFails, FinishRollback, Starting, Awaiting
<1>2. UNCHANGED fileVars
  BY FileSteps DEF StageFile, UnstageFile, InstallFile, RemoveInstalled, PutFileBack
<1>3. ~Kill
  BY Zenon DEF Kill, Active
<1>4. pc' = "done" \/ result = "rollbackFailed"
  BY <1>3, RollbackPhases DEF RollBackAgain
<1> QED BY <1>1, <1>2, <1>4

\* The result says what is installed and what runs.
LEMMA ResultStep ==
  ASSUME LauncherInv, [LauncherNext]_launcherUpdateVars
  PROVE  ResultInv'
<1> USE SetupIsFixed DEF LauncherInv, First, Trying
<1>1. (result \notin {"none", "rollbackFailed"} => pc = "done")'
  <2>1. CASE result' = result
    <3>1. CASE pc = "done"
      BY <2>1, <3>1, ResultStays
    <3> QED BY <2>1, <3>1 DEF ResultInv
  <2>2. CASE result' # result
    BY <2>2, ResultSteps
       DEF ExitTooLate, NoServerFile, AwaitReady, AwaitFails, FinishUpdate, DecideRestore,
           RestoreFails, PutBackFails, FinishRollback, StartFailed, RollbackFails, ThenRestore,
           Publish, Goto
  <2> QED BY <2>1, <2>2
<1>2. (pc \in First \cup Trying \cup {"stage", "unstage", "undone", "install", "restart",
                                "await restart"} =>
         result = "none")'
  <2> USE DEF Goto
  <2>1. CASE UNCHANGED <<pc, todo>>
    <3>1. result' = result \/ pc' = "done"
      BY <2>1, ResultSteps
         DEF ExitTooLate, NoServerFile, AwaitReady, AwaitFails, FinishUpdate, DecideRestore,
             RestoreFails, PutBackFails, FinishRollback, StartFailed, RollbackFails, ThenRestore,
             Publish
    <3> QED BY <2>1, <3>1 DEF ResultInv
  <2>2. CASE BeginUpdate
    BY <2>2 DEF ResultInv, BeginUpdate
  <2>3. CASE WaitForExit
    BY <2>3 DEF ResultInv, WaitForExit
  <2>4. CASE PrepareRecords
    BY <2>4 DEF ResultInv, PrepareRecords
  <2>5. CASE PreparationFails
    BY <2>5 DEF ResultInv, PreparationFails
  <2>6. CASE StageFails
    BY <2>6 DEF ResultInv, StageFails
  <2>7. CASE InstallFails
    BY <2>7 DEF ResultInv, InstallFails
  <2>8. CASE StartServer
    BY <2>8 DEF ResultInv, StartServer, Starting, AwaitOf
  <2>9. CASE PidNotSaved
    BY <2>9 DEF ResultInv, PidNotSaved
  <2>10. CASE ReadAnswer
    BY <2>10 DEF ResultInv, ReadAnswer
  <2>11. CASE NoAnswer
    BY <2>11 DEF ResultInv, NoAnswer
  <2>12. CASE StopServer
    BY <2>12 DEF ResultInv, StopServer
  <2>13. CASE StopNothing
    BY <2>13 DEF ResultInv, StopNothing
  <2>14. CASE StopFails
    BY <2>14 DEF ResultInv, StopFails
  <2>15. CASE KeepFailedData
    BY <2>15 DEF ResultInv, KeepFailedData
  <2>16. CASE PreserveFails
    BY <2>16 DEF ResultInv, PreserveFails
  <2>17. CASE MarkRestore
    BY <2>17 DEF ResultInv, MarkRestore
  <2>18. CASE Kill
    BY <2>18 DEF ResultInv, Kill
  <2>19. CASE RollBackAgain
    BY <2>19 DEF ResultInv, RollBackAgain
  <2>20. CASE SnapshotStore
    BY <2>20 DEF ResultInv, SnapshotStore, Proceed
  <2>21. CASE PrepareCopy
    BY <2>21 DEF ResultInv, PrepareCopy, Proceed
  <2>22. CASE StageFile
    BY <2>22 DEF ResultInv, StageFile, Proceed
  <2>23. CASE UnstageFile
    BY <2>23 DEF ResultInv, UnstageFile, Proceed
  <2>24. CASE InstallFile
    BY <2>24 DEF ResultInv, InstallFile, Proceed
  <2>25. CASE PreserveStore
    BY <2>25 DEF ResultInv, PreserveStore, Proceed
  <2>26. CASE PutStoreBack
    BY <2>26 DEF ResultInv, PutStoreBack, Proceed
  <2>27. CASE PutFileBack
    BY <2>27 DEF ResultInv, PutFileBack, Proceed
  <2>28. CASE RemoveLog
    BY <2>28 DEF ResultInv, RemoveLog
  <2>29. CASE NoServerFile
    BY <2>29 DEF ResultInv, NoServerFile, StartFailed, Publish, Starting, Awaiting
  <2>30. CASE AwaitReady
    BY <2>30 DEF ResultInv, AwaitReady, StartFailed, Publish, Starting, Awaiting
  <2>31. CASE AwaitFails
    BY <2>31 DEF ResultInv, AwaitFails, StartFailed, Publish, Starting, Awaiting
  <2>32. CASE DecideRestore
    BY <2>32 DEF ResultInv, DecideRestore, ThenRestore, RollbackFails, Publish
  <2>33. CASE ExitTooLate
    BY <2>33 DEF ResultInv, ExitTooLate
  <2>34. CASE FinishUpdate
    BY <2>34 DEF ResultInv, FinishUpdate, Publish
  <2>35. CASE RestoreFails
    BY <2>35 DEF ResultInv, RestoreFails
  <2>36. CASE PutBackFails
    BY <2>36 DEF ResultInv, PutBackFails
  <2>37. CASE FinishRollback
    BY <2>37 DEF ResultInv, FinishRollback, Publish
  <2> QED BY <2>1, <2>2, <2>3, <2>4, <2>5, <2>6, <2>7, <2>8, <2>9, <2>10, <2>11, <2>12,
             <2>13, <2>14, <2>15, <2>16, <2>17, <2>18, <2>19, <2>20, <2>21, <2>22, <2>23,
             <2>24, <2>25, <2>26, <2>27, <2>28, <2>29, <2>30, <2>31, <2>32, <2>33, <2>34,
             <2>35, <2>36, <2>37, PhaseSteps
<1>3. (pc = "done" /\ result = "succeeded" => \A p \in ToSet(Managed) : installed[p] = "new")'
  <2> SUFFICES ASSUME pc' = "done", result' = "succeeded"
               PROVE  \A p \in ToSet(Managed) : installed'[p] = "new"
    BY SetupIsFixed
  <2>1. CASE pc = "done"
    BY <2>1, ResultStays DEF ResultInv, fileVars
  <2>2. CASE pc # "done"
    <3>1. FinishUpdate
      <4>1. result # "succeeded"
        BY <2>2 DEF ResultInv
      <4> QED BY <4>1, ResultSteps
              DEF ExitTooLate, NoServerFile, AwaitReady, AwaitFails, DecideRestore, RestoreFails,
                  PutBackFails, FinishRollback, StartFailed, RollbackFails, ThenRestore, Publish
    <3> QED BY <3>1 DEF FinishUpdate, FilesInv, fileVars
  <2> QED BY <2>1, <2>2
<1>4. (pc = "done" /\ boots = 0 /\ ~excused =>
        /\ result = "succeeded" => server.build = "new" /\ server.mode = "up" /\ server.gate # "closed"
        /\ result \in {"restored", "notPrepared"} => server.build = "old" /\ server.mode = "up"
        /\ result = "restored" => \A p \in OldFiles : installed[p] = "old")'
  <2> SUFFICES ASSUME pc' = "done", boots' = 0, ~excused'
               PROVE  /\ result' = "succeeded" =>
                           server'.build = "new" /\ server'.mode = "up" /\ server'.gate # "closed"
                      /\ result' \in {"restored", "notPrepared"} =>
                           server'.build = "old" /\ server'.mode = "up"
                      /\ result' = "restored" => \A p \in OldFiles : installed'[p] = "old"
    BY SetupIsFixed
  <2>1. ~excused
    BY ExcusesStay
  <2>2. CASE pc = "done"
    <3>1. result' = result /\ UNCHANGED fileVars
      BY <2>2, ResultStays
    <3>2. boots = 0
      <4>1. ASSUME SupervisedStart PROVE FALSE
        <5>1. boots' = boots + 1
          BY <4>1, Zenon DEF SupervisedStart
        <5>2. boots \in Int /\ boots >= 0
          BY DEF Typed, LauncherTyped
        <5> QED BY <5>1, <5>2
      <4> QED BY <4>1, BootSteps
    <3> QED BY <2>1, <2>2, <3>1, <3>2, UpStays DEF ResultInv, fileVars
  <2>3. CASE pc # "done"
    <3>1. result \in {"none", "rollbackFailed"}
      BY <2>3 DEF ResultInv
    <3>2. CASE FinishUpdate
      BY <3>1, <3>2 DEF FinishUpdate, Publish, ServerInv
    <3>3. CASE FinishRollback
      <4>1. server.build = "old" /\ server.mode = "up" /\ server' = server
        BY <2>1, <3>3, ServerModes DEF FinishRollback, ServerInv, Typed
      <4>2. \A p \in OldFiles : installed[p] = "old"
        BY <3>3 DEF FinishRollback, FilesInv, Restarted
      <4>3. result' \in {"restored", result} /\ installed' = installed
        BY <3>3 DEF FinishRollback, Publish, fileVars
      <4> QED BY <3>1, <4>1, <4>2, <4>3
    <3>4. CASE AwaitReady
      <4>1. server.mode = "up" /\ server' = server
        BY <3>4 DEF AwaitReady
      <4>2. /\ result' \in {"notPrepared", result}
            /\ result' # result => pc = "await restart"
        BY <3>4 DEF AwaitReady, Awaiting, Publish
      <4>3. pc = "await restart" => server.build = "old"
        BY <4>1, ServerModes DEF ServerInv, Typed
      <4> QED BY <3>1, <4>1, <4>2, <4>3
    <3>5. CASE ~FinishUpdate /\ ~FinishRollback /\ ~AwaitReady
      <4>1. result' \notin {"succeeded", "restored", "notPrepared"}
        BY <3>1, <3>5, ResultSteps
           DEF ExitTooLate, NoServerFile, AwaitFails, DecideRestore, RestoreFails, PutBackFails,
               StartFailed, RollbackFails, ThenRestore, Publish
      <4> QED BY <4>1
    <3> QED BY <3>2, <3>3, <3>4, <3>5
  <2> QED BY <2>2, <2>3
<1> QED BY <1>1, <1>2, <1>3, <1>4 DEF ResultInv

-----------------------------------------------------------------------------
(* The invariant, and what follows from it.                                *)

\* An installation in order, with its server up, satisfies it.
LEMMA InitInv == LauncherInit => LauncherInv
<1> SUFFICES ASSUME LauncherInit PROVE LauncherInv
  OBVIOUS
<1> USE StoresAndFiles, LauncherAssumption DEF LauncherInit
<1>1. FilesTyped /\ LauncherTyped
  <2>1. FilesTyped
    BY DEF FilesTyped, Parts, File
  <2>2. LauncherTyped
    <3>1. marker = "none" /\ pc = "idle" /\ answer = "none" /\ result = "none" /\ boots = 0
      OBVIOUS
    <3>2. stopped \in BOOLEAN /\ excused \in BOOLEAN
      BY Zenon
    <3> QED BY ONLY <3>1, <3>2 DEF LauncherTyped, Phase, Result
  <2> QED BY <2>1, <2>2
<1>2. DataTyped
  <2>1. Missing \in Content
    BY DEF Missing, Content, Unreadable
  <2>2. [format |-> 0, by |-> "old", changes |-> {}, copy |-> FALSE] \in Content
    BY DEF Content, Unreadable
  <2> QED BY <2>1, <2>2 DEF DataTyped, Nothing
<1>3. server \in Server
  BY DEF Server
<1>4. TodoInv
  BY DEF TodoInv, Working
<1>5. FilesInv
  BY DEF FilesInv, First, Trying, Restarted, Parts, OldFiles
<1>6. ServerInv
  BY DEF ServerInv, NotStarted, Stopped
<1>7. CopiesInv
  <2>1. \A s \in Store : Data(s) = live[s]
    BY DEF Data
  <2>2. Untouched
    BY <2>1 DEF Untouched, Original, Parts
  <2>3. \A s \in Store : prepared[s] = Missing
    BY DEF Nothing
  <2> QED BY <2>2, <2>3 DEF CopiesInv, First, Guarded, RollingBack
<1>8. RestoreInv
  BY DEF RestoreInv, Restarted
<1>9. ResultInv
  BY DEF ResultInv
<1> QED BY <1>1, <1>2, <1>3, <1>4, <1>5, <1>6, <1>7, <1>8, <1>9 DEF LauncherInv, Typed

\* The invariant holds of every reachable state, for any setup and any bounds.
THEOREM LauncherInvariant == LauncherSpec => []LauncherInv
<1>1. LauncherInv /\ [LauncherNext]_launcherUpdateVars => LauncherInv'
  <2> SUFFICES ASSUME LauncherInv, [LauncherNext]_launcherUpdateVars PROVE LauncherInv'
    OBVIOUS
  <2>1. Typed'
    BY FilesAreTyped, DataAreTyped, ServerIsTyped, LauncherIsTyped DEF Typed
  <2> QED BY <2>1, TodoStep, FilesStep, ServerStepKeeps, CopiesStep, RestoreStep, ResultStep
          DEF LauncherInv
<1> QED BY <1>1, InitInv, PTL DEF LauncherSpec

\* A way back is kept until the update is decided: every file of the old
\* version is installed or in the backup, and the old build can read its data
\* or both of its stores can be restored (stage_installed_files,
\* restore_backed_up, take_snapshot, restore_data of launcher/src/main.rs).
THEOREM LauncherKeepsAWayBack == LauncherSpec => []WayBackIsKept
<1>1. LauncherInv => WayBackIsKept
  <2> SUFFICES ASSUME LauncherInv PROVE WayBackIsKept
    OBVIOUS
  <2> USE DEF LauncherInv
  <2>1. \A p \in OldFiles : "old" \in {installed[p], backup[p]}
    BY DEF FilesInv
  <2>2. Untouched => Reads("old")
    BY DEF Untouched, Reads, Supports, Original
  <2>3. Full => \A s \in Store : snapshot[s].format = 0 /\ snapshot[s].by = "old"
    BY DEF Full, Copied, Original
  <2>4. CASE Active /\ pc \notin {"wait", "snapshot", "copies", "records", "unstage", "restart",
                                  "await restart", "accept", "clean"}
    <3>1. pc \in Guarded \cup RollingBack
      BY <2>4 DEF Active, Typed, LauncherTyped, Phase, Guarded, RollingBack
    <3> QED BY <2>1, <2>2, <2>3, <3>1 DEF CopiesInv, WayBackIsKept
  <2>5. CASE pc = "done" /\ result = "rollbackFailed" /\ (excused => snapshot # Nothing)
    <3>1. CASE snapshot # Nothing
      BY <2>1, <2>2, <2>3, <2>5, <3>1 DEF CopiesInv, WayBackIsKept
    <3>2. CASE snapshot = Nothing
      BY <2>1, <2>5, <3>2 DEF RestoreInv, WayBackIsKept
    <3> QED BY <3>1, <3>2
  <2> QED BY <2>1, <2>4, <2>5 DEF WayBackIsKept, Undecided
<1> QED BY <1>1, LauncherInvariant, PTL

\* A rollback starts the old build only on a pair of stores it can read
\* (roll_back_update, restore_data).
THEOREM LauncherStartsOldBuildOnItsData == LauncherSpec => []OldBuildReadsItsData
<1>1. LauncherInv => OldBuildReadsItsData
  BY DEF LauncherInv, RestoreInv, Restarted, Paired, OldBuildReadsItsData
<1> QED BY <1>1, LauncherInvariant, PTL

\* The result that is written down is true of what is installed and runs
\* (write_update_result after apply_update and roll_back_update).
THEOREM LauncherReportsTheTruth == LauncherSpec => []ResultIsTrue
<1>1. LauncherInv => ResultIsTrue
  <2> SUFFICES ASSUME LauncherInv, ~Active, boots = 0, ~excused
               PROVE  /\ result = "succeeded" =>
                           /\ \A p \in ToSet(Managed) : installed[p] = "new"
                           /\ server.build = "new" /\ server.gate # "closed"
                      /\ result \in {"restored", "notPrepared"} => server.build = "old"
                      /\ result = "restored" => \A p \in OldFiles : installed[p] = "old"
    BY DEF ResultIsTrue
  <2> QED BY DEF LauncherInv, ResultInv
<1> QED BY <1>1, LauncherInvariant, PTL

-----------------------------------------------------------------------------
(* Nothing is lost.                                                        *)

\* What was acknowledged before the update, and whether a database has it.
Before == acked \cap {"before"}
Holds(content) == content # Missing => Before \subseteq content.changes

Uncertain == {"preserve", "keep", "mark", "restore", "stop", "decide", "dead", "done"}
Keeping == {"preserve", "keep", "mark"}
Late == Uncertain \cup {"files"} \cup Restarted

\* Every database there is has what was acknowledged before the update, and
\* one of them is there.
BeforeInv ==
  /\ Holds(Data("database")) /\ Holds(prepared["database"])
  /\ snapshot["database"] = Missing => prepared["database"] = Missing
  /\ snapshot["database"] # Missing =>
       Holds(live["database"]) /\ Holds(log) /\ Holds(snapshot["database"])
  /\ snapshot = Nothing \/ pc \notin Uncertain => Data("database") # Missing
  /\ server.build = "new" => Data("database") # Missing

\* What a committed build acknowledged is in the data, and that build runs.
AfterInv ==
  /\ acked \subseteq {"before", "after"}
  /\ server.gate = "open" /\ ~unclear =>
       /\ server.mode = "up" /\ server.build = "new"
       /\ pc \in {"commit", "accept", "dead", "done"}
       /\ pc = "commit" => answer = "committed"
  /\ "after" \in acked /\ ~unclear =>
       server.gate = "open" /\ "after" \in Data("database").changes

\* No file that was put back is kept, nor a log of one.
OriginalsInv ==
  /\ \A s \in Store : ~kept[s].copy
  /\ ~log.copy
  /\ log # Missing => ~live["database"].copy
  /\ server.build = "new" => \A s \in Store : ~live[s].copy
  /\ marker = "required" => pc \in Late \ Keeping
  /\ kept # Nothing \/ whole => pc \in Late /\ server.build # "new"

PreservingLists == {Preserving, <<"identities", "log">>, <<"log">>}

\* What is moved away is kept, and what is kept without links was moved.
MovedInv ==
  /\ \A s \in Store : live[s] = Missing => kept[s] # Missing
  /\ pc = "preserve" =>
       /\ todo \in PreservingLists
       /\ \A s \in Store \ Left : kept[s] # Missing
  /\ pc = "keep" \/ whole => \A s \in Store : kept[s] # Missing
  /\ ~setup.links /\ marker # "required" /\ snapshot # Nothing =>
       \A s \in Store : kept[s] # Missing => live[s] = Missing

\* Still to be kept, or kept.
ByNew(content) == content.by = "new"
Due(item) == pc = "preserve" => item \in Left
Keeps(s) ==
  \/ ByNew(kept[s])
  \/ /\ kept[s] = Missing /\ ByNew(live[s])
     /\ Due(s) /\ pc # "keep"
  \/ /\ s = "database" /\ ByNew(log)
     /\ Due("log") /\ pc # "keep"

\* What the failed build wrote to its database it wrote to the log, if any.
LogIsNewest ==
  log # Missing /\ (ByNew(live["database"]) \/ ByNew(kept["database"])) => ByNew(log)

\* What the failed build wrote is on its way to the kept data.
WrittenInv ==
  /\ written \subseteq Store
  /\ whole => log = Missing /\ \A s \in written : ByNew(kept[s])
  /\ (/\ ~whole
      /\ \/ pc \in {"preserve", "keep"}
         \/ marker # "required" /\ kept # Nothing /\ snapshot # Nothing)
     => \A s \in written : Keeps(s)
  /\ pc = "keep" => log = Missing
  /\ LogIsNewest

\* A final result comes without a snapshot.
FinalInv ==
  result \in {"succeeded", "restored", "notPrepared", "notRestarted"} => snapshot = Nothing

LossInv ==
  ~excused => BeforeInv /\ AfterInv /\ OriginalsInv /\ MovedInv /\ WrittenInv /\ FinalInv

-----------------------------------------------------------------------------
(* The steps, once more.                                                   *)

\* The steps that change what was promised, kept or answered.
LEMMA HistorySteps ==
  ASSUME [LauncherNext]_launcherUpdateVars
  PROVE  /\ UNCHANGED acked \/ AcceptChange
         /\ UNCHANGED written \/ DecideRestore
         /\ UNCHANGED whole \/ KeepFailedData
         /\ UNCHANGED unclear \/ NoAnswer \/ Kill
         /\ UNCHANGED answer \/ ServerCommits \/ ReadAnswer \/ NoAnswer \/ Kill
BY DEF launcherVars, copyVars, historyVars, launcherUpdateVars, LauncherNext, LauncherStep,
       ServerStep, Settled,
       BeginUpdate, WaitForExit, ExitTooLate, SnapshotStore, PrepareCopy, PrepareRecords,
       PreparationFails, StageFile, StageFails, UnstageFile, InstallFile, InstallFails,
       StartServer, NoServerFile, PidNotSaved, AwaitReady, AwaitFails, ReadAnswer,
       NoAnswer, FinishUpdate, StopServer, StopNothing, StopFails, DecideRestore,
       PreserveStore, KeepFailedData, PreserveFails, MarkRestore, CopyBack, RemoveLog,
       PutStoreBack, RestoreFails, RemoveInstalled, PutFileBack, PutBackFails,
       FinishRollback, OldServerLeaves, NewBuildWrites, ServerReady, ServerFails,
       ServerCommits, AcceptChange, Kill, RollBackAgain, SupervisedStart

\* From a rollback, or after it, there is no way to another update.
LEMMA LatePhases ==
  ASSUME LauncherInv, [LauncherNext]_launcherUpdateVars
  PROVE  /\ pc \in Late => pc' \in Late
         /\ pc \in Uncertain => pc' \in Uncertain \cup {"files"}
         /\ pc \in Late \ Keeping => pc' \in Late \ Keeping \/ DecideRestore
         /\ pc' = "preserve" => UNCHANGED <<pc, todo>> \/ PreserveStore \/ DecideRestore
         /\ pc' = "keep" => UNCHANGED <<pc, todo>> \/ PreserveStore
<1> USE DEF Late, Uncertain, Keeping, Restarted, Goto
<1>1. CASE UNCHANGED <<pc, todo>>
  BY <1>1
<1>2. CASE BeginUpdate
  BY <1>2 DEF BeginUpdate
<1>3. CASE WaitForExit
  BY <1>3 DEF WaitForExit
<1>4. CASE PrepareRecords
  BY <1>4 DEF PrepareRecords
<1>5. CASE PreparationFails
  BY <1>5 DEF PreparationFails
<1>6. CASE StageFails
  BY <1>6 DEF StageFails
<1>7. CASE InstallFails
  BY <1>7 DEF InstallFails
<1>8. CASE StartServer
  BY <1>8 DEF StartServer, Starting, AwaitOf
<1>9. CASE PidNotSaved
  BY <1>9 DEF PidNotSaved
<1>10. CASE ReadAnswer
  BY <1>10 DEF ReadAnswer
<1>11. CASE NoAnswer
  BY <1>11 DEF NoAnswer
<1>12. CASE StopServer
  BY <1>12 DEF StopServer
<1>13. CASE StopNothing
  BY <1>13 DEF StopNothing
<1>14. CASE StopFails
  BY <1>14 DEF StopFails
<1>15. CASE KeepFailedData
  BY <1>15 DEF KeepFailedData
<1>16. CASE PreserveFails
  BY <1>16 DEF PreserveFails
<1>17. CASE MarkRestore
  BY <1>17 DEF MarkRestore
<1>18. CASE Kill
  BY <1>18 DEF Kill
<1>19. CASE RollBackAgain
  BY <1>19 DEF RollBackAgain
<1>20. CASE SnapshotStore
  BY <1>20 DEF SnapshotStore, Proceed
<1>21. CASE PrepareCopy
  BY <1>21 DEF PrepareCopy, Proceed
<1>22. CASE StageFile
  BY <1>22 DEF StageFile, Proceed
<1>23. CASE UnstageFile
  BY <1>23 DEF UnstageFile, Proceed
<1>24. CASE InstallFile
  BY <1>24 DEF InstallFile, Proceed
<1>25. CASE PreserveStore
  BY <1>25 DEF PreserveStore, Proceed
<1>26. CASE PutStoreBack
  BY <1>26 DEF PutStoreBack, Proceed
<1>27. CASE PutFileBack
  BY <1>27 DEF PutFileBack, Proceed
<1>28. CASE RemoveLog
  BY <1>28 DEF RemoveLog
<1>29. CASE NoServerFile
  BY <1>29 DEF NoServerFile, StartFailed, Publish, Starting, Awaiting
<1>30. CASE AwaitReady
  BY <1>30 DEF AwaitReady, StartFailed, Publish, Starting, Awaiting
<1>31. CASE AwaitFails
  BY <1>31 DEF AwaitFails, StartFailed, Publish, Starting, Awaiting
<1>32. CASE DecideRestore
  BY <1>32 DEF DecideRestore, ThenRestore, RollbackFails, Publish
<1>33. CASE ExitTooLate
  BY <1>33 DEF ExitTooLate
<1>34. CASE FinishUpdate
  BY <1>34 DEF FinishUpdate, Publish
<1>35. CASE RestoreFails
  BY <1>35 DEF RestoreFails
<1>36. CASE PutBackFails
  BY <1>36 DEF PutBackFails
<1>37. CASE FinishRollback
  BY <1>37 DEF FinishRollback, Publish
<1> QED BY <1>1, <1>2, <1>3, <1>4, <1>5, <1>6, <1>7, <1>8, <1>9, <1>10, <1>11, <1>12,
           <1>13, <1>14, <1>15, <1>16, <1>17, <1>18, <1>19, <1>20, <1>21, <1>22, <1>23,
           <1>24, <1>25, <1>26, <1>27, <1>28, <1>29, <1>30, <1>31, <1>32, <1>33, <1>34,
           <1>35, <1>36, <1>37, PhaseSteps

\* Only a trial starts a new build.
LEMMA NewServerIsTrial ==
  ASSUME LauncherInv, [LauncherNext]_launcherUpdateVars, ~excused', server'.build = "new"
  PROVE  server.build = "new" \/ pc = "start trial"
<1> USE DEF LauncherInv
<1>1. CASE UNCHANGED <<server, boots>>
  BY <1>1
<1>2. CASE StartServer
  <2>1. /\ pc \in Starting
        /\ server' = server \/ server'.build = installed["server"]
    <3>1. /\ pc \in Starting
          /\ server' = server \/ \E gate \in {"none", "closed"} : Spawned(installed["server"], gate, TRUE)
      BY <1>2 DEF StartServer
    <3> QED BY <3>1 DEF Spawned
  <2>2. "server" \in OldFiles /\ "server" \in Parts
    BY StoresAndFiles DEF Parts
  <2>3. pc # "start trial" => installed["server"] # "new"
    BY <2>1, <2>2 DEF FilesInv, Restarted, Starting
  <2> QED BY <2>1, <2>3
<1>3. CASE StopServer \/ OldServerLeaves
  BY <1>3, ServerModes DEF StopServer, OldServerLeaves, Typed
<1>4. CASE ServerReady
  <2>1. server # Down /\ server' = [server EXCEPT !.mode = "up", !.tracked = TRUE]
    BY <1>4, ServerModes DEF ServerReady, Typed
  <2> QED BY <2>1, ServerModes DEF Typed
<1>5. CASE ServerFails
  <2>1. \/ server' = Down
        \/ server' = [server EXCEPT !.mode = "broken", !.tracked = TRUE] /\ server # Down
    BY <1>5, ServerModes DEF ServerFails, Typed
  <2> QED BY <2>1, ServerModes DEF Typed
<1>6. CASE ServerCommits
  <2>1. server' = server \/ (server' = [server EXCEPT !.gate = "open"] /\ server # Down)
    BY <1>6, ServerModes DEF ServerCommits, Typed
  <2> QED BY <2>1, ServerModes DEF Typed
<1>7. CASE SupervisedStart
  <2>1. pc = "idle"
    BY <1>7, ExcusesStay DEF LauncherInv
  <2>2. installed["server"] # "new"
    BY <2>1 DEF FilesInv, First, Parts
  <2>3. server' = Down \/ server'.build = installed["server"]
    <3>1. server' = Down \/ Spawned(installed["server"], "none", TRUE)
      BY <1>7, Zenon DEF SupervisedStart
    <3> QED BY <3>1 DEF Spawned
  <2> QED BY <2>2, <2>3, ServerModes DEF Typed
<1> QED BY <1>1, <1>2, <1>3, <1>4, <1>5, <1>6, <1>7, ServerSteps, ExcusesStay

\* Where nothing runs nothing is written.
LEMMA StoppedIsQuiet ==
  ASSUME LauncherInv, ~excused, pc \in Stopped
  PROVE  server = Down /\ server.build = "none" /\ ~NewBuildWrites /\ ~AcceptChange
<1>1. server = Down
  BY DEF LauncherInv, ServerInv
<1>2. server.mode = "down" /\ server.build = "none"
  BY <1>1 DEF Down
<1> QED BY <1>1, <1>2 DEF NewBuildWrites, AcceptChange

-----------------------------------------------------------------------------
(* What the data become.                                                   *)

\* Both stores are stores.
LEMMA TwoStores == "database" \in Store /\ "identities" \in Store /\ "log" \notin Store
BY StoresAndFiles

\* A checkpoint puts the log into its database.
LEMMA CheckpointMerges ==
  ASSUME DataTyped, OriginalsInv, Checkpointed \/ UNCHANGED dataVars
  PROVE  \/ UNCHANGED dataVars
         \/ /\ log # Missing /\ live["database"] # Missing /\ Data("database") = log
            /\ live' = [live EXCEPT !["database"] = log] /\ log' = Missing
            /\ kept' = IF Linked THEN [kept EXCEPT !["database"] = log] ELSE kept
<1>1. CASE UNCHANGED dataVars
  BY <1>1
<1>2. CASE Checkpointed /\ ~UNCHANGED dataVars
  <2>1. /\ log # Missing /\ live["database"] # Missing
        /\ InFile("database", Data("database")) /\ log' = Missing
    BY <1>2 DEF Checkpointed
  <2>2. log.copy = live["database"].copy
    <3>1. log.copy \in BOOLEAN /\ live["database"].copy \in BOOLEAN
      BY TwoStores DEF DataTyped, Content
    <3> QED BY <2>1, <3>1 DEF OriginalsInv
  <2>3. Data("database") = log
    BY <2>1, <2>2 DEF Data
  <2> QED BY <2>1, <2>3 DEF InFile
<1> QED BY <1>1, <1>2

\* What the new build writes is its own, and nothing is kept yet.
LEMMA NewBuildsData ==
  ASSUME LauncherInv, OriginalsInv, NewBuildWrites
  PROVE  /\ kept = Nothing /\ kept' = kept
         /\ \E s \in Store, content \in Content :
              /\ content.by = "new" /\ content.copy = FALSE /\ content # Missing
              /\ content.changes = Data(s).changes
              /\ \/ s = "database" /\ log' = content /\ live' = live
                 \/ /\ live' = [live EXCEPT ![s] = content]
                    /\ log' = IF s = "database" THEN Missing ELSE log
<1>1. kept = Nothing
  BY DEF NewBuildWrites, OriginalsInv
<1>2. ~Linked
  BY <1>1, TwoStores DEF Linked, Nothing
<1>3. PICK s \in Store, f \in 0 .. Unreadable :
        \/ /\ s = "database" /\ UNCHANGED <<live, kept>>
           /\ log' = [Data(s) EXCEPT !.format = f, !.by = "new", !.copy = live[s].copy]
        \/ /\ InFile(s, [Data(s) EXCEPT !.format = f, !.by = "new", !.copy = live[s].copy])
           /\ log' = IF s = "database" THEN Missing ELSE log
  BY DEF NewBuildWrites
<1>4. PICK content : content = [Data(s) EXCEPT !.format = f, !.by = "new", !.copy = live[s].copy]
  OBVIOUS
<1>5. live[s] \in Content /\ Data(s) \in Content
  BY DataIsTyped DEF LauncherInv, Typed, DataTyped
<1>6. live[s].copy = FALSE
  BY <1>5 DEF NewBuildWrites, OriginalsInv, Content
<1>7. /\ content \in Content /\ content.by = "new" /\ content.copy = FALSE
      /\ content.changes = Data(s).changes
  BY <1>4, <1>5, <1>6 DEF Content
<1>8. content # Missing
  BY <1>7 DEF Missing
<1>9. /\ kept' = kept
      /\ \/ s = "database" /\ log' = content /\ live' = live
         \/ /\ live' = [live EXCEPT ![s] = content]
            /\ log' = IF s = "database" THEN Missing ELSE log
  BY <1>2, <1>3, <1>4 DEF InFile
<1> QED BY <1>1, <1>7, <1>8, <1>9

\* A change that is accepted goes to the log of the database that is there.
LEMMA AcceptedData ==
  ASSUME LauncherInv, BeforeInv, OriginalsInv, AcceptChange
  PROVE  /\ Data("database") # Missing /\ live["database"] # Missing
         /\ live' = live /\ kept' = kept /\ log' \in Content /\ log' # Missing
         /\ log'.copy = FALSE /\ log'.by = Data("database").by
         /\ Data("database")' = log' /\ live["database"].copy = FALSE
         /\ \E change \in {"before", "after"} :
              /\ change = "before" => pc \in {"idle", "wait"}
              /\ change = "after" => server.build = "new"
              /\ log'.changes = Data("database").changes \cup {change}
              /\ \/ acked' = acked
                 \/ /\ acked' = acked \cup {change}
                    /\ change = "before" \/ server.gate = "open"
<1> USE TwoStores DEF LauncherInv, Typed
<1>1. PICK change \in {"before", "after"} :
        /\ change = "before" => pc \in {"idle", "wait"}
        /\ change = "after" => server.build = "new"
        /\ log' = [Data("database") EXCEPT !.changes = @ \cup {change}]
        /\ acked' = IF change = "before" \/ server.gate = "open"
                      THEN acked \cup {change} ELSE acked
  BY DEF AcceptChange
<1>2. Data("database") # Missing
  BY <1>1 DEF BeforeInv, Uncertain
<1>3. /\ Data("database") \in Content /\ live["database"] \in Content /\ log \in Content
      /\ live["database"] # Missing /\ Data("database").copy = live["database"].copy
  BY <1>2, DataIsTyped DEF Data, DataTyped
<1>4. live["database"].copy = FALSE
  <2>1. CASE pc \in {"idle", "wait"}
    BY <1>3, <2>1 DEF CopiesInv, First, Untouched, Content
  <2>2. CASE server.build = "new"
    BY <1>3, <2>2 DEF OriginalsInv, Content
  <2> QED BY <1>1, <2>1, <2>2
<1>5. /\ log' \in Content /\ log'.by = Data("database").by /\ log'.copy = FALSE
      /\ log'.changes = Data("database").changes \cup {change}
  BY <1>1, <1>3, <1>4 DEF Content
<1>6. log' # Missing
  BY <1>5 DEF Missing
<1>7. live' = live /\ kept' = kept
  BY DEF AcceptChange
<1>8. Data("database")' = log'
  BY <1>3, <1>4, <1>5, <1>6, <1>7 DEF Data
<1> QED BY <1>1, <1>2, <1>3, <1>4, <1>5, <1>6, <1>7, <1>8

\* Two copies are two files.
LEMMA FullIsThere == Full => snapshot["database"] # Missing /\ snapshot # Nothing
<1> SUFFICES ASSUME Full PROVE snapshot["database"] # Missing /\ snapshot # Nothing
  OBVIOUS
<1>1. snapshot["database"].format = 0
  BY TwoStores DEF Full, Copied, Original
<1>2. Missing.format # 0
  BY DEF Missing, Unreadable
<1>3. snapshot["database"] # Missing
  BY <1>1, <1>2
<1> QED BY <1>3, TwoStores DEF Nothing

-----------------------------------------------------------------------------
(* What was acknowledged before the update.                                *)

\* The data go missing while they are moved away, and not otherwise.
LEMMA DataStayThere ==
  ASSUME LauncherInv, BeforeInv, OriginalsInv, [LauncherNext]_launcherUpdateVars,
         ~excused, Data("database") # Missing, Data("database")' = Missing
  PROVE  PreserveStore
<1> USE TwoStores DEF LauncherInv, Typed
<1>1. Data("database") \in Content /\ live["database"] # Missing /\ live["database"] \in Content
  BY DataIsTyped DEF Data, DataTyped
<1>2. ~UNCHANGED dataVars
  BY DEF dataVars, Data
<1>3. ~SnapshotStore /\ ~StopServer /\ ~DecideRestore
  BY CheckpointKeepsData DEF SnapshotStore, StopServer, DecideRestore
<1>4. ~RemoveLog
  <2>1. ASSUME RemoveLog PROVE FALSE
    <3>1. live' = live /\ log' \in {Missing, log}
      BY <2>1 DEF RemoveLog
    <3>2. Data("database")' = IF log' = Missing THEN live["database"] ELSE Data("database")
      BY <1>1, <3>1 DEF Data
    <3> QED BY <1>1, <3>2
  <2> QED BY <2>1
<1>5. ~PutStoreBack
  <2>1. ASSUME PutStoreBack PROVE FALSE
    <3>1. /\ pc = "restore" /\ log' = log /\ Head(todo) # "log"
          /\ live' = live \/ (Head(todo) \in Store /\ live' = [live EXCEPT ![Head(todo)] = prepared[Head(todo)]])
      BY <2>1 DEF PutStoreBack, Restored
    <3>2. todo # Replacing
      BY <3>1 DEF Replacing
    <3>3. log = Missing /\ \A s \in Store \cap Left : prepared[s] # Missing
      BY <3>1, <3>2 DEF RestoreInv
    <3>4. Head(todo) \in Left
      BY <3>1, HeadIsLeft DEF TodoInv, Working
    <3>5. live'["database"] # Missing
      BY <1>1, <3>1, <3>3, <3>4 DEF DataTyped
    <3> QED BY <3>1, <3>3, <3>5 DEF Data
  <2> QED BY <2>1
<1>6. ~NewBuildWrites
  <2>1. ASSUME NewBuildWrites PROVE FALSE
    <3>1. PICK s \in Store, content \in Content :
            /\ content.copy = FALSE /\ content # Missing
            /\ \/ s = "database" /\ log' = content /\ live' = live
               \/ /\ live' = [live EXCEPT ![s] = content]
                  /\ log' = IF s = "database" THEN Missing ELSE log
      BY <2>1, NewBuildsData
    <3>2. live["database"].copy = FALSE
      BY <1>1, <2>1 DEF NewBuildWrites, OriginalsInv, Content
    <3>3. CASE s = "database" /\ log' = content /\ live' = live
      BY <1>1, <3>1, <3>2, <3>3 DEF Data
    <3>4. CASE s = "database" /\ live' = [live EXCEPT ![s] = content] /\ log' = Missing
      BY <3>1, <3>4 DEF Data, DataTyped
    <3>5. CASE s # "database" /\ live' = [live EXCEPT ![s] = content] /\ log' = log
      <4>1. live'["database"] = live["database"]
        BY <3>5 DEF DataTyped
      <4> QED BY <3>5, <4>1 DEF Data
    <3> QED BY <3>1, <3>3, <3>4, <3>5
  <2> QED BY <2>1
<1>7. ~AcceptChange
  BY AcceptedData
<1> QED BY <1>2, <1>3, <1>4, <1>5, <1>6, <1>7, DataSteps

\* A file that is missing can be put back, and no build runs on it.
LEMMA MissingIsHandled ==
  ASSUME LauncherInv, LauncherInv', BeforeInv, OriginalsInv, [LauncherNext]_launcherUpdateVars,
         ~excused', Data("database")' = Missing
  PROVE  pc' \in Uncertain /\ snapshot' # Nothing /\ server'.build # "new"
<1>0. ~excused
  BY ExcusesStay
<1>1. pc' # "files"
  <2>1. pc' = "files" => Reads("old")'
    BY DEF LauncherInv, RestoreInv
  <2> QED BY <2>1, TwoStores DEF Reads, Supports, Missing, Unreadable
<1>2. CASE PreserveStore
  <2>1. pc = "preserve" /\ pc' \in {"preserve", "keep"} /\ snapshot' = snapshot /\ server' = server
    BY <1>2 DEF PreserveStore, Proceed, Goto
  <2>2. Full /\ server = Down
    BY <1>0, <2>1, StoppedIsQuiet DEF LauncherInv, CopiesInv, Guarded, Stopped
  <2>3. snapshot # Nothing
    BY <2>2, FullIsThere
  <2> QED BY <2>1, <2>2, <2>3 DEF Uncertain, Down
<1>3. CASE ~PreserveStore
  <2>1. Data("database") = Missing
    BY <1>0, <1>3, DataStayThere
  <2>2. pc \in Uncertain /\ snapshot # Nothing /\ server.build # "new"
    BY <2>1 DEF BeforeInv
  <2>3. pc' \in Uncertain
    BY <1>1, <2>2, LatePhases
  <2>4. snapshot' = snapshot
    BY <2>2, CopiesStay
       DEF SnapshotStore, PreparationFails, FinishUpdate, FinishRollback, Uncertain
  <2>5. server'.build # "new"
    BY <2>2, NewServerIsTrial DEF Uncertain
  <2> QED BY <2>2, <2>3, <2>4, <2>5
<1> QED BY <1>2, <1>3

\* A copy is made where there is one of the database.
LEMMA CopiesOfBefore ==
  ASSUME LauncherInv, BeforeInv, [LauncherNext]_launcherUpdateVars, acked' = acked
  PROVE  /\ Holds(prepared["database"])'
         /\ (snapshot["database"] = Missing => prepared["database"] = Missing)'
         /\ snapshot'["database"] = snapshot["database"] \/ snapshot'["database"] = Missing
            \/ SnapshotStore
<1> USE TwoStores DEF LauncherInv, Typed
<1>0. /\ Holds(prepared["database"])
      /\ snapshot["database"] = Missing => prepared["database"] = Missing
      /\ snapshot["database"] # Missing => Holds(snapshot["database"])
      /\ Holds(Missing)
  BY DEF BeforeInv, Holds
<1>1. CASE UNCHANGED <<snapshot, prepared>>
  BY <1>0, <1>1 DEF Holds, Before
<1>2. CASE SnapshotStore
  <2>1. /\ prepared' = prepared
        /\ snapshot' = [snapshot EXCEPT ![Head(todo)] = [Data(Head(todo)) EXCEPT !.copy = TRUE]]
    BY <1>2 DEF SnapshotStore
  <2>2. Head(todo) \in Store
    BY <1>2, HeadIsLeft, StoresAndFiles DEF SnapshotStore, TodoInv, Working, ItemsOf
  <2>3. Data(Head(todo)) \in Content
    BY <2>2, DataIsTyped
  <2>4. [Data(Head(todo)) EXCEPT !.copy = TRUE] # Missing
    BY <2>3 DEF Content, Missing
  <2>5. snapshot'["database"] = snapshot["database"] \/ snapshot'["database"] # Missing
    BY <2>1, <2>2, <2>4 DEF DataTyped
  <2> QED BY <1>0, <1>2, <2>1, <2>5 DEF Holds, Before
<1>3. CASE PrepareCopy \/ CopyBack
  <2>1. /\ snapshot' = snapshot /\ pc \in {"copies", "restore"}
        /\ \E s \in DOMAIN prepared \cup {Head(todo)} : prepared' = [prepared EXCEPT ![s] = snapshot[s]]
    BY <1>3 DEF PrepareCopy, CopyBack, Restored, DataTyped
  <2>2. snapshot["database"] # Missing
    BY <2>1, FullIsThere DEF CopiesInv, Guarded
  <2>3. prepared'["database"] \in {prepared["database"], snapshot["database"]}
    BY <2>1 DEF DataTyped
  <2> QED BY <1>0, <2>1, <2>2, <2>3 DEF Holds, Before
<1>4. CASE PutStoreBack
  <2>1. /\ snapshot' = snapshot
        /\ prepared' = prepared \/ prepared' = [prepared EXCEPT ![Head(todo)] = Missing]
    BY <1>4 DEF PutStoreBack
  <2>2. prepared'["database"] \in {prepared["database"], Missing}
    BY <2>1 DEF DataTyped
  <2> QED BY <1>0, <2>1, <2>2 DEF Holds, Before
<1>5. CASE PreparationFails \/ FinishUpdate \/ FinishRollback
  <2>1. snapshot'["database"] = Missing /\ prepared'["database"] = Missing
    BY <1>5 DEF PreparationFails, FinishUpdate, FinishRollback, Nothing
  <2> QED BY <1>0, <2>1 DEF Holds, Before
<1> QED BY <1>1, <1>2, <1>3, <1>4, <1>5, CopySteps

\* Whatever the step, each database has what was acknowledged before.
LEMMA BeforeStep ==
  ASSUME LauncherInv, LauncherInv', BeforeInv, OriginalsInv, [LauncherNext]_launcherUpdateVars,
         ~excused'
  PROVE  BeforeInv'
<1> USE TwoStores DEF LauncherInv, Typed
<1>0. ~excused
  BY ExcusesStay
<1>1. Data("database")' = Missing => pc' \in Uncertain /\ snapshot' # Nothing /\ server'.build # "new"
  BY MissingIsHandled DEF LauncherInv
<1>2. /\ Holds(Data("database")) /\ Holds(Missing)
      /\ snapshot["database"] # Missing =>
           Holds(live["database"]) /\ Holds(log) /\ Holds(snapshot["database"])
  BY DEF BeforeInv, Holds
<1>3. CASE AcceptChange
  <2>1. /\ live' = live /\ Data("database")' = log' /\ Data("database") # Missing
        /\ UNCHANGED <<snapshot, prepared>>
    BY <1>3, AcceptedData DEF AcceptChange, copyVars
  <2>2. PICK change \in {"before", "after"} :
          /\ change = "before" => pc \in {"idle", "wait"}
          /\ log'.changes = Data("database").changes \cup {change}
          /\ acked' = acked \/ acked' = acked \cup {change}
    BY <1>3, AcceptedData
  <2>3. Holds(log)'
    BY <1>2, <2>1, <2>2 DEF Holds, Before
  <2>4. CASE change = "before"
    <3>1. snapshot["database"] = Missing /\ prepared["database"] = Missing
      BY <2>2, <2>4 DEF CopiesInv, BeforeInv, Nothing
    <3> QED BY <1>1, <2>1, <2>3, <3>1 DEF BeforeInv, Holds
  <2>5. CASE change = "after"
    <3>1. \A content : Holds(content) => (content # Missing => acked' \cap {"before"} \subseteq content.changes)
      BY <2>2, <2>5 DEF Holds, Before
    <3>2. Holds(prepared["database"])
      BY DEF BeforeInv
    <3> QED BY <1>1, <1>2, <2>1, <2>3, <3>1, <3>2 DEF BeforeInv, Holds, Before
  <2> QED BY <2>4, <2>5
<1>4. CASE ~AcceptChange
  <2>0. acked' = acked
    BY <1>4, HistorySteps
  <2>1. /\ Holds(prepared["database"])'
        /\ (snapshot["database"] = Missing => prepared["database"] = Missing)'
        /\ snapshot'["database"] = snapshot["database"] \/ snapshot'["database"] = Missing
           \/ SnapshotStore
    BY <2>0, CopiesOfBefore DEF LauncherInv
  <2> SUFFICES /\ Holds(Data("database")')
               /\ snapshot'["database"] # Missing =>
                    Holds(live'["database"]) /\ Holds(log') /\ Holds(snapshot'["database"])
    BY <1>1, <2>0, <2>1 DEF BeforeInv, Holds, Before
  <2>3. CASE SnapshotStore
    <3> DEFINE s == Head(todo)
    <3>1. /\ pc = "snapshot" /\ s \in Store /\ Checkpointed
          /\ snapshot' = [snapshot EXCEPT ![s] = [Data(s) EXCEPT !.copy = TRUE]]
      BY <2>3, HeadIsLeft, StoresAndFiles DEF SnapshotStore, TodoInv, Working, ItemsOf
    <3>2. Data("database") # Missing
      BY <3>1 DEF BeforeInv, Uncertain
    <3>3. Data("database")' = Data("database")
      BY <3>1, CheckpointKeepsData
    <3>4. \/ UNCHANGED dataVars
          \/ live'["database"] = Data("database") /\ log' = Missing
      BY <3>1, CheckpointMerges DEF DataTyped
    <3>5. CASE s = "database"
      <4>1. Data("database") \in Content
        BY DataIsTyped
      <4>2. snapshot'["database"].changes = Data("database").changes
        BY <3>1, <3>5, <4>1 DEF DataTyped, Content
      <4>3. Holds(snapshot'["database"])
        BY <1>2, <3>2, <4>2 DEF Holds
      <4>4. Holds(live'["database"]) /\ Holds(log')
        <5>1. CASE live["database"] # Missing /\ log # Missing
          <6>1. log' = Missing /\ ~UNCHANGED dataVars
            BY <3>1, <5>1 DEF Checkpointed, dataVars
          <6> QED BY <1>2, <3>4, <6>1
        <5>2. CASE live["database"] = Missing \/ log = Missing
          <6>1. UNCHANGED dataVars
            BY <3>1, <5>2 DEF Checkpointed
          <6>2. log = Missing /\ Data("database") = live["database"]
            BY <3>2, <5>2 DEF Data
          <6> QED BY <1>2, <6>1, <6>2 DEF dataVars
        <5> QED BY <5>1, <5>2
      <4> QED BY <1>2, <3>3, <4>3, <4>4
    <3>6. CASE s # "database"
      <4>1. snapshot'["database"] = snapshot["database"]
        BY <3>1, <3>6 DEF DataTyped
      <4> QED BY <1>2, <3>3, <3>4, <4>1 DEF dataVars
    <3> QED BY <3>5, <3>6
  <2>2. CASE UNCHANGED dataVars /\ ~SnapshotStore
    <3>1. Data("database")' = Data("database")
      BY <2>2 DEF dataVars, Data
    <3> QED BY <1>2, <2>1, <2>2, <3>1 DEF dataVars
  <2>4. CASE StopServer \/ DecideRestore
    <3>1. /\ Checkpointed \/ UNCHANGED dataVars
          /\ snapshot' = snapshot
      BY <2>4 DEF StopServer, DecideRestore, copyVars
    <3>2. Data("database")' = Data("database")
      BY <3>1, CheckpointKeepsData
    <3>3. \/ UNCHANGED dataVars
          \/ live'["database"] = Data("database") /\ log' = Missing
      BY <3>1, CheckpointMerges DEF DataTyped
    <3> QED BY <1>2, <3>1, <3>2, <3>3 DEF dataVars
  <2>5. CASE PreserveStore \/ RemoveLog \/ PutStoreBack
    <3>1. /\ pc \in {"preserve", "restore"} /\ snapshot' = snapshot
          /\ log' \in {log, Missing}
          /\ \/ live' = live
             \/ live' = [live EXCEPT ![Head(todo)] = Missing]
             \/ live' = [live EXCEPT ![Head(todo)] = prepared[Head(todo)]]
      BY <2>5 DEF PreserveStore, RemoveLog, PutStoreBack, copyVars
    <3>2. live'["database"] \in {live["database"], Missing, prepared["database"]}
      BY <3>1 DEF DataTyped
    <3>3. snapshot["database"] # Missing
      BY <3>1, FullIsThere DEF CopiesInv, Guarded
    <3>4. Holds(live'["database"]) /\ Holds(log') /\ Holds(snapshot'["database"])
      BY <1>2, <3>1, <3>2, <3>3 DEF BeforeInv
    <3>5. Data("database")' \in {live'["database"], log', Missing}
      BY DEF Data
    <3> QED BY <1>2, <3>4, <3>5
  <2>6. CASE NewBuildWrites
    <3>1. /\ server.build = "new" /\ snapshot' = snapshot
      BY <2>6 DEF NewBuildWrites, copyVars
    <3>2. Data("database") # Missing
      BY <3>1 DEF BeforeInv
    <3>3. PICK s \in Store, content \in Content :
            /\ content.copy = FALSE /\ content # Missing
            /\ content.changes = Data(s).changes
            /\ \/ s = "database" /\ log' = content /\ live' = live
               \/ /\ live' = [live EXCEPT ![s] = content]
                  /\ log' = IF s = "database" THEN Missing ELSE log
      BY <2>6, NewBuildsData
    <3>4. CASE s = "database"
      <4>1. Holds(content)
        BY <1>2, <3>2, <3>3, <3>4 DEF Holds
      <4>2. /\ live'["database"] \in {live["database"], content}
            /\ log' \in {content, Missing}
        BY <3>3, <3>4 DEF DataTyped
      <4>3. Data("database")' \in {content, Missing}
        BY <3>3, <3>4, <4>2 DEF Data, DataTyped
      <4> QED BY <1>2, <3>1, <4>1, <4>2, <4>3
    <3>5. CASE s # "database"
      <4>1. live'["database"] = live["database"] /\ log' = log
        BY <3>3, <3>5 DEF DataTyped
      <4>2. Data("database")' = Data("database")
        BY <4>1 DEF Data
      <4> QED BY <1>2, <3>1, <4>1, <4>2
    <3> QED BY <3>4, <3>5
  <2> QED BY <1>4, <2>2, <2>3, <2>4, <2>5, <2>6, DataSteps
<1> QED BY <1>3, <1>4

-----------------------------------------------------------------------------
(* What a committed build acknowledged.                                    *)

\* A committed build goes on, unless its answer was lost.
LEMMA CommittedGoesOn ==
  ASSUME LauncherInv, AfterInv, [LauncherNext]_launcherUpdateVars, ~excused',
         server.gate = "open", ~unclear'
  PROVE  /\ ~unclear /\ server' = server
         /\ server.mode = "up" /\ server.build = "new"
         /\ pc' \in {"commit", "accept", "dead", "done"}
         /\ pc \in {"commit", "accept", "dead", "done"}
         /\ pc' = "commit" => answer' = "committed"
<1> USE DEF LauncherInv, Typed
<1>1. ~unclear /\ ~PidNotSaved /\ ~StopFails /\ (SupervisedStart => pc = "idle")
  <2>1. ~unclear
    BY HistorySteps DEF NoAnswer, Kill
  <2> QED BY <2>1, ExcusesStay
<1>2. /\ server.mode = "up" /\ server.build = "new"
      /\ pc \in {"commit", "accept", "dead", "done"}
      /\ pc = "commit" => answer = "committed"
  BY <1>1 DEF AfterInv
<1>3. ~NoAnswer /\ (Kill => pc # "commit") /\ ~RollBackAgain /\ ~ServerCommits
  BY <1>2 DEF NoAnswer, Kill, RollBackAgain, ServerCommits
<1>4. server' = server
  BY <1>1, <1>2, <1>3, ServerSteps
     DEF StartServer, Starting, StopServer, OldServerLeaves, ServerReady, ServerFails
<1>5. CASE UNCHANGED <<pc, todo>>
  BY <1>1, <1>2, <1>3, <1>4, <1>5, HistorySteps DEF ReadAnswer, Kill, Goto
<1>6. CASE ~UNCHANGED <<pc, todo>>
  <2>1. ReadAnswer \/ FinishUpdate \/ Kill
    BY <1>1, <1>2, <1>3, <1>6, PhaseSteps
       DEF BeginUpdate, WaitForExit, ExitTooLate, PrepareRecords, PreparationFails,
           StageFails, InstallFails, StartServer, NoServerFile, PidNotSaved,
           AwaitReady, AwaitFails, StopServer, StopNothing, StopFails, DecideRestore,
           KeepFailedData, PreserveFails, MarkRestore, RestoreFails, PutBackFails,
           FinishRollback, SnapshotStore, PrepareCopy, StageFile, UnstageFile, InstallFile,
           PreserveStore, PutStoreBack, PutFileBack, RemoveLog, Starting, Awaiting
  <2>2. pc' \in {"accept", "dead", "done"}
    BY <1>2, <2>1 DEF ReadAnswer, FinishUpdate, Kill, Publish, Goto
  <2> QED BY <1>1, <1>2, <1>4, <2>2
<1> QED BY <1>5, <1>6

\* A gate is opened by the commit, and by nothing else.
LEMMA GateOpens ==
  ASSUME LauncherInv, [LauncherNext]_launcherUpdateVars, ~excused',
         server.gate # "open", server'.gate = "open"
  PROVE  /\ server'.mode = "up" /\ server'.build = "new"
         /\ pc' = "commit" /\ answer' = "committed"
<1> USE DEF LauncherInv, Typed
<1>1. ~UNCHANGED <<server, boots>>
  OBVIOUS
<1>2. ~StartServer
  <2>1. ASSUME StartServer PROVE FALSE
    <3>1. server' = server \/ \E gate \in {"none", "closed"} : Spawned(installed["server"], gate, TRUE)
      BY <2>1 DEF StartServer
    <3> QED BY <3>1 DEF Spawned
  <2> QED BY <2>1
<1>3. ~PidNotSaved
  BY ExcusesStay DEF LauncherInv
<1>4. ~StopServer /\ ~OldServerLeaves
  BY ServerModes DEF StopServer, OldServerLeaves
<1>5. ~ServerReady /\ ~ServerFails
  <2>1. CASE ServerReady
    <3>1. server # Down /\ server' = [server EXCEPT !.mode = "up", !.tracked = TRUE]
      BY <2>1, ServerModes DEF ServerReady
    <3> QED BY <3>1, ServerModes
  <2>2. CASE ServerFails
    <3>1. \/ server' = Down
          \/ server' = [server EXCEPT !.mode = "broken", !.tracked = TRUE] /\ server # Down
      BY <2>2, ServerModes DEF ServerFails
    <3> QED BY <3>1, ServerModes
  <2> QED BY <2>1, <2>2
<1>6. ~SupervisedStart
  <2>1. ASSUME SupervisedStart PROVE FALSE
    <3>1. server' = Down \/ Spawned(installed["server"], "none", TRUE)
      BY <2>1, Zenon DEF SupervisedStart
    <3> QED BY <3>1, ServerModes DEF Spawned
  <2> QED BY <2>1
<1>7. CASE ServerCommits
  <2>1. /\ pc = "commit" /\ pc' = "commit" /\ server.mode = "up"
        /\ server' = server \/ (server' = [server EXCEPT !.gate = "open"] /\ answer' = "committed")
    BY <1>7 DEF ServerCommits
  <2>2. server # Down /\ server.build # "old"
    BY <2>1, ServerModes DEF ServerInv
  <2> QED BY <2>1, <2>2, ServerModes
<1> QED BY <1>1, <1>2, <1>3, <1>4, <1>5, <1>6, <1>7, ServerSteps

\* Whatever the step, a committed build has what it acknowledged.
LEMMA AfterStep ==
  ASSUME LauncherInv, BeforeInv, AfterInv, OriginalsInv, [LauncherNext]_launcherUpdateVars,
         ~excused'
  PROVE  AfterInv'
<1> USE TwoStores DEF LauncherInv, Typed
<1>1. acked' \subseteq {"before", "after"}
  <2>1. CASE acked' = acked
    BY <2>1 DEF AfterInv
  <2>2. CASE AcceptChange
    BY <2>2, AcceptedData DEF AfterInv
  <2> QED BY <2>1, <2>2, HistorySteps
<1>2. (server.gate = "open" /\ ~unclear =>
        /\ server.mode = "up" /\ server.build = "new"
        /\ pc \in {"commit", "accept", "dead", "done"}
        /\ pc = "commit" => answer = "committed")'
  BY CommittedGoesOn, GateOpens DEF LauncherInv
<1>3. ("after" \in acked /\ ~unclear =>
        server.gate = "open" /\ "after" \in Data("database").changes)'
  <2> SUFFICES ASSUME "after" \in acked', ~unclear'
               PROVE  server'.gate = "open" /\ "after" \in Data("database")'.changes
    OBVIOUS
  <2>0. ~unclear
    BY HistorySteps DEF NoAnswer, Kill
  <2>1. CASE AcceptChange
    <3>1. Data("database")' = log' /\ server' = server
      BY <2>1, AcceptedData DEF AcceptChange
    <3>2. PICK change \in {"before", "after"} :
            /\ log'.changes = Data("database").changes \cup {change}
            /\ \/ acked' = acked
               \/ /\ acked' = acked \cup {change}
                  /\ change = "before" \/ server.gate = "open"
      BY <2>1, AcceptedData
    <3> QED BY <2>0, <3>1, <3>2 DEF AfterInv
  <2>2. CASE ~AcceptChange
    <3>1. "after" \in acked
      BY <2>2, HistorySteps
    <3>2. server.gate = "open" /\ "after" \in Data("database").changes
      BY <2>0, <3>1 DEF AfterInv
    <3>3. /\ server' = server /\ server.mode = "up" /\ server.build = "new"
          /\ pc \in {"commit", "accept", "dead", "done"}
      BY <3>2, CommittedGoesOn DEF LauncherInv
    <3>4. UNCHANGED dataVars
      BY <2>2, <3>3, DataSteps
         DEF SnapshotStore, StopServer, DecideRestore, PreserveStore, RemoveLog, PutStoreBack,
             NewBuildWrites
    <3> QED BY <3>2, <3>3, <3>4 DEF dataVars, Data
  <2> QED BY <2>1, <2>2
<1> QED BY <1>1, <1>2, <1>3 DEF AfterInv

-----------------------------------------------------------------------------
(* The originals.                                                          *)

\* A restore is recorded once the failed build's data are kept.
LEMMA RecordedLate ==
  ASSUME LauncherInv, OriginalsInv, [LauncherNext]_launcherUpdateVars, ~excused'
  PROVE  (marker = "required" => pc \in Late \ Keeping)'
<1> SUFFICES ASSUME marker' = "required" PROVE pc' \in Late \ Keeping
  OBVIOUS
<1>1. CASE MarkRestore
  BY <1>1 DEF MarkRestore, Goto, Late, Uncertain, Keeping
<1>2. CASE ~MarkRestore
  <2>1. marker = "required"
    BY <1>2, MarkerSteps
       DEF PidNotSaved, StopFails, PrepareRecords, FinishUpdate, FinishRollback, SupervisedStart,
           copyVars
  <2>2. pc \in Late \ Keeping
    BY <2>1 DEF OriginalsInv
  <2>3. CASE DecideRestore
    BY <2>1, <2>3 DEF DecideRestore, MustRestore, ThenRestore, RollbackFails, Publish, Goto, Late,
          Uncertain, Keeping
  <2> QED BY <2>2, <2>3, LatePhases
<1> QED BY <1>1, <1>2

\* What is kept is kept in a rollback, with no new build running.
LEMMA KeptLate ==
  ASSUME LauncherInv, OriginalsInv, [LauncherNext]_launcherUpdateVars, ~excused'
  PROVE  /\ (kept # Nothing \/ whole => pc \in Late /\ server.build # "new")'
         /\ kept' # kept => kept # Nothing \/ PreserveStore
<1> USE DEF LauncherInv, Typed
<1>0. ~excused
  BY ExcusesStay
<1>1. CASE PreserveStore \/ KeepFailedData
  <2>1. pc \in {"preserve", "keep"} /\ server' = server /\ pc' \in {"preserve", "keep", "mark"}
    BY <1>1 DEF PreserveStore, KeepFailedData, Proceed, Goto
  <2>2. server.build = "none"
    BY <1>0, <2>1, StoppedIsQuiet DEF Stopped
  <2>3. kept' # kept => PreserveStore
    BY <1>1 DEF KeepFailedData, dataVars
  <2> QED BY <2>1, <2>2, <2>3 DEF Late, Uncertain
<1>2. CASE ~PreserveStore /\ ~KeepFailedData
  <2>1. whole' = whole
    BY <1>2, HistorySteps
  <2>2. kept' # kept => kept # Nothing
    <3>1. ~Linked \/ kept # Nothing
      BY TwoStores DEF Linked, Nothing
    <3>2. CASE SnapshotStore \/ StopServer \/ DecideRestore
      BY <3>1, <3>2, CheckpointMerges DEF SnapshotStore, StopServer, DecideRestore, dataVars
    <3>3. CASE NewBuildWrites
      BY <3>3, NewBuildsData
    <3>4. CASE UNCHANGED dataVars \/ RemoveLog \/ PutStoreBack \/ AcceptChange
      BY <3>4 DEF dataVars, RemoveLog, PutStoreBack, AcceptChange
    <3> QED BY <1>2, <3>2, <3>3, <3>4, DataSteps
  <2>3. kept # Nothing \/ whole => pc \in Late /\ server.build # "new"
    BY DEF OriginalsInv
  <2>4. pc \in Late => pc' \in Late
    BY LatePhases
  <2>5. pc \in Late /\ server.build # "new" => server'.build # "new"
    BY NewServerIsTrial DEF Late, Uncertain, Restarted
  <2> QED BY <2>1, <2>2, <2>3, <2>4, <2>5
<1> QED BY <1>1, <1>2

\* Whatever the step, no file that was put back is kept.
LEMMA OriginalsStep ==
  ASSUME LauncherInv, BeforeInv, OriginalsInv, [LauncherNext]_launcherUpdateVars, ~excused'
  PROVE  OriginalsInv'
<1> USE TwoStores DEF LauncherInv, Typed
<1>0. ~excused
  BY ExcusesStay
<1>1. \A s \in Store : ~kept'[s].copy
  <2>0. \A s \in Store : ~kept[s].copy
    BY DEF OriginalsInv
  <2>1. CASE UNCHANGED kept
    BY <2>0, <2>1
  <2>2. CASE PreserveStore
    <3>1. pc = "preserve" /\ marker # "required"
      BY <2>2 DEF PreserveStore, OriginalsInv, Keeping
    <3>2. \A s \in Store : ~live[s].copy
      BY <1>0, <3>1 DEF RestoreInv
    <3>3. \/ kept' = kept
          \/ kept' = [kept EXCEPT !["database"] = IF log = Missing THEN @ ELSE log]
          \/ kept' = [kept EXCEPT ![Head(todo)] = live[Head(todo)]]
      BY <2>2 DEF PreserveStore
    <3> QED BY <2>0, <3>2, <3>3 DEF OriginalsInv, DataTyped
  <2>3. CASE SnapshotStore \/ StopServer \/ DecideRestore
    <3>1. \/ kept' = kept
          \/ kept' = [kept EXCEPT !["database"] = log]
      BY <2>3, CheckpointMerges DEF SnapshotStore, StopServer, DecideRestore, dataVars
    <3> QED BY <2>0, <3>1 DEF OriginalsInv, DataTyped
  <2> QED BY <2>1, <2>2, <2>3, DataSteps, NewBuildsData
          DEF dataVars, RemoveLog, PutStoreBack, AcceptChange
<1>2. ~log'.copy
  <2>1. ~log.copy /\ ~Missing.copy
    BY DEF OriginalsInv, Missing
  <2>2. CASE NewBuildWrites
    BY <2>1, <2>2, NewBuildsData
  <2>3. CASE AcceptChange
    BY <2>3, AcceptedData
  <2>4. CASE SnapshotStore \/ StopServer \/ DecideRestore
    BY <2>1, <2>4, CheckpointMerges DEF SnapshotStore, StopServer, DecideRestore, dataVars
  <2> QED BY <2>1, <2>2, <2>3, <2>4, DataSteps DEF dataVars, PreserveStore, RemoveLog, PutStoreBack
<1>3. log' # Missing => ~live'["database"].copy
  <2>1. log # Missing => ~live["database"].copy
    BY DEF OriginalsInv
  <2>2. CASE NewBuildWrites
    <3>1. ~live["database"].copy
      BY <2>2 DEF NewBuildWrites, OriginalsInv
    <3>3. PICK s \in Store, content \in Content :
            /\ content.copy = FALSE
            /\ live' = live \/ live' = [live EXCEPT ![s] = content]
      BY <2>2, NewBuildsData
    <3> QED BY <3>1, <3>3 DEF DataTyped
  <2>3. CASE AcceptChange
    BY <2>3, AcceptedData
  <2>4. CASE SnapshotStore \/ StopServer \/ DecideRestore
    BY <2>1, <2>4, CheckpointMerges DEF SnapshotStore, StopServer, DecideRestore, dataVars
  <2>5. CASE PreserveStore
    <3>1. /\ log' # Missing => log # Missing
          /\ live' = live \/ live' = [live EXCEPT ![Head(todo)] = Missing]
      BY <2>5 DEF PreserveStore
    <3> QED BY <2>1, <3>1 DEF DataTyped, Missing
  <2>6. CASE RemoveLog
    BY <2>1, <2>6 DEF RemoveLog
  <2>7. CASE PutStoreBack
    <3>1. pc = "restore" /\ todo # Replacing /\ log' = log
      BY <2>7 DEF PutStoreBack, Replacing
    <3> QED BY <1>0, <3>1 DEF RestoreInv
  <2> QED BY <2>1, <2>2, <2>3, <2>4, <2>5, <2>6, <2>7, DataSteps DEF dataVars
<1>4. server'.build = "new" => \A s \in Store : ~live'[s].copy
  <2> SUFFICES ASSUME server'.build = "new" PROVE \A s \in Store : ~live'[s].copy
    OBVIOUS
  <2>1. server.build = "new" \/ pc = "start trial"
    BY NewServerIsTrial
  <2>2. \A s \in Store : ~live[s].copy
    <3>1. CASE server.build = "new"
      BY <3>1 DEF OriginalsInv
    <3>2. CASE pc = "start trial"
      <4>1. marker # "required"
        BY <3>2 DEF OriginalsInv, Late, Uncertain, Restarted
      <4> QED BY <1>0, <3>2, <4>1 DEF RestoreInv
    <3> QED BY <2>1, <3>1, <3>2
  <2>3. ~PutStoreBack
    <3>1. pc = "restore" => server.build = "none"
      BY <1>0, StoppedIsQuiet DEF Stopped
    <3> QED BY <2>1, <3>1 DEF PutStoreBack
  <2> QED BY <2>2, <2>3, OnlyRestoresCopy
<1> QED BY <1>1, <1>2, <1>3, <1>4, RecordedLate, KeptLate DEF OriginalsInv

-----------------------------------------------------------------------------
(* What was moved away.                                                    *)

\* The log is kept last, after its database.
LEMMA PreservingInOrder ==
  ASSUME pc = "preserve", todo \in PreservingLists, Proceed("keep", <<>>)
  PROVE  /\ Head(todo) \in {"database", "identities", "log"} /\ Head(todo) \in Left
         /\ "log" \in Left
         /\ \/ /\ Head(todo) = "log" /\ pc' = "keep" /\ Left = {"log"}
            \/ /\ Head(todo) \in Store /\ pc' = "preserve"
               /\ todo' \in PreservingLists
               /\ Left' = Left \ {Head(todo)} /\ "log" \in Left'
<1> USE TwoStores DEF Proceed, Goto, Left, ToSet
<1>1. CASE todo = <<"log">>
  BY <1>1
<1>2. CASE todo = <<"identities", "log">>
  <2>1. Head(todo) = "identities" /\ todo' = <<"log">> /\ pc' = "preserve"
    BY <1>2
  <2>2. Left = {"identities", "log"} /\ Left' = {"log"}
    BY <1>2, <2>1
  <2> QED BY <2>1, <2>2 DEF PreservingLists
<1>3. CASE todo = Preserving
  <2>1. Head(todo) = "database" /\ todo' = <<"identities", "log">> /\ pc' = "preserve"
    BY <1>3 DEF Preserving
  <2>2. Left = {"database", "identities", "log"} /\ Left' = {"identities", "log"}
    BY <1>3, <2>1 DEF Preserving
  <2> QED BY <2>1, <2>2 DEF PreservingLists
<1> QED BY <1>1, <1>2, <1>3 DEF PreservingLists

\* What one file becomes when it is kept.
LEMMA PreservedFile ==
  ASSUME DataTyped, PreserveStore, Head(todo) \in {"database", "identities", "log"}
  PROVE  /\ Head(todo) = "log" =>
              /\ live' = live /\ log' = Missing
              /\ kept'["identities"] = kept["identities"]
              /\ kept'["database"] = IF log = Missing THEN kept["database"] ELSE log
         /\ Head(todo) # "log" =>
              /\ log' = log
              /\ \A s \in Store \ {Head(todo)} : live'[s] = live[s] /\ kept'[s] = kept[s]
              /\ \/ /\ live[Head(todo)] = Missing \/ kept[Head(todo)] # Missing
                    /\ UNCHANGED <<live, kept>>
                 \/ /\ live[Head(todo)] # Missing /\ kept[Head(todo)] = Missing
                    /\ kept'[Head(todo)] = live[Head(todo)]
                    /\ live'[Head(todo)] = IF setup.links THEN live[Head(todo)] ELSE Missing
<1> DEFINE item == Head(todo)
<1> USE StoresAndFiles DEF DataTyped
<1>1. CASE item = "log"
  <2>1. /\ live' = live /\ log' = Missing
        /\ kept' = [kept EXCEPT !["database"] = IF log = Missing THEN @ ELSE log]
    BY <1>1 DEF PreserveStore
  <2> QED BY <1>1, <2>1
<1>2. CASE item # "log"
  <2>1. item \in Store
    BY <1>2
  <2>2. CASE live[item] = Missing \/ kept[item] # Missing
    BY <1>2, <2>2 DEF PreserveStore
  <2>3. CASE live[item] # Missing /\ kept[item] = Missing
    <3>1. /\ kept' = [kept EXCEPT ![item] = live[item]]
          /\ live' = IF setup.links THEN live ELSE [live EXCEPT ![item] = Missing]
          /\ log' = log
      BY <1>2, <2>3 DEF PreserveStore
    <3> QED BY <1>2, <2>1, <2>3, <3>1
  <2> QED BY <2>2, <2>3
<1> QED BY <1>1, <1>2

\* What is kept stays kept, and what is moved away is kept.
LEMMA KeptStays ==
  ASSUME LauncherInv, BeforeInv, OriginalsInv, MovedInv, [LauncherNext]_launcherUpdateVars,
         ~excused'
  PROVE  \A s \in Store : /\ kept[s] # Missing => kept'[s] # Missing
                          /\ live'[s] = Missing => kept'[s] # Missing
<1> USE TwoStores DEF LauncherInv, Typed
<1>0. ~excused
  BY ExcusesStay
<1>1. \A s \in Store : live[s] = Missing => kept[s] # Missing
  BY DEF MovedInv
<1>2. CASE UNCHANGED dataVars
  BY <1>1, <1>2 DEF dataVars
<1>3. CASE SnapshotStore \/ StopServer \/ DecideRestore
  <2>1. \/ UNCHANGED dataVars
        \/ /\ log # Missing
           /\ live' = [live EXCEPT !["database"] = log]
           /\ kept' = kept \/ kept' = [kept EXCEPT !["database"] = log]
    BY <1>3, CheckpointMerges DEF SnapshotStore, StopServer, DecideRestore
  <2> QED BY <1>1, <2>1 DEF dataVars, DataTyped
<1>4. CASE PreserveStore
  <2>1. todo \in PreservingLists /\ pc = "preserve" /\ Proceed("keep", <<>>)
    BY <1>4 DEF PreserveStore, MovedInv, PreservingLists
  <2>2. Head(todo) \in {"database", "identities", "log"}
    BY <2>1, PreservingInOrder
  <2> QED BY <1>1, <1>4, <2>2, PreservedFile, StoresAndFiles
<1>5. CASE RemoveLog \/ AcceptChange
  BY <1>1, <1>5 DEF RemoveLog, AcceptChange
<1>6. CASE PutStoreBack
  <2>1. /\ pc = "restore" /\ Head(todo) # "log" /\ kept' = kept
        /\ live' = live \/ live' = [live EXCEPT ![Head(todo)] = prepared[Head(todo)]]
    BY <1>6 DEF PutStoreBack
  <2>2. todo # Replacing
    BY <2>1 DEF Replacing
  <2>3. \A s \in Store \cap Left : prepared[s] # Missing
    BY <1>0, <2>1, <2>2 DEF RestoreInv
  <2>4. Head(todo) \in Left
    BY <2>1, HeadIsLeft DEF TodoInv, Working
  <2> QED BY <1>1, <2>1, <2>3, <2>4 DEF DataTyped
<1>7. CASE NewBuildWrites
  <2>1. PICK s \in Store, content \in Content :
          /\ content # Missing
          /\ live' = live \/ live' = [live EXCEPT ![s] = content]
    BY <1>7, NewBuildsData
  <2>2. kept' = kept
    BY <1>7, NewBuildsData
  <2> QED BY <1>1, <2>1, <2>2 DEF DataTyped
<1> QED BY <1>2, <1>3, <1>4, <1>5, <1>6, <1>7, DataSteps

\* Whatever the step, what is moved away is kept.
LEMMA MovedStep ==
  ASSUME LauncherInv, BeforeInv, OriginalsInv, MovedInv, [LauncherNext]_launcherUpdateVars,
         ~excused'
  PROVE  MovedInv'
<1> USE TwoStores DEF LauncherInv, Typed
<1>0. ~excused
  BY ExcusesStay
<1>1. \A s \in Store : /\ kept[s] # Missing => kept'[s] # Missing
                       /\ live'[s] = Missing => kept'[s] # Missing
  BY KeptStays DEF LauncherInv
<1>2. PreserveStore =>
        /\ pc = "preserve" /\ todo \in PreservingLists
        /\ Head(todo) \in {"database", "identities", "log"} /\ Head(todo) \in Left
        /\ \/ /\ Head(todo) = "log" /\ pc' = "keep" /\ Left = {"log"}
           \/ /\ Head(todo) \in Store /\ pc' = "preserve"
              /\ todo' \in PreservingLists
              /\ Left' = Left \ {Head(todo)}
  <2> SUFFICES ASSUME PreserveStore
               PROVE  /\ pc = "preserve" /\ todo \in PreservingLists
                      /\ Head(todo) \in {"database", "identities", "log"} /\ Head(todo) \in Left
                      /\ \/ /\ Head(todo) = "log" /\ pc' = "keep" /\ Left = {"log"}
                         \/ /\ Head(todo) \in Store /\ pc' = "preserve"
                            /\ todo' \in PreservingLists
                            /\ Left' = Left \ {Head(todo)}
    OBVIOUS
  <2>1. todo \in PreservingLists /\ pc = "preserve" /\ Proceed("keep", <<>>)
    BY DEF PreserveStore, MovedInv, PreservingLists
  <2> QED BY <2>1, PreservingInOrder
<1>3. PreserveStore /\ Head(todo) \in Store => kept'[Head(todo)] # Missing
  <2>1. \A s \in Store : live[s] = Missing => kept[s] # Missing
    BY DEF MovedInv
  <2> QED BY <1>2, <2>1, PreservedFile
<1>4. (pc = "preserve" =>
         /\ todo \in PreservingLists
         /\ \A s \in Store \ Left : kept[s] # Missing)'
  <2> SUFFICES ASSUME pc' = "preserve"
               PROVE  todo' \in PreservingLists /\ \A s \in Store \ Left' : kept'[s] # Missing
    BY DEF PreservingLists
  <2>1. CASE UNCHANGED <<pc, todo>>
    BY <1>1, <2>1 DEF MovedInv, PreservingLists, Left
  <2>2. CASE PreserveStore
    <3>1. /\ Head(todo) \in Store /\ todo' \in PreservingLists /\ Left' = Left \ {Head(todo)}
      BY <1>2, <2>2
    <3>2. \A s \in Store \ Left : kept[s] # Missing
      BY <1>2, <2>2 DEF MovedInv
    <3> QED BY <1>1, <1>3, <2>2, <3>1, <3>2
  <2>3. CASE DecideRestore
    <3>1. todo' = Preserving
      BY <2>3 DEF DecideRestore, ThenRestore, RollbackFails, Publish, Goto
    <3>2. Left' = {"database", "identities", "log"}
      BY <3>1 DEF Left, ToSet, Preserving
    <3> QED BY <3>1, <3>2, StoresAndFiles DEF PreservingLists
  <2> QED BY <2>1, <2>2, <2>3, LatePhases
<1>5. (pc = "keep" \/ whole => \A s \in Store : kept[s] # Missing)'
  <2> SUFFICES ASSUME pc' = "keep" \/ whole' PROVE \A s \in Store : kept'[s] # Missing
    OBVIOUS
  <2>1. CASE pc = "keep" \/ whole
    BY <1>1, <2>1 DEF MovedInv
  <2>2. CASE PreserveStore /\ ~whole
    <3>1. whole' = whole
      BY <2>2 DEF PreserveStore
    <3>2. Left = {"log"}
      BY <1>2, <2>2, <3>1
    <3>3. \A s \in Store : kept[s] # Missing
      BY <1>2, <2>2, <3>2 DEF MovedInv
    <3> QED BY <1>1, <3>3
  <2>3. CASE KeepFailedData
    BY <2>1, <2>3 DEF KeepFailedData
  <2> QED BY <2>1, <2>2, <2>3, LatePhases, HistorySteps
<1>6. (~setup.links /\ marker # "required" /\ snapshot # Nothing =>
         \A s \in Store : kept[s] # Missing => live[s] = Missing)'
  <2> SUFFICES ASSUME ~setup.links, marker' # "required", snapshot' # Nothing,
                      NEW s \in Store, kept'[s] # Missing
               PROVE  live'[s] = Missing
    BY SetupIsFixed
  <2>1. CASE SnapshotStore
    <3>1. kept = Nothing
      BY <2>1 DEF SnapshotStore, OriginalsInv, Late, Uncertain, Restarted
    <3>2. kept' = kept
      BY <2>1, <3>1, KeptLate DEF SnapshotStore, PreserveStore, LauncherInv
    <3> QED BY <3>1, <3>2 DEF Nothing
  <2>2. CASE ~SnapshotStore
    <3>1. /\ snapshot' = snapshot
          /\ ~FinishUpdate /\ ~FinishRollback
      BY <2>2, CopiesStay DEF PreparationFails, FinishUpdate, FinishRollback
    <3>2. CASE kept = Nothing
      <4>1. PreserveStore \/ kept' = kept
        BY <3>2, KeptLate DEF LauncherInv
      <4>2. CASE kept' = kept
        BY <3>2, <4>2 DEF Nothing
      <4>3. CASE PreserveStore
        <5>1. Head(todo) # "log"
          <6>1. Head(todo) = "log" => Left = {"log"}
            BY <1>2, <4>3
          <6>2. \A t \in Store \ Left : kept[t] # Missing
            BY <1>2, <4>3 DEF MovedInv
          <6> QED BY <3>2, <6>1, <6>2 DEF Nothing
        <5> QED BY <1>2, <3>2, <4>3, <5>1, PreservedFile DEF Nothing
      <4> QED BY <4>1, <4>2, <4>3
    <3>3. CASE kept # Nothing
      <4>1. pc \in Late /\ server.build # "new"
        BY <3>3 DEF OriginalsInv
      <4>2. marker # "required"
        BY <1>0, <3>1, <4>1, MarkerSteps, ExcusesStay
           DEF PrepareRecords, MarkRestore, Late, Uncertain, Restarted
      <4>3. \A t \in Store : kept[t] # Missing => live[t] = Missing
        BY <3>1, <4>2 DEF MovedInv
      <4>4. CASE UNCHANGED dataVars
        BY <4>3, <4>4 DEF dataVars
      <4>5. CASE StopServer \/ DecideRestore
        <5>1. \/ UNCHANGED dataVars
              \/ /\ live["database"] # Missing
                 /\ live' = [live EXCEPT !["database"] = log]
                 /\ kept' = IF Linked THEN [kept EXCEPT !["database"] = log] ELSE kept
          BY <4>5, CheckpointMerges DEF StopServer, DecideRestore
        <5>2. live["database"] # Missing => ~Linked /\ kept["database"] = Missing
          BY <4>3 DEF Linked
        <5> QED BY <4>3, <5>1, <5>2 DEF dataVars, DataTyped
      <4>6. CASE PreserveStore
        <5>1. CASE Head(todo) = "log"
          <6>1. /\ live' = live
                /\ kept'["identities"] = kept["identities"]
                /\ kept["database"] # Missing
            BY <1>2, <4>6, <5>1, PreservedFile DEF MovedInv
          <6> QED BY <4>3, <6>1, StoresAndFiles
        <5>2. CASE Head(todo) # "log"
          BY <1>2, <4>3, <4>6, <5>2, PreservedFile
        <5> QED BY <5>1, <5>2
      <4>7. ~RemoveLog /\ ~PutStoreBack
        BY <1>0, <4>2 DEF RemoveLog, PutStoreBack, RestoreInv
      <4>8. ~NewBuildWrites
        BY <4>1 DEF NewBuildWrites
      <4>9. CASE AcceptChange
        BY <4>3, <4>9 DEF AcceptChange
      <4> QED BY <2>2, <4>4, <4>5, <4>6, <4>7, <4>8, <4>9, DataSteps
    <3> QED BY <3>2, <3>3
  <2> QED BY <2>1, <2>2
<1> QED BY <1>1, <1>4, <1>5, <1>6 DEF MovedInv

-----------------------------------------------------------------------------
(* What the failed build wrote.                                            *)

\* A checkpoint leaves what is to be kept to be kept.
LEMMA CheckpointKeeps ==
  ASSUME DataTyped, OriginalsInv, MovedInv, LogIsNewest, marker # "required", snapshot # Nothing,
         Checkpointed \/ UNCHANGED dataVars,
         pc' = "preserve" => Store \cup {"log"} \subseteq Left', pc' # "keep",
         NEW s \in Store, Keeps(s)
  PROVE  Keeps(s)'
<1> USE TwoStores DEF DataTyped
<1>1. \A item \in Store \cup {"log"} : Due(item)'
  BY DEF Due
<1>2. CASE UNCHANGED dataVars
  BY <1>1, <1>2 DEF dataVars, Keeps, ByNew
<1>3. CASE ~UNCHANGED dataVars
  <2>1. /\ log # Missing /\ live["database"] # Missing
        /\ live' = [live EXCEPT !["database"] = log]
        /\ kept' = IF Linked THEN [kept EXCEPT !["database"] = log] ELSE kept
    BY <1>3, CheckpointMerges
  <2>2. CASE s = "identities"
    <3>1. live'[s] = live[s] /\ kept'[s] = kept[s]
      BY <2>1, <2>2
    <3> QED BY <1>1, <2>2, <3>1 DEF Keeps, ByNew
  <2>3. CASE s = "database"
    <3>1. Linked <=> kept["database"] # Missing
      BY <2>1 DEF Linked, MovedInv, OriginalsInv
    <3>2. ByNew(log)
      BY <2>1, <2>3 DEF Keeps, LogIsNewest
    <3>3. live'["database"] = log
      BY <2>1
    <3>4. CASE Linked
      <4>1. kept'["database"] = log
        BY <2>1, <3>4
      <4> QED BY <2>3, <3>2, <4>1 DEF Keeps, ByNew
    <3>5. CASE ~Linked
      <4>1. kept'["database"] = Missing
        BY <2>1, <3>1, <3>5
      <4> QED BY <1>1, <2>3, <3>2, <3>3, <4>1 DEF Keeps, ByNew
    <3> QED BY <3>4, <3>5
  <2> QED BY <2>2, <2>3, StoresAndFiles
<1> QED BY <1>2, <1>3

\* What is to be kept is kept, or still to be.
LEMMA PreserveKeeps ==
  ASSUME LauncherInv, MovedInv, LogIsNewest, PreserveStore, NEW s \in Store, Keeps(s)
  PROVE  Keeps(s)'
<1> USE TwoStores DEF LauncherInv, Typed
<1>1. pc = "preserve" /\ todo \in PreservingLists /\ Proceed("keep", <<>>)
  BY DEF PreserveStore, MovedInv, PreservingLists
<1>2. /\ Head(todo) \in {"database", "identities", "log"} /\ Head(todo) \in Left
      /\ "log" \in Left
      /\ \/ /\ Head(todo) = "log" /\ pc' = "keep" /\ Left = {"log"}
         \/ /\ Head(todo) \in Store /\ pc' = "preserve"
            /\ Left' = Left \ {Head(todo)} /\ "log" \in Left'
  BY <1>1, PreservingInOrder
<1>3. \A content : ByNew(content) => content # Missing
  BY DEF ByNew, Missing
<1>4. CASE Head(todo) = "log"
  <2>1. /\ kept'["identities"] = kept["identities"]
        /\ kept'["database"] = IF log = Missing THEN kept["database"] ELSE log
    BY <1>2, <1>4, PreservedFile
  <2>2. ByNew(kept[s]) \/ (s = "database" /\ ByNew(log))
    BY <1>1, <1>2, <1>4 DEF Keeps, Due
  <2>3. ByNew(kept'[s])
    BY <1>3, <2>1, <2>2, StoresAndFiles DEF LogIsNewest
  <2> QED BY <2>3 DEF Keeps, ByNew
<1>5. CASE Head(todo) # "log" /\ s # Head(todo)
  <2>1. live'[s] = live[s] /\ kept'[s] = kept[s] /\ log' = log
    BY <1>2, <1>5, PreservedFile
  <2>2. \A item \in Store \cup {"log"} : item # Head(todo) /\ Due(item) => Due(item)'
    BY <1>1, <1>2, <1>5 DEF Due
  <2> QED BY <1>2, <1>5, <2>1, <2>2 DEF Keeps, ByNew
<1>6. CASE Head(todo) # "log" /\ s = Head(todo)
  <2>1. /\ log' = log
        /\ \/ UNCHANGED <<live, kept>> /\ (live[s] = Missing \/ kept[s] # Missing)
           \/ kept[s] = Missing /\ kept'[s] = live[s]
    BY <1>2, <1>6, PreservedFile
  <2>2. CASE ByNew(kept[s])
    <3>1. kept'[s] = kept[s]
      BY <1>3, <2>1, <2>2
    <3> QED BY <2>2, <3>1 DEF Keeps, ByNew
  <2>3. CASE kept[s] = Missing /\ ByNew(live[s])
    <3>1. kept'[s] = live[s]
      BY <1>3, <2>1, <2>3
    <3> QED BY <2>3, <3>1 DEF Keeps, ByNew
  <2>4. CASE s = "database" /\ ByNew(log)
    BY <1>2, <1>6, <2>1, <2>4 DEF Keeps, ByNew, Due
  <2> QED BY <2>2, <2>3, <2>4 DEF Keeps
<1> QED BY <1>4, <1>5, <1>6

\* Whatever the step, the log is the newest.
LEMMA LogStep ==
  ASSUME LauncherInv, BeforeInv, OriginalsInv, MovedInv, LogIsNewest,
         [LauncherNext]_launcherUpdateVars, ~excused'
  PROVE  LogIsNewest'
<1> USE TwoStores DEF LauncherInv, Typed
<1> SUFFICES ASSUME log' # Missing, ByNew(live'["database"]) \/ ByNew(kept'["database"])
             PROVE  ByNew(log')
  BY DEF LogIsNewest, ByNew
<1>1. CASE UNCHANGED dataVars
  BY <1>1 DEF dataVars, LogIsNewest
<1>2. CASE SnapshotStore \/ StopServer \/ DecideRestore
  BY <1>1, <1>2, CheckpointMerges DEF SnapshotStore, StopServer, DecideRestore
<1>3. CASE PreserveStore
  <2>1. todo \in PreservingLists /\ pc = "preserve" /\ Proceed("keep", <<>>)
    BY <1>3 DEF PreserveStore, MovedInv, PreservingLists
  <2>2. Head(todo) \in {"database", "identities", "log"}
    BY <2>1, PreservingInOrder
  <2>3. ~ByNew(Missing)
    BY DEF ByNew, Missing
  <2>4. log' = log /\ Head(todo) # "log"
    BY <1>3, <2>2, PreservedFile
  <2>5. /\ live'["database"] \in {live["database"], Missing}
        /\ kept'["database"] \in {live["database"], kept["database"]}
    BY <1>3, <2>2, <2>4, PreservedFile
  <2> QED BY <2>3, <2>4, <2>5 DEF LogIsNewest
<1>4. CASE RemoveLog
  BY <1>4 DEF RemoveLog, LogIsNewest
<1>5. CASE PutStoreBack
  <2>1. /\ log' = log /\ kept' = kept
        /\ live' = live \/ live' = [live EXCEPT ![Head(todo)] = prepared[Head(todo)]]
    BY <1>5 DEF PutStoreBack
  <2>2. ~ByNew(prepared["database"])
    <3>1. prepared["database"] = Missing \/ prepared["database"].by = "old"
      BY DEF CopiesInv, Copied, Original
    <3>2. Missing.by = "nobody"
      BY DEF Missing
    <3> QED BY <3>1, <3>2 DEF ByNew
  <2>3. live'["database"] \in {live["database"], prepared["database"]}
    BY <2>1 DEF DataTyped
  <2> QED BY <2>1, <2>2, <2>3 DEF LogIsNewest
<1>6. CASE NewBuildWrites
  <2>1. PICK s \in Store, content \in Content :
          /\ content.by = "new"
          /\ \/ s = "database" /\ log' = content /\ live' = live
             \/ /\ live' = [live EXCEPT ![s] = content]
                /\ log' = IF s = "database" THEN Missing ELSE log
    BY <1>6, NewBuildsData
  <2>2. kept' = kept
    BY <1>6, NewBuildsData
  <2>3. CASE s = "database"
    BY <2>1, <2>3 DEF ByNew
  <2>4. CASE s # "database"
    <3>1. log' = log /\ live'["database"] = live["database"]
      BY <2>1, <2>4 DEF DataTyped
    <3> QED BY <2>2, <3>1 DEF LogIsNewest
  <2> QED BY <2>3, <2>4
<1>7. CASE AcceptChange
  <2>1. /\ live' = live /\ kept' = kept /\ log'.by = Data("database").by
        /\ Data("database") # Missing
    BY <1>7, AcceptedData
  <2>2. kept = Nothing
    <3>1. pc \in {"idle", "wait"} \/ server.build = "new"
      BY <1>7, AcceptedData
    <3> QED BY <3>1 DEF OriginalsInv, Late, Uncertain, Restarted
  <2>3. ByNew(live["database"])
    BY <2>1, <2>2 DEF Nothing, ByNew, Missing
  <2>4. ByNew(Data("database"))
    <3>1. Data("database") = live["database"] \/ (log # Missing /\ Data("database") = log)
      BY <2>1 DEF Data
    <3> QED BY <2>3, <3>1 DEF LogIsNewest
  <2> QED BY <2>1, <2>4 DEF ByNew
<1> QED BY <1>1, <1>2, <1>3, <1>4, <1>5, <1>6, <1>7, DataSteps

\* Once the failed build's data are whole they stay so.
LEMMA WholeStep ==
  ASSUME LauncherInv, BeforeInv, OriginalsInv, MovedInv, WrittenInv,
         [LauncherNext]_launcherUpdateVars, ~excused'
  PROVE  /\ written' \subseteq Store
         /\ (whole => log = Missing /\ \A s \in written : ByNew(kept[s]))'
         /\ (pc = "keep" => log = Missing)'
<1> USE TwoStores DEF LauncherInv, Typed
<1>0. ~excused
  BY ExcusesStay
<1>1. written' \subseteq Store
  BY HistorySteps DEF WrittenInv, DecideRestore
<1>2. log = Missing /\ pc \in Late /\ server.build # "new" => log' = Missing
  <2> SUFFICES ASSUME log = Missing, pc \in Late, server.build # "new" PROVE log' = Missing
    OBVIOUS
  <2>1. ~NewBuildWrites /\ ~AcceptChange
    <3>1. AcceptChange => pc \in {"idle", "wait"} \/ server.build = "new"
      BY AcceptedData DEF LauncherInv
    <3> QED BY <3>1 DEF NewBuildWrites, Late, Uncertain, Restarted
  <2>2. CASE SnapshotStore \/ StopServer \/ DecideRestore
    BY <2>2, CheckpointMerges DEF SnapshotStore, StopServer, DecideRestore, dataVars
  <2> QED BY <2>1, <2>2, DataSteps DEF dataVars, PreserveStore, RemoveLog, PutStoreBack
<1>3. (pc = "keep" => log = Missing)'
  <2> SUFFICES ASSUME pc' = "keep" PROVE log' = Missing
    OBVIOUS
  <2>1. CASE UNCHANGED <<pc, todo>>
    <3>1. log = Missing
      BY <2>1 DEF WrittenInv
    <3>2. server.build = "none"
      BY <1>0, <2>1, StoppedIsQuiet DEF Stopped
    <3> QED BY <1>2, <2>1, <3>1, <3>2 DEF Late, Uncertain
  <2>2. CASE PreserveStore
    <3>1. todo \in PreservingLists /\ pc = "preserve" /\ Proceed("keep", <<>>)
      BY <2>2 DEF PreserveStore, MovedInv, PreservingLists
    <3>2. Head(todo) = "log"
      BY <3>1, PreservingInOrder
    <3> QED BY <2>2, <3>2, PreservedFile
  <2> QED BY <2>1, <2>2, LatePhases
<1>4. (whole => log = Missing /\ \A s \in written : ByNew(kept[s]))'
  <2> SUFFICES ASSUME whole' PROVE log' = Missing /\ \A s \in written' : ByNew(kept'[s])
    BY DEF ByNew
  <2>1. CASE whole
    <3>1. log = Missing /\ \A s \in written : ByNew(kept[s])
      BY <2>1 DEF WrittenInv
    <3>2. pc \in Late /\ server.build # "new" /\ \A s \in Store : kept[s] # Missing
      BY <2>1 DEF OriginalsInv, MovedInv
    <3>3. log' = Missing
      BY <1>2, <3>1, <3>2
    <3>4. kept # Nothing
      BY <3>2 DEF Nothing
    <3>5. written' = written
      BY <3>4, HistorySteps DEF DecideRestore
    <3>6. kept' = kept
      <4>1. CASE PreserveStore
        <5>1. todo \in PreservingLists /\ pc = "preserve" /\ Proceed("keep", <<>>)
          BY <4>1 DEF PreserveStore, MovedInv, PreservingLists
        <5>2. Head(todo) \in {"database", "identities", "log"}
          BY <5>1, PreservingInOrder
        <5>3. kept'["database"] = kept["database"] /\ kept'["identities"] = kept["identities"]
          BY <3>1, <3>2, <4>1, <5>2, PreservedFile, StoresAndFiles
        <5>4. kept' \in [Store -> Content] /\ kept \in [Store -> Content]
          BY DataAreTyped DEF DataTyped
        <5> QED BY <5>3, <5>4, StoresAndFiles
      <4>2. CASE SnapshotStore \/ StopServer \/ DecideRestore
        BY <3>1, <4>2, CheckpointMerges DEF SnapshotStore, StopServer, DecideRestore, dataVars
      <4>3. CASE NewBuildWrites \/ AcceptChange \/ RemoveLog \/ PutStoreBack \/ UNCHANGED dataVars
        BY <3>2, <4>3 DEF NewBuildWrites, AcceptChange, RemoveLog, PutStoreBack, dataVars
      <4> QED BY <4>1, <4>2, <4>3, DataSteps
    <3> QED BY <3>1, <3>3, <3>5, <3>6
  <2>2. CASE ~whole
    <3>1. KeepFailedData
      BY <2>2, HistorySteps
    <3>2. pc = "keep" /\ UNCHANGED <<live, log, kept, written>>
      BY <3>1 DEF KeepFailedData, dataVars, historyVars
    <3>3. log = Missing /\ \A s \in written : Keeps(s)
      BY <2>2, <3>2 DEF WrittenInv
    <3> QED BY <3>2, <3>3 DEF Keeps
  <2> QED BY <2>1, <2>2
<1> QED BY <1>1, <1>3, <1>4

\* Until they are whole, what is missing is on its way.
LEMMA KeepsStep ==
  ASSUME LauncherInv, BeforeInv, OriginalsInv, MovedInv, WrittenInv,
         [LauncherNext]_launcherUpdateVars, ~excused'
  PROVE  ((/\ ~whole
           /\ \/ pc \in {"preserve", "keep"}
              \/ marker # "required" /\ kept # Nothing /\ snapshot # Nothing)
          => \A s \in written : Keeps(s))'
<1> USE TwoStores DEF LauncherInv, Typed
<1> SUFFICES ASSUME ~whole',
                    \/ pc' \in {"preserve", "keep"}
                    \/ marker' # "required" /\ kept' # Nothing /\ snapshot' # Nothing,
                    NEW s \in written'
             PROVE  Keeps(s)'
  OBVIOUS
<1>0. ~excused /\ ~PidNotSaved /\ ~StopFails /\ (SupervisedStart => pc = "idle")
  BY ExcusesStay
<1>1. ~whole /\ ~KeepFailedData
  <2>1. ~KeepFailedData
    BY DEF KeepFailedData
  <2> QED BY <2>1, HistorySteps
<1>2. LogIsNewest /\ written \subseteq Store
  BY DEF WrittenInv
<1>3. CASE DecideRestore
  <2>1. /\ pc = "decide" /\ UNCHANGED <<marker, snapshot>>
        /\ Checkpointed \/ UNCHANGED dataVars
        /\ pc' = "preserve" => todo' = Preserving /\ MustRestore /\ marker # "required"
        /\ pc' # "keep"
        /\ written' = IF marker # "required" /\ kept = Nothing
                        THEN {t \in Store : Data(t).by = "new"} ELSE written
    BY <1>3 DEF DecideRestore, ThenRestore, RollbackFails, Publish, Goto, copyVars
  <2>2. pc' = "preserve" => Store \cup {"log"} \subseteq Left'
    BY <2>1, StoresAndFiles DEF Left, ToSet, Preserving
  <2>3. marker # "required" /\ snapshot # Nothing
    <3>1. CASE pc' = "preserve"
      <4>1. ~Untouched
        BY <2>1, <3>1, OriginalIsKept DEF MustRestore, Untouched
      <4> QED BY <2>1, <3>1, <4>1, FullIsThere DEF CopiesInv, RollingBack
    <3> QED BY <2>1, <3>1
  <2>4. Keeps(s) /\ s \in Store
    <3>1. CASE kept = Nothing
      <4>1. s \in Store /\ Data(s).by = "new"
        BY <2>1, <2>3, <3>1
      <4>2. kept[s] = Missing /\ Due(s) /\ Due("log") /\ pc # "keep"
        BY <2>1, <3>1, <4>1 DEF Nothing, Due
      <4>3. ByNew(live[s]) \/ (s = "database" /\ ByNew(log))
        <5>1. Missing.by = "nobody"
          BY DEF Missing
        <5>2. Data(s) = live[s] \/ (s = "database" /\ Data(s) = log) \/ Data(s) = Missing
          BY <4>1, StoresAndFiles DEF Data
        <5> QED BY <4>1, <5>1, <5>2 DEF ByNew
      <4> QED BY <4>1, <4>2, <4>3 DEF Keeps
    <3>2. CASE kept # Nothing
      <4>1. s \in written
        BY <2>1, <3>2
      <4> QED BY <1>1, <1>2, <2>3, <3>2, <4>1 DEF WrittenInv
    <3> QED BY <3>1, <3>2
  <2> QED BY <1>2, <2>1, <2>2, <2>3, <2>4, CheckpointKeeps
<1>4. CASE PreserveStore
  <2>1. pc = "preserve" /\ written' = written
    BY <1>4 DEF PreserveStore, historyVars
  <2>2. s \in Store /\ Keeps(s)
    BY <1>1, <1>2, <2>1 DEF WrittenInv
  <2> QED BY <1>2, <1>4, <2>2, PreserveKeeps DEF LauncherInv
<1>5. CASE ~DecideRestore /\ ~PreserveStore
  <2>1. written' = written /\ s \in Store
    BY <1>2, <1>5, HistorySteps
  <2>2. CASE pc' \in {"preserve", "keep"}
    <3>1. UNCHANGED <<pc, todo>>
      BY <1>5, <2>2, LatePhases
    <3>2. UNCHANGED dataVars
      <4>1. ~NewBuildWrites /\ ~AcceptChange
        BY <1>0, <2>2, <3>1, StoppedIsQuiet DEF Stopped
      <4> QED BY <1>5, <2>2, <3>1, <4>1, DataSteps
              DEF SnapshotStore, StopServer, RemoveLog, PutStoreBack
    <3>3. Keeps(s)
      BY <1>1, <2>1, <2>2, <3>1 DEF WrittenInv
    <3> QED BY <3>1, <3>2, <3>3 DEF dataVars, Keeps, ByNew, Due, Left
  <2>3. CASE pc' \notin {"preserve", "keep"}
    <3>1. marker' # "required" /\ kept' # Nothing /\ snapshot' # Nothing
      BY <2>3
    <3>2. kept # Nothing
      BY <1>5, <3>1, KeptLate DEF LauncherInv
    <3>3. pc \in Late /\ server.build # "new"
      BY <3>2 DEF OriginalsInv
    <3>4. snapshot' = snapshot /\ ~FinishUpdate /\ ~FinishRollback
      BY <3>1, <3>3, CopiesStay
         DEF SnapshotStore, PreparationFails, FinishUpdate, FinishRollback, Late,
             Uncertain, Restarted
    <3>5. marker # "required"
      BY <1>0, <3>1, <3>3, <3>4, MarkerSteps
         DEF PrepareRecords, MarkRestore, Late, Uncertain, Restarted
    <3>6. Keeps(s)
      BY <1>1, <2>1, <3>1, <3>2, <3>4, <3>5 DEF WrittenInv
    <3>7. Checkpointed \/ UNCHANGED dataVars
      <4>1. ~RemoveLog /\ ~PutStoreBack
        BY <1>0, <3>5 DEF RemoveLog, PutStoreBack, RestoreInv
      <4>2. ~NewBuildWrites /\ ~AcceptChange
        <5>1. AcceptChange => pc \in {"idle", "wait"} \/ server.build = "new"
          BY AcceptedData DEF LauncherInv
        <5> QED BY <3>3, <5>1 DEF NewBuildWrites, Late, Uncertain, Restarted
      <4> QED BY <1>5, <4>1, <4>2, DataSteps DEF SnapshotStore, StopServer
    <3> QED BY <1>2, <2>1, <2>3, <3>1, <3>4, <3>5, <3>6, <3>7, CheckpointKeeps
  <2> QED BY <2>2, <2>3
<1> QED BY <1>3, <1>4, <1>5

\* Whatever the step, a result that is final comes without a snapshot.
LEMMA FinalStep ==
  ASSUME LauncherInv, FinalInv, [LauncherNext]_launcherUpdateVars
  PROVE  FinalInv'
<1> USE DEF LauncherInv
<1> SUFFICES ASSUME result' \in {"succeeded", "restored", "notPrepared", "notRestarted"}
             PROVE  snapshot' = Nothing
  BY DEF FinalInv
<1>1. CASE FinishUpdate \/ FinishRollback
  BY <1>1 DEF FinishUpdate, FinishRollback
<1>2. CASE result' = result /\ ~FinishUpdate /\ ~FinishRollback
  <2>1. snapshot = Nothing /\ pc = "done"
    BY <1>2 DEF FinalInv, ResultInv
  <2> QED BY <1>2, <2>1, CopiesStay DEF SnapshotStore, PreparationFails, StageFails
<1>3. CASE result' # result /\ ~FinishUpdate /\ ~FinishRollback
  <2>1. /\ NoServerFile \/ AwaitReady \/ AwaitFails
        /\ pc \in {"restart", "await restart"}
    BY <1>3, ResultSteps
       DEF ExitTooLate, NoServerFile, AwaitReady, AwaitFails, DecideRestore, RestoreFails,
           PutBackFails, StartFailed, RollbackFails, ThenRestore, Publish, Starting, Awaiting
  <2> QED BY <2>1 DEF NoServerFile, AwaitReady, AwaitFails, copyVars, CopiesInv
<1> QED BY <1>1, <1>2, <1>3

\* Nothing is lost at the start, and by no step.
LEMMA NothingLostYet == LauncherInit => LossInv
<1> SUFFICES ASSUME LauncherInit PROVE LossInv
  OBVIOUS
<1> USE TwoStores, StoresAndFiles DEF LauncherInit
<1>1. /\ acked = {} /\ written = {} /\ whole = FALSE /\ log = Missing /\ pc = "idle"
      /\ snapshot = Nothing /\ prepared = Nothing /\ kept = Nothing /\ marker = "none"
      /\ server.build = "old" /\ server.gate = "none" /\ result = "none"
  BY DEF Nothing
<1>2. \A s \in Store : live[s] = [format |-> 0, by |-> "old", changes |-> {}, copy |-> FALSE]
  OBVIOUS
<1>3. /\ \A s \in Store : live[s] # Missing /\ ~live[s].copy /\ live[s].changes = {}
      /\ Missing.changes = {} /\ ~Missing.copy
  BY <1>2 DEF Missing, Unreadable
<1>4. Data("database") = live["database"]
  BY <1>1 DEF Data
<1>5. BeforeInv
  BY <1>1, <1>3, <1>4 DEF BeforeInv, Holds, Before, Nothing
<1>6. AfterInv
  BY <1>1 DEF AfterInv
<1>7. OriginalsInv
  BY <1>1, <1>3 DEF OriginalsInv, Nothing
<1>8. MovedInv
  BY <1>1, <1>3 DEF MovedInv, Nothing
<1>9. WrittenInv
  BY <1>1 DEF WrittenInv, LogIsNewest
<1>10. FinalInv
  BY <1>1 DEF FinalInv
<1> QED BY <1>5, <1>6, <1>7, <1>8, <1>9, <1>10 DEF LossInv

\* A database that is missing is in the snapshot; a final result has none.
LEMMA LossInvSuffices == LauncherInv /\ LossInv => NothingIsLost
<1> SUFFICES ASSUME LauncherInv, LossInv, ~excused
             PROVE  /\ ~Active /\ result \in {"succeeded", "restored", "notPrepared", "notRestarted"}
                         => Promised \subseteq Data("database").changes
                    /\ Promised \subseteq Data("database").changes \cup snapshot["database"].changes
                                          \cup kept["database"].changes
                    /\ \A s \in Store : ~kept[s].copy
                    /\ whole => \A s \in written : kept[s].by = "new"
  BY DEF NothingIsLost, AcknowledgedAreKept, KeptIsTheFailedBuilds
<1>0. BeforeInv /\ AfterInv /\ OriginalsInv /\ MovedInv /\ WrittenInv /\ FinalInv
  BY DEF LossInv
<1>1. \A content : content # Missing /\ Holds(content) =>
        ("before" \in Promised => "before" \in content.changes)
  BY DEF Holds, Before, Promised
<1>2. "after" \in Promised => "after" \in Data("database").changes
  BY <1>0 DEF Promised, AfterInv
<1>3. Promised \subseteq {"before", "after"}
  BY <1>0 DEF Promised, AfterInv
<1>4. CASE Data("database") # Missing
  <2>1. Promised \subseteq Data("database").changes
    BY <1>0, <1>1, <1>2, <1>3, <1>4 DEF BeforeInv
  <2> QED BY <1>0, <2>1 DEF OriginalsInv, WrittenInv, ByNew
<1>5. CASE Data("database") = Missing
  <2>1. pc \in Uncertain /\ snapshot # Nothing
    BY <1>0, <1>5 DEF BeforeInv
  <2>2. ~Untouched
    <3>1. Missing.format # 0
      BY DEF Missing, Unreadable
    <3> QED BY <1>5, <3>1, TwoStores DEF Untouched, Original
  <2>3. Full
    BY <2>1, <2>2 DEF LauncherInv, CopiesInv, Uncertain, Guarded, RollingBack
  <2>4. snapshot["database"] # Missing /\ Holds(snapshot["database"])
    BY <1>0, <2>3, FullIsThere DEF BeforeInv
  <2>5. Promised \subseteq Data("database").changes \cup snapshot["database"].changes
    BY <1>1, <1>2, <1>3, <2>4
  <2>6. result \notin {"succeeded", "restored", "notPrepared", "notRestarted"}
    BY <1>0, <2>1 DEF FinalInv
  <2> QED BY <1>0, <2>5, <2>6 DEF OriginalsInv, WrittenInv, ByNew
<1> QED BY <1>4, <1>5

\* Unless a server could not be stopped or a restore not recorded, whatever
\* was acknowledged is in the data, or in what they are put back from, and
\* the data are whole once a result is written; and what is kept of a failed
\* build is all it wrote, and nothing a restore put back (apply_update,
\* roll_back_update, preserve_failed_data and restore_data of
\* launcher/src/main.rs, the gate of server/src/main.rs).
THEOREM LauncherLosesNothing == LauncherSpec => []NothingIsLost
<1>1. LauncherInv /\ LauncherInv' /\ LossInv /\ [LauncherNext]_launcherUpdateVars => LossInv'
  <2> SUFFICES ASSUME LauncherInv, LauncherInv', LossInv, [LauncherNext]_launcherUpdateVars,
                      ~excused'
               PROVE  (BeforeInv /\ AfterInv /\ OriginalsInv /\ MovedInv /\ WrittenInv /\ FinalInv)'
    BY DEF LossInv
  <2>1. BeforeInv /\ AfterInv /\ OriginalsInv /\ MovedInv /\ WrittenInv /\ FinalInv
    BY ExcusesStay DEF LossInv
  <2>2. WrittenInv'
    <3>1. LogIsNewest
      BY <2>1 DEF WrittenInv
    <3>2. LogIsNewest'
      BY <2>1, <3>1, LogStep
    <3>3. /\ written' \subseteq Store
          /\ (whole => log = Missing /\ \A s \in written : ByNew(kept[s]))'
          /\ (pc = "keep" => log = Missing)'
      BY <2>1, WholeStep
    <3>4. ((/\ ~whole
            /\ \/ pc \in {"preserve", "keep"}
               \/ marker # "required" /\ kept # Nothing /\ snapshot # Nothing)
           => \A s \in written : Keeps(s))'
      BY <2>1, KeepsStep
    <3> QED BY <3>2, <3>3, <3>4 DEF WrittenInv
  <2> QED BY <2>1, <2>2, BeforeStep, AfterStep, OriginalsStep, MovedStep, FinalStep
<1> QED BY <1>1, LauncherInvariant, NothingLostYet, LossInvSuffices, PTL DEF LauncherSpec

=============================================================================
