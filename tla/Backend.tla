------------------------------- MODULE Backend -------------------------------
(***************************************************************************)
(* The notification handlers of main.rs, the compiler tasks they spawn     *)
(* and the editor that drives them.  One action per await point.           *)
(***************************************************************************)
EXTENDS BackendState

-----------------------------------------------------------------------------
(* Control of the handlers. *)

(* The handler in slot s stands at pc and nothing else is being polled.     *)
At(s, pc) == handlers[s].pc = pc /\ turn \in {s, NoSlot}

(* The handler in slot s goes on as h, suspended if the await yields.       *)
Resume(s, h) ==
  /\ handlers' = [handlers EXCEPT ![s] = h]
  /\ turn' = IF h.pc \in YieldPoints \cup {"idle"} THEN NoSlot ELSE s

Goto(s, pc) == Resume(s, [handlers[s] EXCEPT !.pc = pc])
Return(s)   == Resume(s, IdleHandler)

UriOf(s)  == handlers[s].msg.uri
HasPath(u) == u \in FileUris

(* The message loop starts the handler of the oldest notification.          *)
Dispatch(s) ==
  /\ inbox # <<>> /\ Head(inbox).kind # "malformed"
  /\ turn = NoSlot /\ handlers[s].pc = "idle"
  /\ inbox' = Tail(inbox)
  /\ Resume(s, [IdleHandler EXCEPT !.pc = EntryPoint(Head(inbox).kind),
                                   !.msg = Head(inbox)])
  /\ UNCHANGED <<serverVars, taskVars, editor, lastVersion, disk, published>>

(* did_change and did_change_configuration return at once on these.         *)
IgnoreNotification ==
  /\ inbox # <<>> /\ Head(inbox).kind = "malformed"
  /\ turn = NoSlot /\ \E s \in Slots : handlers[s].pc = "idle"
  /\ inbox' = Tail(inbox)
  /\ UNCHANGED <<serverVars, handlers, turn, taskVars, editor, lastVersion, disk,
                 published>>

-----------------------------------------------------------------------------
(* did_open and did_change. *)

AfterStore(u) == IF HasPath(u) THEN "OverlayConfig" ELSE "PublishConfig"

OpenDocument(s) ==
  LET u   == UriOf(s)
      doc == NewDocument(handlers[s].msg.version, handlers[s].msg.text)
  IN  /\ At(s, "OpenDocument")
      /\ documents' = Open(documents, u, doc)
      /\ Resume(s, [handlers[s] EXCEPT !.pc = AfterStore(u), !.doc = doc])
      /\ UNCHANGED <<stanc, config, workspace, compilerTasks, compilerVersion,
                     taskVars, editorVars, published>>

ReplaceDocument(s) ==
  LET u == UriOf(s)
      v == handlers[s].msg.version
      t == handlers[s].msg.text
  IN  /\ At(s, "ReplaceDocument")
      /\ IF Accepts(documents, u, v)
         THEN /\ documents' = Replace(documents, u, v, t)
              /\ Resume(s, [handlers[s] EXCEPT !.pc = AfterStore(u),
                                               !.doc = NewDocument(v, t)])
         ELSE Return(s) /\ UNCHANGED documents
      /\ UNCHANGED <<stanc, config, workspace, compilerTasks, compilerVersion,
                     taskVars, editorVars, published>>

(* config.read().await.clone() before the overlay: open, change and close.  *)
OverlayConfig(s) ==
  /\ At(s, "OverlayConfig")
  /\ Resume(s, [handlers[s] EXCEPT
       !.config = config,
       !.pc = IF handlers[s].msg.kind = "close" THEN "ClearOverlay" ELSE "SetOverlay"])
  /\ UNCHANGED <<serverVars, taskVars, editorVars, published>>

(* A bug: the overlay is left as it was by a change. *)
InstallOverlayOnOpen(s) ==
  /\ At(s, "SetOverlay")
  /\ workspace' = IF handlers[s].msg.kind = "open"
                  THEN SetOverlay(workspace, disk, PathOf[UriOf(s)],
                                  handlers[s].doc.text, handlers[s].config)
                  ELSE workspace
  /\ Goto(s, "PublishConfig")
  /\ UNCHANGED <<documents, stanc, config, compilerTasks, compilerVersion,
                 taskVars, editorVars, published>>

InstallOverlay(s) ==
  /\ At(s, "SetOverlay")
  /\ workspace' = SetOverlay(workspace, disk, PathOf[UriOf(s)],
                             handlers[s].doc.text, handlers[s].config)
  /\ Goto(s, "PublishConfig")
  /\ UNCHANGED <<documents, stanc, config, compilerTasks, compilerVersion,
                 taskVars, editorVars, published>>

PublishConfig(s) ==
  /\ At(s, "PublishConfig")
  /\ Resume(s, [handlers[s] EXCEPT !.config = config, !.pc = "Publish"])
  /\ UNCHANGED <<serverVars, taskVars, editorVars, published>>

(* publish: the local diagnostics and the workspace ones; the include       *)
(* diagnostics are computed on the handler's text and the disk of now.      *)
LocalPublication(u, doc, cfg) ==
  [NoPublication EXCEPT
     !.kind = "local", !.version = doc.version, !.text = doc.text,
     !.unresolved = IF HasPath(u) THEN Unresolved(disk, PathOf[u], doc.text, cfg)
                                  ELSE {}]

Publish(s) ==
  /\ At(s, "Publish")
  /\ published' = [published EXCEPT ![UriOf(s)] =
                     LocalPublication(UriOf(s), handlers[s].doc, handlers[s].config)]
  /\ IF handlers[s].msg.kind = "change" THEN Goto(s, "ScheduleConfig") ELSE Return(s)
  /\ UNCHANGED <<serverVars, taskVars, editorVars>>

-----------------------------------------------------------------------------
(* schedule_compiler, after a change. *)

ScheduleConfig(s) ==
  /\ At(s, "ScheduleConfig")
  /\ IF config.onChange THEN Goto(s, "ScheduleRunner") ELSE Return(s)
  /\ UNCHANGED <<serverVars, taskVars, editorVars, published>>

(* Identifiers a new task may take: finished, and in no map entry.          *)
FreeTasks == {t \in TaskIds : /\ tasks[t].pc = "done"
                              /\ \A u \in Uris : compilerTasks[u] # t
                              /\ \A s \in Slots : handlers[s].task # t}

(* tokio::spawn: the task runs from here on, registered or not.             *)
Spawn(s, t) ==
  /\ tasks' = [tasks EXCEPT ![t] =
       [pc |-> "debounce", uri |-> UriOf(s), version |-> handlers[s].doc.version,
        source |-> handlers[s].doc.text, runner |-> stanc, text |-> NoText]]
  /\ cancelled' = cancelled \ {t}
  /\ tempFiles' = tempFiles \ {t}
  /\ processes' = processes \ {t}
  /\ Resume(s, [handlers[s] EXCEPT !.pc = "RegisterTask", !.task = t])

ScheduleRunner(s) ==
  /\ At(s, "ScheduleRunner")
  /\ \/ stanc # NoRunner /\ HasPath(UriOf(s)) /\ \E t \in FreeTasks : Spawn(s, t)
     \/ ~(stanc # NoRunner /\ HasPath(UriOf(s))) /\ Return(s) /\ UNCHANGED taskVars
  /\ UNCHANGED <<serverVars, editorVars, published>>

(* abort on the task a map entry names, if it still runs.                   *)
Abort(t) == cancelled' = IF t # NoTask /\ tasks[t].pc # "done"
                         THEN cancelled \cup {t} ELSE cancelled

(* A bug: the task the new one replaces is not aborted. *)
RegisterWithoutAbort(s) ==
  /\ At(s, "RegisterTask")
  /\ compilerTasks' = [compilerTasks EXCEPT ![UriOf(s)] = handlers[s].task]
  /\ Return(s)
  /\ UNCHANGED <<documents, stanc, config, workspace, compilerVersion, taskVars,
                 editorVars, published>>

RegisterTask(s) ==
  /\ At(s, "RegisterTask")
  /\ Abort(compilerTasks[UriOf(s)])
  /\ compilerTasks' = [compilerTasks EXCEPT ![UriOf(s)] = handlers[s].task]
  /\ Return(s)
  /\ UNCHANGED <<documents, stanc, config, workspace, compilerVersion, tasks,
                 tempFiles, processes, editorVars, published>>

-----------------------------------------------------------------------------
(* did_close. *)

CloseDocument(s) ==
  /\ At(s, "CloseDocument")
  /\ documents' = Close(documents, UriOf(s))
  /\ Goto(s, "CancelTask")
  /\ UNCHANGED <<stanc, config, workspace, compilerTasks, compilerVersion,
                 taskVars, editorVars, published>>

(* compiler_tasks.lock().await.remove(&uri): close and save.                *)
CancelTask(s) ==
  LET u == UriOf(s)
  IN  /\ At(s, "CancelTask")
      /\ Abort(compilerTasks[u])
      /\ compilerTasks' = [compilerTasks EXCEPT ![u] = NoTask]
      /\ Goto(s, IF handlers[s].msg.kind = "save" THEN "SaveEnabled"
                 ELSE IF HasPath(u) THEN "OverlayConfig" ELSE "PublishEmpty")
      /\ UNCHANGED <<documents, stanc, config, workspace, compilerVersion, tasks,
                     tempFiles, processes, editorVars, published>>

RemoveOverlay(s) ==
  /\ At(s, "ClearOverlay")
  /\ workspace' = ClearOverlay(workspace, disk, PathOf[UriOf(s)], handlers[s].config)
  /\ Goto(s, "PublishEmpty")
  /\ UNCHANGED <<documents, stanc, config, compilerTasks, compilerVersion,
                 taskVars, editorVars, published>>

PublishEmpty(s) ==
  /\ At(s, "PublishEmpty")
  /\ published' = [published EXCEPT ![UriOf(s)] = [NoPublication EXCEPT !.kind = "empty"]]
  /\ Return(s)
  /\ UNCHANGED <<serverVars, taskVars, editorVars>>

-----------------------------------------------------------------------------
(* did_save. *)

SaveEnabled(s) ==
  /\ At(s, "SaveEnabled")
  /\ IF config.onSave THEN Goto(s, "SaveRunner") ELSE Return(s)
  /\ UNCHANGED <<serverVars, taskVars, editorVars, published>>

SaveRunner(s) ==
  /\ At(s, "SaveRunner")
  /\ IF stanc = NoRunner
     THEN Return(s)
     ELSE Resume(s, [handlers[s] EXCEPT !.runner = stanc, !.pc = "SaveDocument"])
  /\ UNCHANGED <<serverVars, taskVars, editorVars, published>>

SaveDocument(s) ==
  LET u == UriOf(s)
  IN  /\ At(s, "SaveDocument")
      /\ IF IsOpen(documents, u) /\ HasPath(u)
         THEN Resume(s, [handlers[s] EXCEPT !.doc = documents[u], !.pc = "CachedVersion"])
         ELSE Return(s)
      /\ UNCHANGED <<serverVars, taskVars, editorVars, published>>

CachedVersion(s) ==
  /\ At(s, "CachedVersion")
  /\ Resume(s, [handlers[s] EXCEPT
       !.reported = compilerVersion,
       !.pc = IF compilerVersion = NoRunner THEN "QueryVersion" ELSE "ReadSource"])
  /\ UNCHANGED <<serverVars, taskVars, editorVars, published>>

(* runner.version(): it may fail or time out, and the save goes on.         *)
QueryVersion(s) ==
  /\ At(s, "QueryVersion")
  /\ \/ Resume(s, [handlers[s] EXCEPT !.reported = handlers[s].runner,
                                      !.pc = "StoreVersion"])
     \/ Goto(s, "ReadSource")
  /\ UNCHANGED <<serverVars, taskVars, editorVars, published>>

StoreVersion(s) ==
  /\ At(s, "StoreVersion")
  /\ compilerVersion' = handlers[s].reported
  /\ Goto(s, "ReadSource")
  /\ UNCHANGED <<documents, stanc, config, workspace, compilerTasks, taskVars,
                 editorVars, published>>

(* StancRunner::check reads the saved file, then runs stanc on its path.    *)
ReadSource(s) ==
  /\ At(s, "ReadSource")
  /\ IF IsFile(disk, PathOf[UriOf(s)]) THEN Goto(s, "RunCompiler") ELSE Return(s)
  /\ UNCHANGED <<serverVars, taskVars, editorVars, published>>

(* stanc opens the saved file while the handler waits for its output.       *)
RunCompiler(s) ==
  /\ At(s, "RunCompiler")
  /\ Resume(s, [handlers[s] EXCEPT !.checked = ReadFile(disk, PathOf[UriOf(s)]),
                                   !.pc = "AwaitCompiler"])
  /\ UNCHANGED <<serverVars, taskVars, editorVars, published>>

(* Its output, or a process that cannot be started or is out of time.       *)
AwaitCompiler(s) ==
  /\ At(s, "AwaitCompiler")
  /\ Goto(s, "SaveCatalog") \/ Return(s)
  /\ UNCHANGED <<serverVars, taskVars, editorVars, published>>

SaveCatalog(s) ==
  /\ At(s, "SaveCatalog")
  /\ Resume(s, [handlers[s] EXCEPT
       !.mismatch = handlers[s].reported \notin {NoRunner, config.catalog},
       !.pc = "SaveGate"])
  /\ UNCHANGED <<serverVars, taskVars, editorVars, published>>

(* A bug: the result is published for whatever revision is open now. *)
SaveGateOpen(s) ==
  LET current == documents[UriOf(s)]
  IN  /\ At(s, "SaveGate")
      /\ IF current # NoDocument
         THEN Resume(s, [handlers[s] EXCEPT !.doc = current, !.pc = "PublishSave"])
         ELSE Return(s)
      /\ UNCHANGED <<serverVars, taskVars, editorVars, published>>

(* A bug: the document cloned before the compiler ran is published if any is open. *)
SaveGateStale(s) ==
  /\ At(s, "SaveGate")
  /\ IF IsOpen(documents, UriOf(s)) THEN Goto(s, "PublishSave") ELSE Return(s)
  /\ UNCHANGED <<serverVars, taskVars, editorVars, published>>

(* The result is for the revision cloned before the compiler ran.           *)
SaveGate(s) ==
  LET current == documents[UriOf(s)]
  IN  /\ At(s, "SaveGate")
      /\ IF current # NoDocument /\ current.version = handlers[s].doc.version
         THEN Resume(s, [handlers[s] EXCEPT !.doc = current, !.pc = "PublishSave"])
         ELSE Return(s)
      /\ UNCHANGED <<serverVars, taskVars, editorVars, published>>

(* with_compiler_and_lints: local and compiler diagnostics, no others.      *)
CompilerPublication(version, text, checked, by, mismatch) ==
  [NoPublication EXCEPT !.kind = "compiler", !.version = version, !.text = text,
                        !.checked = checked, !.by = by, !.mismatch = mismatch]

PublishSave(s) ==
  LET h == handlers[s]
  IN  /\ At(s, "PublishSave")
      /\ published' = [published EXCEPT ![h.msg.uri] =
           CompilerPublication(h.doc.version, h.doc.text, h.checked, h.runner, h.mismatch)]
      /\ Return(s)
      /\ UNCHANGED <<serverVars, taskVars, editorVars>>

-----------------------------------------------------------------------------
(* did_change_configuration. *)

RunnerOf(cfg) == IF cfg.runner # NoRunner THEN cfg.runner ELSE Discovered

SetRunner(s) ==
  /\ At(s, "SetRunner")
  /\ stanc' = RunnerOf(handlers[s].msg.config)
  /\ Goto(s, "ForgetVersion")
  /\ UNCHANGED <<documents, config, workspace, compilerTasks, compilerVersion,
                 taskVars, editorVars, published>>

ForgetVersion(s) ==
  /\ At(s, "ForgetVersion")
  /\ compilerVersion' = NoRunner
  /\ Goto(s, "Reindex")
  /\ UNCHANGED <<documents, stanc, config, workspace, compilerTasks, taskVars,
                 editorVars, published>>

ReindexWorkspace(s) ==
  /\ At(s, "Reindex")
  /\ workspace' = Reindex(workspace, disk, handlers[s].msg.config)
  /\ Goto(s, "SetConfig")
  /\ UNCHANGED <<documents, stanc, config, compilerTasks, compilerVersion,
                 taskVars, editorVars, published>>

SetConfig(s) ==
  /\ At(s, "SetConfig")
  /\ config' = handlers[s].msg.config
  /\ Return(s)
  /\ UNCHANGED <<documents, stanc, workspace, compilerTasks, compilerVersion,
                 taskVars, editorVars, published>>

-----------------------------------------------------------------------------
(* A compiler task, from await to await. *)

TaskStep(t, from) ==
  /\ tasks[t].pc = from
  /\ UNCHANGED <<serverVars, handlers, turn, cancelled, editorVars>>

SetTaskPc(t, pc) == tasks' = [tasks EXCEPT ![t].pc = pc]
EndTask(t)       == tasks' = [tasks EXCEPT ![t] = DoneTask]

(* The debounce ends and check_source writes its temporary file, or cannot: *)
(* one it created and could not fill stays, and is not in tempFiles.        *)
Debounced(t) ==
  /\ TaskStep(t, "debounce") /\ t \notin cancelled
  /\ \/ SetTaskPc(t, "reading") /\ tempFiles' = tempFiles \cup {t}
     \/ EndTask(t) /\ UNCHANGED tempFiles
  /\ UNCHANGED <<processes, published>>

(* check reads that file back and starts stanc on it, or fails.             *)
StartCompiler(t) ==
  /\ TaskStep(t, "reading") /\ t \notin cancelled
  /\ \/ /\ SetTaskPc(t, "checking")
        /\ processes' = processes \cup {t}
        /\ UNCHANGED tempFiles
     \/ /\ EndTask(t)
        /\ tempFiles' = tempFiles \ {t}
        /\ UNCHANGED processes
  /\ UNCHANGED published

CompilerAnswers(t) ==
  /\ TaskStep(t, "checking") /\ t \notin cancelled
  /\ SetTaskPc(t, "gate")
  /\ tempFiles' = tempFiles \ {t}
  /\ processes' = processes \ {t}
  /\ UNCHANGED published

(* A bug: the timeout returns early, past the removal of the file. *)
CompilerTimesOutEarly(t) ==
  /\ TaskStep(t, "checking") /\ t \notin cancelled
  /\ EndTask(t)
  /\ UNCHANGED <<tempFiles, processes, published>>

(* A bug: the compiler is awaited without a timeout. *)
CompilerNeverTimesOut(t) == FALSE /\ TaskStep(t, "checking")

(* After 30 s the output future is dropped; the process is not killed.      *)
CompilerTimesOut(t) ==
  /\ TaskStep(t, "checking") /\ t \notin cancelled
  /\ EndTask(t)
  /\ tempFiles' = tempFiles \ {t}
  /\ UNCHANGED <<processes, published>>

(* The document must still be open at the revision the task was given.      *)
Gate(t) ==
  LET current == documents[tasks[t].uri]
  IN  /\ TaskStep(t, "gate")
      /\ IF current # NoDocument /\ current.version = tasks[t].version
         THEN tasks' = [tasks EXCEPT ![t].pc = "publishing", ![t].text = current.text]
         ELSE EndTask(t)
      /\ UNCHANGED <<tempFiles, processes, published>>

PublishCompiled(t) ==
  LET task == tasks[t]
  IN  /\ TaskStep(t, "publishing")
      /\ published' = [published EXCEPT ![task.uri] =
           CompilerPublication(task.version, task.text, task.source, task.runner, FALSE)]
      /\ EndTask(t)
      /\ UNCHANGED <<tempFiles, processes>>

(* An aborted task is dropped at the await it stands at, as it is.          *)
DropTask(t) ==
  /\ t \in cancelled
  /\ \E pc \in {"debounce", "reading", "checking", "gate"} : TaskStep(t, pc)
  /\ EndTask(t)
  /\ UNCHANGED <<tempFiles, processes, published>>

(* A stanc process nobody waits for ends by itself. *)
ProcessExits(t) ==
  /\ t \in processes /\ tasks[t].pc # "checking"
  /\ processes' = processes \ {t}
  /\ UNCHANGED <<serverVars, handlers, turn, tasks, cancelled, tempFiles, editorVars,
                 published>>

-----------------------------------------------------------------------------
(* The editor. It may do any of these at any time, and need do none.        *)

Send(msg) == Len(inbox) < MaxInbox /\ inbox' = Append(inbox, msg)

ServerIdleStep == UNCHANGED <<serverVars, handlers, turn, taskVars, published>>

NextVersion(u) == IF RestartVersions THEN 1 ELSE lastVersion[u] + 1

EditorShows(u, v, t) ==
  /\ v <= MaxVersion
  /\ editor' = [editor EXCEPT ![u] = NewDocument(v, t)]
  /\ lastVersion' = [lastVersion EXCEPT ![u] = v]
  /\ UNCHANGED disk
  /\ ServerIdleStep

EditorOpens(u, t) ==
  /\ ~IsOpen(editor, u)
  /\ Send(TextMessage("open", u, NextVersion(u), t))
  /\ EditorShows(u, NextVersion(u), t)

EditorTypes(u, t) ==
  /\ IsOpen(editor, u)
  /\ Send(TextMessage("change", u, editor[u].version + 1, t))
  /\ EditorShows(u, editor[u].version + 1, t)

(* A change for an older revision or for a document that is not open.       *)
EditorSendsStale(u, v, t) ==
  /\ ~IsOpen(editor, u) \/ v <= editor[u].version
  /\ Send(TextMessage("change", u, v, t))
  /\ UNCHANGED <<editor, lastVersion, disk>> /\ ServerIdleStep

EditorSendsMalformed ==
  /\ Send(Malformed)
  /\ UNCHANGED <<editor, lastVersion, disk>> /\ ServerIdleStep

EditorSaves(u) ==
  /\ IsOpen(editor, u) /\ HasPath(u)
  /\ disk' = [disk EXCEPT ![Target[PathOf[u]]] = editor[u].text]
  /\ Send(UriMessage("save", u))
  /\ UNCHANGED <<editor, lastVersion>> /\ ServerIdleStep

EditorCloses(u) ==
  /\ IsOpen(editor, u)
  /\ editor' = [editor EXCEPT ![u] = NoDocument]
  /\ Send(UriMessage("close", u))
  /\ UNCHANGED <<lastVersion, disk>> /\ ServerIdleStep

EditorConfigures(c) ==
  /\ Send(ConfigMessage(c))
  /\ UNCHANGED <<editor, lastVersion, disk>> /\ ServerIdleStep

-----------------------------------------------------------------------------
(* Backend::new and initialize: the roots are indexed under the first       *)
(* configuration before the editor sends a notification.                    *)

Init ==
  /\ documents = EmptyStore
  /\ config \in Configs
  /\ stanc = RunnerOf(config)
  /\ disk \in Disk
  /\ workspace = Reindex(EmptyWorkspace, disk, config)
  /\ compilerTasks = [u \in Uris |-> NoTask]
  /\ compilerVersion = NoRunner
  /\ handlers = [s \in Slots |-> IdleHandler]
  /\ turn = NoSlot
  /\ tasks = [t \in TaskIds |-> DoneTask]
  /\ cancelled = {} /\ tempFiles = {} /\ processes = {}
  /\ editor = EmptyStore
  /\ lastVersion = [u \in Uris |-> 0]
  /\ inbox = <<>>
  /\ published = [u \in Uris |-> NoPublication]

HandlerStep(s) ==
  \/ OpenDocument(s) \/ ReplaceDocument(s) \/ OverlayConfig(s) \/ InstallOverlay(s)
  \/ PublishConfig(s) \/ Publish(s)
  \/ ScheduleConfig(s) \/ ScheduleRunner(s) \/ RegisterTask(s)
  \/ CloseDocument(s) \/ CancelTask(s) \/ RemoveOverlay(s) \/ PublishEmpty(s)
  \/ SaveEnabled(s) \/ SaveRunner(s) \/ SaveDocument(s) \/ CachedVersion(s)
  \/ QueryVersion(s) \/ StoreVersion(s) \/ ReadSource(s) \/ RunCompiler(s) \/ AwaitCompiler(s)
  \/ SaveCatalog(s) \/ SaveGate(s) \/ PublishSave(s)
  \/ SetRunner(s) \/ ForgetVersion(s) \/ ReindexWorkspace(s) \/ SetConfig(s)

TaskRuns(t) ==
  \/ Debounced(t) \/ StartCompiler(t) \/ CompilerAnswers(t) \/ CompilerTimesOut(t)
  \/ Gate(t) \/ PublishCompiled(t) \/ DropTask(t)

EditorActs ==
  \/ \E u \in Uris, t \in Texts : EditorOpens(u, t) \/ EditorTypes(u, t)
  \/ \E u \in Uris, v \in Versions, t \in Texts : EditorSendsStale(u, v, t)
  \/ EditorSendsMalformed
  \/ \E u \in Uris : EditorSaves(u) \/ EditorCloses(u)
  \/ \E c \in Configs : EditorConfigures(c)

Next ==
  \/ \E s \in Slots : Dispatch(s) \/ HandlerStep(s)
  \/ IgnoreNotification
  \/ \E t \in TaskIds : TaskRuns(t) \/ ProcessExits(t)
  \/ EditorActs

Spec == Init /\ [][Next]_vars
=============================================================================
