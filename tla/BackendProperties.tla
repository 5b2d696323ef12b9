-------------------------- MODULE BackendProperties --------------------------
(***************************************************************************)
(* What the language server promises its editor.                           *)
(***************************************************************************)
EXTENDS Backend

(* Nothing is in transport, no handler is in flight, no task runs.          *)
Settled == /\ inbox = <<>>
           /\ \A s \in Slots : handlers[s].pc = "idle"
           /\ \A t \in TaskIds : tasks[t].pc = "done"

Live(t) == tasks[t].pc # "done"

(* Once settled, the store holds exactly the documents and revisions the    *)
(* editor shows: no accepted change was lost, none was applied twice or out *)
(* of order (did_open, did_change, did_close; DocumentStore::replace).      *)
StoreFollowsEditor == Settled => documents = editor

(* Once settled, the last diagnostics the editor received for an open       *)
(* document were computed from the revision it shows, and those of a closed *)
(* document were cleared (publish, did_close).                              *)
DiagnosticsAreCurrent ==
  Settled => \A u \in Uris :
    IF IsOpen(documents, u)
    THEN /\ published[u].kind \in {"local", "compiler"}
         /\ published[u].version = documents[u].version
         /\ published[u].text = documents[u].text
    ELSE published[u].kind \in {"none", "empty"}

(* Once settled, a file has an overlay exactly while it is open, and the    *)
(* index never serves another text for an open file (set_overlay,           *)
(* clear_overlay and reindex under concurrent handlers).                    *)
OverlaysFollowStore ==
  Settled => \A u \in FileUris :
    LET p == Canonical(disk, PathOf[u])
    IN  /\ workspace.overlays[p] = documents[u].text
        /\ IsOpen(documents, u) =>
             workspace.files[p].text \in {NoText, documents[u].text}

(* Once settled, compiler diagnostics on display were computed from the     *)
(* very text they are displayed on (did_save and schedule_compiler compare  *)
(* revisions before they publish).                                          *)
CompilerSawShownText ==
  Settled => \A u \in Uris :
    published[u].kind = "compiler" => published[u].checked = published[u].text

(* The revision whose diagnostics a publication puts on display.            *)
Displayed(p) == IF p.kind \in {"local", "compiler"} THEN NewDocument(p.version, p.text)
                                                    ELSE NoDocument

Service == INSTANCE DiagnosticsService
             WITH shown <- [u \in Uris |-> Displayed(published[u])]

(* The server implements DiagnosticsService: revisions only grow while a    *)
(* document is open, and a publication is of the revision in the store at   *)
(* that moment, so none goes back to an older one ("stale results are not   *)
(* published").                                                             *)
ImplementsService == Service!Spec

(* Every compiler task that runs and was not aborted is the one the map     *)
(* names for its document, or is held by the handler about to register it:  *)
(* no task escapes the next close, save or change.                          *)
LiveTasksAreOwned ==
  \A t \in TaskIds :
    Live(t) /\ t \notin cancelled =>
      \/ compilerTasks[tasks[t].uri] = t
      \/ \E s \in Slots : /\ handlers[s].pc = "RegisterTask"
                          /\ handlers[s].task = t
                          /\ handlers[s].msg.uri = tasks[t].uri

(* A temporary source file outlives the run that wrote it only when the run *)
(* was aborted: an answer, a failure and a timeout all remove it.           *)
TempFilesAreRemoved ==
  \A t \in tempFiles : tasks[t].pc \in {"reading", "checking"} \/ t \in cancelled

-----------------------------------------------------------------------------
(* Fairness: a handler that is woken stays in the ready queue of the        *)
(* message loop until it is polled, so it is strongly fair; a task is       *)
(* polled by the runtime, and its compiler may never answer: only the       *)
(* timeout is sure to come. The editor owes nothing.                        *)
TaskProgress(t) == \/ Debounced(t) \/ StartCompiler(t) \/ CompilerTimesOut(t)
                   \/ Gate(t) \/ PublishCompiled(t) \/ DropTask(t)

Fairness == /\ \A s \in Slots : SF_vars(HandlerStep(s))
            /\ SF_vars(IgnoreNotification \/ \E s \in Slots : Dispatch(s))
            /\ \A t \in TaskIds : WF_vars(TaskProgress(t))

FairSpec == Spec /\ Fairness

(* If the editor falls silent, every notification is handled and every      *)
(* compiler run ends: no handler waits for another, no run outlives its     *)
(* timeout (schedule_compiler, StancRunner::check).                         *)
QuietServerSettles == <>[][~EditorActs]_vars => <>[]Settled

(* The diagnostics of the revision the editor shows appear, unless the      *)
(* editor moves on first (did_open, did_change, publish).                   *)
DiagnosticsCatchUp ==
  \A u \in Uris, v \in Versions :
    editor[u].version = v ~> (editor[u].version # v \/ published[u].version = v)
=============================================================================
