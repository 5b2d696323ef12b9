---------------------------- MODULE BackendState -----------------------------
(***************************************************************************)
(* The state of the language server (struct Backend of main.rs), of the    *)
(* notification handlers and compiler tasks in flight, and of the editor   *)
(* it talks to.                                                            *)
(*                                                                         *)
(* A handler is an async method: it runs from one await to the next, and   *)
(* its pc names the await it will resume from.  All handlers are polled by *)
(* one task, so a step of a handler is atomic; the spawned compiler tasks  *)
(* run on other threads.  A lock guard never lives across an await.        *)
(***************************************************************************)
EXTENDS DocumentStore, Workspace, FiniteSets

CONSTANTS
  FileUris,         \* the URIs that to_file_path maps to a path
  PathOf,           \* [FileUris -> Paths]
  Runners,          \* stanc executables, each with a version of its own
  NoRunner,         \* no compiler, no version
  Discovered,       \* what StancRunner::discover finds
  Configs,          \* configurations the editor may send
  Slots,            \* handlers that run at once (tower-lsp runs up to four)
  NoSlot,
  TaskIds,          \* bound on the spawned compiler tasks alive at once
  NoTask,
  MaxInbox,         \* bound on the messages in transport
  YieldPoints,      \* the pcs at which the await really suspends
  RestartVersions   \* whether a reopened document starts at version 1 again

Config == [onSave : BOOLEAN, onChange : BOOLEAN,
           runner : Runners \cup {NoRunner},    \* stanc_path
           catalog : Runners \cup {NoRunner},   \* the compiler stan_version names
           includePaths : Seq(Bases)]

ASSUME BackendAssumption ==
  /\ FileUris \subseteq Uris /\ Uris # {}
  /\ PathOf \in [FileUris -> Paths]
  /\ NoRunner \notin Runners /\ Discovered \in Runners \cup {NoRunner}
  /\ Configs # {} /\ Configs \subseteq Config
  /\ NoSlot \notin Slots
  /\ NoTask \notin TaskIds
  /\ MaxInbox \in Nat \ {0}
  /\ RestartVersions \in BOOLEAN

SomeUri    == CHOOSE u \in Uris : TRUE
SomeConfig == CHOOSE c \in Configs : TRUE

-----------------------------------------------------------------------------
(* Notifications. A malformed one is a change that is not one full-text    *)
(* replacement, or settings that do not parse.                             *)

Message == [kind : {"open", "change", "close", "save", "configure", "malformed"},
            uri : Uris, version : 0 .. MaxVersion, text : MaybeText, config : Configs]

Malformed == [kind |-> "malformed", uri |-> SomeUri, version |-> 0,
              text |-> NoText, config |-> SomeConfig]

TextMessage(kind, u, v, t) ==
  [Malformed EXCEPT !.kind = kind, !.uri = u, !.version = v, !.text = t]
UriMessage(kind, u)  == [Malformed EXCEPT !.kind = kind, !.uri = u]
ConfigMessage(c)     == [Malformed EXCEPT !.kind = "configure", !.config = c]

(* Where the handler of a notification starts. *)
EntryPoint(kind) ==
  CASE kind = "open"      -> "OpenDocument"
    [] kind = "change"    -> "ReplaceDocument"
    [] kind = "close"     -> "CloseDocument"
    [] kind = "save"      -> "CancelTask"
    [] kind = "configure" -> "SetRunner"

OverlayPcs == {"OverlayConfig", "SetOverlay", "PublishConfig", "Publish"}
OpenPcs    == {"OpenDocument"} \cup OverlayPcs
ChangePcs  == {"ReplaceDocument", "ScheduleConfig", "ScheduleRunner", "RegisterTask"}
              \cup OverlayPcs
ClosePcs   == {"CloseDocument", "CancelTask", "OverlayConfig", "ClearOverlay",
               "PublishEmpty"}
SavePcs    == {"CancelTask", "SaveEnabled", "SaveRunner", "SaveDocument",
               "CachedVersion", "QueryVersion", "StoreVersion", "ReadSource",
               "RunCompiler", "AwaitCompiler", "SaveCatalog", "SaveGate", "PublishSave"}
ConfigPcs  == {"SetRunner", "ForgetVersion", "Reindex", "SetConfig"}
HandlerPcs == OpenPcs \cup ChangePcs \cup ClosePcs \cup SavePcs \cup ConfigPcs

(* The awaits that wait for more than a free lock: the flush of a           *)
(* publication, the version query, the file system, the compiler.           *)
IoPoints == {"ScheduleConfig", "QueryVersion", "ReadSource", "RunCompiler",
             "AwaitCompiler"}

ASSUME YieldAssumption == YieldPoints \subseteq HandlerPcs

Handler == [pc : HandlerPcs \cup {"idle"}, msg : Message,
            doc : Document \cup {NoDocument},      \* document, or its clone
            config : Configs,                      \* the configuration cloned last
            runner : Runners \cup {NoRunner},      \* the runner cloned by did_save
            reported : Runners \cup {NoRunner},    \* compiler_version
            checked : MaybeText,                   \* what the compiler read
            mismatch : BOOLEAN,                    \* stanc3.version-mismatch pushed
            task : TaskIds \cup {NoTask}]          \* spawned, not yet registered

IdleHandler == [pc |-> "idle", msg |-> Malformed, doc |-> NoDocument,
                config |-> SomeConfig, runner |-> NoRunner, reported |-> NoRunner,
                checked |-> NoText, mismatch |-> FALSE, task |-> NoTask]

-----------------------------------------------------------------------------
(* Spawned compiler tasks and publications. *)

TaskPcs == {"debounce", "reading", "checking", "gate", "publishing"}

Task == [pc : TaskPcs \cup {"done"}, uri : Uris, version : 0 .. MaxVersion,
         source : MaybeText,                    \* the text captured when spawned
         runner : Runners \cup {NoRunner},      \* the runner captured when spawned
         text : MaybeText]                      \* the document found at the gate

DoneTask == [pc |-> "done", uri |-> SomeUri, version |-> 0, source |-> NoText,
             runner |-> NoRunner, text |-> NoText]

(* textDocument/publishDiagnostics as the editor last received it: what it  *)
(* was computed from. unresolved are the requests with a workspace          *)
(* diagnostic, checked and by the text and the compiler of stanc's part.    *)
Publication == [kind : {"none", "empty", "local", "compiler"},
                version : 0 .. MaxVersion, text : MaybeText,
                unresolved : SUBSET Requests,
                checked : MaybeText, by : Runners \cup {NoRunner},
                mismatch : BOOLEAN]

NoPublication == [kind |-> "none", version |-> 0, text |-> NoText,
                  unresolved |-> {}, checked |-> NoText, by |-> NoRunner,
                  mismatch |-> FALSE]

-----------------------------------------------------------------------------
VARIABLES
  documents, stanc, config, workspace,    \* Arc<RwLock<..>> fields of Backend
  compilerTasks,                          \* Arc<Mutex<HashMap<Uri, JoinHandle>>>
  compilerVersion,                        \* Arc<RwLock<Option<String>>>
  handlers,                               \* the handler in each slot
  turn,                                   \* the handler being polled, if any
  tasks,                                  \* spawned tasks
  cancelled,                              \* the tasks abort was called on
  tempFiles,                              \* tasks whose whole temporary file exists
  processes,                              \* tasks whose stanc process runs
  editor,                                 \* the editor's open documents
  lastVersion,                            \* the last version it gave each URI
  inbox,                                  \* notifications in transport, in order
  disk,                                   \* the file system
  published                               \* diagnostics the editor shows

serverVars == <<documents, stanc, config, workspace, compilerTasks, compilerVersion>>
taskVars   == <<tasks, cancelled, tempFiles, processes>>
editorVars == <<editor, lastVersion, inbox, disk>>
vars       == <<serverVars, handlers, turn, taskVars, editorVars, published>>

TypeOK ==
  /\ documents \in Store
  /\ stanc \in Runners \cup {NoRunner}
  /\ config \in Configs
  /\ workspace \in Workspaces
  /\ compilerTasks \in [Uris -> TaskIds \cup {NoTask}]
  /\ compilerVersion \in Runners \cup {NoRunner}
  /\ handlers \in [Slots -> Handler]
  /\ turn \in Slots \cup {NoSlot}
  /\ tasks \in [TaskIds -> Task]
  /\ cancelled \in SUBSET TaskIds
  /\ tempFiles \in SUBSET TaskIds
  /\ processes \in SUBSET TaskIds
  /\ editor \in Store
  /\ lastVersion \in [Uris -> 0 .. MaxVersion]
  /\ inbox \in Seq(Message)
  /\ disk \in Disk
  /\ published \in [Uris -> Publication]
=============================================================================
