----------------------------- MODULE BackendProofs -----------------------------
(***************************************************************************)
(* Proofs about Backend, for every number of handlers, tasks, documents,   *)
(* files, texts and configurations, and whichever awaits suspend.          *)
(*                                                                         *)
(* TypeOK is not inductive: that a handler stores a document, or overlays  *)
(* a file, where it stands at an await that needs one, depends on the      *)
(* notification it was started for.  HandlersFit and InboxFits say so.     *)
(***************************************************************************)
EXTENDS BackendProperties, WellFoundedInduction, SequenceTheorems, TLAPS

-----------------------------------------------------------------------------
(* What the operators of Workspace return *)

(* A configuration, as far as include resolution reads it. *)
Searchable(settings) == settings.includePaths \in Seq(Bases)

LEMMA LeastNatural ==
  ASSUME NEW S \in SUBSET Nat, S # {}
  PROVE  \E m \in S : \A n \in S : m <= n
<1>1. OpToRel(<, Nat) = {pair \in Nat \X Nat : pair[1] < pair[2]}
  BY DEF OpToRel
<1>2. PICK m \in S : \A n \in S : ~(<<n, m>> \in OpToRel(<, Nat))
  BY NatLessThanWellFounded, WFMin
<1>3. ASSUME NEW n \in S
      PROVE  m <= n
  <2>1. n < m => <<n, m>> \in {pair \in Nat \X Nat : pair[1] < pair[2]}
    OBVIOUS
  <2>2. ~(n < m)
    BY <1>1, <1>2, <2>1
  <2> QED
    BY <2>2
<1> QED
  BY <1>3

LEMMA SearchBasesAreBases ==
  ASSUME NEW path \in Paths, NEW settings, Searchable(settings)
  PROVE  SearchBases(path, settings) \in Seq(Bases)
<1>1. <<Parent[path]>> \in Seq(Bases)
  BY WorkspaceAssumption
<1> QED
  BY <1>1, ConcatProperties DEF SearchBases, Searchable

LEMMA CandidateIsPath ==
  ASSUME NEW path \in Paths, NEW settings, Searchable(settings), NEW r \in Requests,
         NEW i \in DOMAIN SearchBases(path, settings)
  PROVE  Candidate(path, settings, r, i) \in Paths
<1>1. i \in 1 .. Len(SearchBases(path, settings))
  BY SearchBasesAreBases, LenProperties
<1>2. SearchBases(path, settings)[i] \in Bases
  BY <1>1, SearchBasesAreBases, ElementOfSeq
<1> QED
  BY <1>2, WorkspaceAssumption DEF Candidate

(* resolve_path returns a path that is a file, whatever the search list. *)
LEMMA ResolvePathIsFile ==
  ASSUME NEW fs, NEW path \in Paths, NEW settings, Searchable(settings),
         NEW r \in Requests, Resolves(fs, path, settings, r)
  PROVE  /\ ResolvePath(fs, path, settings, r) \in Paths
         /\ IsFile(fs, ResolvePath(fs, path, settings, r))
<1> DEFINE hits  == Hits(fs, path, settings, r)
           first == CHOOSE i \in hits : \A j \in hits : i <= j
<1>1. hits # {} /\ hits \subseteq DOMAIN SearchBases(path, settings)
  BY DEF Resolves, Hits
<1>2. hits \in SUBSET Nat
  BY <1>1, SearchBasesAreBases, LenProperties
<1>3. first \in hits
  BY <1>1, <1>2, LeastNatural
<1>4. Candidate(path, settings, r, first) \in Paths
      /\ IsFile(fs, Candidate(path, settings, r, first))
  BY <1>1, <1>3, CandidateIsPath DEF Hits
<1>5. ResolvePath(fs, path, settings, r) = Target[Candidate(path, settings, r, first)]
  BY DEF ResolvePath
<1> HIDE DEF first, hits
<1> QED
  BY <1>4, <1>5, WorkspaceAssumption DEF IsFile

LEMMA DependenciesArePaths ==
  ASSUME NEW fs, NEW path \in Paths, NEW settings, Searchable(settings),
         NEW text \in Texts
  PROVE  Dependencies(fs, path, text, settings) \subseteq Paths
BY ResolvePathIsFile, WorkspaceAssumption DEF Dependencies

LEMMA IndexEntryIsEntry ==
  ASSUME NEW fs, NEW path \in Paths, NEW settings, Searchable(settings),
         NEW text \in Texts
  PROVE  IndexEntry(fs, path, text, settings) \in Entry
BY DependenciesArePaths DEF IndexEntry, Entry

LEMMA UnresolvedAreRequests ==
  ASSUME NEW fs, NEW path, NEW settings, NEW text \in Texts
  PROVE  Unresolved(fs, path, text, settings) \subseteq Requests
BY WorkspaceAssumption DEF Unresolved

LEMMA CanonicalIsPath ==
  ASSUME NEW fs, NEW path \in Paths
  PROVE  Canonical(fs, path) \in Paths
BY WorkspaceAssumption DEF Canonical

LEMMA SetOverlayIsWorkspace ==
  ASSUME NEW ws \in Workspaces, NEW fs \in Disk, NEW path \in Paths,
         NEW text \in Texts, NEW settings, Searchable(settings)
  PROVE  SetOverlay(ws, fs, path, text, settings) \in Workspaces
<1> DEFINE p == Canonical(fs, path)
<1>1. p \in Paths /\ text \in MaybeText
  BY CanonicalIsPath DEF MaybeText
<1>2. IndexEntry(fs, p, text, settings) \in Entry
  BY <1>1, IndexEntryIsEntry
<1> HIDE DEF p
<1>3. [overlays |-> [ws.overlays EXCEPT ![p] = text],
       files    |-> [ws.files EXCEPT ![p] = IndexEntry(fs, p, text, settings)]]
        \in Workspaces
  BY <1>1, <1>2 DEF Workspaces
<1> QED
  BY <1>3 DEF SetOverlay, p

LEMMA ClearOverlayIsWorkspace ==
  ASSUME NEW ws \in Workspaces, NEW fs \in Disk, NEW path \in Paths,
         NEW settings, Searchable(settings)
  PROVE  ClearOverlay(ws, fs, path, settings) \in Workspaces
<1> DEFINE p == Canonical(fs, path)
           e == IF IsFile(fs, p) THEN IndexEntry(fs, p, ReadFile(fs, p), settings)
                                   ELSE NoEntry
<1>1. p \in Paths /\ NoText \in MaybeText
  BY CanonicalIsPath DEF MaybeText
<1>2. IsFile(fs, p) => ReadFile(fs, p) \in Texts
  BY <1>1, WorkspaceAssumption DEF IsFile, ReadFile, Disk, MaybeText
<1>3. e \in Entry \cup {NoEntry}
  BY <1>1, <1>2, IndexEntryIsEntry
<1> HIDE DEF p, e
<1>4. [overlays |-> [ws.overlays EXCEPT ![p] = NoText],
       files    |-> [ws.files EXCEPT ![p] = e]] \in Workspaces
  BY <1>1, <1>3 DEF Workspaces
<1> QED
  BY <1>4 DEF ClearOverlay, p, e

LEMMA ReindexIsWorkspace ==
  ASSUME NEW ws \in Workspaces, NEW fs \in Disk, NEW settings, Searchable(settings)
  PROVE  Reindex(ws, fs, settings) \in Workspaces
<1> DEFINE e(p) == IF Listed(fs, p) /\ ScannedText(ws, fs, p) # NoText
                   THEN IndexEntry(fs, p, ScannedText(ws, fs, p), settings)
                   ELSE NoEntry
<1>1. ASSUME NEW p \in Paths
      PROVE  e(p) \in Entry \cup {NoEntry}
  <2>1. ScannedText(ws, fs, p) \in MaybeText
    BY WorkspaceAssumption DEF ScannedText, ReadFile, Disk, Workspaces
  <2>2. ScannedText(ws, fs, p) # NoText => ScannedText(ws, fs, p) \in Texts
    BY <2>1 DEF MaybeText
  <2> QED
    BY <2>2, IndexEntryIsEntry
<1> HIDE DEF e
<1>2. [p \in Paths |-> e(p)] \in [Paths -> Entry \cup {NoEntry}]
  BY <1>1
<1>3. [ws EXCEPT !.files = [p \in Paths |-> e(p)]] \in Workspaces
  BY <1>2 DEF Workspaces
<1> QED
  BY <1>3 DEF Reindex, e

LEMMA EmptyWorkspaceIsWorkspace == EmptyWorkspace \in Workspaces
BY DEF EmptyWorkspace, Workspaces, MaybeText

-----------------------------------------------------------------------------
(* What a handler holds, and the messages it is started for *)

(* An open and a change carry a text and a version. *)
Fits(msg) ==
  msg.kind \in {"open", "change"} => msg.version \in Versions /\ msg.text \in Texts

InboxFits == \A i \in 1 .. Len(inbox) : Fits(inbox[i])

(* The awaits a handler reaches for documents that are files alone. *)
FilePcs == {"OverlayConfig", "SetOverlay", "ClearOverlay", "CachedVersion",
            "QueryVersion", "StoreVersion", "ReadSource", "RunCompiler"}

HandlerFits(h) ==
  /\ Fits(h.msg)
  /\ h.pc = "OpenDocument" => h.msg.kind = "open"
  /\ h.pc = "ReplaceDocument" => h.msg.kind = "change"
  /\ h.pc = "CloseDocument" => h.msg.kind = "close"
  /\ h.pc = "CancelTask" => h.msg.kind \in {"close", "save"}
  /\ h.pc \in FilePcs => h.msg.uri \in FileUris
  /\ h.pc = "OverlayConfig" => h.msg.kind = "close" \/ h.doc \in Document
  /\ h.pc \in {"SetOverlay", "PublishConfig", "Publish"} => h.doc \in Document

HandlersFit == \A s \in Slots : HandlerFits(handlers[s])

TypeInv == TypeOK /\ InboxFits /\ HandlersFit

-----------------------------------------------------------------------------
(* Facts about the constants and the records. *)

LEMMA ConfigsAreSearchable ==
  ASSUME NEW c \in Configs
  PROVE  Searchable(c) /\ c \in Config
BY BackendAssumption DEF Searchable, Config

LEMMA DefaultValues ==
  /\ SomeUri \in Uris /\ SomeConfig \in Configs
  /\ NoDocument \notin Document /\ NoText \in MaybeText
  /\ Malformed \in Message /\ Fits(Malformed)
  /\ IdleHandler \in Handler /\ HandlerFits(IdleHandler)
  /\ DoneTask \in Task /\ NoPublication \in Publication
<1>1. SomeUri \in Uris /\ SomeConfig \in Configs
  BY BackendAssumption DEF SomeUri, SomeConfig
<1>2. NoText \in MaybeText /\ NoDocument \notin Document
  BY TextsAssumption DEF MaybeText, NoDocument, Document
<1>3. 0 \in 0 .. MaxVersion
  BY VersionAssumption
<1>4. Malformed \in Message /\ Fits(Malformed)
  BY <1>1, <1>2, <1>3 DEF Malformed, Message, Fits
<1>5. IdleHandler \in Handler /\ HandlerFits(IdleHandler)
  BY <1>1, <1>2, <1>4 DEF IdleHandler, Handler, HandlerFits, FilePcs, Malformed
<1>6. DoneTask \in Task /\ NoPublication \in Publication
  BY <1>1, <1>2, <1>3 DEF DoneTask, Task, NoPublication, Publication
<1> QED
  BY <1>1, <1>2, <1>4, <1>5, <1>6

LEMMA DocumentFields ==
  ASSUME NEW d \in Document \cup {NoDocument}
  PROVE  d.version \in 0 .. MaxVersion /\ d.text \in MaybeText
BY VersionAssumption DEF Document, NoDocument, Versions, MaybeText

LEMMA NewDocumentIsDocument ==
  ASSUME NEW v \in Versions, NEW t \in Texts
  PROVE  NewDocument(v, t) \in Document
BY DEF NewDocument, Document

LEMMA RunnerOfIsRunner ==
  ASSUME NEW c \in Configs
  PROVE  RunnerOf(c) \in Runners \cup {NoRunner}
BY ConfigsAreSearchable, BackendAssumption DEF RunnerOf, Config

(* A step that moves the handler of slot s alone, to one that fits. *)
LEMMA ResumeFits ==
  ASSUME TypeInv, NEW s \in Slots, NEW h \in Handler, HandlerFits(h), Resume(s, h)
  PROVE  /\ handlers' \in [Slots -> Handler]
         /\ turn' \in Slots \cup {NoSlot}
         /\ HandlersFit'
BY DEF Resume, TypeInv, TypeOK, HandlersFit

LEMMA ReturnFits ==
  ASSUME TypeInv, NEW s \in Slots, Return(s)
  PROVE  /\ handlers' \in [Slots -> Handler]
         /\ turn' \in Slots \cup {NoSlot}
         /\ HandlersFit'
BY ResumeFits, DefaultValues DEF Return

LEMMA HandlerAt ==
  ASSUME TypeInv, NEW s \in Slots
  PROVE  /\ handlers[s] \in Handler /\ HandlerFits(handlers[s])
         /\ UriOf(s) \in Uris /\ handlers[s].msg \in Message
BY DEF TypeInv, TypeOK, HandlersFit, UriOf, Handler, Message

-----------------------------------------------------------------------------
LEMMA InitTypeInv == Init => TypeInv
<1> SUFFICES ASSUME Init PROVE TypeInv
  OBVIOUS
<1>1. documents \in Store /\ editor \in Store
  BY DEF Init, EmptyStore, Store
<1>2. config \in Configs /\ stanc \in Runners \cup {NoRunner}
  BY RunnerOfIsRunner DEF Init
<1>3. disk \in Disk /\ workspace \in Workspaces
  BY <1>2, EmptyWorkspaceIsWorkspace, ReindexIsWorkspace, ConfigsAreSearchable DEF Init
<1>4. /\ handlers \in [Slots -> Handler] /\ HandlersFit
      /\ tasks \in [TaskIds -> Task] /\ published \in [Uris -> Publication]
  BY DefaultValues DEF Init, HandlersFit
<1>5. inbox \in Seq(Message) /\ InboxFits
  BY EmptySeq DEF Init, InboxFits
<1>6. lastVersion \in [Uris -> 0 .. MaxVersion]
  BY VersionAssumption DEF Init
<1> QED
  BY <1>1, <1>2, <1>3, <1>4, <1>5, <1>6 DEF TypeInv, TypeOK, Init

-----------------------------------------------------------------------------
(* Steps of handlers. *)

LEMMA OnlyHandlersMove ==
  ASSUME TypeInv, handlers' \in [Slots -> Handler], turn' \in Slots \cup {NoSlot},
         HandlersFit', UNCHANGED <<serverVars, taskVars, editorVars, published>>
  PROVE  TypeInv'
BY DEF TypeInv, TypeOK, InboxFits, serverVars, taskVars, editorVars

(* The awaits that ask nothing of their handler. *)
PlainPcs == {"ScheduleConfig", "ScheduleRunner", "RegisterTask",
             "PublishEmpty", "SaveEnabled", "SaveRunner", "SaveDocument",
             "AwaitCompiler", "SaveCatalog", "SaveGate", "PublishSave", "SetRunner",
             "ForgetVersion", "Reindex", "SetConfig"}

LEMMA HandlerPcsAre ==
  /\ PlainPcs \subseteq HandlerPcs /\ FilePcs \subseteq HandlerPcs
  /\ {"OpenDocument", "ReplaceDocument", "CloseDocument", "CancelTask",
      "PublishConfig", "Publish"} \subseteq HandlerPcs
BY DEF PlainPcs, FilePcs, HandlerPcs, OpenPcs, OverlayPcs, ChangePcs, ClosePcs,
       SavePcs, ConfigPcs

(* Moving to a plain await, with whatever else a handler may hold. *)
LEMMA PlainFits ==
  ASSUME NEW h \in Handler, Fits(h.msg), h.pc \in PlainPcs
  PROVE  HandlerFits(h)
BY DEF PlainPcs, FilePcs, HandlerFits

LEMMA GotoPlain ==
  ASSUME TypeInv, NEW s \in Slots, NEW pc \in PlainPcs, Goto(s, pc)
  PROVE  /\ handlers' \in [Slots -> Handler]
         /\ turn' \in Slots \cup {NoSlot}
         /\ HandlersFit'
<1> DEFINE h == [handlers[s] EXCEPT !.pc = pc]
<1>1. h \in Handler /\ h.pc = pc /\ h.msg = handlers[s].msg
  BY HandlerAt, HandlerPcsAre DEF Handler
<1>2. HandlerFits(h)
  BY <1>1, HandlerAt, PlainFits DEF HandlerFits
<1> HIDE DEF h
<1>3. Resume(s, h)
  BY DEF Goto, h
<1> QED
  BY <1>1, <1>2, <1>3, ResumeFits

LEMMA OpenDocumentTyped ==
  ASSUME TypeInv, NEW s \in Slots, OpenDocument(s)
  PROVE  TypeInv'
<1> DEFINE u   == UriOf(s)
           doc == NewDocument(handlers[s].msg.version, handlers[s].msg.text)
           h   == [handlers[s] EXCEPT !.pc = AfterStore(u), !.doc = doc]
<1>1. doc \in Document /\ u \in Uris
  BY HandlerAt, NewDocumentIsDocument DEF HandlerFits, Fits, OpenDocument, At
<1> HIDE DEF doc
<1>2. /\ AfterStore(u) \in {"OverlayConfig", "PublishConfig"}
      /\ AfterStore(u) = "OverlayConfig" => u \in FileUris
  BY DEF AfterStore, HasPath
<1>3. h \in Handler /\ HandlerFits(h)
  BY <1>1, <1>2, HandlerAt, HandlerPcsAre DEF Handler, HandlerFits, FilePcs, UriOf
<1>4. documents' \in Store
  BY <1>1 DEF OpenDocument, Open, doc, TypeInv, TypeOK, Store
<1>5. Resume(s, h)
  BY DEF OpenDocument, doc
<1> HIDE DEF h
<1> QED
  BY <1>3, <1>4, <1>5, ResumeFits
  DEF OpenDocument, TypeInv, TypeOK, InboxFits, taskVars, editorVars

LEMMA ReplaceDocumentTyped ==
  ASSUME TypeInv, NEW s \in Slots, ReplaceDocument(s)
  PROVE  TypeInv'
<1> DEFINE u   == UriOf(s)
           doc == NewDocument(handlers[s].msg.version, handlers[s].msg.text)
           h   == [handlers[s] EXCEPT !.pc = AfterStore(u), !.doc = doc]
<1>1. doc \in Document /\ u \in Uris
  BY HandlerAt, NewDocumentIsDocument DEF HandlerFits, Fits, ReplaceDocument, At
<1>2. CASE Return(s) /\ UNCHANGED documents
  BY <1>2, ReturnFits
  DEF ReplaceDocument, TypeInv, TypeOK, InboxFits, taskVars, editorVars
<1>3. CASE Resume(s, h) /\ documents' = [documents EXCEPT ![u] = doc]
  <2> HIDE DEF doc
  <2>1. /\ AfterStore(u) \in {"OverlayConfig", "PublishConfig"}
        /\ AfterStore(u) = "OverlayConfig" => u \in FileUris
    BY DEF AfterStore, HasPath
  <2>2. h \in Handler /\ HandlerFits(h)
    BY <1>1, <2>1, HandlerAt, HandlerPcsAre DEF Handler, HandlerFits, FilePcs, UriOf
  <2>3. documents' \in Store
    BY <1>1, <1>3 DEF TypeInv, TypeOK, Store
  <2> HIDE DEF h
  <2> QED
    BY <1>3, <2>2, <2>3, ResumeFits
    DEF ReplaceDocument, TypeInv, TypeOK, InboxFits, taskVars, editorVars
<1> QED
  BY <1>2, <1>3 DEF ReplaceDocument, Replace

LEMMA OverlayConfigTyped ==
  ASSUME TypeInv, NEW s \in Slots, OverlayConfig(s)
  PROVE  TypeInv'
<1> DEFINE h == [handlers[s] EXCEPT
                   !.config = config,
                   !.pc = IF handlers[s].msg.kind = "close" THEN "ClearOverlay"
                                                            ELSE "SetOverlay"]
<1>1. config \in Configs /\ handlers[s].pc = "OverlayConfig"
  BY DEF TypeInv, TypeOK, OverlayConfig, At
<1>2. h \in Handler
  BY <1>1, HandlerAt, HandlerPcsAre DEF Handler, FilePcs
<1>3. HandlerFits(h)
  BY <1>1, HandlerAt DEF Handler, HandlerFits, FilePcs
<1>4. Resume(s, h)
  BY DEF OverlayConfig
<1> HIDE DEF h
<1> QED
  BY <1>2, <1>3, <1>4, ResumeFits, OnlyHandlersMove DEF OverlayConfig

LEMMA InstallOverlayTyped ==
  ASSUME TypeInv, NEW s \in Slots, InstallOverlay(s)
  PROVE  TypeInv'
<1> DEFINE h == [handlers[s] EXCEPT !.pc = "PublishConfig"]
<1>1. /\ handlers[s].pc = "SetOverlay" /\ UriOf(s) \in FileUris
      /\ handlers[s].doc \in Document /\ handlers[s].config \in Configs
  BY HandlerAt DEF InstallOverlay, At, HandlerFits, FilePcs, UriOf, Handler
<1>2. PathOf[UriOf(s)] \in Paths /\ handlers[s].doc.text \in Texts
  BY <1>1, BackendAssumption DEF Document
<1>3. workspace' \in Workspaces
  BY <1>1, <1>2, SetOverlayIsWorkspace, ConfigsAreSearchable
  DEF InstallOverlay, TypeInv, TypeOK
<1>4. h \in Handler /\ HandlerFits(h)
  BY <1>1, HandlerAt, HandlerPcsAre DEF Handler, HandlerFits, FilePcs
<1>5. Resume(s, h)
  BY DEF InstallOverlay, Goto
<1> HIDE DEF h
<1> QED
  BY <1>3, <1>4, <1>5, ResumeFits
  DEF InstallOverlay, TypeInv, TypeOK, InboxFits, taskVars, editorVars

LEMMA PublishConfigTyped ==
  ASSUME TypeInv, NEW s \in Slots, PublishConfig(s)
  PROVE  TypeInv'
<1> DEFINE h == [handlers[s] EXCEPT !.config = config, !.pc = "Publish"]
<1>1. config \in Configs /\ handlers[s].pc = "PublishConfig"
  BY DEF TypeInv, TypeOK, PublishConfig, At
<1>2. h \in Handler /\ HandlerFits(h)
  BY <1>1, HandlerAt, HandlerPcsAre DEF Handler, HandlerFits, FilePcs
<1>3. Resume(s, h)
  BY DEF PublishConfig
<1> HIDE DEF h
<1> QED
  BY <1>2, <1>3, ResumeFits, OnlyHandlersMove DEF PublishConfig

LEMMA PublishTyped ==
  ASSUME TypeInv, NEW s \in Slots, Publish(s)
  PROVE  TypeInv'
<1> DEFINE h   == handlers[s]
           pub == LocalPublication(UriOf(s), h.doc, h.config)
<1>1. h.doc \in Document /\ UriOf(s) \in Uris
  BY HandlerAt DEF Publish, At, HandlerFits
<1>2. pub \in Publication
  <2>1. Unresolved(disk, PathOf[UriOf(s)], h.doc.text, h.config) \subseteq Requests
    BY <1>1, UnresolvedAreRequests DEF Document
  <2>2. h.doc.version \in 0 .. MaxVersion /\ h.doc.text \in MaybeText
    BY <1>1, DocumentFields
  <2> QED
    BY <2>1, <2>2, DefaultValues DEF LocalPublication, Publication
<1>3. published' \in [Uris -> Publication]
  BY <1>1, <1>2 DEF Publish, TypeInv, TypeOK
<1>4. /\ handlers' \in [Slots -> Handler] /\ turn' \in Slots \cup {NoSlot}
      /\ HandlersFit'
  BY GotoPlain, ReturnFits DEF Publish, PlainPcs, FilePcs
<1> QED
  BY <1>3, <1>4
  DEF Publish, TypeInv, TypeOK, InboxFits, serverVars, taskVars, editorVars

LEMMA ScheduleConfigTyped ==
  ASSUME TypeInv, NEW s \in Slots, ScheduleConfig(s)
  PROVE  TypeInv'
BY GotoPlain, ReturnFits, OnlyHandlersMove DEF ScheduleConfig, PlainPcs

LEMMA ScheduleRunnerTyped ==
  ASSUME TypeInv, NEW s \in Slots, ScheduleRunner(s)
  PROVE  TypeInv'
<1>1. CASE Return(s) /\ UNCHANGED taskVars
  BY <1>1, ReturnFits, OnlyHandlersMove DEF ScheduleRunner
<1>2. ASSUME NEW t \in TaskIds, Spawn(s, t)
      PROVE  TypeInv'
  <2> DEFINE h    == [handlers[s] EXCEPT !.pc = "RegisterTask", !.task = t]
             task == [pc |-> "debounce", uri |-> UriOf(s),
                      version |-> handlers[s].doc.version,
                      source |-> handlers[s].doc.text, runner |-> stanc,
                      text |-> NoText]
  <2>1. h \in Handler /\ h.pc = "RegisterTask" /\ h.msg = handlers[s].msg
    BY HandlerAt, HandlerPcsAre DEF Handler, PlainPcs, FilePcs
  <2>2. HandlerFits(h)
    BY <2>1, HandlerAt, PlainFits DEF HandlerFits, PlainPcs, FilePcs
  <2>3. task \in Task
    <3>1. handlers[s].doc.version \in 0 .. MaxVersion
          /\ handlers[s].doc.text \in MaybeText
      BY HandlerAt, DocumentFields DEF Handler
    <3>2. stanc \in Runners \cup {NoRunner}
      BY DEF TypeInv, TypeOK
    <3> QED
      BY <3>1, <3>2, HandlerAt, DefaultValues DEF Task, TaskPcs
  <2>4. Resume(s, h) /\ tasks' = [tasks EXCEPT ![t] = task]
    BY <1>2 DEF Spawn
  <2> HIDE DEF h, task
  <2>5. tasks' \in [TaskIds -> Task]
    BY <2>3, <2>4 DEF TypeInv, TypeOK
  <2> QED
    BY <1>2, <2>1, <2>2, <2>4, <2>5, ResumeFits
    DEF ScheduleRunner, Spawn, TypeInv, TypeOK, InboxFits, serverVars, editorVars
<1> QED
  BY <1>1, <1>2 DEF ScheduleRunner, FreeTasks

LEMMA AbortTyped ==
  ASSUME TypeInv, NEW t \in TaskIds \cup {NoTask}, Abort(t)
  PROVE  cancelled' \in SUBSET TaskIds
BY BackendAssumption DEF Abort, TypeInv, TypeOK

LEMMA RegisterTaskTyped ==
  ASSUME TypeInv, NEW s \in Slots, RegisterTask(s)
  PROVE  TypeInv'
<1>1. UriOf(s) \in Uris /\ handlers[s].task \in TaskIds \cup {NoTask}
  BY HandlerAt DEF Handler
<1>2. /\ compilerTasks' \in [Uris -> TaskIds \cup {NoTask}]
      /\ compilerTasks[UriOf(s)] \in TaskIds \cup {NoTask}
  BY <1>1 DEF RegisterTask, TypeInv, TypeOK
<1>3. cancelled' \in SUBSET TaskIds
  BY <1>2, AbortTyped DEF RegisterTask
<1> QED
  BY <1>2, <1>3, ReturnFits DEF RegisterTask, TypeInv, TypeOK, InboxFits, editorVars

LEMMA CloseDocumentTyped ==
  ASSUME TypeInv, NEW s \in Slots, CloseDocument(s)
  PROVE  TypeInv'
<1> DEFINE h == [handlers[s] EXCEPT !.pc = "CancelTask"]
<1>1. documents' \in Store
  BY HandlerAt DEF CloseDocument, Close, TypeInv, TypeOK, Store
<1>2. h \in Handler /\ HandlerFits(h)
  BY HandlerAt, HandlerPcsAre DEF Handler, HandlerFits, FilePcs, CloseDocument, At
<1>3. Resume(s, h)
  BY DEF CloseDocument, Goto
<1> HIDE DEF h
<1> QED
  BY <1>1, <1>2, <1>3, ResumeFits
  DEF CloseDocument, TypeInv, TypeOK, InboxFits, taskVars, editorVars

LEMMA CancelTaskTyped ==
  ASSUME TypeInv, NEW s \in Slots, CancelTask(s)
  PROVE  TypeInv'
<1>1. handlers[s].pc = "CancelTask" /\ UriOf(s) \in Uris
  BY HandlerAt DEF CancelTask, At
<1>2. /\ compilerTasks' \in [Uris -> TaskIds \cup {NoTask}]
      /\ compilerTasks[UriOf(s)] \in TaskIds \cup {NoTask}
  BY <1>1 DEF CancelTask, TypeInv, TypeOK
<1>3. cancelled' \in SUBSET TaskIds
  BY <1>2, AbortTyped DEF CancelTask
<1>4. /\ handlers' \in [Slots -> Handler] /\ turn' \in Slots \cup {NoSlot}
      /\ HandlersFit'
  <2>1. \/ Goto(s, "SaveEnabled") \/ Goto(s, "PublishEmpty")
        \/ /\ Goto(s, "OverlayConfig") /\ handlers[s].msg.kind # "save"
           /\ UriOf(s) \in FileUris
    <3> DEFINE next == IF handlers[s].msg.kind = "save" THEN "SaveEnabled"
                       ELSE IF UriOf(s) \in FileUris THEN "OverlayConfig"
                       ELSE "PublishEmpty"
    <3>1. Goto(s, next)
      BY DEF CancelTask, HasPath
    <3>2. \/ next = "SaveEnabled" \/ next = "PublishEmpty"
          \/ next = "OverlayConfig" /\ handlers[s].msg.kind # "save"
             /\ UriOf(s) \in FileUris
      <4>1. CASE handlers[s].msg.kind = "save"
        BY <4>1
      <4>2. CASE handlers[s].msg.kind # "save" /\ UriOf(s) \in FileUris
        BY <4>2
      <4>3. CASE handlers[s].msg.kind # "save" /\ UriOf(s) \notin FileUris
        BY <4>3
      <4> QED
        BY <4>1, <4>2, <4>3
    <3> HIDE DEF next
    <3> QED
      BY <3>1, <3>2
  <2>2. CASE Goto(s, "SaveEnabled") \/ Goto(s, "PublishEmpty")
    BY <2>2, GotoPlain DEF PlainPcs, FilePcs
  <2>3. CASE Goto(s, "OverlayConfig") /\ handlers[s].msg.kind # "save"
             /\ UriOf(s) \in FileUris
    <3> DEFINE h == [handlers[s] EXCEPT !.pc = "OverlayConfig"]
    <3>1. h \in Handler /\ HandlerFits(h)
      BY <1>1, <2>3, HandlerAt, HandlerPcsAre
      DEF Handler, HandlerFits, FilePcs, UriOf
    <3>2. Resume(s, h)
      BY <2>3 DEF Goto
    <3> HIDE DEF h
    <3> QED
      BY <3>1, <3>2, ResumeFits
  <2> QED
    BY <2>1, <2>2, <2>3
<1> QED
  BY <1>2, <1>3, <1>4 DEF CancelTask, TypeInv, TypeOK, InboxFits, editorVars

LEMMA RemoveOverlayTyped ==
  ASSUME TypeInv, NEW s \in Slots, RemoveOverlay(s)
  PROVE  TypeInv'
<1>1. UriOf(s) \in FileUris /\ handlers[s].config \in Configs
  BY HandlerAt DEF RemoveOverlay, At, HandlerFits, FilePcs, UriOf, Handler
<1>2. workspace' \in Workspaces
  BY <1>1, BackendAssumption, ClearOverlayIsWorkspace, ConfigsAreSearchable
  DEF RemoveOverlay, TypeInv, TypeOK
<1>3. /\ handlers' \in [Slots -> Handler] /\ turn' \in Slots \cup {NoSlot}
      /\ HandlersFit'
  BY GotoPlain DEF RemoveOverlay, PlainPcs, FilePcs
<1> QED
  BY <1>2, <1>3 DEF RemoveOverlay, TypeInv, TypeOK, InboxFits, taskVars, editorVars

LEMMA PublishEmptyTyped ==
  ASSUME TypeInv, NEW s \in Slots, PublishEmpty(s)
  PROVE  TypeInv'
<1>1. [NoPublication EXCEPT !.kind = "empty"] \in Publication /\ UriOf(s) \in Uris
  BY HandlerAt, DefaultValues DEF Publication
<1>2. published' \in [Uris -> Publication]
  BY <1>1 DEF PublishEmpty, TypeInv, TypeOK
<1> QED
  BY <1>2, ReturnFits
  DEF PublishEmpty, TypeInv, TypeOK, InboxFits, serverVars, taskVars, editorVars

LEMMA SaveEnabledTyped ==
  ASSUME TypeInv, NEW s \in Slots, SaveEnabled(s)
  PROVE  TypeInv'
BY GotoPlain, ReturnFits, OnlyHandlersMove DEF SaveEnabled, PlainPcs

LEMMA SaveRunnerTyped ==
  ASSUME TypeInv, NEW s \in Slots, SaveRunner(s)
  PROVE  TypeInv'
<1> DEFINE h == [handlers[s] EXCEPT !.runner = stanc, !.pc = "SaveDocument"]
<1>1. h \in Handler /\ h.pc \in PlainPcs /\ h.msg = handlers[s].msg
  BY HandlerAt, HandlerPcsAre DEF Handler, PlainPcs, TypeInv, TypeOK
<1>2. HandlerFits(h)
  BY <1>1, HandlerAt, PlainFits DEF HandlerFits
<1>3. Return(s) \/ Resume(s, h)
  BY DEF SaveRunner
<1> HIDE DEF h
<1> QED
  BY <1>1, <1>2, <1>3, ResumeFits, ReturnFits, OnlyHandlersMove DEF SaveRunner

LEMMA SaveDocumentTyped ==
  ASSUME TypeInv, NEW s \in Slots, SaveDocument(s)
  PROVE  TypeInv'
<1> DEFINE h == [handlers[s] EXCEPT !.doc = documents[UriOf(s)], !.pc = "CachedVersion"]
<1>1. CASE Return(s)
  BY <1>1, ReturnFits, OnlyHandlersMove DEF SaveDocument
<1>2. CASE Resume(s, h) /\ UriOf(s) \in FileUris
  <2>1. documents[UriOf(s)] \in Document \cup {NoDocument}
    BY HandlerAt DEF TypeInv, TypeOK, Store
  <2>2. h \in Handler /\ HandlerFits(h)
    BY <1>2, <2>1, HandlerAt, HandlerPcsAre DEF Handler, HandlerFits, FilePcs, UriOf
  <2> HIDE DEF h
  <2> QED
    BY <1>2, <2>2, ResumeFits, OnlyHandlersMove DEF SaveDocument
<1> QED
  BY <1>1, <1>2 DEF SaveDocument, HasPath

(* From one await on the saved file to the next. *)
LEMMA GotoFileFits ==
  ASSUME TypeInv, NEW s \in Slots, handlers[s].pc \in FilePcs,
         NEW pc \in {"QueryVersion", "StoreVersion", "ReadSource", "RunCompiler"},
         NEW h \in Handler, h.pc = pc, h.msg = handlers[s].msg
  PROVE  HandlerFits(h)
BY HandlerAt DEF HandlerFits, FilePcs

LEMMA CachedVersionTyped ==
  ASSUME TypeInv, NEW s \in Slots, CachedVersion(s)
  PROVE  TypeInv'
<1> DEFINE pc == IF compilerVersion = NoRunner THEN "QueryVersion" ELSE "ReadSource"
           h  == [handlers[s] EXCEPT !.reported = compilerVersion, !.pc = pc]
<1>1. pc \in {"QueryVersion", "ReadSource"} /\ handlers[s].pc \in FilePcs
  BY DEF CachedVersion, At, FilePcs
<1>2. Resume(s, h)
  BY DEF CachedVersion
<1> HIDE DEF pc
<1>3. h \in Handler /\ h.pc = pc /\ h.msg = handlers[s].msg
  BY <1>1, HandlerAt, HandlerPcsAre, ZenonT(30) DEF Handler, FilePcs, TypeInv, TypeOK
<1> HIDE DEF h
<1>4. HandlerFits(h)
  BY <1>1, <1>3, GotoFileFits
<1> QED
  BY <1>2, <1>3, <1>4, ResumeFits, OnlyHandlersMove DEF CachedVersion

LEMMA QueryVersionTyped ==
  ASSUME TypeInv, NEW s \in Slots, QueryVersion(s)
  PROVE  TypeInv'
<1> DEFINE g == [handlers[s] EXCEPT !.reported = handlers[s].runner,
                                    !.pc = "StoreVersion"]
           h == [handlers[s] EXCEPT !.pc = "ReadSource"]
<1>1. handlers[s].pc \in FilePcs
  BY DEF QueryVersion, At, FilePcs
<1>2. /\ g \in Handler /\ g.pc = "StoreVersion" /\ g.msg = handlers[s].msg
      /\ h \in Handler /\ h.pc = "ReadSource" /\ h.msg = handlers[s].msg
  BY HandlerAt, HandlerPcsAre DEF Handler, FilePcs
<1>3. Resume(s, g) \/ Resume(s, h)
  BY DEF QueryVersion, Goto
<1> HIDE DEF g, h
<1>4. HandlerFits(g) /\ HandlerFits(h)
  BY <1>1, <1>2, GotoFileFits
<1> QED
  BY <1>2, <1>3, <1>4, ResumeFits, OnlyHandlersMove DEF QueryVersion

LEMMA StoreVersionTyped ==
  ASSUME TypeInv, NEW s \in Slots, StoreVersion(s)
  PROVE  TypeInv'
<1> DEFINE h == [handlers[s] EXCEPT !.pc = "ReadSource"]
<1>1. handlers[s].pc \in FilePcs
  BY DEF StoreVersion, At, FilePcs
<1>2. h \in Handler /\ h.pc = "ReadSource" /\ h.msg = handlers[s].msg
  BY HandlerAt, HandlerPcsAre DEF Handler, FilePcs
<1>3. Resume(s, h)
  BY DEF StoreVersion, Goto
<1>4. compilerVersion' \in Runners \cup {NoRunner}
  BY HandlerAt DEF StoreVersion, Handler
<1> HIDE DEF h
<1>5. HandlerFits(h)
  BY <1>1, <1>2, GotoFileFits
<1> QED
  BY <1>2, <1>3, <1>4, <1>5, ResumeFits
  DEF StoreVersion, TypeInv, TypeOK, InboxFits, taskVars, editorVars

LEMMA ReadSourceTyped ==
  ASSUME TypeInv, NEW s \in Slots, ReadSource(s)
  PROVE  TypeInv'
<1> DEFINE h == [handlers[s] EXCEPT !.pc = "RunCompiler"]
<1>1. handlers[s].pc \in FilePcs
  BY DEF ReadSource, At, FilePcs
<1>2. h \in Handler /\ h.pc = "RunCompiler" /\ h.msg = handlers[s].msg
  BY HandlerAt, HandlerPcsAre DEF Handler, FilePcs
<1>3. Resume(s, h) \/ Return(s)
  BY DEF ReadSource, Goto
<1> HIDE DEF h
<1>4. HandlerFits(h)
  BY <1>1, <1>2, GotoFileFits
<1> QED
  BY <1>2, <1>3, <1>4, ResumeFits, ReturnFits, OnlyHandlersMove DEF ReadSource

LEMMA RunCompilerTyped ==
  ASSUME TypeInv, NEW s \in Slots, RunCompiler(s)
  PROVE  TypeInv'
<1> DEFINE h == [handlers[s] EXCEPT !.checked = ReadFile(disk, PathOf[UriOf(s)]),
                                    !.pc = "AwaitCompiler"]
<1>1. UriOf(s) \in FileUris
  BY HandlerAt DEF RunCompiler, At, HandlerFits, FilePcs, UriOf
<1>2. ReadFile(disk, PathOf[UriOf(s)]) \in MaybeText
  BY <1>1, BackendAssumption, WorkspaceAssumption DEF ReadFile, TypeInv, TypeOK, Disk
<1>3. h \in Handler /\ h.pc \in PlainPcs /\ h.msg = handlers[s].msg
  BY <1>2, HandlerAt, HandlerPcsAre DEF Handler, PlainPcs
<1>4. Resume(s, h)
  BY DEF RunCompiler
<1> HIDE DEF h
<1>5. HandlerFits(h)
  BY <1>3, HandlerAt, PlainFits DEF HandlerFits
<1> QED
  BY <1>3, <1>4, <1>5, ResumeFits, OnlyHandlersMove DEF RunCompiler

LEMMA AwaitCompilerTyped ==
  ASSUME TypeInv, NEW s \in Slots, AwaitCompiler(s)
  PROVE  TypeInv'
BY GotoPlain, ReturnFits, OnlyHandlersMove DEF AwaitCompiler, PlainPcs

LEMMA SaveCatalogTyped ==
  ASSUME TypeInv, NEW s \in Slots, SaveCatalog(s)
  PROVE  TypeInv'
<1> DEFINE b == handlers[s].reported \notin {NoRunner, config.catalog}
           h == [handlers[s] EXCEPT !.mismatch = b, !.pc = "SaveGate"]
<1>1. b \in BOOLEAN
  OBVIOUS
<1>2. Resume(s, h)
  BY DEF SaveCatalog
<1> HIDE DEF b
<1>3. h \in Handler /\ h.pc \in PlainPcs /\ h.msg = handlers[s].msg
  BY <1>1, HandlerAt, HandlerPcsAre DEF Handler, PlainPcs
<1> HIDE DEF h
<1>4. HandlerFits(h)
  BY <1>3, HandlerAt, PlainFits DEF HandlerFits
<1> QED
  BY <1>2, <1>3, <1>4, ResumeFits, OnlyHandlersMove DEF SaveCatalog

LEMMA SaveGateTyped ==
  ASSUME TypeInv, NEW s \in Slots, SaveGate(s)
  PROVE  TypeInv'
<1> DEFINE h == [handlers[s] EXCEPT !.doc = documents[UriOf(s)], !.pc = "PublishSave"]
<1>1. documents[UriOf(s)] \in Document \cup {NoDocument}
  BY HandlerAt DEF TypeInv, TypeOK, Store
<1>2. h \in Handler /\ h.pc \in PlainPcs /\ h.msg = handlers[s].msg
  BY <1>1, HandlerAt, HandlerPcsAre DEF Handler, PlainPcs
<1>3. HandlerFits(h)
  BY <1>2, HandlerAt, PlainFits DEF HandlerFits
<1>4. Resume(s, h) \/ Return(s)
  BY DEF SaveGate
<1> HIDE DEF h
<1> QED
  BY <1>2, <1>3, <1>4, ResumeFits, ReturnFits, OnlyHandlersMove DEF SaveGate

(* What a compiler run publishes. *)
LEMMA CompilerPublicationTyped ==
  ASSUME NEW v \in 0 .. MaxVersion, NEW text \in MaybeText, NEW checked \in MaybeText,
         NEW by \in Runners \cup {NoRunner}, NEW mismatch \in BOOLEAN
  PROVE  CompilerPublication(v, text, checked, by, mismatch) \in Publication
BY DefaultValues DEF CompilerPublication, Publication

LEMMA PublishSaveTyped ==
  ASSUME TypeInv, NEW s \in Slots, PublishSave(s)
  PROVE  TypeInv'
<1> DEFINE h   == handlers[s]
           pub == CompilerPublication(h.doc.version, h.doc.text, h.checked, h.runner,
                                      h.mismatch)
<1>1. /\ h.doc.version \in 0 .. MaxVersion /\ h.doc.text \in MaybeText
      /\ h.checked \in MaybeText /\ h.runner \in Runners \cup {NoRunner}
      /\ h.mismatch \in BOOLEAN
  BY HandlerAt, DocumentFields DEF Handler
<1>2. pub \in Publication
  BY <1>1, CompilerPublicationTyped
<1>3. published' = [published EXCEPT ![UriOf(s)] = pub]
  BY DEF PublishSave, UriOf
<1> HIDE DEF pub
<1>4. published' \in [Uris -> Publication]
  BY <1>2, <1>3, HandlerAt DEF TypeInv, TypeOK
<1> QED
  BY <1>4, ReturnFits
  DEF PublishSave, TypeInv, TypeOK, InboxFits, serverVars, taskVars, editorVars

LEMMA MessageConfig ==
  ASSUME TypeInv, NEW s \in Slots
  PROVE  handlers[s].msg.config \in Configs
BY HandlerAt DEF Message

LEMMA SetRunnerTyped ==
  ASSUME TypeInv, NEW s \in Slots, SetRunner(s)
  PROVE  TypeInv'
<1>1. stanc' \in Runners \cup {NoRunner}
  BY MessageConfig, RunnerOfIsRunner DEF SetRunner
<1> QED
  BY <1>1, GotoPlain
  DEF SetRunner, PlainPcs, TypeInv, TypeOK, InboxFits, taskVars, editorVars

LEMMA ForgetVersionTyped ==
  ASSUME TypeInv, NEW s \in Slots, ForgetVersion(s)
  PROVE  TypeInv'
BY GotoPlain
DEF ForgetVersion, PlainPcs, TypeInv, TypeOK, InboxFits, taskVars, editorVars

LEMMA ReindexWorkspaceTyped ==
  ASSUME TypeInv, NEW s \in Slots, ReindexWorkspace(s)
  PROVE  TypeInv'
<1>1. workspace' \in Workspaces
  BY MessageConfig, ReindexIsWorkspace, ConfigsAreSearchable
  DEF ReindexWorkspace, TypeInv, TypeOK
<1> QED
  BY <1>1, GotoPlain
  DEF ReindexWorkspace, PlainPcs, TypeInv, TypeOK, InboxFits, taskVars, editorVars

LEMMA SetConfigTyped ==
  ASSUME TypeInv, NEW s \in Slots, SetConfig(s)
  PROVE  TypeInv'
BY MessageConfig, ReturnFits
DEF SetConfig, TypeInv, TypeOK, InboxFits, taskVars, editorVars

LEMMA HandlerStepTyped ==
  ASSUME TypeInv, NEW s \in Slots, HandlerStep(s)
  PROVE  TypeInv'
BY OpenDocumentTyped, ReplaceDocumentTyped, OverlayConfigTyped, InstallOverlayTyped,
   PublishConfigTyped, PublishTyped, ScheduleConfigTyped, ScheduleRunnerTyped,
   RegisterTaskTyped, CloseDocumentTyped, CancelTaskTyped, RemoveOverlayTyped,
   PublishEmptyTyped, SaveEnabledTyped, SaveRunnerTyped, SaveDocumentTyped,
   CachedVersionTyped, QueryVersionTyped, StoreVersionTyped, ReadSourceTyped,
   RunCompilerTyped, AwaitCompilerTyped, SaveCatalogTyped, SaveGateTyped,
   PublishSaveTyped, SetRunnerTyped, ForgetVersionTyped, ReindexWorkspaceTyped,
   SetConfigTyped
DEF HandlerStep

-----------------------------------------------------------------------------
(* The message loop. *)

LEMMA HeadOfInbox ==
  ASSUME TypeInv, inbox # <<>>
  PROVE  /\ Head(inbox) \in Message /\ Fits(Head(inbox))
         /\ Tail(inbox) \in Seq(Message)
         /\ \A i \in 1 .. Len(Tail(inbox)) : Fits(Tail(inbox)[i])
<1>1. inbox \in Seq(Message) /\ Len(inbox) \in Nat \ {0}
  BY EmptySeq DEF TypeInv, TypeOK
<1>2. Head(inbox) = inbox[1]
  BY <1>1
<1>3. /\ Head(inbox) \in Message /\ Tail(inbox) \in Seq(Message)
      /\ Len(Tail(inbox)) = Len(inbox) - 1
      /\ \A i \in 1 .. Len(Tail(inbox)) : Tail(inbox)[i] = inbox[i + 1]
  BY <1>1, HeadTailProperties
<1>4. \A i \in 1 .. Len(inbox) - 1 : i + 1 \in 1 .. Len(inbox)
  BY <1>1
<1> QED
  BY <1>1, <1>2, <1>3, <1>4 DEF TypeInv, InboxFits

LEMMA DispatchTyped ==
  ASSUME TypeInv, NEW s \in Slots, Dispatch(s)
  PROVE  TypeInv'
<1> DEFINE m == Head(inbox)
           h == [IdleHandler EXCEPT !.pc = EntryPoint(m.kind), !.msg = m]
<1>1. m \in Message /\ Fits(m) /\ m.kind # "malformed"
  BY HeadOfInbox DEF Dispatch
<1>2. m.kind \in {"open", "change", "close", "save", "configure"}
  BY <1>1 DEF Message
<1>3. /\ EntryPoint(m.kind) \in HandlerPcs
      /\ EntryPoint(m.kind) = "OpenDocument" => m.kind = "open"
      /\ EntryPoint(m.kind) = "ReplaceDocument" => m.kind = "change"
      /\ EntryPoint(m.kind) = "CloseDocument" => m.kind = "close"
      /\ EntryPoint(m.kind) = "CancelTask" => m.kind = "save"
      /\ EntryPoint(m.kind) \in {"OpenDocument", "ReplaceDocument", "CloseDocument",
                                 "CancelTask", "SetRunner"}
  BY <1>2, HandlerPcsAre DEF EntryPoint, PlainPcs
<1>4. h \in Handler
  BY <1>1, <1>3, DefaultValues DEF Handler
<1>5. HandlerFits(h)
  BY <1>1, <1>3, DefaultValues DEF HandlerFits, FilePcs, Handler
<1>6. Resume(s, h)
  BY DEF Dispatch
<1> HIDE DEF h
<1> QED
  BY <1>4, <1>5, <1>6, ResumeFits, HeadOfInbox
  DEF Dispatch, TypeInv, TypeOK, InboxFits, serverVars, taskVars

LEMMA IgnoreNotificationTyped ==
  ASSUME TypeInv, IgnoreNotification
  PROVE  TypeInv'
BY HeadOfInbox
DEF IgnoreNotification, TypeInv, TypeOK, InboxFits, HandlersFit, serverVars, taskVars

-----------------------------------------------------------------------------
(* Compiler tasks. *)

LEMMA TaskRunsTyped ==
  ASSUME TypeInv, NEW t \in TaskIds, TaskRuns(t) \/ ProcessExits(t)
  PROVE  TypeInv'
<1>1. /\ \A pc \in TaskPcs : [tasks EXCEPT ![t].pc = pc] \in [TaskIds -> Task]
      /\ [tasks EXCEPT ![t] = DoneTask] \in [TaskIds -> Task]
      /\ tasks[t] \in Task
  BY DefaultValues DEF TypeInv, TypeOK, Task
<1>2. CASE Debounced(t)
  BY <1>1, <1>2 DEF Debounced, TaskStep, SetTaskPc, EndTask, TaskPcs, TypeInv, TypeOK,
     InboxFits, HandlersFit, serverVars, editorVars
<1>3. CASE StartCompiler(t)
  BY <1>1, <1>3 DEF StartCompiler, TaskStep, SetTaskPc, EndTask, TaskPcs, TypeInv,
     TypeOK, InboxFits, HandlersFit, serverVars, editorVars
<1>4. CASE CompilerAnswers(t)
  BY <1>1, <1>4 DEF CompilerAnswers, TaskStep, SetTaskPc, TaskPcs, TypeInv, TypeOK,
     InboxFits, HandlersFit, serverVars, editorVars
<1>5. CASE CompilerTimesOut(t)
  BY <1>1, <1>5 DEF CompilerTimesOut, TaskStep, EndTask, TypeInv, TypeOK,
     InboxFits, HandlersFit, serverVars, editorVars
<1>6. CASE Gate(t)
  <2>1. documents[tasks[t].uri].text \in MaybeText
    BY <1>1, DocumentFields DEF Task, TypeInv, TypeOK, Store
  <2>2. tasks' \in [TaskIds -> Task]
    <3> DEFINE text == documents[tasks[t].uri].text
    <3>1. [tasks EXCEPT ![t].pc = "publishing", ![t].text = text] \in [TaskIds -> Task]
      BY <2>1, ZenonT(30) DEF Task, TaskPcs, TypeInv, TypeOK
    <3> QED
      BY <1>1, <1>6, <3>1 DEF Gate, EndTask
  <2> QED
    BY <1>6, <2>2 DEF Gate, TaskStep, TypeInv, TypeOK, InboxFits, HandlersFit,
       serverVars, editorVars
<1>7. CASE PublishCompiled(t)
  <2> DEFINE pub == CompilerPublication(tasks[t].version, tasks[t].text,
                                        tasks[t].source, tasks[t].runner, FALSE)
  <2>1. pub \in Publication /\ tasks[t].uri \in Uris
    BY <1>1, CompilerPublicationTyped DEF Task
  <2>2. published' = [published EXCEPT ![tasks[t].uri] = pub]
    BY <1>7 DEF PublishCompiled
  <2> HIDE DEF pub
  <2>3. published' \in [Uris -> Publication]
    BY <2>1, <2>2 DEF TypeInv, TypeOK
  <2> QED
    BY <1>1, <1>7, <2>3 DEF PublishCompiled, TaskStep, EndTask, TypeInv, TypeOK,
       InboxFits, HandlersFit, serverVars, editorVars
<1>8. CASE DropTask(t)
  BY <1>1, <1>8 DEF DropTask, TaskStep, EndTask, TypeInv, TypeOK, InboxFits,
     HandlersFit, serverVars, editorVars
<1>9. CASE ProcessExits(t)
  BY <1>9 DEF ProcessExits, TypeInv, TypeOK, InboxFits, HandlersFit, serverVars,
     editorVars
<1> QED
  BY <1>2, <1>3, <1>4, <1>5, <1>6, <1>7, <1>8, <1>9 DEF TaskRuns

-----------------------------------------------------------------------------
(* The editor. *)

LEMMA SendFits ==
  ASSUME TypeInv, NEW m \in Message, Fits(m), Send(m)
  PROVE  inbox' \in Seq(Message) /\ InboxFits'
<1>1. inbox \in Seq(Message) /\ Len(inbox) \in Nat /\ inbox' = Append(inbox, m)
  BY LenProperties DEF TypeInv, TypeOK, Send
<1>2. /\ inbox' \in Seq(Message) /\ Len(inbox') = Len(inbox) + 1
      /\ \A i \in 1 .. Len(inbox) : inbox'[i] = inbox[i]
      /\ inbox'[Len(inbox) + 1] = m
  BY <1>1, AppendProperties
<1>3. \A i \in 1 .. Len(inbox) + 1 : i \in 1 .. Len(inbox) \/ i = Len(inbox) + 1
  BY <1>1
<1> QED
  BY <1>2, <1>3 DEF TypeInv, InboxFits

LEMMA TextMessageFits ==
  ASSUME NEW kind \in {"open", "change"}, NEW u \in Uris, NEW v \in Versions,
         NEW t \in Texts
  PROVE  TextMessage(kind, u, v, t) \in Message /\ Fits(TextMessage(kind, u, v, t))
<1>1. v \in 0 .. MaxVersion /\ t \in MaybeText
  BY VersionAssumption DEF Versions, MaybeText
<1> QED
  BY <1>1, DefaultValues DEF TextMessage, Message, Fits

LEMMA OtherMessagesFit ==
  ASSUME NEW u \in Uris, NEW c \in Configs, NEW kind \in {"close", "save"}
  PROVE  /\ UriMessage(kind, u) \in Message /\ Fits(UriMessage(kind, u))
         /\ ConfigMessage(c) \in Message /\ Fits(ConfigMessage(c))
BY DefaultValues DEF UriMessage, ConfigMessage, Message, Fits

LEMMA EditorShowsTyped ==
  ASSUME TypeInv, NEW u \in Uris, NEW v \in Nat \ {0}, NEW t \in Texts,
         EditorShows(u, v, t), NEW kind \in {"open", "change"},
         Send(TextMessage(kind, u, v, t))
  PROVE  TypeInv'
<1>1. v \in Versions /\ v \in 0 .. MaxVersion
  BY VersionAssumption DEF EditorShows, Versions
<1>2. inbox' \in Seq(Message) /\ InboxFits'
  BY <1>1, TextMessageFits, SendFits
<1>3. editor' \in Store
  BY <1>1, NewDocumentIsDocument DEF EditorShows, TypeInv, TypeOK, Store
<1>4. lastVersion' \in [Uris -> 0 .. MaxVersion]
  BY <1>1 DEF EditorShows, TypeInv, TypeOK
<1> QED
  BY <1>2, <1>3, <1>4 DEF EditorShows, ServerIdleStep, TypeInv, TypeOK, HandlersFit,
     serverVars, taskVars

LEMMA EditorActsTyped ==
  ASSUME TypeInv, EditorActs
  PROVE  TypeInv'
<1>1. ASSUME NEW u \in Uris, NEW t \in Texts, EditorOpens(u, t)
      PROVE  TypeInv'
  <2>1. NextVersion(u) \in Nat \ {0}
    BY VersionAssumption DEF NextVersion, TypeInv, TypeOK
  <2> QED
    BY <1>1, <2>1, EditorShowsTyped DEF EditorOpens
<1>2. ASSUME NEW u \in Uris, NEW t \in Texts, EditorTypes(u, t)
      PROVE  TypeInv'
  <2>1. editor[u].version \in 0 .. MaxVersion
    BY DocumentFields DEF TypeInv, TypeOK, Store
  <2>2. editor[u].version + 1 \in Nat \ {0}
    BY <2>1, VersionAssumption
  <2> QED
    BY <1>2, <2>2, EditorShowsTyped DEF EditorTypes
<1>3. ASSUME NEW u \in Uris, NEW v \in Versions, NEW t \in Texts,
             EditorSendsStale(u, v, t)
      PROVE  TypeInv'
  <2>1. inbox' \in Seq(Message) /\ InboxFits'
    BY <1>3, TextMessageFits, SendFits DEF EditorSendsStale
  <2> QED
    BY <1>3, <2>1 DEF EditorSendsStale, ServerIdleStep, TypeInv, TypeOK, HandlersFit,
       serverVars, taskVars
<1>4. CASE EditorSendsMalformed
  <2>1. inbox' \in Seq(Message) /\ InboxFits'
    BY <1>4, DefaultValues, SendFits DEF EditorSendsMalformed
  <2> QED
    BY <1>4, <2>1 DEF EditorSendsMalformed, ServerIdleStep, TypeInv, TypeOK,
       HandlersFit, serverVars, taskVars
<1>5. ASSUME NEW u \in Uris, EditorSaves(u)
      PROVE  TypeInv'
  <2>1. inbox' \in Seq(Message) /\ InboxFits'
    BY <1>5, DefaultValues, OtherMessagesFit, SendFits DEF EditorSaves
  <2>2. disk' \in Disk
    <3>1. editor[u].text \in MaybeText
      BY DocumentFields DEF TypeInv, TypeOK, Store
    <3> QED
      BY <1>5, <3>1 DEF EditorSaves, TypeInv, TypeOK, Disk
  <2> QED
    BY <1>5, <2>1, <2>2 DEF EditorSaves, ServerIdleStep, TypeInv, TypeOK, HandlersFit,
       serverVars, taskVars
<1>6. ASSUME NEW u \in Uris, EditorCloses(u)
      PROVE  TypeInv'
  <2>1. inbox' \in Seq(Message) /\ InboxFits'
    BY <1>6, DefaultValues, OtherMessagesFit, SendFits DEF EditorCloses
  <2>2. editor' \in Store
    BY <1>6 DEF EditorCloses, TypeInv, TypeOK, Store
  <2> QED
    BY <1>6, <2>1, <2>2 DEF EditorCloses, ServerIdleStep, TypeInv, TypeOK, HandlersFit,
       serverVars, taskVars
<1>7. ASSUME NEW c \in Configs, EditorConfigures(c)
      PROVE  TypeInv'
  <2>1. inbox' \in Seq(Message) /\ InboxFits'
    BY <1>7, DefaultValues, OtherMessagesFit, SendFits DEF EditorConfigures
  <2> QED
    BY <1>7, <2>1 DEF EditorConfigures, ServerIdleStep, TypeInv, TypeOK, HandlersFit,
       serverVars, taskVars
<1> QED
  BY <1>1, <1>2, <1>3, <1>4, <1>5, <1>6, <1>7 DEF EditorActs

-----------------------------------------------------------------------------
LEMMA TypeInvIsInvariant == Spec => []TypeInv
<1>1. TypeInv /\ [Next]_vars => TypeInv'
  <2> SUFFICES ASSUME TypeInv, [Next]_vars PROVE TypeInv'
    OBVIOUS
  <2>1. CASE Next
    BY <2>1, DispatchTyped, HandlerStepTyped, IgnoreNotificationTyped, TaskRunsTyped,
       EditorActsTyped DEF Next
  <2>2. CASE UNCHANGED vars
    BY <2>2 DEF vars, TypeInv, TypeOK, InboxFits, HandlersFit, serverVars, taskVars,
       editorVars
  <2> QED
    BY <2>1, <2>2
<1> QED
  BY <1>1, InitTypeInv, PTL DEF Spec

(* The state of the server, of its handlers and tasks and of the editor     *)
(* keeps its type: no handler meets an await without the document, the file *)
(* or the runner it goes on to use (did_open to did_change_configuration).  *)
THEOREM BackendIsTyped == Spec => []TypeOK
<1>1. TypeInv => TypeOK
  BY DEF TypeInv
<1> QED
  BY <1>1, TypeInvIsInvariant, PTL

-----------------------------------------------------------------------------
(* Who owns a compiler task. *)

(* The step of a handler that holds no task and touches none. *)
QuietStep(s) ==
  /\ handlers[s].pc # "RegisterTask"
  /\ \E h : handlers' = [handlers EXCEPT ![s] = h]
  /\ UNCHANGED <<compilerTasks, taskVars>>

LEMMA QuietSteps ==
  ASSUME NEW s \in Slots, Dispatch(s) \/ HandlerStep(s)
  PROVE  \/ QuietStep(s) \/ RegisterTask(s) \/ CancelTask(s)
         \/ ScheduleRunner(s) /\ \E t \in FreeTasks : Spawn(s, t)
<1> USE DEF QuietStep, At, Goto, Return, Resume, serverVars
<1>1. CASE OpenDocument(s) \/ ReplaceDocument(s) \/ OverlayConfig(s)
           \/ InstallOverlay(s) \/ PublishConfig(s) \/ Publish(s)
  BY <1>1 DEF OpenDocument, ReplaceDocument, OverlayConfig, InstallOverlay,
     PublishConfig, Publish
<1>2. CASE ScheduleConfig(s) \/ CloseDocument(s) \/ RemoveOverlay(s) \/ PublishEmpty(s)
  BY <1>2 DEF ScheduleConfig, CloseDocument, RemoveOverlay, PublishEmpty
<1>3. CASE SaveEnabled(s) \/ SaveRunner(s) \/ SaveDocument(s) \/ CachedVersion(s)
           \/ QueryVersion(s) \/ StoreVersion(s)
  BY <1>3 DEF SaveEnabled, SaveRunner, SaveDocument, CachedVersion, QueryVersion,
     StoreVersion
<1>4. CASE ReadSource(s) \/ RunCompiler(s) \/ AwaitCompiler(s) \/ SaveCatalog(s)
           \/ SaveGate(s) \/ PublishSave(s)
  BY <1>4 DEF ReadSource, RunCompiler, AwaitCompiler, SaveCatalog, SaveGate, PublishSave
<1>5. CASE SetRunner(s) \/ ForgetVersion(s) \/ ReindexWorkspace(s) \/ SetConfig(s)
  BY <1>5 DEF SetRunner, ForgetVersion, ReindexWorkspace, SetConfig
<1>6. CASE ScheduleRunner(s)
  BY <1>6 DEF ScheduleRunner
<1>7. CASE Dispatch(s)
  BY <1>7 DEF Dispatch
<1> QED
  BY <1>1, <1>2, <1>3, <1>4, <1>5, <1>6, <1>7 DEF HandlerStep

(* RegisterTask and CancelTask abort the task they take out of the map. *)
LEMMA AbortCancels ==
  ASSUME TypeOK, NEW t \in TaskIds, Live(t), Abort(t)
  PROVE  t \in cancelled'
BY BackendAssumption DEF Abort, Live

LEMMA AbortKeeps ==
  ASSUME NEW t, Abort(t)
  PROVE  cancelled \subseteq cancelled'
BY DEF Abort

LEMMA OwnershipOnHandlerStep ==
  ASSUME TypeOK, LiveTasksAreOwned, NEW s \in Slots, Dispatch(s) \/ HandlerStep(s)
  PROVE  LiveTasksAreOwned'
<1> DEFINE Holds(r, t) == /\ handlers[r].pc = "RegisterTask" /\ handlers[r].task = t
                          /\ handlers[r].msg.uri = tasks[t].uri
<1> SUFFICES ASSUME NEW t \in TaskIds, Live(t)', t \notin cancelled'
             PROVE  \/ compilerTasks'[tasks'[t].uri] = t
                    \/ \E r \in Slots : Holds(r, t)'
  BY DEF LiveTasksAreOwned
<1>1. CASE QuietStep(s)
  <2>1. Live(t) /\ t \notin cancelled /\ UNCHANGED <<tasks, compilerTasks>>
    BY <1>1 DEF QuietStep, taskVars, Live
  <2>2. CASE compilerTasks[tasks[t].uri] = t
    BY <2>1, <2>2
  <2>3. ASSUME NEW r \in Slots, Holds(r, t)
        PROVE  Holds(r, t)'
    BY <1>1, <2>1, <2>3 DEF QuietStep, TypeOK
  <2> QED
    BY <2>1, <2>2, <2>3 DEF LiveTasksAreOwned
<1>2. CASE RegisterTask(s)
  <2>1. /\ Live(t) /\ t \notin cancelled /\ UNCHANGED tasks
        /\ UriOf(s) \in Uris /\ tasks[t].uri \in Uris
    BY <1>2, AbortKeeps DEF RegisterTask, Live, TypeOK, UriOf, Handler, Message, Task
  <2>2. CASE compilerTasks[tasks[t].uri] = t
    <3>1. tasks[t].uri # UriOf(s)
      BY <1>2, <2>1, <2>2, AbortCancels DEF RegisterTask
    <3> QED
      BY <1>2, <2>1, <2>2, <3>1 DEF RegisterTask, TypeOK
  <2>3. CASE Holds(s, t)
    BY <1>2, <2>1, <2>3 DEF RegisterTask, TypeOK, UriOf
  <2>4. ASSUME NEW r \in Slots \ {s}, Holds(r, t)
        PROVE  Holds(r, t)'
    BY <1>2, <2>1, <2>4 DEF RegisterTask, Return, Resume, TypeOK
  <2> QED
    BY <2>1, <2>2, <2>3, <2>4 DEF LiveTasksAreOwned
<1>3. CASE CancelTask(s)
  <2>1. /\ Live(t) /\ t \notin cancelled /\ UNCHANGED tasks
        /\ UriOf(s) \in Uris /\ tasks[t].uri \in Uris
    BY <1>3, AbortKeeps DEF CancelTask, Live, TypeOK, UriOf, Handler, Message, Task
  <2>2. CASE compilerTasks[tasks[t].uri] = t
    <3>1. tasks[t].uri # UriOf(s)
      BY <1>3, <2>1, <2>2, AbortCancels DEF CancelTask
    <3> QED
      BY <1>3, <2>1, <2>2, <3>1 DEF CancelTask, TypeOK
  <2>3. ASSUME NEW r \in Slots, Holds(r, t)
        PROVE  Holds(r, t)'
    BY <1>3, <2>1, <2>3 DEF CancelTask, At, Goto, Resume, TypeOK
  <2> QED
    BY <2>1, <2>2, <2>3 DEF LiveTasksAreOwned
<1>4. ASSUME ScheduleRunner(s), NEW n \in FreeTasks, Spawn(s, n)
      PROVE  \/ compilerTasks'[tasks'[t].uri] = t
             \/ \E r \in Slots : Holds(r, t)'
  <2>1. /\ handlers[s].pc = "ScheduleRunner" /\ UNCHANGED compilerTasks
        /\ n \in TaskIds
    BY <1>4 DEF ScheduleRunner, At, serverVars, FreeTasks
  <2>2. CASE t = n
    <3>1. /\ handlers'[s].pc = "RegisterTask" /\ handlers'[s].task = t
          /\ handlers'[s].msg.uri = UriOf(s)
      BY <1>4, <2>1, <2>2 DEF Spawn, Resume, TypeOK, Handler, UriOf
    <3>2. tasks'[t].uri = UriOf(s)
      BY <1>4, <2>1, <2>2 DEF Spawn, TypeOK
    <3> QED
      BY <3>1, <3>2
  <2>3. CASE t # n
    <3>1. tasks'[t] = tasks[t] /\ Live(t) /\ t \notin cancelled
      BY <1>4, <2>1, <2>3 DEF Spawn, TypeOK, Live
    <3>2. CASE compilerTasks[tasks[t].uri] = t
      BY <2>1, <3>1, <3>2
    <3>3. ASSUME NEW r \in Slots, Holds(r, t)
          PROVE  Holds(r, t)'
      <4>1. r # s
        BY <2>1, <3>3
      <4>2. handlers'[r] = handlers[r]
        BY <1>4, <4>1 DEF Spawn, Resume, TypeOK
      <4> QED
        BY <3>1, <3>3, <4>2
    <3> QED
      BY <3>1, <3>2, <3>3 DEF LiveTasksAreOwned
  <2> QED
    BY <2>2, <2>3
<1> QED
  BY <1>1, <1>2, <1>3, <1>4, QuietSteps

(* A task leaves its document only by ending. *)
LEMMA TaskKeepsDocument ==
  ASSUME TypeOK, NEW t \in TaskIds, TaskRuns(t) \/ ProcessExits(t)
  PROVE  /\ UNCHANGED <<handlers, compilerTasks, cancelled>>
         /\ \A n \in TaskIds :
              tasks'[n].pc # "done" => tasks[n].pc # "done" /\ tasks'[n].uri = tasks[n].uri
<1> DEFINE Stays(new) == \A n \in TaskIds :
                           new[n].pc # "done" => tasks[n].pc # "done" /\ new[n].uri = tasks[n].uri
<1>1. tasks \in [TaskIds -> Task]
  BY DEF TypeOK
<1>2. ASSUME NEW p \in TaskPcs, tasks[t].pc # "done"
      PROVE  Stays([tasks EXCEPT ![t].pc = p])
  BY <1>1, <1>2 DEF Task
<1>3. Stays([tasks EXCEPT ![t] = DoneTask])
  BY <1>1 DEF DoneTask
<1>4. CASE Debounced(t)
  BY <1>2, <1>3, <1>4, ZenonT(30) DEF Debounced, TaskStep, SetTaskPc, EndTask, serverVars, TaskPcs
<1>5. CASE StartCompiler(t)
  BY <1>2, <1>3, <1>5, ZenonT(30) DEF StartCompiler, TaskStep, SetTaskPc, EndTask, serverVars, TaskPcs
<1>6. CASE CompilerAnswers(t)
  BY <1>2, <1>6 DEF CompilerAnswers, TaskStep, SetTaskPc, serverVars, TaskPcs
<1>7. CASE CompilerTimesOut(t)
  BY <1>3, <1>7 DEF CompilerTimesOut, TaskStep, EndTask, serverVars
<1>8. CASE Gate(t)
  <2>1. ASSUME NEW p, NEW d, tasks[t].pc # "done"
        PROVE  Stays([tasks EXCEPT ![t].pc = p, ![t].text = d])
    BY <1>1, <2>1 DEF Task
  <2>2. tasks[t].pc # "done" /\ UNCHANGED <<handlers, compilerTasks, cancelled>>
    BY <1>8 DEF Gate, TaskStep, serverVars
  <2>3. \/ \E d : tasks' = [tasks EXCEPT ![t].pc = "publishing", ![t].text = d]
        \/ tasks' = [tasks EXCEPT ![t] = DoneTask]
    BY <1>8 DEF Gate, EndTask
  <2>4. CASE \E d : tasks' = [tasks EXCEPT ![t].pc = "publishing", ![t].text = d]
    <3>1. PICK d : tasks' = [tasks EXCEPT ![t].pc = "publishing", ![t].text = d]
      BY <2>4
    <3>2. Stays([tasks EXCEPT ![t].pc = "publishing", ![t].text = d])
      BY <2>1, <2>2
    <3> QED
      BY <2>2, <3>1, <3>2
  <2>5. CASE tasks' = [tasks EXCEPT ![t] = DoneTask]
    BY <1>3, <2>2, <2>5
  <2> QED
    BY <2>3, <2>4, <2>5
<1>9. CASE PublishCompiled(t)
  BY <1>3, <1>9 DEF PublishCompiled, TaskStep, EndTask, serverVars
<1>10. CASE DropTask(t)
  BY <1>3, <1>10 DEF DropTask, TaskStep, EndTask, serverVars
<1>11. CASE ProcessExits(t)
  BY <1>11 DEF ProcessExits, serverVars
<1> QED
  BY <1>4, <1>5, <1>6, <1>7, <1>8, <1>9, <1>10, <1>11 DEF TaskRuns

LEMMA OwnershipStep ==
  ASSUME TypeOK, LiveTasksAreOwned, [Next]_vars
  PROVE  LiveTasksAreOwned'
<1>1. ASSUME NEW s \in Slots, Dispatch(s) \/ HandlerStep(s)
      PROVE  LiveTasksAreOwned'
  BY <1>1, OwnershipOnHandlerStep
<1>2. ASSUME NEW t \in TaskIds, TaskRuns(t) \/ ProcessExits(t)
      PROVE  LiveTasksAreOwned'
  BY <1>2, TaskKeepsDocument DEF LiveTasksAreOwned, Live
<1>3. CASE UNCHANGED <<handlers, compilerTasks, tasks, cancelled>>
  BY <1>3 DEF LiveTasksAreOwned, Live
<1>4. IgnoreNotification \/ EditorActs \/ UNCHANGED vars
        => UNCHANGED <<handlers, compilerTasks, tasks, cancelled>>
  BY DEF IgnoreNotification, EditorActs, EditorOpens, EditorTypes, EditorSendsStale,
     EditorSendsMalformed, EditorSaves, EditorCloses, EditorConfigures, EditorShows,
     ServerIdleStep, serverVars, taskVars, vars
<1> QED
  BY <1>1, <1>2, <1>3, <1>4 DEF Next

(* However notifications and tasks interleave, a compiler task that runs    *)
(* and was not aborted is named by the map under its document, or is held   *)
(* by the handler that spawned it and will put it there: the next change,   *)
(* save or close of the document finds it (schedule_compiler, did_save,     *)
(* did_close).                                                              *)
THEOREM NoTaskEscapes == Spec => []LiveTasksAreOwned
<1>1. Init => LiveTasksAreOwned
  BY DEF Init, LiveTasksAreOwned, Live, DoneTask
<1>2. TypeInv => TypeOK
  BY DEF TypeInv
<1>3. TypeOK /\ LiveTasksAreOwned /\ [Next]_vars => LiveTasksAreOwned'
  BY OwnershipStep
<1> QED
  BY <1>1, <1>2, <1>3, TypeInvIsInvariant, PTL DEF Spec

-----------------------------------------------------------------------------
(* Temporary files. *)

LEMMA TempFilesStep ==
  ASSUME TypeOK, TempFilesAreRemoved, [Next]_vars
  PROVE  TempFilesAreRemoved'
<1>1. ASSUME NEW s \in Slots, Dispatch(s) \/ HandlerStep(s)
      PROVE  TempFilesAreRemoved'
  <2>1. CASE QuietStep(s)
    BY <2>1 DEF QuietStep, taskVars, TempFilesAreRemoved
  <2>2. CASE RegisterTask(s) \/ CancelTask(s)
    <3>1. cancelled \subseteq cancelled' /\ UNCHANGED <<tasks, tempFiles>>
      BY <2>2, AbortKeeps DEF RegisterTask, CancelTask
    <3> QED
      BY <3>1 DEF TempFilesAreRemoved
  <2>3. ASSUME NEW n \in FreeTasks, Spawn(s, n)
        PROVE  TempFilesAreRemoved'
    BY <2>3 DEF Spawn, TempFilesAreRemoved, TypeOK
  <2> QED
    BY <1>1, <2>1, <2>2, <2>3, QuietSteps
<1>2. ASSUME NEW t \in TaskIds, TaskRuns(t) \/ ProcessExits(t)
      PROVE  TempFilesAreRemoved'
  <2> USE DEF TaskStep, SetTaskPc, EndTask, TempFilesAreRemoved, TypeOK, Task
  <2>1. CASE Debounced(t) \/ StartCompiler(t)
    BY <2>1 DEF Debounced, StartCompiler
  <2>2. CASE CompilerAnswers(t) \/ CompilerTimesOut(t)
    BY <2>2 DEF CompilerAnswers, CompilerTimesOut
  <2>3. CASE DropTask(t)
    BY <2>3 DEF DropTask
  <2>4. CASE PublishCompiled(t) \/ Gate(t)
    BY <2>4 DEF PublishCompiled, Gate
  <2>5. CASE ProcessExits(t)
    BY <2>5 DEF ProcessExits
  <2> QED
    BY <1>2, <2>1, <2>2, <2>3, <2>4, <2>5 DEF TaskRuns
<1>3. CASE UNCHANGED <<tasks, cancelled, tempFiles>>
  BY <1>3 DEF TempFilesAreRemoved
<1>4. IgnoreNotification \/ EditorActs \/ UNCHANGED vars
        => UNCHANGED <<tasks, cancelled, tempFiles>>
  BY DEF IgnoreNotification, EditorActs, EditorOpens, EditorTypes, EditorSendsStale,
     EditorSendsMalformed, EditorSaves, EditorCloses, EditorConfigures, EditorShows,
     ServerIdleStep, taskVars, vars
<1> QED
  BY <1>1, <1>2, <1>3, <1>4 DEF Next

(* Whatever the runtime does, the temporary source file of a compiler task  *)
(* outlives it only if the task was aborted: the answer, the failure and    *)
(* the timeout of stanc all pass the removal in check_source.               *)
THEOREM OnlyAbortsLeaveFiles == Spec => []TempFilesAreRemoved
<1>1. Init => TempFilesAreRemoved
  BY DEF Init, TempFilesAreRemoved
<1>2. TypeInv => TypeOK
  BY DEF TypeInv
<1>3. TypeOK /\ TempFilesAreRemoved /\ [Next]_vars => TempFilesAreRemoved'
  BY TempFilesStep
<1> QED
  BY <1>1, <1>2, <1>3, TypeInvIsInvariant, PTL DEF Spec

-----------------------------------------------------------------------------
(***************************************************************************)
(* The store follows the editor, when a handler stores its document before *)
(* it first suspends.                                                      *)
(*                                                                         *)
(* The store lags behind the editor by the notification in hand and those  *)
(* in transport. What they lead to is stated with a sequence of stores,    *)
(* one per notification, rather than by recursion on the transport.        *)
(*                                                                         *)
(* The last section shows that the overlays follow the store in turn, when *)
(* handlers go from one to the other without being suspended.              *)
(***************************************************************************)

(* Where a handler stands before it has touched the store. *)
StorePcs == {"OpenDocument", "ReplaceDocument", "CloseDocument"}

StoredAtOnce == YieldPoints \cap StorePcs = {}

(* What the handler of a notification does to the store. *)
Applied(store, m) ==
  IF m.kind = "open" THEN Open(store, m.uri, NewDocument(m.version, m.text))
  ELSE IF m.kind = "change" /\ Accepts(store, m.uri, m.version)
       THEN Replace(store, m.uri, m.version, m.text)
  ELSE IF m.kind = "close" THEN Close(store, m.uri)
  ELSE store

(* A document is opened when it is closed. *)
Sound(store, m) == m.kind = "open" => ~IsOpen(store, m.uri)

IsTrace(tr, from, msgs, to) ==
  /\ tr[0] = from /\ tr[Len(msgs)] = to
  /\ \A i \in 1 .. Len(msgs) : Sound(tr[i - 1], msgs[i]) /\ tr[i] = Applied(tr[i - 1], msgs[i])

Leads(from, msgs, to) == \E tr \in [0 .. Len(msgs) -> Store] : IsTrace(tr, from, msgs, to)

(* The store once the handler being polled has dealt with it. *)
Ahead == IF turn \in Slots /\ handlers[turn].pc \in StorePcs
         THEN Applied(documents, handlers[turn].msg) ELSE documents

InHand == \A s \in Slots : handlers[s].pc \in StorePcs =>
            turn = s /\ Sound(documents, handlers[s].msg)

OrderInv == InHand /\ Leads(Ahead, inbox, editor)

-----------------------------------------------------------------------------
(* Notifications that lead from one store to another. *)

LEMMA AppliedIsStore ==
  ASSUME NEW store \in Store, NEW m \in Message, Fits(m)
  PROVE  Applied(store, m) \in Store
<1>1. m.uri \in Uris
  BY DEF Message
<1>2. m.kind \in {"open", "change"} => NewDocument(m.version, m.text) \in Document
  BY NewDocumentIsDocument DEF Fits
<1> QED
  BY <1>1, <1>2 DEF Applied, Open, Replace, Close, Store

LEMMA LeadsNowhere ==
  ASSUME NEW store \in Store
  PROVE  Leads(store, <<>>, store)
<1> DEFINE tr == [i \in 0 .. 0 |-> store]
<1>1. Len(<<>>) = 0 /\ tr \in [0 .. 0 -> Store] /\ tr[0] = store /\ 1 .. 0 = {}
  OBVIOUS
<1> HIDE DEF tr
<1>2. IsTrace(tr, store, <<>>, store)
  BY <1>1 DEF IsTrace
<1> QED
  BY <1>1, <1>2 DEF Leads

LEMMA LeadsEmpty ==
  ASSUME NEW from, NEW to, Leads(from, <<>>, to)
  PROVE  from = to
BY DEF Leads, IsTrace

(* One more notification, and one less. *)
Longer(tr, n, store) == [i \in 0 .. n + 1 |-> IF i = n + 1 THEN store ELSE tr[i]]
Later(tr, n)         == [i \in 0 .. n - 1 |-> tr[i + 1]]

LEMMA TraceAppend ==
  ASSUME NEW msgs \in Seq(Message), NEW m \in Message, NEW from, NEW to,
         NEW tr \in [0 .. Len(msgs) -> Store], IsTrace(tr, from, msgs, to),
         Sound(to, m), Applied(to, m) \in Store
  PROVE  LET longer == Longer(tr, Len(msgs), Applied(to, m))
         IN  /\ longer \in [0 .. Len(Append(msgs, m)) -> Store]
             /\ IsTrace(longer, from, Append(msgs, m), Applied(to, m))
<1> DEFINE n == Len(msgs)
           more == Append(msgs, m)
           longer == Longer(tr, n, Applied(to, m))
<1>1. /\ n \in Nat /\ Len(more) = n + 1 /\ more[n + 1] = m
      /\ \A i \in 1 .. n : more[i] = msgs[i]
  BY LenProperties, AppendProperties
<1>2. /\ longer \in [0 .. n + 1 -> Store]
      /\ \A i \in 0 .. n : longer[i] = tr[i]
  BY <1>1 DEF Longer
<1>3. longer[0] = from /\ longer[n + 1] = Applied(to, m)
  BY <1>1 DEF IsTrace, Longer
<1>4. ASSUME NEW i \in 1 .. n + 1
      PROVE  Sound(longer[i - 1], more[i]) /\ longer[i] = Applied(longer[i - 1], more[i])
  <2>1. CASE i = n + 1
    <3>1. longer[i - 1] = to
      BY <1>1, <1>2, <2>1 DEF IsTrace
    <3> QED
      BY <1>1, <1>3, <2>1, <3>1
  <2>2. CASE i \in 1 .. n
    <3>1. longer[i - 1] = tr[i - 1] /\ longer[i] = tr[i] /\ more[i] = msgs[i]
      BY <1>1, <1>2, <2>2
    <3> QED
      BY <2>2, <3>1 DEF IsTrace
  <2> QED
    BY <1>1, <2>1, <2>2
<1> HIDE DEF more, longer
<1>5. IsTrace(longer, from, more, Applied(to, m))
  BY <1>1, <1>3, <1>4 DEF IsTrace
<1> QED
  BY <1>1, <1>2, <1>5 DEF more, longer

LEMMA TraceOn ==
  ASSUME NEW msgs \in Seq(Message), msgs # <<>>, NEW from, NEW to,
         NEW tr \in [0 .. Len(msgs) -> Store], IsTrace(tr, from, msgs, to)
  PROVE  /\ Sound(from, Head(msgs))
         /\ Later(tr, Len(msgs)) \in [0 .. Len(Tail(msgs)) -> Store]
         /\ IsTrace(Later(tr, Len(msgs)), Applied(from, Head(msgs)), Tail(msgs), to)
<1> DEFINE n == Len(msgs)
           rest == Tail(msgs)
           later == Later(tr, n)
<1>1. /\ n \in Nat \ {0} /\ Len(rest) = n - 1 /\ Head(msgs) = msgs[1]
      /\ \A i \in 1 .. n - 1 : rest[i] = msgs[i + 1]
  BY EmptySeq, LenProperties, HeadTailProperties
<1>2. /\ later \in [0 .. n - 1 -> Store]
      /\ \A i \in 0 .. n - 1 : later[i] = tr[i + 1]
  BY <1>1 DEF Later
<1>3. Sound(from, Head(msgs)) /\ tr[1] = Applied(from, Head(msgs))
  <2>1. 1 \in 1 .. n /\ 1 - 1 = 0
    BY <1>1
  <2> QED
    BY <1>1, <2>1 DEF IsTrace
<1>4. later[0] = tr[1] /\ later[n - 1] = to
  BY <1>1, <1>2 DEF IsTrace
<1>5. ASSUME NEW i \in 1 .. n - 1
      PROVE  Sound(later[i - 1], rest[i]) /\ later[i] = Applied(later[i - 1], rest[i])
  <2>1. i + 1 \in 1 .. n /\ (i + 1) - 1 = i /\ i - 1 \in 0 .. n - 1 /\ (i - 1) + 1 = i
    BY <1>1
  <2>2. later[i - 1] = tr[i] /\ later[i] = tr[i + 1] /\ rest[i] = msgs[i + 1]
    BY <1>1, <1>2, <2>1
  <2>3. Sound(tr[i], msgs[i + 1]) /\ tr[i + 1] = Applied(tr[i], msgs[i + 1])
    BY <2>1 DEF IsTrace
  <2> QED
    BY <2>2, <2>3
<1> HIDE DEF later, rest
<1>6. IsTrace(later, tr[1], rest, to)
  BY <1>1, <1>4, <1>5 DEF IsTrace
<1> QED
  BY <1>1, <1>2, <1>3, <1>6 DEF rest, later

LEMMA LeadsAppend ==
  ASSUME NEW msgs \in Seq(Message), NEW m \in Message, NEW from, NEW to,
         Leads(from, msgs, to), Sound(to, m), Applied(to, m) \in Store
  PROVE  Leads(from, Append(msgs, m), Applied(to, m))
<1>1. PICK tr \in [0 .. Len(msgs) -> Store] : IsTrace(tr, from, msgs, to)
  BY DEF Leads
<1> QED
  BY <1>1, TraceAppend DEF Leads

LEMMA LeadsOn ==
  ASSUME NEW msgs \in Seq(Message), msgs # <<>>, NEW from, NEW to, Leads(from, msgs, to)
  PROVE  /\ Sound(from, Head(msgs))
         /\ Leads(Applied(from, Head(msgs)), Tail(msgs), to)
<1>1. PICK tr \in [0 .. Len(msgs) -> Store] : IsTrace(tr, from, msgs, to)
  BY DEF Leads
<1> QED
  BY <1>1, TraceOn DEF Leads

-----------------------------------------------------------------------------
(* Steps of handlers. *)

(* A step of a handler that neither stands where the store is written nor   *)
(* comes to.                                                                *)
AwayFromStore(s) ==
  /\ handlers[s].pc \notin StorePcs /\ turn \in {s, NoSlot}
  /\ \E h : h.pc \notin StorePcs /\ Resume(s, h)
  /\ UNCHANGED <<documents, inbox, editor>>

LEMMA StepsAwayFromStore ==
  ASSUME TypeInv, NEW s \in Slots, HandlerStep(s)
  PROVE  \/ OpenDocument(s) \/ ReplaceDocument(s) \/ CloseDocument(s)
         \/ AwayFromStore(s)
<1>1. handlers[s] \in Handler /\ IdleHandler.pc \notin StorePcs
  BY HandlerAt DEF IdleHandler, StorePcs
<1>2. ASSUME NEW pc, Goto(s, pc), pc \notin StorePcs
      PROVE  \E h : h.pc \notin StorePcs /\ Resume(s, h)
  BY <1>1, <1>2 DEF Goto, Handler
<1>3. Return(s) => \E h : h.pc \notin StorePcs /\ Resume(s, h)
  BY <1>1 DEF Return
<1> USE <1>1 DEF AwayFromStore, At, StorePcs, editorVars, Handler
<1>4. CASE OverlayConfig(s) \/ PublishConfig(s)
  BY <1>4 DEF OverlayConfig, PublishConfig, serverVars
<1>5. CASE InstallOverlay(s) \/ Publish(s)
  BY <1>2, <1>3, <1>5 DEF InstallOverlay, Publish, serverVars
<1>6. CASE ScheduleConfig(s) \/ RegisterTask(s)
  BY <1>2, <1>3, <1>6 DEF ScheduleConfig, RegisterTask, serverVars
<1>7. CASE ScheduleRunner(s)
  BY <1>3, <1>7 DEF ScheduleRunner, Spawn, serverVars
<1>8. CASE CancelTask(s) \/ RemoveOverlay(s) \/ PublishEmpty(s)
  BY <1>2, <1>3, <1>8 DEF CancelTask, RemoveOverlay, PublishEmpty, serverVars
<1>9. CASE SaveEnabled(s) \/ SaveRunner(s) \/ SaveDocument(s) \/ CachedVersion(s)
  BY <1>2, <1>3, <1>9 DEF SaveEnabled, SaveRunner, SaveDocument, CachedVersion, serverVars
<1>10. CASE QueryVersion(s) \/ StoreVersion(s)
  BY <1>2, <1>3, <1>10 DEF QueryVersion, StoreVersion, serverVars
<1>11. CASE ReadSource(s) \/ RunCompiler(s) \/ AwaitCompiler(s)
  BY <1>2, <1>3, <1>11 DEF ReadSource, RunCompiler, AwaitCompiler, serverVars
<1>12. CASE SaveCatalog(s) \/ SaveGate(s) \/ PublishSave(s)
  BY <1>2, <1>3, <1>12 DEF SaveCatalog, SaveGate, PublishSave, serverVars
<1>13. CASE SetRunner(s) \/ ForgetVersion(s) \/ ReindexWorkspace(s) \/ SetConfig(s)
  BY <1>2, <1>3, <1>13 DEF SetRunner, ForgetVersion, ReindexWorkspace, SetConfig
<1> QED
  BY <1>4, <1>5, <1>6, <1>7, <1>8, <1>9, <1>10, <1>11, <1>12, <1>13 DEF HandlerStep

(* After a step that leaves no notification in hand. *)
LEMMA NothingInHand ==
  ASSUME TypeInv, InHand, NEW s \in Slots, turn \in {s, NoSlot},
         NEW h, h.pc \notin StorePcs, Resume(s, h)
  PROVE  InHand' /\ Ahead' = documents'
<1>1. \A r \in Slots : handlers'[r] = IF r = s THEN h ELSE handlers[r]
  BY DEF Resume, TypeInv, TypeOK
<1>2. \A r \in Slots : handlers'[r].pc \notin StorePcs
  BY <1>1, BackendAssumption DEF InHand
<1> QED
  BY <1>2 DEF InHand, Ahead

(* A handler changes neither what is in transport nor where it leads.       *)
StillAhead == Ahead' = Ahead /\ UNCHANGED <<inbox, editor>>

LEMMA StoreStep ==
  ASSUME TypeInv, OrderInv, NEW s \in Slots,
         OpenDocument(s) \/ ReplaceDocument(s) \/ CloseDocument(s)
  PROVE  OrderInv' /\ StillAhead
<1> DEFINE m == handlers[s].msg
<1>1. handlers[s].pc \in StorePcs /\ UNCHANGED <<inbox, editor>>
  BY DEF OpenDocument, ReplaceDocument, CloseDocument, At, StorePcs, editorVars
<1>2. turn = s /\ Ahead = Applied(documents, m)
  BY <1>1 DEF OrderInv, InHand, Ahead
<1>3. handlers[s] \in Handler /\ HandlerFits(handlers[s])
  BY HandlerAt
<1>4. documents' = Applied(documents, m)
  <2>1. CASE OpenDocument(s)
    BY <1>3, <2>1 DEF OpenDocument, At, HandlerFits, Applied, UriOf
  <2>2. CASE ReplaceDocument(s)
    BY <1>3, <2>2 DEF ReplaceDocument, At, HandlerFits, Applied, UriOf
  <2>3. CASE CloseDocument(s)
    BY <1>3, <2>3 DEF CloseDocument, At, HandlerFits, Applied, UriOf
  <2> QED
    BY <2>1, <2>2, <2>3
<1>5. \E h : h.pc \notin StorePcs /\ Resume(s, h)
  <2>1. AfterStore(UriOf(s)) \notin StorePcs /\ IdleHandler.pc \notin StorePcs
        /\ "CancelTask" \notin StorePcs
    BY DEF AfterStore, StorePcs, IdleHandler
  <2>2. CASE OpenDocument(s)
    BY <1>3, <2>1, <2>2 DEF OpenDocument, Handler
  <2>3. CASE ReplaceDocument(s)
    BY <1>3, <2>1, <2>3 DEF ReplaceDocument, Return, Handler
  <2>4. CASE CloseDocument(s)
    BY <1>3, <2>1, <2>4 DEF CloseDocument, Goto, Handler
  <2> QED
    BY <2>2, <2>3, <2>4
<1>6. InHand' /\ Ahead' = documents'
  BY <1>2, <1>5, NothingInHand DEF OrderInv
<1> QED
  BY <1>1, <1>2, <1>4, <1>6 DEF OrderInv, StillAhead

LEMMA AwayStep ==
  ASSUME TypeInv, OrderInv, NEW s \in Slots, AwayFromStore(s)
  PROVE  OrderInv' /\ StillAhead
<1>1. InHand' /\ Ahead' = documents'
  BY NothingInHand DEF AwayFromStore, OrderInv
<1>2. Ahead = documents
  BY BackendAssumption DEF AwayFromStore, Ahead
<1> QED
  BY <1>1, <1>2 DEF AwayFromStore, OrderInv, StillAhead

(* The notification leaves the transport and is in hand, or asks nothing of *)
(* the store.                                                               *)
LEMMA DispatchStep ==
  ASSUME TypeInv, OrderInv, StoredAtOnce, NEW s \in Slots, Dispatch(s)
  PROVE  OrderInv' /\ Ahead = documents /\ Ahead' = Applied(documents, Head(inbox))
<1> DEFINE m == Head(inbox)
           h == [IdleHandler EXCEPT !.pc = EntryPoint(m.kind), !.msg = m]
<1>1. /\ turn = NoSlot /\ inbox # <<>> /\ inbox' = Tail(inbox) /\ Resume(s, h)
      /\ UNCHANGED <<documents, editor>>
  BY DEF Dispatch, serverVars
<1>2. inbox \in Seq(Message) /\ m \in Message /\ m.kind # "malformed"
  BY HeadOfInbox DEF Dispatch, TypeInv, TypeOK
<1>3. Ahead = documents
  BY <1>1, BackendAssumption DEF Ahead
<1>4. Sound(documents, m) /\ Leads(Applied(documents, m), inbox', editor')
  BY <1>1, <1>2, <1>3, LeadsOn DEF OrderInv
<1>5. h.pc = EntryPoint(m.kind) /\ h.msg = m
  BY DEF IdleHandler
<1> HIDE DEF h
<1>6. CASE m.kind \in {"open", "change", "close"}
  <2>1. h.pc \in StorePcs
    BY <1>5, <1>6 DEF EntryPoint, StorePcs
  <2>2. h.pc \notin YieldPoints \cup {"idle"}
    BY <2>1 DEF StoredAtOnce, StorePcs
  <2>3. turn' = s /\ \A r \in Slots : handlers'[r] = IF r = s THEN h ELSE handlers[r]
    BY <1>1, <2>2 DEF Resume, TypeInv, TypeOK
  <2>4. InHand'
    BY <1>1, <1>4, <1>5, <2>3, BackendAssumption DEF OrderInv, InHand
  <2>5. Ahead' = Applied(documents, m)
    BY <1>1, <1>5, <2>1, <2>3 DEF Ahead
  <2> QED
    BY <1>1, <1>3, <1>4, <2>4, <2>5 DEF OrderInv
<1>7. CASE m.kind \in {"save", "configure"}
  <2>1. h.pc \notin StorePcs
    BY <1>5, <1>7 DEF EntryPoint, StorePcs
  <2>2. InHand' /\ Ahead' = documents'
    BY <1>1, <2>1, NothingInHand DEF OrderInv
  <2>3. Applied(documents, m) = documents
    BY <1>7 DEF Applied
  <2> QED
    BY <1>1, <1>3, <1>4, <2>2, <2>3 DEF OrderInv
<1> QED
  BY <1>2, <1>6, <1>7 DEF Message

LEMMA IgnoreStep ==
  ASSUME TypeInv, OrderInv, IgnoreNotification
  PROVE  OrderInv' /\ Ahead = documents /\ Ahead' = Applied(documents, Head(inbox))
<1>1. /\ inbox # <<>> /\ inbox' = Tail(inbox) /\ Head(inbox).kind = "malformed"
      /\ UNCHANGED <<documents, editor, handlers, turn>>
  BY DEF IgnoreNotification, serverVars
<1>2. turn = NoSlot /\ inbox \in Seq(Message)
  BY DEF IgnoreNotification, TypeInv, TypeOK
<1>3. Ahead = documents /\ Ahead' = documents /\ InHand'
  BY <1>1, <1>2, BackendAssumption DEF Ahead, OrderInv, InHand
<1>4. Leads(Applied(documents, Head(inbox)), inbox', editor)
  BY <1>1, <1>2, <1>3, LeadsOn DEF OrderInv
<1>5. Applied(documents, Head(inbox)) = documents
  BY <1>1 DEF Applied
<1> QED
  BY <1>1, <1>3, <1>4, <1>5 DEF OrderInv

-----------------------------------------------------------------------------
(* Steps of the editor. *)

LEMMA SendStep ==
  ASSUME TypeInv, TypeInv', OrderInv, NEW m \in Message, Send(m), Sound(editor, m),
         editor' = Applied(editor, m), ServerIdleStep
  PROVE  OrderInv'
<1>1. UNCHANGED <<documents, handlers, turn>>
  BY DEF ServerIdleStep, serverVars
<1>2. Ahead' = Ahead /\ InHand'
  BY <1>1 DEF Ahead, OrderInv, InHand
<1>3. inbox' = Append(inbox, m) /\ inbox \in Seq(Message) /\ Applied(editor, m) \in Store
  BY DEF Send, TypeInv, TypeOK
<1>4. Leads(Ahead, inbox', editor')
  BY <1>3, LeadsAppend DEF OrderInv
<1> QED
  BY <1>2, <1>4 DEF OrderInv

(* The editor sends the notification of what it does. *)
Tells(m) == /\ m \in Message /\ Send(m) /\ ServerIdleStep
            /\ Sound(editor, m) /\ editor' = Applied(editor, m)
            /\ m.kind = "save" => EditorSaves(m.uri)

LEMMA EditorTells ==
  ASSUME TypeInv, TypeInv', EditorActs
  PROVE  \E m : Tells(m)
<1> USE DEF Applied, Sound, Tells
<1>1. ASSUME NEW u \in Uris, NEW t \in Texts, EditorOpens(u, t)
      PROVE  \E m : Tells(m)
  <2> DEFINE v == NextVersion(u)
             m == TextMessage("open", u, v, t)
  <2>1. v \in Versions
    BY <1>1, VersionAssumption
    DEF EditorOpens, EditorShows, NextVersion, Versions, TypeInv, TypeOK
  <2> HIDE DEF v
  <2>2. m \in Message /\ m.kind = "open" /\ m.uri = u /\ m.version = v /\ m.text = t
    BY <2>1, TextMessageFits DEF TextMessage, Malformed
  <2>3. editor' = Applied(editor, m) /\ Sound(editor, m)
    BY <1>1, <2>2 DEF EditorOpens, EditorShows, Open, v
  <2> HIDE DEF m
  <2> QED
    BY <1>1, <2>2, <2>3 DEF EditorOpens, EditorShows, v, m
<1>2. ASSUME NEW u \in Uris, NEW t \in Texts, EditorTypes(u, t)
      PROVE  \E m : Tells(m)
  <2> DEFINE v == editor[u].version + 1
             m == TextMessage("change", u, v, t)
  <2>1. editor[u].version \in 0 .. MaxVersion /\ v \in Versions /\ v > editor[u].version
    <3>1. editor[u].version \in 0 .. MaxVersion
      BY DocumentFields DEF TypeInv, TypeOK, Store
    <3> QED
      BY <1>2, <3>1, VersionAssumption DEF EditorTypes, EditorShows, Versions
  <2> HIDE DEF v
  <2>2. m \in Message /\ m.kind = "change" /\ m.uri = u /\ m.version = v /\ m.text = t
    BY <2>1, TextMessageFits DEF TextMessage, Malformed
  <2>3. editor' = Applied(editor, m) /\ Sound(editor, m)
    BY <1>2, <2>1, <2>2 DEF EditorTypes, EditorShows, Accepts, Replace, v
  <2> HIDE DEF m
  <2> QED
    BY <1>2, <2>2, <2>3 DEF EditorTypes, EditorShows, v, m
<1>3. ASSUME NEW u \in Uris, NEW v \in Versions, NEW t \in Texts, EditorSendsStale(u, v, t)
      PROVE  \E m : Tells(m)
  <2> DEFINE m == TextMessage("change", u, v, t)
  <2>1. m \in Message /\ m.kind = "change" /\ m.uri = u /\ m.version = v
    BY TextMessageFits DEF TextMessage, Malformed
  <2>2. ~Accepts(editor, u, v)
    <3>1. editor[u].version \in 0 .. MaxVersion /\ v \in Nat
      BY DocumentFields, VersionAssumption DEF TypeInv, TypeOK, Store, Versions
    <3> QED
      BY <1>3, <3>1 DEF EditorSendsStale, Accepts
  <2> HIDE DEF m
  <2> QED
    BY <1>3, <2>1, <2>2 DEF EditorSendsStale, m
<1>4. CASE EditorSendsMalformed
  <2>1. Malformed \in Message /\ Malformed.kind = "malformed"
    BY DefaultValues DEF Malformed
  <2> QED
    BY <1>4, <2>1 DEF EditorSendsMalformed
<1>5. ASSUME NEW u \in Uris, EditorSaves(u)
      PROVE  \E m : Tells(m)
  <2>1. /\ UriMessage("save", u) \in Message /\ UriMessage("save", u).kind = "save"
        /\ UriMessage("save", u).uri = u
    BY OtherMessagesFit, BackendAssumption DEF UriMessage, Malformed
  <2> QED
    BY <1>5, <2>1 DEF EditorSaves
<1>6. ASSUME NEW u \in Uris, EditorCloses(u)
      PROVE  \E m : Tells(m)
  <2>1. /\ UriMessage("close", u) \in Message /\ UriMessage("close", u).kind = "close"
        /\ UriMessage("close", u).uri = u
    BY OtherMessagesFit, BackendAssumption DEF UriMessage, Malformed
  <2> QED
    BY <1>6, <2>1 DEF EditorCloses, Close
<1>7. ASSUME NEW c \in Configs, EditorConfigures(c)
      PROVE  \E m : Tells(m)
  <2>1. ConfigMessage(c) \in Message /\ ConfigMessage(c).kind = "configure"
    BY OtherMessagesFit, BackendAssumption DEF ConfigMessage, Malformed
  <2> QED
    BY <1>7, <2>1 DEF EditorConfigures
<1> QED
  BY <1>1, <1>2, <1>3, <1>4, <1>5, <1>6, <1>7 DEF EditorActs

LEMMA EditorStep ==
  ASSUME TypeInv, TypeInv', OrderInv, EditorActs
  PROVE  OrderInv'
BY EditorTells, SendStep DEF Tells

-----------------------------------------------------------------------------
LEMMA OrderInvStep ==
  ASSUME TypeInv, TypeInv', OrderInv, StoredAtOnce, [Next]_vars
  PROVE  OrderInv'
<1>1. ASSUME NEW s \in Slots, HandlerStep(s)
      PROVE  OrderInv'
  BY <1>1, StepsAwayFromStore, StoreStep, AwayStep
<1>2. ASSUME UNCHANGED <<documents, handlers, turn, inbox, editor>>
      PROVE  OrderInv'
  BY <1>2 DEF OrderInv, InHand, Ahead
<1>3. ASSUME NEW t \in TaskIds, TaskRuns(t) \/ ProcessExits(t)
      PROVE  UNCHANGED <<documents, handlers, turn, inbox, editor>>
  <2> USE DEF TaskStep, serverVars, editorVars
  <2>1. CASE Debounced(t) \/ StartCompiler(t) \/ CompilerAnswers(t) \/ CompilerTimesOut(t)
    BY <2>1 DEF Debounced, StartCompiler, CompilerAnswers, CompilerTimesOut
  <2>2. CASE Gate(t) \/ PublishCompiled(t) \/ DropTask(t) \/ ProcessExits(t)
    BY <2>2 DEF Gate, PublishCompiled, DropTask, ProcessExits
  <2> QED
    BY <1>3, <2>1, <2>2 DEF TaskRuns
<1>4. CASE UNCHANGED vars
  BY <1>2, <1>4 DEF vars, serverVars, editorVars
<1> QED
  BY <1>1, <1>2, <1>3, <1>4, DispatchStep, IgnoreStep, EditorStep DEF Next

LEMMA InitOrderInv ==
  ASSUME Init, TypeInv
  PROVE  OrderInv
<1>1. InHand /\ Ahead = documents
  BY DEF Init, InHand, Ahead, IdleHandler, StorePcs
<1>2. documents = editor /\ inbox = <<>> /\ editor \in Store
  BY DEF Init, TypeInv, TypeOK
<1> QED
  BY <1>1, <1>2, LeadsNowhere DEF OrderInv

LEMMA OrderInvIsInvariant ==
  ASSUME StoredAtOnce
  PROVE  Spec => []OrderInv
<1>1. Init /\ TypeInv => OrderInv
  BY InitOrderInv
<1>2. TypeInv /\ TypeInv' /\ OrderInv /\ [Next]_vars => OrderInv'
  BY OrderInvStep
<1> QED
  BY <1>1, <1>2, TypeInvIsInvariant, PTL DEF Spec

(* When nothing is in transport or in flight the store holds exactly the    *)
(* documents and revisions the editor shows, however many notifications of  *)
(* however many documents were sent (did_open, did_change, did_close): the  *)
(* handlers write the store in the order of the notifications.              *)
THEOREM StoreIsTheEditors ==
  ASSUME StoredAtOnce
  PROVE  Spec => []StoreFollowsEditor
<1>1. ASSUME OrderInv, Settled
      PROVE  documents = editor
  <2>1. Ahead = documents
    BY <1>1 DEF Settled, Ahead, StorePcs
  <2>2. Leads(documents, <<>>, editor)
    BY <1>1, <2>1 DEF OrderInv, Settled
  <2> QED
    BY <2>2, LeadsEmpty
<1>2. OrderInv => StoreFollowsEditor
  BY <1>1 DEF StoreFollowsEditor
<1> QED
  BY <1>2, OrderInvIsInvariant, PTL

-----------------------------------------------------------------------------
(* The overlays follow the store.  A handler goes from the store to the     *)
(* overlay without being suspended; until it has, the overlay is due.       *)

WritePcs == {"CancelTask", "OverlayConfig", "SetOverlay", "ClearOverlay"}

OverlaidAtOnce == YieldPoints \cap WritePcs = {}

(* Two documents are two files, and no document is a link that leads to     *)
(* nothing: the key of its overlay would change with the file's creation.   *)
DistinctFiles == \A u, v \in FileUris : u # v => Target[PathOf[u]] # Target[PathOf[v]]
LinksLead     == \A u \in FileUris : Target[PathOf[u]] = PathOf[u] \/ IsFile(disk, PathOf[u])

(* What a handler of an open document, or of a closed one, has still to do. *)
Installs(h) == \/ h.pc = "OverlayConfig" /\ h.msg.kind # "close"
               \/ h.pc = "SetOverlay"
Removes(h)  == \/ h.pc \in {"CancelTask", "OverlayConfig"} /\ h.msg.kind = "close"
               \/ h.pc = "ClearOverlay"
Overlays(h) == Installs(h) \/ Removes(h)

OverlaysHold ==
  \A s \in Slots : Overlays(handlers[s]) =>
    /\ turn = s
    /\ documents[handlers[s].msg.uri] =
         IF Installs(handlers[s]) THEN handlers[s].doc ELSE NoDocument

OverlayDue(u) == \E s \in Slots : Overlays(handlers[s]) /\ handlers[s].msg.uri = u

OverlaysCurrent ==
  \A u \in FileUris :
    workspace.overlays[Target[PathOf[u]]] = documents[u].text \/ OverlayDue(u)

(* The index serves the overlay of a file that has one, or leaves it out.   *)
IndexServesOverlays ==
  \A p \in Paths : workspace.overlays[p] # NoText =>
    workspace.files[p].text \in {NoText, workspace.overlays[p]}

OverlayInv == LinksLead /\ OverlaysHold /\ OverlaysCurrent /\ IndexServesOverlays

LEMMA FilePaths ==
  ASSUME NEW u \in FileUris
  PROVE  PathOf[u] \in Paths /\ Target[PathOf[u]] \in Paths /\ u \in Uris
BY BackendAssumption, WorkspaceAssumption

LEMMA CanonicalIsTarget ==
  ASSUME LinksLead, NEW u \in FileUris
  PROVE  Canonical(disk, PathOf[u]) = Target[PathOf[u]]
BY DEF LinksLead, Canonical

(* A handler moves to h; no other overlay is due while it does.             *)
LEMMA OverlayMove ==
  ASSUME TypeInv, OverlaidAtOnce, OverlayInv, NEW s \in Slots, turn \in {s, NoSlot},
         NEW h, Resume(s, h), UNCHANGED disk, IndexServesOverlays',
         Overlays(h) => documents'[h.msg.uri] = IF Installs(h) THEN h.doc ELSE NoDocument,
         \A u \in FileUris :
           \/ Overlays(h) /\ h.msg.uri = u
           \/ workspace'.overlays[Target[PathOf[u]]] = documents'[u].text
           \/ /\ ~(Overlays(handlers[s]) /\ handlers[s].msg.uri = u)
              /\ documents'[u] = documents[u]
              /\ workspace'.overlays[Target[PathOf[u]]] = workspace.overlays[Target[PathOf[u]]]
  PROVE  OverlayInv'
<1>1. \A r \in Slots : handlers'[r] = IF r = s THEN h ELSE handlers[r]
  BY DEF Resume, TypeInv, TypeOK
<1>2. \A r \in Slots : r # s => ~Overlays(handlers[r])
  BY BackendAssumption DEF OverlayInv, OverlaysHold
<1>3. LinksLead'
  BY DEF OverlayInv, LinksLead
<1>4. OverlaysHold'
  <2>1. Overlays(h) => turn' = s
    BY DEF Resume, OverlaidAtOnce, WritePcs, Overlays, Installs, Removes
  <2> QED
    BY <1>1, <1>2, <2>1 DEF OverlaysHold
<1>5. OverlaysCurrent'
  <2> SUFFICES ASSUME NEW u \in FileUris
               PROVE  \/ workspace'.overlays[Target[PathOf[u]]] = documents'[u].text
                      \/ OverlayDue(u)'
    BY DEF OverlaysCurrent
  <2>1. CASE Overlays(h) /\ h.msg.uri = u
    BY <1>1, <2>1 DEF OverlayDue
  <2>2. OverlayDue(u) => Overlays(handlers[s]) /\ handlers[s].msg.uri = u
    BY <1>2 DEF OverlayDue
  <2> QED
    BY <2>1, <2>2 DEF OverlayInv, OverlaysCurrent
<1> QED
  BY <1>3, <1>4, <1>5 DEF OverlayInv

(* A step that does nothing to store, overlays and files.                   *)
OverlayQuiet(s) ==
  /\ turn \in {s, NoSlot} /\ ~Overlays(handlers[s])
  /\ \E h : ~Overlays(h) /\ Resume(s, h)
  /\ UNCHANGED <<documents, workspace, disk>>

LEMMA QuietOverlays ==
  ASSUME TypeInv, OverlaidAtOnce, OverlayInv, NEW s \in Slots, OverlayQuiet(s)
  PROVE  OverlayInv'
<1>1. PICK h : ~Overlays(h) /\ Resume(s, h)
  BY DEF OverlayQuiet
<1>2. IndexServesOverlays'
  BY DEF OverlayQuiet, OverlayInv, IndexServesOverlays
<1> QED
  BY <1>1, <1>2, OverlayMove DEF OverlayQuiet

LEMMA OverlaySteps ==
  ASSUME TypeInv, NEW s \in Slots, HandlerStep(s)
  PROVE  \/ OpenDocument(s) \/ ReplaceDocument(s) \/ CloseDocument(s)
         \/ CancelTask(s) \/ OverlayConfig(s) \/ InstallOverlay(s) \/ RemoveOverlay(s)
         \/ ReindexWorkspace(s) \/ OverlayQuiet(s)
<1>1. handlers[s] \in Handler /\ IdleHandler.pc = "idle"
  BY HandlerAt DEF IdleHandler
<1>2. ASSUME NEW pc, Goto(s, pc), pc \notin WritePcs
      PROVE  \E h : ~Overlays(h) /\ Resume(s, h)
  BY <1>1, <1>2 DEF Goto, Handler, WritePcs, Overlays, Installs, Removes
<1>3. Return(s) => \E h : ~Overlays(h) /\ Resume(s, h)
  BY <1>1 DEF Return, Overlays, Installs, Removes
<1>4. ASSUME NEW h, h.pc \notin WritePcs, Resume(s, h)
      PROVE  \E g : ~Overlays(g) /\ Resume(s, g)
  BY <1>4 DEF WritePcs, Overlays, Installs, Removes
<1>5. handlers[s].pc \notin WritePcs => ~Overlays(handlers[s])
  BY DEF WritePcs, Overlays, Installs, Removes
<1> USE <1>1, <1>5 DEF OverlayQuiet, At, WritePcs, editorVars, serverVars, Handler
<1>6. CASE PublishConfig(s)
  BY <1>4, <1>6 DEF PublishConfig
<1>7. CASE Publish(s)
  BY <1>2, <1>3, <1>7 DEF Publish
<1>8. CASE ScheduleConfig(s) \/ RegisterTask(s)
  BY <1>2, <1>3, <1>8 DEF ScheduleConfig, RegisterTask
<1>9. CASE ScheduleRunner(s)
  BY <1>3, <1>4, <1>9 DEF ScheduleRunner, Spawn
<1>10. CASE PublishEmpty(s) \/ SaveEnabled(s)
  BY <1>2, <1>3, <1>10 DEF PublishEmpty, SaveEnabled
<1>11. CASE SaveRunner(s) \/ SaveDocument(s) \/ CachedVersion(s)
  BY <1>3, <1>4, <1>11 DEF SaveRunner, SaveDocument, CachedVersion
<1>12. CASE QueryVersion(s) \/ StoreVersion(s)
  BY <1>2, <1>4, <1>12 DEF QueryVersion, StoreVersion
<1>13. CASE ReadSource(s) \/ RunCompiler(s) \/ AwaitCompiler(s)
  BY <1>2, <1>3, <1>4, <1>13 DEF ReadSource, RunCompiler, AwaitCompiler
<1>14. CASE SaveCatalog(s) \/ SaveGate(s) \/ PublishSave(s)
  BY <1>3, <1>4, <1>14 DEF SaveCatalog, SaveGate, PublishSave
<1>15. CASE SetRunner(s) \/ ForgetVersion(s) \/ SetConfig(s)
  BY <1>2, <1>3, <1>15 DEF SetRunner, ForgetVersion, SetConfig
<1> QED
  BY <1>6, <1>7, <1>8, <1>9, <1>10, <1>11, <1>12, <1>13, <1>14, <1>15 DEF HandlerStep

(* The store is written: the overlay of a document that is a file is due.   *)
LEMMA StoringOverlays ==
  ASSUME TypeInv, OverlaidAtOnce, OverlayInv, NEW s \in Slots,
         OpenDocument(s) \/ ReplaceDocument(s) \/ CloseDocument(s)
  PROVE  OverlayInv'
<1> DEFINE u == UriOf(s)
<1>1. handlers[s] \in Handler /\ HandlerFits(handlers[s]) /\ u \in Uris
      /\ u = handlers[s].msg.uri
  BY HandlerAt DEF UriOf
<1>2. /\ turn \in {s, NoSlot} /\ UNCHANGED <<workspace, disk>> /\ ~Overlays(handlers[s])
  BY DEF OpenDocument, ReplaceDocument, CloseDocument, At, Overlays, Installs, Removes,
         editorVars
<1>3. IndexServesOverlays'
  BY <1>2 DEF OverlayInv, IndexServesOverlays
<1> HIDE DEF u
<1>4. ASSUME NEW doc, NEW h, documents' = Open(documents, u, doc), Resume(s, h),
             h.msg.uri = u, u \in FileUris => Overlays(h),
             Overlays(h) => doc = IF Installs(h) THEN h.doc ELSE NoDocument
      PROVE  OverlayInv'
  <2>1. \A v \in Uris : documents'[v] = IF v = u THEN doc ELSE documents[v]
    BY <1>4 DEF Open, TypeInv, TypeOK, Store
  <2> QED
    BY <1>1, <1>2, <1>3, <1>4, <2>1, FilePaths, OverlayMove
<1>5. ASSUME NEW doc, NEW h, documents' = Open(documents, u, doc), Resume(s, h),
             h.pc = AfterStore(u), h.msg = handlers[s].msg, h.msg.kind # "close",
             h.doc = doc
      PROVE  OverlayInv'
  <2>1. u \in FileUris => Overlays(h)
    BY <1>5 DEF AfterStore, HasPath, Overlays, Installs
  <2>2. Overlays(h) => Installs(h)
    BY <1>5 DEF AfterStore, Overlays, Installs, Removes
  <2> QED
    BY <1>1, <1>4, <1>5, <2>1, <2>2
<1> DEFINE doc == NewDocument(handlers[s].msg.version, handlers[s].msg.text)
           h   == [handlers[s] EXCEPT !.pc = AfterStore(u), !.doc = doc]
           g   == [handlers[s] EXCEPT !.pc = "CancelTask"]
<1>6. h.pc = AfterStore(u) /\ h.msg = handlers[s].msg /\ h.doc = doc
  BY <1>1 DEF Handler
<1>7. g.pc = "CancelTask" /\ g.msg = handlers[s].msg
  BY <1>1 DEF Handler
<1>8. CASE OpenDocument(s)
  <2>1. handlers[s].msg.kind = "open"
    BY <1>1, <1>8 DEF OpenDocument, At, HandlerFits
  <2>2. Resume(s, h) /\ documents' = Open(documents, u, doc)
    BY <1>8 DEF OpenDocument, u
  <2> HIDE DEF doc, h
  <2> QED
    BY <1>5, <1>6, <2>1, <2>2
<1>9. CASE ReplaceDocument(s)
  <2>1. handlers[s].msg.kind = "change"
    BY <1>1, <1>9 DEF ReplaceDocument, At, HandlerFits
  <2>2. \/ Return(s) /\ UNCHANGED documents
        \/ Resume(s, h) /\ documents' = Open(documents, u, doc)
    BY <1>9 DEF ReplaceDocument, Replace, Open, u
  <2>3. ~Overlays(IdleHandler)
    BY DEF IdleHandler, Overlays, Installs, Removes
  <2>4. Return(s) /\ UNCHANGED documents => OverlayInv'
    BY <1>2, <2>3, QuietOverlays DEF Return, OverlayQuiet
  <2> HIDE DEF doc, h
  <2> QED
    BY <1>5, <1>6, <2>1, <2>2, <2>4
<1>10. CASE CloseDocument(s)
  <2>1. handlers[s].msg.kind = "close"
    BY <1>1, <1>10 DEF CloseDocument, At, HandlerFits
  <2>2. Resume(s, g) /\ documents' = Open(documents, u, NoDocument)
    BY <1>10 DEF CloseDocument, Goto, Close, Open, u
  <2> HIDE DEF g
  <2>3. Overlays(g) /\ ~Installs(g)
    BY <1>7, <2>1 DEF Overlays, Installs, Removes
  <2> QED
    BY <1>1, <1>4, <1>7, <2>2, <2>3
<1> QED
  BY <1>8, <1>9, <1>10

LEMMA GoingToOverlay ==
  ASSUME TypeInv, OverlaidAtOnce, OverlayInv, NEW s \in Slots,
         CancelTask(s) \/ OverlayConfig(s)
  PROVE  OverlayInv'
<1>1. handlers[s] \in Handler /\ HandlerFits(handlers[s])
  BY HandlerAt
<1>2. turn \in {s, NoSlot} /\ UNCHANGED <<documents, workspace, disk>>
  BY DEF CancelTask, OverlayConfig, At, serverVars, editorVars
<1>3. IndexServesOverlays'
  BY <1>2 DEF OverlayInv, IndexServesOverlays
<1>4. ASSUME NEW h, Resume(s, h), h.msg = handlers[s].msg, h.doc = handlers[s].doc,
             Overlays(handlers[s]) /\ h.msg.uri \in FileUris => Overlays(h),
             Overlays(h) => Overlays(handlers[s]) /\ (Installs(h) <=> Installs(handlers[s]))
      PROVE  OverlayInv'
  <2>1. Overlays(h) => documents'[h.msg.uri] = IF Installs(h) THEN h.doc ELSE NoDocument
    BY <1>2, <1>4 DEF OverlayInv, OverlaysHold
  <2> QED
    BY <1>2, <1>3, <1>4, <2>1, OverlayMove
<1>5. CASE CancelTask(s)
  <2> DEFINE pc == IF handlers[s].msg.kind = "save" THEN "SaveEnabled"
                   ELSE IF HasPath(UriOf(s)) THEN "OverlayConfig" ELSE "PublishEmpty"
             h  == [handlers[s] EXCEPT !.pc = pc]
  <2>1. h.msg = handlers[s].msg /\ h.doc = handlers[s].doc /\ h.pc = pc
    BY <1>1 DEF Handler
  <2>2. Resume(s, h) /\ handlers[s].pc = "CancelTask"
    BY <1>5 DEF CancelTask, Goto, At
  <2>3. handlers[s].msg.kind \in {"close", "save"}
    BY <1>1, <2>2 DEF HandlerFits
  <2> HIDE DEF h
  <2>4. Overlays(handlers[s]) /\ h.msg.uri \in FileUris => Overlays(h)
    BY <2>1, <2>2, <2>3 DEF Overlays, Installs, Removes, HasPath, UriOf
  <2>5. Overlays(h) => Overlays(handlers[s]) /\ (Installs(h) <=> Installs(handlers[s]))
    BY <2>1, <2>2, <2>3 DEF Overlays, Installs, Removes
  <2> QED
    BY <1>4, <2>1, <2>2, <2>4, <2>5
<1>6. CASE OverlayConfig(s)
  <2> DEFINE h == [handlers[s] EXCEPT
                     !.config = config,
                     !.pc = IF handlers[s].msg.kind = "close" THEN "ClearOverlay"
                                                              ELSE "SetOverlay"]
  <2>1. /\ h.doc = handlers[s].doc /\ h.msg = handlers[s].msg
        /\ h.pc = IF handlers[s].msg.kind = "close" THEN "ClearOverlay" ELSE "SetOverlay"
    BY <1>1 DEF Handler
  <2>2. Resume(s, h) /\ handlers[s].pc = "OverlayConfig"
    BY <1>6 DEF OverlayConfig, At
  <2> HIDE DEF h
  <2>3. Overlays(h) /\ Overlays(handlers[s]) /\ (Installs(h) <=> Installs(handlers[s]))
    BY <2>1, <2>2 DEF Overlays, Installs, Removes
  <2> QED
    BY <1>4, <2>1, <2>2, <2>3
<1> QED
  BY <1>5, <1>6

(* The overlay is written: it is the text that is stored.                   *)
LEMMA WritingOverlays ==
  ASSUME TypeInv, OverlaidAtOnce, DistinctFiles, OverlayInv, NEW s \in Slots,
         InstallOverlay(s) \/ RemoveOverlay(s)
  PROVE  OverlayInv'
<1> DEFINE u == UriOf(s)
           p == Target[PathOf[u]]
<1>1. handlers[s] \in Handler /\ HandlerFits(handlers[s]) /\ u = handlers[s].msg.uri
  BY HandlerAt DEF UriOf
<1>2. u \in FileUris
  BY <1>1 DEF InstallOverlay, RemoveOverlay, At, HandlerFits, FilePcs
<1>3. p \in Paths /\ u \in Uris /\ Canonical(disk, PathOf[u]) = p
  BY <1>2, FilePaths, CanonicalIsTarget DEF OverlayInv
<1>4. turn \in {s, NoSlot} /\ UNCHANGED <<documents, disk>>
  BY DEF InstallOverlay, RemoveOverlay, At, editorVars
<1>5. \A v \in FileUris : v # u => Target[PathOf[v]] # p /\ Target[PathOf[v]] \in Paths
  BY <1>2, FilePaths DEF DistinctFiles
<1>6. PICK h : Resume(s, h) /\ h.pc \in {"PublishConfig", "PublishEmpty"}
  <2>1. ASSUME NEW pc
        PROVE  [handlers[s] EXCEPT !.pc = pc].pc = pc
    BY <1>1 DEF Handler
  <2>2. CASE InstallOverlay(s)
    BY <2>1, <2>2 DEF InstallOverlay, Goto
  <2>3. CASE RemoveOverlay(s)
    BY <2>1, <2>3 DEF RemoveOverlay, Goto
  <2> QED
    BY <2>2, <2>3
<1>7. ~Overlays(h)
  BY <1>6 DEF Overlays, Installs, Removes
<1> HIDE DEF u, p
<1>8. ASSUME NEW text, NEW entry, text = documents[u].text,
             text # NoText => entry.text = text,
             workspace' = [overlays |-> [workspace.overlays EXCEPT ![p] = text],
                           files    |-> [workspace.files EXCEPT ![p] = entry]]
      PROVE  OverlayInv'
  <2>1. \A q \in Paths :
          /\ workspace'.overlays[q] = IF q = p THEN text ELSE workspace.overlays[q]
          /\ workspace'.files[q] = IF q = p THEN entry ELSE workspace.files[q]
    BY <1>8 DEF TypeInv, TypeOK, Workspaces
  <2>2. IndexServesOverlays'
    BY <1>8, <2>1 DEF OverlayInv, IndexServesOverlays
  <2>3. \A v \in FileUris :
          \/ workspace'.overlays[Target[PathOf[v]]] = documents'[v].text
          \/ /\ ~(Overlays(handlers[s]) /\ handlers[s].msg.uri = v)
             /\ documents'[v] = documents[v]
             /\ workspace'.overlays[Target[PathOf[v]]] = workspace.overlays[Target[PathOf[v]]]
    <3>1. documents' = documents
      BY <1>4
    <3>2. ASSUME NEW v \in FileUris, v # u
          PROVE  workspace'.overlays[Target[PathOf[v]]]
                   = workspace.overlays[Target[PathOf[v]]]
      BY <1>5, <2>1, <3>2
    <3>3. workspace'.overlays[Target[PathOf[u]]] = documents'[u].text
      BY <1>3, <1>8, <2>1, <3>1 DEF p
    <3> QED
      BY <1>1, <3>1, <3>2, <3>3
  <2> QED
    BY <1>4, <1>6, <1>7, <2>2, <2>3, OverlayMove
<1>9. CASE InstallOverlay(s)
  <2>1. Installs(handlers[s])
    BY <1>1, <1>9 DEF InstallOverlay, At, Installs, HandlerFits
  <2>2. handlers[s].doc = documents[u]
    BY <1>1, <2>1 DEF OverlayInv, OverlaysHold, Overlays
  <2>3. \A text, entry : entry = IndexEntry(disk, p, text, handlers[s].config)
                           => entry.text = text
    BY DEF IndexEntry
  <2>4. workspace' =
          [overlays |-> [workspace.overlays EXCEPT ![p] = handlers[s].doc.text],
           files    |-> [workspace.files EXCEPT
                           ![p] = IndexEntry(disk, p, handlers[s].doc.text,
                                             handlers[s].config)]]
    BY <1>3, <1>9 DEF InstallOverlay, SetOverlay, u
  <2> QED
    BY <1>8, <2>2, <2>3, <2>4
<1>10. CASE RemoveOverlay(s)
  <2>1. Removes(handlers[s]) /\ ~Installs(handlers[s])
    BY <1>10 DEF RemoveOverlay, At, Installs, Removes
  <2>2. documents[u] = NoDocument
    BY <1>1, <2>1 DEF OverlayInv, OverlaysHold, Overlays
  <2>3. PICK entry :
          workspace' = [overlays |-> [workspace.overlays EXCEPT ![p] = NoText],
                        files    |-> [workspace.files EXCEPT ![p] = entry]]
    BY <1>3, <1>10 DEF RemoveOverlay, ClearOverlay, u
  <2> QED
    BY <1>8, <2>2, <2>3 DEF NoDocument
<1> QED
  BY <1>9, <1>10

LEMMA ReindexingOverlays ==
  ASSUME TypeInv, OverlaidAtOnce, OverlayInv, NEW s \in Slots, ReindexWorkspace(s)
  PROVE  OverlayInv'
<1>1. handlers[s] \in Handler
  BY HandlerAt
<1>2. /\ turn \in {s, NoSlot} /\ UNCHANGED <<documents, disk>> /\ ~Overlays(handlers[s])
      /\ workspace' = Reindex(workspace, disk, handlers[s].msg.config)
  BY DEF ReindexWorkspace, At, editorVars, Overlays, Installs, Removes
<1> DEFINE h == [handlers[s] EXCEPT !.pc = "SetConfig"]
<1>3. h.pc = "SetConfig"
  BY <1>1 DEF Handler
<1>4. Resume(s, h)
  BY DEF ReindexWorkspace, Goto
<1> HIDE DEF h
<1>5. ~Overlays(h)
  BY <1>3 DEF Overlays, Installs, Removes
<1>6. workspace'.overlays = workspace.overlays
      /\ \A p \in Paths : workspace'.files[p].text \in
           {NoText, ScannedText(workspace, disk, p)}
  BY <1>2 DEF Reindex, IndexEntry, NoEntry, TypeInv, TypeOK, Workspaces
<1>7. IndexServesOverlays'
  BY <1>6 DEF IndexServesOverlays, ScannedText
<1> QED
  BY <1>2, <1>4, <1>5, <1>6, <1>7, OverlayMove

LEMMA OverlayInvStep ==
  ASSUME TypeInv, OverlaidAtOnce, DistinctFiles, OverlayInv, [Next]_vars
  PROVE  OverlayInv'
<1>1. ASSUME NEW s \in Slots, HandlerStep(s)
      PROVE  OverlayInv'
  BY <1>1, OverlaySteps, QuietOverlays, StoringOverlays, GoingToOverlay, WritingOverlays,
     ReindexingOverlays
<1>2. ASSUME NEW s \in Slots, Dispatch(s)
      PROVE  OverlayInv'
  <2> DEFINE m == Head(inbox)
             h == [IdleHandler EXCEPT !.pc = EntryPoint(m.kind), !.msg = m]
  <2>1. m.kind \in {"open", "change", "close", "save", "configure"}
    BY <1>2, HeadOfInbox DEF Dispatch, Message
  <2>2. h.pc = EntryPoint(m.kind) /\ h.msg = m
    BY DEF IdleHandler
  <2>3. Resume(s, h)
    BY <1>2 DEF Dispatch
  <2> HIDE DEF h
  <2>4. ~Overlays(h)
    BY <2>1, <2>2 DEF EntryPoint, Overlays, Installs, Removes
  <2>5. OverlayQuiet(s)
    BY <1>2, <2>3, <2>4 DEF Dispatch, OverlayQuiet, serverVars, Overlays, Installs, Removes
  <2> QED
    BY <2>5, QuietOverlays
<1>3. ASSUME UNCHANGED <<documents, workspace, handlers, turn>>, LinksLead'
      PROVE  OverlayInv'
  BY <1>3 DEF OverlayInv, OverlaysHold, OverlaysCurrent, OverlayDue, IndexServesOverlays
<1>4. UNCHANGED disk => LinksLead'
  BY DEF OverlayInv, LinksLead
<1>5. ASSUME NEW t \in TaskIds, TaskRuns(t) \/ ProcessExits(t)
      PROVE  UNCHANGED <<documents, workspace, handlers, turn, disk>>
  <2> USE DEF TaskStep, serverVars, editorVars
  <2>1. CASE Debounced(t) \/ StartCompiler(t) \/ CompilerAnswers(t) \/ CompilerTimesOut(t)
    BY <2>1 DEF Debounced, StartCompiler, CompilerAnswers, CompilerTimesOut
  <2>2. CASE Gate(t) \/ PublishCompiled(t) \/ DropTask(t) \/ ProcessExits(t)
    BY <2>2 DEF Gate, PublishCompiled, DropTask, ProcessExits
  <2> QED
    BY <1>5, <2>1, <2>2 DEF TaskRuns
<1>6. CASE EditorActs
  <2>1. UNCHANGED <<documents, workspace, handlers, turn>>
    BY <1>6
    DEF EditorActs, EditorOpens, EditorTypes, EditorShows, EditorSendsStale,
        EditorSendsMalformed, EditorSaves, EditorCloses, EditorConfigures,
        ServerIdleStep, serverVars
  <2>2. \/ UNCHANGED disk
        \/ \E u \in Uris : EditorSaves(u)
    BY <1>6
    DEF EditorActs, EditorOpens, EditorTypes, EditorShows, EditorSendsStale,
        EditorSendsMalformed, EditorCloses, EditorConfigures
  <2>3. ASSUME NEW u \in Uris, EditorSaves(u)
        PROVE  LinksLead'
    <3>1. editor[u].text # NoText
      BY <2>3, TextsAssumption
      DEF EditorSaves, IsOpen, TypeInv, TypeOK, Store, Document
    <3>2. disk' = [disk EXCEPT ![Target[PathOf[u]]] = editor[u].text]
      BY <2>3 DEF EditorSaves
    <3>3. \A v \in FileUris : IsFile(disk, PathOf[v]) => IsFile(disk', PathOf[v])
      BY <3>1, <3>2, FilePaths DEF IsFile, TypeInv, TypeOK, Disk
    <3> QED
      BY <3>3 DEF OverlayInv, LinksLead
  <2> QED
    BY <1>3, <1>4, <2>1, <2>2, <2>3
<1>7. CASE IgnoreNotification
  BY <1>3, <1>4, <1>7 DEF IgnoreNotification, serverVars
<1>8. CASE UNCHANGED vars
  BY <1>3, <1>4, <1>8 DEF vars, serverVars, editorVars
<1> QED
  BY <1>1, <1>2, <1>3, <1>4, <1>5, <1>6, <1>7, <1>8 DEF Next

(* Once settled, a file has an overlay exactly while it is open, with the   *)
(* text that is stored, and the index serves no other text for it, however  *)
(* opens, changes, closes and reindexing interleave: if handlers go from    *)
(* the store to the overlay without being suspended, documents are          *)
(* different files, and none is a link to a file yet to be created.         *)
THEOREM OverlaysAreTheStores ==
  ASSUME OverlaidAtOnce, DistinctFiles
  PROVE  Spec /\ LinksLead => []OverlaysFollowStore
<1>1. ASSUME Init, LinksLead
      PROVE  OverlayInv
  <2>1. OverlaysHold
    BY <1>1 DEF Init, OverlaysHold, Overlays, Installs, Removes, IdleHandler
  <2>2. workspace.overlays = [p \in Paths |-> NoText]
    BY <1>1 DEF Init, Reindex, EmptyWorkspace
  <2>3. OverlaysCurrent
    BY <1>1, <2>2, FilePaths DEF Init, OverlaysCurrent, EmptyStore, NoDocument
  <2>4. IndexServesOverlays
    BY <2>2 DEF IndexServesOverlays
  <2> QED
    BY <1>1, <2>1, <2>3, <2>4 DEF OverlayInv
<1>2. TypeInv /\ OverlayInv /\ [Next]_vars => OverlayInv'
  BY OverlayInvStep
<1>3. TypeInv /\ OverlayInv => OverlaysFollowStore
  <2> SUFFICES ASSUME TypeInv, OverlayInv, Settled, NEW u \in FileUris
               PROVE  LET p == Canonical(disk, PathOf[u])
                      IN  /\ workspace.overlays[p] = documents[u].text
                          /\ IsOpen(documents, u) =>
                               workspace.files[p].text \in {NoText, documents[u].text}
    BY DEF OverlaysFollowStore
  <2>1. ~OverlayDue(u)
    BY DEF Settled, OverlayDue, Overlays, Installs, Removes
  <2>2. workspace.overlays[Target[PathOf[u]]] = documents[u].text
    BY <2>1 DEF OverlayInv, OverlaysCurrent
  <2>3. Canonical(disk, PathOf[u]) = Target[PathOf[u]] /\ Target[PathOf[u]] \in Paths
    BY CanonicalIsTarget, FilePaths DEF OverlayInv
  <2>4. documents[u].text # NoText =>
          workspace.files[Target[PathOf[u]]].text \in {NoText, documents[u].text}
    BY <2>2, <2>3 DEF OverlayInv, IndexServesOverlays
  <2> QED
    <3>1. documents[u] \in Document \cup {NoDocument}
      BY BackendAssumption DEF TypeInv, TypeOK, Store
    <3>2. IsOpen(documents, u) => documents[u].text # NoText
      BY <3>1, TextsAssumption DEF IsOpen, Document
    <3> QED
      BY <2>2, <2>3, <2>4, <3>2
<1> QED
  BY <1>1, <1>2, <1>3, TypeInvIsInvariant, PTL DEF Spec

-----------------------------------------------------------------------------
(* Backend implements DiagnosticsService: for every number of handlers,       *)
(* documents and configurations that run the compiler on save alone, when     *)
(* handlers suspend at I/O alone.                                             *)
(*                                                                            *)
(* A handler that is about to publish still holds the stored revision: it has *)
(* not suspended since it stored or compared it, and until it does no other   *)
(* handler runs.                                                              *)
(*                                                                            *)
(* The section after this shows with it that a settled server displays what   *)
(* it stores, the last one that the compiler diagnostics it displays are of   *)
(* the very text the compiler was run on.                                     *)

SuspendsAtIo == YieldPoints \subseteq IoPoints
OnSaveOnly   == \A c \in Configs : ~c.onChange

(* A handler that stands where its await does not suspend is being polled.  *)
Alone == \A s \in Slots : handlers[s].pc \notin YieldPoints \cup {"idle"} => turn = s

(* What a handler holds between the store and its publication.              *)
HoldsRevision(h) == \/ h.pc \in {"SetOverlay", "PublishConfig", "Publish", "PublishSave"}
                    \/ h.pc = "OverlayConfig" /\ h.msg.kind # "close"

HoldsClosed(h) == \/ h.pc \in {"ClearOverlay", "PublishEmpty"}
                  \/ h.pc \in {"CancelTask", "OverlayConfig"} /\ h.msg.kind = "close"

Holds(h, store) ==
  /\ HoldsRevision(h) => h.doc = store[h.msg.uri] /\ h.doc \in Document
  /\ HoldsClosed(h) => store[h.msg.uri] = NoDocument

AllHold == \A s \in Slots : Holds(handlers[s], documents)

(* No compiler task is ever spawned. *)
NothingScheduled ==
  /\ \A s \in Slots : handlers[s].pc \notin {"ScheduleRunner", "RegisterTask"}
  /\ \A t \in TaskIds : tasks[t].pc = "done"

ServiceInv == Alone /\ AllHold /\ NothingScheduled

LEMMA StoresAtOnce == SuspendsAtIo => StoredAtOnce
BY DEF SuspendsAtIo, StoredAtOnce, IoPoints, StorePcs

LEMMA HoldersAreAlone ==
  ASSUME SuspendsAtIo, NEW h, HoldsRevision(h) \/ HoldsClosed(h)
  PROVE  h.pc \notin YieldPoints \cup {"idle"}
BY DEF SuspendsAtIo, IoPoints, HoldsRevision, HoldsClosed

-----------------------------------------------------------------------------
(* Steps of handlers. *)

(* When the handler of s moves to h, all others stand where they hold       *)
(* nothing.                                                                 *)
LEMMA MoveKeeps ==
  ASSUME TypeInv, SuspendsAtIo, ServiceInv, NEW s \in Slots, turn \in {s, NoSlot},
         NEW h, Resume(s, h), Holds(h, documents'),
         h.pc \notin {"ScheduleRunner", "RegisterTask"}, UNCHANGED tasks
  PROVE  ServiceInv'
<1>1. \A r \in Slots : handlers'[r] = IF r = s THEN h ELSE handlers[r]
  BY DEF Resume, TypeInv, TypeOK
<1>2. \A r \in Slots : r # s => handlers[r].pc \in YieldPoints \cup {"idle"}
  BY BackendAssumption DEF ServiceInv, Alone
<1>3. Alone'
  BY <1>1, <1>2 DEF Alone, Resume
<1>4. AllHold'
  <2> SUFFICES ASSUME NEW r \in Slots PROVE Holds(handlers'[r], documents')
    BY DEF AllHold
  <2>1. CASE r = s
    BY <1>1, <2>1
  <2>2. CASE r # s
    BY <1>1, <1>2, <2>2, HoldersAreAlone DEF Holds
  <2> QED
    BY <2>1, <2>2
<1>5. NothingScheduled'
  BY <1>1 DEF ServiceInv, NothingScheduled
<1> QED
  BY <1>3, <1>4, <1>5 DEF ServiceInv

LEMMA IdleHoldsNothing ==
  ASSUME NEW store
  PROVE  Holds(IdleHandler, store) /\ IdleHandler.pc \notin {"ScheduleRunner", "RegisterTask"}
BY DEF IdleHandler, Holds, HoldsRevision, HoldsClosed

(* The awaits at which a handler holds nothing. *)
FreePcs == {"ScheduleConfig", "SaveEnabled", "SaveRunner", "SaveDocument", "CachedVersion",
            "QueryVersion", "StoreVersion", "ReadSource", "RunCompiler", "AwaitCompiler",
            "SaveCatalog", "SaveGate", "SetRunner", "ForgetVersion", "Reindex", "SetConfig"}

LEMMA FreeHoldsNothing ==
  ASSUME NEW store, NEW h, h.pc \in FreePcs
  PROVE  Holds(h, store) /\ h.pc \notin {"ScheduleRunner", "RegisterTask"}
BY DEF FreePcs, Holds, HoldsRevision, HoldsClosed

(* A step that changes neither the store nor what is shown, of a handler    *)
(* that holds nothing before it or after it.                                *)
FreeStep(s) ==
  /\ turn \in {s, NoSlot}
  /\ ~HoldsRevision(handlers[s]) /\ ~HoldsClosed(handlers[s])
  /\ \E h : (h = IdleHandler \/ h.pc \in FreePcs) /\ Resume(s, h)
  /\ UNCHANGED <<documents, published, tasks>>

LEMMA FreeStepKeeps ==
  ASSUME TypeInv, SuspendsAtIo, ServiceInv, NEW s \in Slots, FreeStep(s)
  PROVE  ServiceInv' /\ UNCHANGED <<documents, published>>
BY MoveKeeps, IdleHoldsNothing, FreeHoldsNothing DEF FreeStep

LEMMA FreeSteps ==
  ASSUME TypeInv, OnSaveOnly, ServiceInv, NEW s \in Slots, HandlerStep(s)
  PROVE  \/ OpenDocument(s) \/ ReplaceDocument(s) \/ CloseDocument(s)
         \/ OverlayConfig(s) \/ InstallOverlay(s) \/ PublishConfig(s) \/ Publish(s)
         \/ CancelTask(s) \/ RemoveOverlay(s) \/ PublishEmpty(s)
         \/ SaveGate(s) \/ PublishSave(s)
         \/ FreeStep(s)
<1>1. handlers[s] \in Handler
  BY HandlerAt
<1>2. ASSUME NEW pc \in FreePcs, Goto(s, pc)
      PROVE  \E h : (h = IdleHandler \/ h.pc \in FreePcs) /\ Resume(s, h)
  BY <1>1, <1>2 DEF Goto, Handler
<1>3. Return(s) => \E h : (h = IdleHandler \/ h.pc \in FreePcs) /\ Resume(s, h)
  BY DEF Return
<1> USE <1>1 DEF FreeStep, At, FreePcs, Handler, serverVars, taskVars, HoldsRevision,
                 HoldsClosed
<1>4. CASE ScheduleConfig(s)
  <2>1. ~config.onChange
    BY DEF OnSaveOnly, TypeInv, TypeOK
  <2> QED
    BY <1>3, <1>4, <2>1 DEF ScheduleConfig
<1>5. ~ScheduleRunner(s) /\ ~RegisterTask(s)
  BY DEF ScheduleRunner, RegisterTask, ServiceInv, NothingScheduled
<1>6. CASE SaveEnabled(s) \/ SaveRunner(s) \/ SaveDocument(s) \/ CachedVersion(s)
  BY <1>2, <1>3, <1>6 DEF SaveEnabled, SaveRunner, SaveDocument, CachedVersion
<1>7. CASE QueryVersion(s) \/ StoreVersion(s)
  BY <1>2, <1>3, <1>7 DEF QueryVersion, StoreVersion
<1>8. CASE ReadSource(s) \/ RunCompiler(s) \/ AwaitCompiler(s) \/ SaveCatalog(s)
  BY <1>2, <1>3, <1>8 DEF ReadSource, RunCompiler, AwaitCompiler, SaveCatalog
<1>9. CASE SetRunner(s) \/ ForgetVersion(s) \/ ReindexWorkspace(s) \/ SetConfig(s)
  BY <1>2, <1>3, <1>9 DEF SetRunner, ForgetVersion, ReindexWorkspace, SetConfig
<1> QED
  BY <1>4, <1>5, <1>6, <1>7, <1>8, <1>9 DEF HandlerStep

-----------------------------------------------------------------------------
(* What a publication displays, and the steps of the service. *)

ServiceStep == [Service!Next]_(Service!vars)

LEMMA StutterStep ==
  ASSUME UNCHANGED <<documents, published>>
  PROVE  ServiceStep
BY DEF ServiceStep, Service!vars

LEMMA DisplayedRevision ==
  ASSUME NEW u, NEW doc \in Document, NEW cfg, NEW checked, NEW by, NEW mismatch
  PROVE  /\ Displayed(LocalPublication(u, doc, cfg)) = doc
         /\ Displayed(CompilerPublication(doc.version, doc.text, checked, by, mismatch)) = doc
<1>1. NewDocument(doc.version, doc.text) = doc
  BY DEF NewDocument, Document
<1>2. LocalPublication(u, doc, cfg).kind = "local"
      /\ LocalPublication(u, doc, cfg).version = doc.version
      /\ LocalPublication(u, doc, cfg).text = doc.text
  BY DEF LocalPublication, NoPublication
<1> DEFINE pub == CompilerPublication(doc.version, doc.text, checked, by, mismatch)
<1>3. pub.kind = "compiler" /\ pub.version = doc.version /\ pub.text = doc.text
  BY DEF CompilerPublication, NoPublication
<1> HIDE DEF pub
<1>4. Displayed(LocalPublication(u, doc, cfg)) = doc /\ Displayed(pub) = doc
  BY <1>1, <1>2, <1>3 DEF Displayed
<1> QED
  BY <1>4 DEF pub

LEMMA RefreshStep ==
  ASSUME TypeInv, NEW u \in Uris, NEW p, Displayed(p) = documents[u],
         published' = [published EXCEPT ![u] = p], UNCHANGED documents
  PROVE  ServiceStep
<1>1. Service!Refresh(u)
  BY DEF Service!Refresh, TypeInv, TypeOK
<1> QED
  BY <1>1 DEF ServiceStep, Service!Next

LEMMA ReviseStep ==
  ASSUME NEW u \in Uris, NEW doc \in Document, doc.version > documents[u].version,
         documents' = Open(documents, u, doc), UNCHANGED published
  PROVE  ServiceStep
<1>1. Service!Revise(u, doc)
  BY DEF Service!Revise, Service!Open, Open
<1>2. doc \in Service!Document
  BY DEF Service!Document, Service!Versions, Document, Versions
<1> QED
  BY <1>1, <1>2 DEF ServiceStep, Service!Next

-----------------------------------------------------------------------------
(* The handlers that hold a revision. *)

Follows == ServiceInv' /\ ServiceStep

LEMMA OpenFollows ==
  ASSUME TypeInv, OrderInv, SuspendsAtIo, ServiceInv, NEW s \in Slots, OpenDocument(s)
  PROVE  Follows
<1> DEFINE u   == UriOf(s)
           doc == NewDocument(handlers[s].msg.version, handlers[s].msg.text)
           h   == [handlers[s] EXCEPT !.pc = AfterStore(u), !.doc = doc]
<1>1. handlers[s] \in Handler /\ handlers[s].msg.kind = "open" /\ u \in Uris
  BY HandlerAt DEF OpenDocument, At, HandlerFits
<1>2. doc \in Document /\ doc.version \in Versions
  BY HandlerAt, NewDocumentIsDocument DEF HandlerFits, Fits, OpenDocument, At, NewDocument
<1>3. documents[u] = NoDocument
  BY <1>1 DEF OpenDocument, At, OrderInv, InHand, Sound, IsOpen, StorePcs, UriOf
<1> HIDE DEF doc
<1>4. /\ documents' = Open(documents, u, doc) /\ Resume(s, h) /\ turn \in {s, NoSlot}
      /\ UNCHANGED <<published, tasks>>
  BY DEF OpenDocument, At, doc, taskVars
<1>5. /\ h.pc \in {"OverlayConfig", "PublishConfig"} /\ h.doc = doc
      /\ h.msg = handlers[s].msg /\ h.msg.uri = u
  BY <1>1 DEF Handler, AfterStore, UriOf
<1> HIDE DEF h
<1>6. documents'[u] = doc
  BY <1>1, <1>4 DEF Open, TypeInv, TypeOK, Store
<1>7. Holds(h, documents')
  BY <1>1, <1>2, <1>5, <1>6 DEF Holds, HoldsRevision, HoldsClosed
<1>8. ServiceInv'
  BY <1>4, <1>5, <1>7, MoveKeeps
<1>9. doc.version > documents[u].version
  BY <1>2, <1>3, VersionAssumption DEF Versions, NoDocument
<1> QED
  BY <1>1, <1>2, <1>4, <1>8, <1>9, ReviseStep DEF Follows

LEMMA ReplaceFollows ==
  ASSUME TypeInv, SuspendsAtIo, ServiceInv, NEW s \in Slots, ReplaceDocument(s)
  PROVE  Follows
<1> DEFINE u   == UriOf(s)
           v   == handlers[s].msg.version
           doc == NewDocument(v, handlers[s].msg.text)
           h   == [handlers[s] EXCEPT !.pc = AfterStore(u), !.doc = doc]
<1>1. handlers[s] \in Handler /\ handlers[s].msg.kind = "change" /\ u \in Uris
  BY HandlerAt DEF ReplaceDocument, At, HandlerFits
<1>2. doc \in Document /\ doc.version = v
  BY HandlerAt, NewDocumentIsDocument DEF HandlerFits, Fits, ReplaceDocument, At, NewDocument
<1>3. turn \in {s, NoSlot} /\ UNCHANGED <<published, tasks>>
  BY DEF ReplaceDocument, At, taskVars
<1>4. CASE Return(s) /\ UNCHANGED documents
  BY <1>3, <1>4, FreeStepKeeps, StutterStep
  DEF FreeStep, Return, Follows, ReplaceDocument, At, HoldsRevision, HoldsClosed
<1>5. CASE /\ Accepts(documents, u, v) /\ documents' = Open(documents, u, doc)
           /\ Resume(s, h)
  <2> HIDE DEF doc
  <2>1. /\ h.pc \in {"OverlayConfig", "PublishConfig"} /\ h.doc = doc
        /\ h.msg = handlers[s].msg /\ h.msg.uri = u
    BY <1>1 DEF Handler, AfterStore, UriOf
  <2>2. Resume(s, h)
    BY <1>5
  <2> HIDE DEF h
  <2>3. documents'[u] = doc
    BY <1>1, <1>5 DEF Open, TypeInv, TypeOK, Store
  <2>4. Holds(h, documents')
    BY <1>1, <1>2, <2>1, <2>3 DEF Holds, HoldsRevision, HoldsClosed
  <2>5. ServiceInv'
    BY <1>3, <2>1, <2>2, <2>4, MoveKeeps
  <2> QED
    BY <1>1, <1>2, <1>3, <1>5, <2>5, ReviseStep DEF Follows, Accepts
<1> QED
  BY <1>4, <1>5 DEF ReplaceDocument, Replace, Open

LEMMA CloseFollows ==
  ASSUME TypeInv, SuspendsAtIo, ServiceInv, NEW s \in Slots, CloseDocument(s)
  PROVE  Follows
<1> DEFINE u == UriOf(s)
           h == [handlers[s] EXCEPT !.pc = "CancelTask"]
<1>1. handlers[s] \in Handler /\ u \in Uris
  BY HandlerAt
<1>2. /\ documents' = Close(documents, u) /\ Resume(s, h) /\ turn \in {s, NoSlot}
      /\ UNCHANGED <<published, tasks>>
  BY DEF CloseDocument, At, Goto, taskVars
<1>3. h.pc = "CancelTask" /\ h.msg.uri = u
  BY <1>1 DEF Handler, UriOf
<1> HIDE DEF h
<1>4. documents'[u] = NoDocument
  BY <1>1, <1>2 DEF Close, TypeInv, TypeOK, Store
<1>5. Holds(h, documents')
  BY <1>3, <1>4 DEF Holds, HoldsRevision, HoldsClosed
<1>6. ServiceInv'
  BY <1>2, <1>3, <1>5, MoveKeeps
<1>7. Service!Withdraw(u)
  BY <1>2 DEF Service!Withdraw, Service!Close, Close, Service!NoDocument, NoDocument
<1> QED
  BY <1>1, <1>6, <1>7 DEF Follows, ServiceStep, Service!Next

(* A handler goes on to hold what it held. *)
LEMMA HoldOn ==
  ASSUME TypeInv, SuspendsAtIo, ServiceInv, NEW s \in Slots, turn \in {s, NoSlot},
         NEW h, h.doc = handlers[s].doc, h.msg = handlers[s].msg, Resume(s, h),
         h.pc \notin {"ScheduleRunner", "RegisterTask"},
         HoldsRevision(h) => HoldsRevision(handlers[s]),
         HoldsClosed(h) => HoldsClosed(handlers[s]),
         UNCHANGED <<documents, published, tasks>>
  PROVE  Follows
<1>1. Holds(h, documents')
  BY DEF ServiceInv, AllHold, Holds
<1> QED
  BY <1>1, MoveKeeps, StutterStep DEF Follows

LEMMA HoldingFollows ==
  ASSUME TypeInv, SuspendsAtIo, ServiceInv, NEW s \in Slots,
         \/ OverlayConfig(s) \/ InstallOverlay(s) \/ PublishConfig(s)
         \/ CancelTask(s) \/ RemoveOverlay(s)
  PROVE  Follows
<1>1. handlers[s] \in Handler /\ turn \in {s, NoSlot}
  BY HandlerAt
  DEF OverlayConfig, InstallOverlay, PublishConfig, CancelTask, RemoveOverlay, At
<1>2. UNCHANGED <<documents, published, tasks>>
  BY DEF OverlayConfig, InstallOverlay, PublishConfig, CancelTask, RemoveOverlay,
         serverVars, taskVars
<1> USE DEF Handler, HoldsRevision, HoldsClosed
<1>3. CASE OverlayConfig(s)
  <2> DEFINE h == [handlers[s] EXCEPT
                     !.config = config,
                     !.pc = IF handlers[s].msg.kind = "close" THEN "ClearOverlay"
                                                              ELSE "SetOverlay"]
  <2>1. /\ h.doc = handlers[s].doc /\ h.msg = handlers[s].msg
        /\ h.pc = IF handlers[s].msg.kind = "close" THEN "ClearOverlay" ELSE "SetOverlay"
    BY <1>1
  <2>2. Resume(s, h) /\ handlers[s].pc = "OverlayConfig"
    BY <1>3 DEF OverlayConfig, At
  <2> HIDE DEF h
  <2> QED
    BY <1>1, <1>2, <2>1, <2>2, HoldOn
<1>4. CASE InstallOverlay(s)
  <2> DEFINE h == [handlers[s] EXCEPT !.pc = "PublishConfig"]
  <2>1. h.doc = handlers[s].doc /\ h.msg = handlers[s].msg /\ h.pc = "PublishConfig"
    BY <1>1
  <2>2. Resume(s, h) /\ handlers[s].pc = "SetOverlay"
    BY <1>4 DEF InstallOverlay, Goto, At
  <2> HIDE DEF h
  <2> QED
    BY <1>1, <1>2, <2>1, <2>2, HoldOn
<1>5. CASE PublishConfig(s)
  <2> DEFINE h == [handlers[s] EXCEPT !.config = config, !.pc = "Publish"]
  <2>1. h.doc = handlers[s].doc /\ h.msg = handlers[s].msg /\ h.pc = "Publish"
    BY <1>1
  <2>2. Resume(s, h) /\ handlers[s].pc = "PublishConfig"
    BY <1>5 DEF PublishConfig, At
  <2> HIDE DEF h
  <2> QED
    BY <1>1, <1>2, <2>1, <2>2, HoldOn
<1>6. CASE RemoveOverlay(s)
  <2> DEFINE h == [handlers[s] EXCEPT !.pc = "PublishEmpty"]
  <2>1. h.doc = handlers[s].doc /\ h.msg = handlers[s].msg /\ h.pc = "PublishEmpty"
    BY <1>1
  <2>2. Resume(s, h) /\ handlers[s].pc = "ClearOverlay"
    BY <1>6 DEF RemoveOverlay, Goto, At
  <2> HIDE DEF h
  <2> QED
    BY <1>1, <1>2, <2>1, <2>2, HoldOn
<1>7. CASE CancelTask(s)
  <2> DEFINE pc == IF handlers[s].msg.kind = "save" THEN "SaveEnabled"
                   ELSE IF HasPath(UriOf(s)) THEN "OverlayConfig" ELSE "PublishEmpty"
             h  == [handlers[s] EXCEPT !.pc = pc]
  <2>1. h.doc = handlers[s].doc /\ h.msg = handlers[s].msg /\ h.pc = pc
    BY <1>1
  <2>2. Resume(s, h) /\ handlers[s].pc = "CancelTask"
    BY <1>7 DEF CancelTask, Goto, At
  <2>3. handlers[s].msg.kind \in {"close", "save"}
    BY <2>2, HandlerAt DEF HandlerFits
  <2> HIDE DEF h
  <2> QED
    BY <1>1, <1>2, <2>1, <2>2, <2>3, HoldOn
<1> QED
  BY <1>3, <1>4, <1>5, <1>6, <1>7

LEMMA PublishFollows ==
  ASSUME TypeInv, SuspendsAtIo, ServiceInv, NEW s \in Slots,
         Publish(s) \/ PublishEmpty(s) \/ PublishSave(s)
  PROVE  Follows
<1>1. handlers[s] \in Handler /\ UriOf(s) \in Uris /\ UriOf(s) = handlers[s].msg.uri
  BY HandlerAt DEF UriOf
<1>2. turn \in {s, NoSlot} /\ UNCHANGED <<documents, tasks>>
  BY DEF Publish, PublishEmpty, PublishSave, At, serverVars, taskVars
<1>3. \E h : (h = IdleHandler \/ h.pc \in FreePcs) /\ Resume(s, h)
  BY <1>1 DEF Publish, PublishEmpty, PublishSave, Return, Goto, FreePcs, Handler
<1>4. ServiceInv'
  BY <1>2, <1>3, MoveKeeps, IdleHoldsNothing, FreeHoldsNothing
<1>5. CASE Publish(s)
  <2> DEFINE pub == LocalPublication(UriOf(s), handlers[s].doc, handlers[s].config)
  <2>1. handlers[s].doc = documents[UriOf(s)] /\ handlers[s].doc \in Document
    BY <1>1, <1>5 DEF Publish, At, ServiceInv, AllHold, Holds, HoldsRevision
  <2>2. Displayed(pub) = documents[UriOf(s)]
    BY <2>1, DisplayedRevision
  <2>3. published' = [published EXCEPT ![UriOf(s)] = pub]
    BY <1>1, <1>5 DEF Publish
  <2> HIDE DEF pub
  <2>4. ServiceStep
    BY <1>1, <1>2, <2>2, <2>3, RefreshStep
  <2> QED
    BY <1>4, <2>4 DEF Follows
<1>6. CASE PublishSave(s)
  <2> DEFINE pub == CompilerPublication(handlers[s].doc.version, handlers[s].doc.text,
                                        handlers[s].checked, handlers[s].runner,
                                        handlers[s].mismatch)
  <2>1. handlers[s].doc = documents[UriOf(s)] /\ handlers[s].doc \in Document
    BY <1>1, <1>6 DEF PublishSave, At, ServiceInv, AllHold, Holds, HoldsRevision
  <2>2. Displayed(pub) = documents[UriOf(s)]
    BY <2>1, DisplayedRevision
  <2>3. published' = [published EXCEPT ![UriOf(s)] = pub]
    BY <1>1, <1>6 DEF PublishSave
  <2> HIDE DEF pub
  <2>4. ServiceStep
    BY <1>1, <1>2, <2>2, <2>3, RefreshStep
  <2> QED
    BY <1>4, <2>4 DEF Follows
<1>7. CASE PublishEmpty(s)
  <2> DEFINE pub == [NoPublication EXCEPT !.kind = "empty"]
  <2>1. documents[UriOf(s)] = NoDocument
    BY <1>1, <1>7 DEF PublishEmpty, At, ServiceInv, AllHold, Holds, HoldsClosed
  <2>2. Displayed(pub) = NoDocument
    BY DEF Displayed, NoPublication
  <2>3. published' = [published EXCEPT ![UriOf(s)] = pub]
    BY <1>7 DEF PublishEmpty
  <2> HIDE DEF pub
  <2>4. ServiceStep
    BY <1>1, <1>2, <2>1, <2>2, <2>3, RefreshStep
  <2> QED
    BY <1>4, <2>4 DEF Follows
<1> QED
  BY <1>5, <1>6, <1>7

LEMMA SaveGateFollows ==
  ASSUME TypeInv, SuspendsAtIo, ServiceInv, NEW s \in Slots, SaveGate(s)
  PROVE  Follows
<1> DEFINE u == UriOf(s)
           h == [handlers[s] EXCEPT !.doc = documents[u], !.pc = "PublishSave"]
<1>1. handlers[s] \in Handler /\ u \in Uris
  BY HandlerAt
<1>2. turn \in {s, NoSlot} /\ UNCHANGED <<documents, published, tasks>>
  BY DEF SaveGate, At, serverVars, taskVars
<1>3. CASE Return(s)
  BY <1>2, <1>3, FreeStepKeeps, StutterStep
  DEF FreeStep, Return, Follows, SaveGate, At, HoldsRevision, HoldsClosed
<1>4. CASE documents[u] # NoDocument /\ Resume(s, h)
  <2>1. h.pc = "PublishSave" /\ h.doc = documents[u] /\ h.msg.uri = u
    BY <1>1 DEF Handler, UriOf
  <2>2. Resume(s, h)
    BY <1>4
  <2>3. documents[u] \in Document
    BY <1>1, <1>4 DEF TypeInv, TypeOK, Store
  <2> HIDE DEF h
  <2>4. Holds(h, documents')
    BY <1>2, <2>1, <2>3 DEF Holds, HoldsRevision, HoldsClosed
  <2>5. ServiceInv'
    BY <1>2, <2>1, <2>2, <2>4, MoveKeeps
  <2> QED
    BY <1>2, <2>5, StutterStep DEF Follows
<1> QED
  BY <1>3, <1>4 DEF SaveGate

LEMMA HandlerFollows ==
  ASSUME TypeInv, OrderInv, SuspendsAtIo, OnSaveOnly, ServiceInv, NEW s \in Slots,
         HandlerStep(s)
  PROVE  Follows
<1>1. CASE FreeStep(s)
  BY <1>1, FreeStepKeeps, StutterStep DEF Follows
<1> QED
  BY <1>1, FreeSteps, OpenFollows, ReplaceFollows, CloseFollows, HoldingFollows,
     PublishFollows, SaveGateFollows

(* The handler of a notification holds nothing when it starts. *)
LEMMA DispatchFollows ==
  ASSUME TypeInv, SuspendsAtIo, ServiceInv, NEW s \in Slots, Dispatch(s)
  PROVE  Follows
<1> DEFINE m == Head(inbox)
           h == [IdleHandler EXCEPT !.pc = EntryPoint(m.kind), !.msg = m]
<1>1. m.kind \in {"open", "change", "close", "save", "configure"}
  BY HeadOfInbox DEF Dispatch, Message
<1>2. Resume(s, h) /\ turn = NoSlot /\ UNCHANGED <<documents, published, tasks>>
  BY DEF Dispatch, serverVars, taskVars
<1>3. h.pc = EntryPoint(m.kind) /\ h.msg = m
  BY DEF IdleHandler
<1> HIDE DEF h
<1>4. /\ Holds(h, documents')
      /\ h.pc \notin {"ScheduleRunner", "RegisterTask"}
  BY <1>1, <1>3 DEF EntryPoint, Holds, HoldsRevision, HoldsClosed
<1> QED
  BY <1>2, <1>4, MoveKeeps, StutterStep DEF Follows

-----------------------------------------------------------------------------
LEMMA NextFollows ==
  ASSUME TypeInv, OrderInv, SuspendsAtIo, OnSaveOnly, ServiceInv, [Next]_vars
  PROVE  Follows
<1>1. ASSUME UNCHANGED <<documents, handlers, turn, tasks, published>>
      PROVE  Follows
  BY <1>1, StutterStep DEF Follows, ServiceInv, Alone, AllHold, NothingScheduled
<1>2. CASE IgnoreNotification
  BY <1>1, <1>2 DEF IgnoreNotification, serverVars, taskVars
<1>3. ASSUME NEW t \in TaskIds
      PROVE  ~TaskRuns(t)
  BY DEF TaskRuns, ServiceInv, NothingScheduled, TaskStep, Debounced, StartCompiler,
         CompilerAnswers, CompilerTimesOut, Gate, PublishCompiled, DropTask
<1>4. ASSUME NEW t \in TaskIds, ProcessExits(t)
      PROVE  Follows
  BY <1>1, <1>4 DEF ProcessExits, serverVars
<1>5. CASE EditorActs
  BY <1>1, <1>5
  DEF EditorActs, EditorOpens, EditorTypes, EditorShows, EditorSendsStale,
      EditorSendsMalformed, EditorSaves, EditorCloses, EditorConfigures,
      ServerIdleStep, serverVars, taskVars
<1>6. CASE UNCHANGED vars
  BY <1>1, <1>6 DEF vars, serverVars, taskVars
<1> QED
  BY <1>2, <1>3, <1>4, <1>5, <1>6, HandlerFollows, DispatchFollows DEF Next

LEMMA InitFollows ==
  ASSUME Init
  PROVE  ServiceInv /\ Service!Init
<1>1. ServiceInv
  BY IdleHoldsNothing
  DEF Init, ServiceInv, Alone, AllHold, NothingScheduled, IdleHandler, DoneTask
<1>2. Displayed(NoPublication) = NoDocument
  BY DEF Displayed, NoPublication
<1>3. Service!Init
  BY <1>2 DEF Init, EmptyStore, Service!Init, Service!EmptyStore, Service!NoDocument, NoDocument
<1> QED
  BY <1>1, <1>3

(* A server that runs the compiler on save alone implements the service:    *)
(* what it puts on display is the stored revision, whichever handlers wait  *)
(* for I/O and for however long, and the revisions of an open document only *)
(* grow (did_open, did_change, did_close, did_save, publish).               *)
THEOREM ServerImplementsService ==
  ASSUME SuspendsAtIo, OnSaveOnly
  PROVE  Spec => ImplementsService
<1>1. Init => ServiceInv /\ Service!Init
  BY InitFollows
<1>2. TypeInv /\ OrderInv /\ ServiceInv /\ [Next]_vars
        => ServiceInv' /\ [Service!Next]_(Service!vars)
  BY NextFollows DEF Follows, ServiceStep
<1>3. Spec => []OrderInv
  BY StoresAtOnce, OrderInvIsInvariant
<1> QED
  BY <1>1, <1>2, <1>3, TypeInvIsInvariant, PTL DEF Spec, ImplementsService, Service!Spec

-----------------------------------------------------------------------------
(* What is shown is current, or about to be replaced. *)

Announces(h) == HoldsRevision(h) \/ HoldsClosed(h)

(* The publication p is one of doc, or of a closed document. *)
Shows(p, doc) ==
  IF doc # NoDocument
  THEN p.kind \in {"local", "compiler"} /\ p.version = doc.version /\ p.text = doc.text
  ELSE p.kind \in {"none", "empty"}

Due(u) == \E s \in Slots : Announces(handlers[s]) /\ handlers[s].msg.uri = u

CurrentInv == \A u \in Uris : Shows(published[u], documents[u]) \/ Due(u)

(* What a step of s must see to: the document of its own notification.      *)
SeesTo(s, h) ==
  \/ Announces(h) /\ h.msg.uri = UriOf(s)
  \/ Shows(published'[UriOf(s)], documents'[UriOf(s)])
  \/ ~Announces(handlers[s]) /\ UNCHANGED <<documents, published>>

LEMMA CurrentMove ==
  ASSUME TypeInv, CurrentInv, NEW s \in Slots, NEW h, Resume(s, h), SeesTo(s, h),
         \A u \in Uris : u # UriOf(s) =>
            documents'[u] = documents[u] /\ published'[u] = published[u]
  PROVE  CurrentInv'
<1>1. \A r \in Slots : handlers'[r] = IF r = s THEN h ELSE handlers[r]
  BY DEF Resume, TypeInv, TypeOK
<1> SUFFICES ASSUME NEW u \in Uris
             PROVE  Shows(published'[u], documents'[u]) \/ Due(u)'
  BY DEF CurrentInv
<1>2. ASSUME NEW r \in Slots, r # s, Announces(handlers[r]), handlers[r].msg.uri = u
      PROVE  Due(u)'
  BY <1>1, <1>2 DEF Due
<1>3. CASE u # UriOf(s)
  <2>1. Shows(published[u], documents[u]) => Shows(published'[u], documents'[u])
    BY <1>3
  <2>2. Due(u) => Due(u)'
    BY <1>2, <1>3 DEF Due, UriOf
  <2> QED
    BY <2>1, <2>2 DEF CurrentInv
<1>4. CASE u = UriOf(s)
  <2>1. CASE Announces(h) /\ h.msg.uri = UriOf(s)
    BY <1>1, <1>4, <2>1 DEF Due
  <2>2. CASE Shows(published'[UriOf(s)], documents'[UriOf(s)])
    BY <1>4, <2>2
  <2>3. CASE ~Announces(handlers[s]) /\ UNCHANGED <<documents, published>>
    <3>1. Due(u) => Due(u)'
      BY <1>2, <2>3 DEF Due
    <3> QED
      BY <2>3, <3>1 DEF CurrentInv
  <2> QED
    BY <2>1, <2>2, <2>3 DEF SeesTo
<1> QED
  BY <1>3, <1>4

(* A step that neither touches what is shown nor leaves a revision due. *)
LEMMA QuietMove ==
  ASSUME TypeInv, CurrentInv, NEW s \in Slots, NEW h, Resume(s, h),
         ~Announces(handlers[s]), UNCHANGED <<documents, published>>
  PROVE  CurrentInv'
BY CurrentMove DEF SeesTo

LEMMA FreeKeepsCurrent ==
  ASSUME TypeInv, CurrentInv, NEW s \in Slots, FreeStep(s)
  PROVE  CurrentInv'
<1>1. PICK h : Resume(s, h)
  BY DEF FreeStep
<1> QED
  BY <1>1, QuietMove DEF FreeStep, Announces

LEMMA StoringKeepsCurrent ==
  ASSUME TypeInv, CurrentInv, NEW s \in Slots,
         OpenDocument(s) \/ ReplaceDocument(s) \/ CloseDocument(s)
  PROVE  CurrentInv'
<1>1. handlers[s] \in Handler /\ HandlerFits(handlers[s]) /\ UriOf(s) \in Uris
  BY HandlerAt
<1>2. UNCHANGED published /\ ~Announces(handlers[s])
  BY DEF OpenDocument, ReplaceDocument, CloseDocument, At, Announces, HoldsRevision,
         HoldsClosed
<1>3. ASSUME NEW doc, documents' = Open(documents, UriOf(s), doc)
      PROVE  \A u \in Uris : u # UriOf(s) =>
               documents'[u] = documents[u] /\ published'[u] = published[u]
  BY <1>2, <1>3 DEF Open, TypeInv, TypeOK, Store
<1>4. ASSUME NEW doc, NEW h, h.pc = AfterStore(UriOf(s)), h.msg = handlers[s].msg,
             handlers[s].msg.kind \in {"open", "change"}, Resume(s, h),
             documents' = Open(documents, UriOf(s), doc)
      PROVE  CurrentInv'
  <2>1. Announces(h) /\ h.msg.uri = UriOf(s)
    BY <1>4 DEF AfterStore, Announces, HoldsRevision, UriOf
  <2> QED
    BY <1>3, <1>4, <2>1, CurrentMove DEF SeesTo
<1> DEFINE doc == NewDocument(handlers[s].msg.version, handlers[s].msg.text)
           h   == [handlers[s] EXCEPT !.pc = AfterStore(UriOf(s)), !.doc = doc]
<1>5. CASE OpenDocument(s)
  <2>1. handlers[s].msg.kind = "open"
    BY <1>1, <1>5 DEF OpenDocument, At, HandlerFits
  <2>2. h.pc = AfterStore(UriOf(s)) /\ h.msg = handlers[s].msg
    BY <1>1 DEF Handler
  <2>3. Resume(s, h) /\ documents' = Open(documents, UriOf(s), doc)
    BY <1>5 DEF OpenDocument
  <2> HIDE DEF doc, h
  <2> QED
    BY <1>4, <2>1, <2>2, <2>3
<1>6. CASE ReplaceDocument(s)
  <2>1. handlers[s].msg.kind = "change"
    BY <1>1, <1>6 DEF ReplaceDocument, At, HandlerFits
  <2>2. h.pc = AfterStore(UriOf(s)) /\ h.msg = handlers[s].msg
    BY <1>1 DEF Handler
  <2>3. \/ Return(s) /\ UNCHANGED documents
        \/ Resume(s, h) /\ documents' = Open(documents, UriOf(s), doc)
    BY <1>6 DEF ReplaceDocument, Replace, Open
  <2>4. Return(s) /\ UNCHANGED documents => CurrentInv'
    BY <1>2, QuietMove DEF Return
  <2> HIDE DEF doc, h
  <2> QED
    BY <1>4, <2>1, <2>2, <2>3, <2>4
<1> HIDE DEF doc, h
<1>7. CASE CloseDocument(s)
  <2> DEFINE g == [handlers[s] EXCEPT !.pc = "CancelTask"]
  <2>1. g.pc = "CancelTask" /\ g.msg = handlers[s].msg /\ g.msg.kind = "close"
    BY <1>1, <1>7 DEF CloseDocument, At, HandlerFits, Handler
  <2>2. Resume(s, g) /\ documents' = Open(documents, UriOf(s), NoDocument)
    BY <1>7 DEF CloseDocument, Goto, Close, Open
  <2> HIDE DEF g
  <2>3. Announces(g) /\ g.msg.uri = UriOf(s)
    BY <2>1 DEF Announces, HoldsClosed, UriOf
  <2> QED
    BY <1>3, <2>2, <2>3, CurrentMove DEF SeesTo
<1> QED
  BY <1>5, <1>6, <1>7

LEMMA HoldingKeepsCurrent ==
  ASSUME TypeInv, CurrentInv, NEW s \in Slots,
         \/ OverlayConfig(s) \/ InstallOverlay(s) \/ PublishConfig(s)
         \/ CancelTask(s) \/ RemoveOverlay(s)
  PROVE  CurrentInv'
<1>1. handlers[s] \in Handler /\ HandlerFits(handlers[s])
  BY HandlerAt
<1>2. UNCHANGED <<documents, published>>
  BY DEF OverlayConfig, InstallOverlay, PublishConfig, CancelTask, RemoveOverlay,
         serverVars
<1>3. ASSUME NEW h, Resume(s, h), h.msg = handlers[s].msg,
             Announces(handlers[s]) => Announces(h)
      PROVE  CurrentInv'
  BY <1>2, <1>3, CurrentMove DEF SeesTo, UriOf
<1>4. ASSUME NEW pc, Goto(s, pc), handlers[s].pc # "CancelTask",
             pc \in {"PublishConfig", "PublishEmpty"}
      PROVE  CurrentInv'
  <2> DEFINE h == [handlers[s] EXCEPT !.pc = pc]
  <2>1. Resume(s, h) /\ h.msg = handlers[s].msg /\ h.pc = pc
    BY <1>1, <1>4 DEF Goto, Handler
  <2> HIDE DEF h
  <2> QED
    BY <1>3, <1>4, <2>1 DEF Announces, HoldsRevision, HoldsClosed
<1>5. CASE OverlayConfig(s)
  <2> DEFINE h == [handlers[s] EXCEPT
                     !.config = config,
                     !.pc = IF handlers[s].msg.kind = "close" THEN "ClearOverlay"
                                                              ELSE "SetOverlay"]
  <2>1. /\ h.msg = handlers[s].msg
        /\ h.pc \in {"ClearOverlay", "SetOverlay"}
    BY <1>1 DEF Handler
  <2>2. Resume(s, h)
    BY <1>5 DEF OverlayConfig
  <2> HIDE DEF h
  <2> QED
    BY <1>3, <2>1, <2>2 DEF Announces, HoldsRevision, HoldsClosed
<1>6. CASE InstallOverlay(s) \/ RemoveOverlay(s)
  BY <1>4, <1>6 DEF InstallOverlay, RemoveOverlay, At
<1>7. CASE PublishConfig(s)
  <2> DEFINE h == [handlers[s] EXCEPT !.config = config, !.pc = "Publish"]
  <2>1. h.msg = handlers[s].msg /\ h.pc = "Publish"
    BY <1>1 DEF Handler
  <2>2. Resume(s, h)
    BY <1>7 DEF PublishConfig
  <2> HIDE DEF h
  <2> QED
    BY <1>3, <2>1, <2>2 DEF Announces, HoldsRevision
<1>8. CASE CancelTask(s)
  <2> DEFINE pc == IF handlers[s].msg.kind = "save" THEN "SaveEnabled"
                   ELSE IF HasPath(UriOf(s)) THEN "OverlayConfig" ELSE "PublishEmpty"
             h  == [handlers[s] EXCEPT !.pc = pc]
  <2>1. /\ h.msg = handlers[s].msg
        /\ h.msg.kind # "save" => h.pc \in {"OverlayConfig", "PublishEmpty"}
    BY <1>1 DEF Handler
  <2>2. Resume(s, h) /\ handlers[s].pc = "CancelTask"
    BY <1>8 DEF CancelTask, Goto, At
  <2> HIDE DEF h
  <2> QED
    BY <1>3, <2>1, <2>2 DEF Announces, HoldsRevision, HoldsClosed
<1> QED
  BY <1>5, <1>6, <1>7, <1>8

LEMMA PublishingKeepsCurrent ==
  ASSUME TypeInv, ServiceInv, CurrentInv, NEW s \in Slots,
         Publish(s) \/ PublishEmpty(s) \/ PublishSave(s)
  PROVE  CurrentInv'
<1>1. handlers[s] \in Handler /\ UriOf(s) \in Uris /\ UriOf(s) = handlers[s].msg.uri
  BY HandlerAt DEF UriOf
<1>2. UNCHANGED documents
  BY DEF Publish, PublishEmpty, PublishSave, serverVars
<1>3. PICK h : Resume(s, h)
  BY DEF Publish, PublishEmpty, PublishSave, Return, Goto
<1>4. ASSUME NEW p, published' = [published EXCEPT ![UriOf(s)] = p],
             Shows(p, documents[UriOf(s)])
      PROVE  CurrentInv'
  <2>1. \A u \in Uris : published'[u] = IF u = UriOf(s) THEN p ELSE published[u]
    BY <1>4 DEF TypeInv, TypeOK
  <2> QED
    BY <1>1, <1>2, <1>3, <1>4, <2>1, CurrentMove DEF SeesTo
<1>5. HoldsRevision(handlers[s]) =>
        handlers[s].doc = documents[UriOf(s)] /\ documents[UriOf(s)] # NoDocument
  BY <1>1, DefaultValues DEF ServiceInv, AllHold, Holds
<1>6. CASE Publish(s)
  <2> DEFINE pub == LocalPublication(UriOf(s), handlers[s].doc, handlers[s].config)
  <2>1. /\ pub.kind = "local" /\ pub.version = handlers[s].doc.version
        /\ pub.text = handlers[s].doc.text
    BY DEF LocalPublication, NoPublication
  <2>2. published' = [published EXCEPT ![UriOf(s)] = pub] /\ handlers[s].pc = "Publish"
    BY <1>6 DEF Publish, At
  <2> HIDE DEF pub
  <2> QED
    BY <1>4, <1>5, <2>1, <2>2 DEF HoldsRevision, Shows
<1>7. CASE PublishSave(s)
  <2> DEFINE pub == CompilerPublication(handlers[s].doc.version, handlers[s].doc.text,
                                        handlers[s].checked, handlers[s].runner,
                                        handlers[s].mismatch)
  <2>1. /\ pub.kind = "compiler" /\ pub.version = handlers[s].doc.version
        /\ pub.text = handlers[s].doc.text
    BY DEF CompilerPublication, NoPublication
  <2>2. published' = [published EXCEPT ![UriOf(s)] = pub] /\ handlers[s].pc = "PublishSave"
    BY <1>1, <1>7 DEF PublishSave, At
  <2> HIDE DEF pub
  <2> QED
    BY <1>4, <1>5, <2>1, <2>2 DEF HoldsRevision, Shows
<1>8. CASE PublishEmpty(s)
  <2> DEFINE pub == [NoPublication EXCEPT !.kind = "empty"]
  <2>1. documents[UriOf(s)] = NoDocument
    BY <1>1, <1>8 DEF PublishEmpty, At, ServiceInv, AllHold, Holds, HoldsClosed
  <2>2. pub.kind = "empty"
    BY DEF NoPublication
  <2>3. published' = [published EXCEPT ![UriOf(s)] = pub]
    BY <1>8 DEF PublishEmpty
  <2> HIDE DEF pub
  <2> QED
    BY <1>4, <2>1, <2>2, <2>3 DEF Shows
<1> QED
  BY <1>6, <1>7, <1>8

LEMMA SaveGateKeepsCurrent ==
  ASSUME TypeInv, CurrentInv, NEW s \in Slots, SaveGate(s)
  PROVE  CurrentInv'
<1>1. UNCHANGED <<documents, published>> /\ ~Announces(handlers[s])
  BY DEF SaveGate, At, serverVars, Announces, HoldsRevision, HoldsClosed
<1>2. PICK h : Resume(s, h)
  BY DEF SaveGate, Return
<1> QED
  BY <1>1, <1>2, QuietMove

LEMMA NextKeepsCurrent ==
  ASSUME TypeInv, OnSaveOnly, ServiceInv, CurrentInv, [Next]_vars
  PROVE  CurrentInv'
<1>1. ASSUME UNCHANGED <<documents, handlers, published>>
      PROVE  CurrentInv'
  BY <1>1 DEF CurrentInv, Due
<1>2. ASSUME NEW s \in Slots, HandlerStep(s)
      PROVE  CurrentInv'
  BY <1>2, FreeSteps, FreeKeepsCurrent, StoringKeepsCurrent, HoldingKeepsCurrent,
     PublishingKeepsCurrent, SaveGateKeepsCurrent
<1>3. ASSUME NEW s \in Slots, Dispatch(s)
      PROVE  CurrentInv'
  <2>1. UNCHANGED <<documents, published>> /\ ~Announces(handlers[s])
    BY <1>3 DEF Dispatch, serverVars, Announces, HoldsRevision, HoldsClosed
  <2>2. PICK h : Resume(s, h)
    BY <1>3 DEF Dispatch
  <2> QED
    BY <2>1, <2>2, QuietMove
<1>4. CASE IgnoreNotification
  BY <1>1, <1>4 DEF IgnoreNotification, serverVars
<1>5. ASSUME NEW t \in TaskIds
      PROVE  ~TaskRuns(t)
  BY DEF TaskRuns, ServiceInv, NothingScheduled, TaskStep, Debounced, StartCompiler,
         CompilerAnswers, CompilerTimesOut, Gate, PublishCompiled, DropTask
<1>6. ASSUME NEW t \in TaskIds, ProcessExits(t)
      PROVE  CurrentInv'
  BY <1>1, <1>6 DEF ProcessExits, serverVars
<1>7. CASE EditorActs
  BY <1>1, <1>7
  DEF EditorActs, EditorOpens, EditorTypes, EditorShows, EditorSendsStale,
      EditorSendsMalformed, EditorSaves, EditorCloses, EditorConfigures,
      ServerIdleStep, serverVars
<1>8. CASE UNCHANGED vars
  BY <1>1, <1>8 DEF vars, serverVars
<1> QED
  BY <1>2, <1>3, <1>4, <1>5, <1>6, <1>7, <1>8 DEF Next

(* In a settled server that runs the compiler on save alone, what each open *)
(* document shows was computed from the revision stored, and a closed one   *)
(* shows nothing, whatever handlers had waited for (publish, did_close).    *)
THEOREM DiagnosticsStayCurrent ==
  ASSUME SuspendsAtIo, OnSaveOnly
  PROVE  Spec => []DiagnosticsAreCurrent
<1>1. Init => ServiceInv /\ CurrentInv
  BY InitFollows
  DEF Init, EmptyStore, CurrentInv, Shows, NoPublication
<1>2. TypeInv /\ OrderInv /\ ServiceInv /\ CurrentInv /\ [Next]_vars
        => ServiceInv' /\ CurrentInv'
  BY NextFollows, NextKeepsCurrent DEF Follows
<1>3. CurrentInv => DiagnosticsAreCurrent
  BY DEF CurrentInv, Due, Announces, HoldsRevision, HoldsClosed, Shows, Settled,
         DiagnosticsAreCurrent, IsOpen
<1>4. Spec => []OrderInv
  BY StoresAtOnce, OrderInvIsInvariant
<1> QED
  BY <1>1, <1>2, <1>3, <1>4, TypeInvIsInvariant, PTL DEF Spec

-----------------------------------------------------------------------------
(* What the compiler saw.  A save writes the file, and until the compiler   *)
(* reads it the editor may go on: then the revision being checked is        *)
(* superseded, and what is shown of it is about to be replaced.             *)

(* The editor has the document open at a later version, or not at all.      *)
Superseded(ed, u, v) == IsOpen(ed, u) => v < ed[u].version

(* A revision the editor sent: the one it shows, or one that is superseded. *)
Known(ed, last, u, d) ==
  d.version \in Nat /\ d.version <= last[u] /\ (d = ed[u] \/ Superseded(ed, u, d.version))

(* The compiler would read, or has read, the text of the revision d.        *)
Saved(ed, dk, u, d)  == ReadFile(dk, PathOf[u]) = d.text \/ Superseded(ed, u, d.version)
Saw(ed, u, d, text)  == text = d.text \/ Superseded(ed, u, d.version)

Numbered == \A u \in Uris : IsOpen(editor, u) => editor[u].version = lastVersion[u]

(* Of the stores the notifications in transport lead to: each revision was  *)
(* sent, and each save is of a file that holds the revision it follows.     *)
KnownTrace(tr, msgs, ed, last, dk) ==
  /\ \A i \in 0 .. Len(msgs), u \in Uris : Known(ed, last, u, tr[i][u])
  /\ \A i \in 1 .. Len(msgs) : msgs[i].kind = "save" =>
       msgs[i].uri \in FileUris /\ Saved(ed, dk, msgs[i].uri, tr[i - 1][msgs[i].uri])

TraceInv == \E tr \in [0 .. Len(inbox) -> Store] :
              /\ IsTrace(tr, Ahead, inbox, editor)
              /\ KnownTrace(tr, inbox, editor, lastVersion, disk)

(* Before a save clones the document, and before and after the compiler     *)
(* reads the file.                                                          *)
Saves(h)  == \/ h.pc \in {"SaveEnabled", "SaveRunner", "SaveDocument"}
             \/ h.pc = "CancelTask" /\ h.msg.kind = "save"
Checks(h) == h.pc \in {"CachedVersion", "QueryVersion", "StoreVersion", "ReadSource",
                       "RunCompiler"}
Checked(h) == h.pc \in {"AwaitCompiler", "SaveCatalog", "SaveGate", "PublishSave"}

Sees(h, store, ed, last, dk) ==
  LET u == h.msg.uri
  IN  /\ Saves(h) => u \in FileUris /\ Saved(ed, dk, u, store[u])
      /\ Checks(h) => u \in FileUris /\ Known(ed, last, u, h.doc) /\ Saved(ed, dk, u, h.doc)
      /\ Checked(h) => Known(ed, last, u, h.doc) /\ Saw(ed, u, h.doc, h.checked)

(* Of a publication, whose version and text are those of a revision.        *)
SawIts(p, ed, last, u) ==
  p.kind = "compiler" => p.version <= last[u] /\ Saw(ed, u, p, p.checked)

HandlersSee == \A s \in Slots : Sees(handlers[s], documents, editor, lastVersion, disk)
ShownSeen   == \A u \in Uris : SawIts(published[u], editor, lastVersion, u)

SawInv == Numbered /\ TraceInv /\ HandlersSee /\ ShownSeen

-----------------------------------------------------------------------------
(* The editor goes on. *)

LEMMA EditorFields ==
  ASSUME TypeInv, NEW u \in Uris
  PROVE  /\ editor[u] \in Document \cup {NoDocument}
         /\ IsOpen(editor, u) => editor[u].version \in Nat /\ editor[u].version > 0
         /\ editor[u].version \in Nat /\ lastVersion[u] \in Nat
BY VersionAssumption
DEF TypeInv, TypeOK, Store, Document, NoDocument, Versions, IsOpen

(* The editor shows a newer version of u, closes it, or leaves it.          *)
EditorMoves(u) ==
  \/ /\ editor'[u].version = lastVersion[u] + 1 /\ IsOpen(editor', u)
     /\ lastVersion'[u] = lastVersion[u] + 1
  \/ ~IsOpen(editor', u) /\ lastVersion'[u] = lastVersion[u]
  \/ editor'[u] = editor[u] /\ lastVersion'[u] = lastVersion[u]

LEMMA EditorMovesOn ==
  ASSUME TypeInv, Numbered, ~RestartVersions, EditorActs, NEW u \in Uris
  PROVE  EditorMoves(u)
<1> USE DEF TypeInv, TypeOK
<1>1. ASSUME NEW w \in Uris, NEW v, NEW t, v = lastVersion[w] + 1, EditorShows(w, v, t)
      PROVE  EditorMoves(u)
  <2>1. editor'[w].version = v /\ editor'[w] = NewDocument(v, t) /\ lastVersion'[w] = v
    BY <1>1 DEF EditorShows, NewDocument, Store
  <2>2. u # w => editor'[u] = editor[u] /\ lastVersion'[u] = lastVersion[u]
    BY <1>1 DEF EditorShows, Store
  <2>3. v # 0
    BY <1>1, EditorFields
  <2>4. NewDocument(v, t) # NoDocument
    BY <2>3 DEF NewDocument, NoDocument
  <2> QED
    BY <1>1, <2>1, <2>2, <2>4 DEF EditorMoves, IsOpen
<1>2. ASSUME NEW w \in Uris, NEW t \in Texts, EditorOpens(w, t) \/ EditorTypes(w, t)
      PROVE  EditorMoves(u)
  <2>1. EditorOpens(w, t) => EditorShows(w, lastVersion[w] + 1, t)
    BY DEF EditorOpens, NextVersion
  <2>2. EditorTypes(w, t) => EditorShows(w, lastVersion[w] + 1, t)
    BY DEF EditorTypes, Numbered
  <2> QED
    BY <1>1, <1>2, <2>1, <2>2
<1>3. ASSUME NEW w \in Uris, EditorCloses(w)
      PROVE  EditorMoves(u)
  BY <1>3 DEF EditorCloses, EditorMoves, IsOpen, Store
<1>4. UNCHANGED <<editor, lastVersion>> => EditorMoves(u)
  BY DEF EditorMoves
<1> QED
  BY <1>2, <1>3, <1>4
  DEF EditorActs, EditorSendsStale, EditorSendsMalformed, EditorSaves, EditorConfigures

LEMMA NumberedStays ==
  ASSUME TypeInv, Numbered, ~RestartVersions, EditorActs
  PROVE  Numbered'
BY EditorMovesOn, EditorFields DEF EditorMoves, Numbered, IsOpen

LEMMA SupersededStays ==
  ASSUME TypeInv, Numbered, ~RestartVersions, EditorActs, NEW u \in Uris, NEW v \in Nat,
         v <= lastVersion[u], Superseded(editor, u, v)
  PROVE  Superseded(editor', u, v)
<1>1. EditorMoves(u)
  BY EditorMovesOn
<1> QED
  BY <1>1, EditorFields DEF EditorMoves, Superseded, IsOpen

LEMMA KnownStays ==
  ASSUME TypeInv, Numbered, ~RestartVersions, EditorActs, NEW u \in Uris, NEW d,
         Known(editor, lastVersion, u, d)
  PROVE  Known(editor', lastVersion', u, d)
<1>1. EditorMoves(u) /\ lastVersion[u] \in Nat
  BY EditorMovesOn, EditorFields
<1>2. d.version <= lastVersion'[u]
  BY <1>1 DEF EditorMoves, Known
<1>3. d = editor'[u] \/ Superseded(editor', u, d.version)
  BY <1>1, SupersededStays DEF EditorMoves, Superseded, Known, IsOpen
<1> QED
  BY <1>2, <1>3 DEF Known

(* A known revision that is on disk stays there until it is superseded.     *)
LEMMA SavedStays ==
  ASSUME TypeInv, Numbered, ~RestartVersions, DistinctFiles, EditorActs,
         NEW u \in FileUris, NEW d, Known(editor, lastVersion, u, d),
         Saved(editor, disk, u, d)
  PROVE  Saved(editor', disk', u, d)
<1>1. u \in Uris /\ Target[PathOf[u]] \in Paths
  BY FilePaths
<1>2. CASE Superseded(editor, u, d.version)
  BY <1>1, <1>2, SupersededStays DEF Saved, Known
<1>3. CASE UNCHANGED disk /\ ~Superseded(editor, u, d.version)
  BY <1>3 DEF Saved
<1>4. ASSUME NEW w \in Uris, EditorSaves(w), ~Superseded(editor, u, d.version)
      PROVE  Saved(editor', disk', u, d)
  <2>1. w \in FileUris /\ disk' = [disk EXCEPT ![Target[PathOf[w]]] = editor[w].text]
    BY <1>4 DEF EditorSaves, HasPath
  <2>2. CASE w = u
    <3>1. ReadFile(disk', PathOf[u]) = editor[u].text
      BY <1>1, <2>1, <2>2 DEF ReadFile, TypeInv, TypeOK, Disk
    <3> QED
      BY <1>4, <3>1 DEF Known, Saved
  <2>3. CASE w # u
    <3>1. Target[PathOf[w]] # Target[PathOf[u]]
      BY <2>1, <2>3 DEF DistinctFiles
    <3>2. ReadFile(disk', PathOf[u]) = ReadFile(disk, PathOf[u])
      BY <1>1, <2>1, <3>1 DEF ReadFile, TypeInv, TypeOK, Disk
    <3> QED
      BY <1>4, <3>2 DEF Saved
  <2> QED
    BY <2>2, <2>3
<1> QED
  BY <1>2, <1>3, <1>4
  DEF EditorActs, EditorOpens, EditorTypes, EditorShows, EditorSendsStale,
      EditorSendsMalformed, EditorCloses, EditorConfigures

(* What the editor shows is known, and on disk once it has saved it.        *)
LEMMA ShownIsKnown ==
  ASSUME NEW ed, NEW last, NEW u, ed[u] \in Document \cup {NoDocument}, last[u] \in Nat,
         IsOpen(ed, u) => ed[u].version = last[u]
  PROVE  Known(ed, last, u, ed[u])
BY VersionAssumption DEF Known, IsOpen, Document, Versions, NoDocument

LEMMA SavedByEditor ==
  ASSUME TypeInv, NEW u \in Uris, EditorSaves(u)
  PROVE  u \in FileUris /\ Saved(editor', disk', u, editor[u])
<1>1. u \in FileUris /\ disk' = [disk EXCEPT ![Target[PathOf[u]]] = editor[u].text]
  BY DEF EditorSaves, HasPath
<1> QED
  BY <1>1, FilePaths DEF Saved, ReadFile, TypeInv, TypeOK, Disk

(* The trace of one more notification is known. *)
LEMMA TraceGrows ==
  ASSUME TypeInv, TypeInv', Numbered, TraceInv, ~RestartVersions, DistinctFiles,
         EditorActs
  PROVE  TraceInv'
<1>1. PICK m : Tells(m)
  BY EditorTells
<1> DEFINE n == Len(inbox)
<1>2. PICK tr \in [0 .. n -> Store] :
        IsTrace(tr, Ahead, inbox, editor) /\ KnownTrace(tr, inbox, editor, lastVersion, disk)
  BY DEF TraceInv
<1> DEFINE longer == Longer(tr, n, editor')
<1>3. /\ inbox \in Seq(Message) /\ n \in Nat /\ inbox' = Append(inbox, m) /\ m \in Message
      /\ Len(inbox') = n + 1 /\ inbox'[n + 1] = m /\ \A i \in 1 .. n : inbox'[i] = inbox[i]
  BY <1>1, LenProperties, AppendProperties DEF Tells, Send, TypeInv, TypeOK
<1>4. longer \in [0 .. n + 1 -> Store] /\ IsTrace(longer, Ahead, inbox', editor')
  BY <1>1, <1>2, <1>3, TraceAppend DEF Tells, TypeInv, TypeOK
<1>5. Ahead' = Ahead
  BY <1>1 DEF Tells, ServerIdleStep, serverVars, Ahead
<1>6. longer[n + 1] = editor' /\ \A i \in 0 .. n : longer[i] = tr[i]
  BY <1>3 DEF Longer
<1>7. Numbered' /\ tr[n] = editor
  BY <1>2, NumberedStays DEF IsTrace
<1> HIDE DEF longer
<1>8. ASSUME NEW i \in 0 .. n + 1, NEW u \in Uris
      PROVE  Known(editor', lastVersion', u, longer[i][u])
  <2>1. CASE i = n + 1
    <3>1. /\ editor'[u] \in Document \cup {NoDocument} /\ lastVersion'[u] \in Nat
          /\ IsOpen(editor', u) => editor'[u].version = lastVersion'[u]
      BY <1>7, VersionAssumption DEF Numbered, IsOpen, TypeInv, TypeOK, Store
    <3> QED
      BY <1>6, <2>1, <3>1, ShownIsKnown
  <2>2. CASE i \in 0 .. n
    BY <1>2, <1>6, <2>2, KnownStays DEF KnownTrace
  <2> QED
    BY <1>3, <2>1, <2>2
<1>9. ASSUME NEW i \in 1 .. n + 1, inbox'[i].kind = "save"
      PROVE  /\ inbox'[i].uri \in FileUris
             /\ Saved(editor', disk', inbox'[i].uri, longer[i - 1][inbox'[i].uri])
  <2>1. CASE i = n + 1
    <3>1. EditorSaves(m.uri) /\ m.uri \in Uris /\ i - 1 = n
      BY <1>1, <1>3, <1>9, <2>1 DEF Tells, Message
    <3> QED
      BY <1>3, <1>6, <1>7, <2>1, <3>1, SavedByEditor
  <2>2. CASE i \in 1 .. n
    <3> DEFINE u == inbox[i].uri
    <3>1. i - 1 \in 0 .. n /\ inbox'[i] = inbox[i] /\ inbox[i] \in Message
      BY <1>3, <2>2
    <3>2. u \in FileUris /\ Saved(editor, disk, u, tr[i - 1][u])
      BY <1>2, <1>9, <2>2, <3>1 DEF KnownTrace
    <3>3. Known(editor, lastVersion, u, tr[i - 1][u])
      BY <1>2, <3>1, <3>2, FilePaths DEF KnownTrace
    <3> QED
      BY <1>6, <3>1, <3>2, <3>3, SavedStays
  <2> QED
    BY <1>3, <2>1, <2>2
<1>10. KnownTrace(longer, inbox', editor', lastVersion', disk')
  BY <1>3, <1>8, <1>9 DEF KnownTrace
<1> QED
  BY <1>3, <1>4, <1>5, <1>10 DEF TraceInv

(* A handler that holds a document it has not cloned is being polled, and   *)
(* the store it reads is where the notifications start from.                *)
LEMMA StoreIsKnown ==
  ASSUME TypeInv, TraceInv, Ahead = documents, NEW u \in Uris
  PROVE  Known(editor, lastVersion, u, documents[u])
<1>1. PICK tr \in [0 .. Len(inbox) -> Store] :
        IsTrace(tr, Ahead, inbox, editor) /\ KnownTrace(tr, inbox, editor, lastVersion, disk)
  BY DEF TraceInv
<1>2. Len(inbox) \in Nat
  BY LenProperties DEF TypeInv, TypeOK
<1>3. 0 \in 0 .. Len(inbox) /\ tr[0] = documents
  BY <1>1, <1>2 DEF IsTrace
<1> QED
  BY <1>1, <1>3 DEF KnownTrace

LEMMA SaversAreAlone ==
  ASSUME SuspendsAtIo, Alone, NEW s \in Slots, Saves(handlers[s])
  PROVE  turn = s /\ handlers[s].pc \notin StorePcs
BY DEF SuspendsAtIo, IoPoints, Alone, Saves, StorePcs

LEMMA EditorSaw ==
  ASSUME TypeInv, TypeInv', SuspendsAtIo, ServiceInv, SawInv, ~RestartVersions,
         DistinctFiles, EditorActs
  PROVE  SawInv'
<1>1. Numbered' /\ TraceInv'
  BY NumberedStays, TraceGrows DEF SawInv
<1>2. UNCHANGED <<documents, handlers, published>>
  BY DEF EditorActs, EditorOpens, EditorTypes, EditorShows, EditorSendsStale,
         EditorSendsMalformed, EditorSaves, EditorCloses, EditorConfigures,
         ServerIdleStep, serverVars
<1>3. ASSUME NEW s \in Slots
      PROVE  Sees(handlers[s], documents, editor', lastVersion', disk')
  <2> DEFINE h == handlers[s]
             u == h.msg.uri
  <2>1. u \in Uris /\ Sees(h, documents, editor, lastVersion, disk)
    BY HandlerAt DEF SawInv, HandlersSee, UriOf
  <2>2. Saves(h) => Known(editor, lastVersion, u, documents[u])
    <3>1. Saves(h) => Ahead = documents
      BY SaversAreAlone DEF ServiceInv, Ahead
    <3> QED
      BY <2>1, <3>1, StoreIsKnown DEF SawInv
  <2> HIDE DEF h
  <2>3. Saves(h) => u \in FileUris /\ Saved(editor', disk', u, documents[u])
    BY <2>1, <2>2, SavedStays DEF Sees, SawInv
  <2>4. Checks(h) => /\ u \in FileUris /\ Known(editor', lastVersion', u, h.doc)
                     /\ Saved(editor', disk', u, h.doc)
    BY <2>1, SavedStays, KnownStays DEF Sees, SawInv
  <2>5. Checked(h) => /\ Known(editor', lastVersion', u, h.doc)
                      /\ Saw(editor', u, h.doc, h.checked)
    BY <2>1, SupersededStays, KnownStays DEF Sees, Saw, Known, SawInv
  <2>6. Sees(h, documents, editor', lastVersion', disk')
    BY <2>3, <2>4, <2>5 DEF Sees
  <2> QED
    BY <2>6 DEF h
<1>4. ASSUME NEW u \in Uris
      PROVE  SawIts(published[u], editor', lastVersion', u)
  <2>1. published[u].version \in Nat /\ SawIts(published[u], editor, lastVersion, u)
    BY VersionAssumption DEF SawInv, ShownSeen, TypeInv, TypeOK, Publication
  <2>2. lastVersion'[u] >= lastVersion[u] /\ lastVersion[u] \in Nat /\ lastVersion'[u] \in Nat
    BY EditorMovesOn, EditorFields DEF EditorMoves, SawInv
  <2> QED
    BY <2>1, <2>2, SupersededStays DEF SawIts, Saw, SawInv
<1> QED
  BY <1>1, <1>2, <1>3, <1>4 DEF SawInv, HandlersSee, ShownSeen

-----------------------------------------------------------------------------
(* The handlers go on. *)

LEMMA HandlersLeaveTheEditor ==
  ASSUME NEW s \in Slots, HandlerStep(s)
  PROVE  turn \in {s, NoSlot} /\ UNCHANGED editorVars
<1> USE DEF At
<1>1. CASE OpenDocument(s) \/ ReplaceDocument(s) \/ OverlayConfig(s) \/ InstallOverlay(s)
  BY <1>1 DEF OpenDocument, ReplaceDocument, OverlayConfig, InstallOverlay
<1>2. CASE PublishConfig(s) \/ Publish(s) \/ ScheduleConfig(s) \/ ScheduleRunner(s)
  BY <1>2 DEF PublishConfig, Publish, ScheduleConfig, ScheduleRunner
<1>3. CASE RegisterTask(s) \/ CloseDocument(s) \/ CancelTask(s) \/ RemoveOverlay(s)
  BY <1>3 DEF RegisterTask, CloseDocument, CancelTask, RemoveOverlay
<1>4. CASE PublishEmpty(s) \/ SaveEnabled(s) \/ SaveRunner(s) \/ SaveDocument(s)
  BY <1>4 DEF PublishEmpty, SaveEnabled, SaveRunner, SaveDocument
<1>5. CASE CachedVersion(s) \/ QueryVersion(s) \/ StoreVersion(s) \/ ReadSource(s)
  BY <1>5 DEF CachedVersion, QueryVersion, StoreVersion, ReadSource
<1>6. CASE RunCompiler(s) \/ AwaitCompiler(s) \/ SaveCatalog(s) \/ SaveGate(s)
  BY <1>6 DEF RunCompiler, AwaitCompiler, SaveCatalog, SaveGate
<1>7. CASE PublishSave(s) \/ SetRunner(s) \/ ForgetVersion(s) \/ ReindexWorkspace(s)
           \/ SetConfig(s)
  BY <1>7 DEF PublishSave, SetRunner, ForgetVersion, ReindexWorkspace, SetConfig
<1> QED
  BY <1>1, <1>2, <1>3, <1>4, <1>5, <1>6, <1>7 DEF HandlerStep

(* No notification is sent or taken, and they lead where they led.          *)
LEMMA TraceRests ==
  ASSUME TraceInv, StillAhead, UNCHANGED <<lastVersion, disk>>
  PROVE  TraceInv'
BY DEF TraceInv, StillAhead

Blind(h) == ~Saves(h) /\ ~Checks(h) /\ ~Checked(h)

(* A handler moves to h; another that has yet to clone its document is not  *)
(* there.                                                                   *)
SawMoves(s, h) ==
  /\ turn \in {s, NoSlot} /\ Resume(s, h)
  /\ UNCHANGED <<editor, lastVersion, disk>>
  /\ Sees(h, documents', editor, lastVersion, disk)

LEMMA SawMove ==
  ASSUME TypeInv, SuspendsAtIo, ServiceInv, SawInv, TraceInv', NEW s \in Slots, NEW h,
         SawMoves(s, h), ShownSeen'
  PROVE  SawInv'
<1>1. \A r \in Slots : handlers'[r] = IF r = s THEN h ELSE handlers[r]
  BY DEF SawMoves, Resume, TypeInv, TypeOK
<1>2. UNCHANGED <<editor, lastVersion, disk>>
  BY DEF SawMoves
<1>3. ASSUME NEW r \in Slots
      PROVE  Sees(handlers'[r], documents', editor, lastVersion, disk)
  <2>1. CASE r = s
    BY <1>1, <2>1 DEF SawMoves
  <2>2. CASE r # s
    <3>1. ~Saves(handlers[r])
      BY <2>2, SaversAreAlone, BackendAssumption DEF ServiceInv, SawMoves
    <3> QED
      BY <1>1, <2>2, <3>1 DEF SawInv, HandlersSee, Sees
  <2> QED
    BY <2>1, <2>2
<1>4. Numbered'
  BY <1>2 DEF SawInv, Numbered
<1> QED
  BY <1>2, <1>3, <1>4 DEF SawInv, HandlersSee

(* A step that publishes nothing of a compiler, to where a handler has      *)
(* nothing to do with one.                                                  *)
BlindStep(s) ==
  /\ \E h : Blind(h) /\ Resume(s, h)
  /\ \A u \in Uris : published'[u] = published[u] \/ published'[u].kind # "compiler"

LEMMA BlindSees ==
  ASSUME NEW h, Blind(h), NEW store, NEW ed, NEW last, NEW dk
  PROVE  Sees(h, store, ed, last, dk)
BY DEF Blind, Sees

LEMMA BlindSaw ==
  ASSUME TypeInv, SuspendsAtIo, ServiceInv, SawInv, TraceInv', NEW s \in Slots,
         turn \in {s, NoSlot}, UNCHANGED <<editor, lastVersion, disk>>, BlindStep(s)
  PROVE  SawInv'
<1>1. PICK h : Blind(h) /\ Resume(s, h)
  BY DEF BlindStep
<1>2. ShownSeen'
  BY DEF BlindStep, SawInv, ShownSeen, SawIts
<1>3. SawMoves(s, h)
  BY <1>1, BlindSees DEF SawMoves
<1> QED
  BY <1>2, <1>3, SawMove

(* A step of a save that keeps what it holds. *)
LEMMA SaveGoesOn ==
  ASSUME TypeInv, SuspendsAtIo, ServiceInv, SawInv, TraceInv', NEW s \in Slots,
         turn \in {s, NoSlot}, UNCHANGED <<editor, lastVersion, disk>>,
         UNCHANGED <<documents, published>>,
         NEW h, Resume(s, h), h.msg = handlers[s].msg, h.doc = handlers[s].doc,
         h.checked = handlers[s].checked, Saves(h) => Saves(handlers[s]),
         Checks(h) => Checks(handlers[s]), Checked(h) => Checked(handlers[s])
  PROVE  SawInv'
<1>1. Sees(handlers[s], documents, editor, lastVersion, disk)
  BY DEF SawInv, HandlersSee
<1>2. SawMoves(s, h)
  BY <1>1 DEF SawMoves, Sees
<1>3. ShownSeen'
  BY DEF SawInv, ShownSeen
<1> QED
  BY <1>2, <1>3, SawMove

LEMMA BlindSteps ==
  ASSUME TypeInv, NEW s \in Slots, HandlerStep(s)
  PROVE  \/ CancelTask(s) \/ SaveEnabled(s) \/ SaveRunner(s) \/ SaveDocument(s)
         \/ CachedVersion(s) \/ QueryVersion(s) \/ StoreVersion(s) \/ ReadSource(s)
         \/ RunCompiler(s) \/ AwaitCompiler(s) \/ SaveCatalog(s) \/ SaveGate(s)
         \/ PublishSave(s) \/ BlindStep(s)
<1>1. handlers[s] \in Handler /\ HandlerFits(handlers[s])
  BY HandlerAt
<1> DEFINE BlindPcs == OpenPcs \cup ConfigPcs
                       \cup {"ScheduleConfig", "ScheduleRunner", "RegisterTask",
                             "ClearOverlay", "PublishEmpty", "idle"}
           Ends == \E h : Blind(h) /\ Resume(s, h)
<1>2. \A h : h.pc \in BlindPcs => Blind(h)
  BY DEF OpenPcs, OverlayPcs, ConfigPcs, Blind, Saves, Checks, Checked
<1>3. ASSUME NEW h, h.pc \in BlindPcs, Resume(s, h)
      PROVE  Ends
  BY <1>2, <1>3
<1>4. ASSUME NEW pc \in BlindPcs, Goto(s, pc)
      PROVE  Ends
  <2> DEFINE h == [handlers[s] EXCEPT !.pc = pc]
  <2>1. h.pc = pc /\ Resume(s, h)
    BY <1>1, <1>4 DEF Handler, Goto
  <2> HIDE DEF h
  <2> QED
    BY <1>3, <2>1
<1>5. Return(s) => Ends
  BY <1>3 DEF Return, IdleHandler
<1>6. UNCHANGED published /\ Ends => BlindStep(s)
  BY DEF BlindStep
<1>7. AfterStore(UriOf(s)) \in BlindPcs /\ "SetOverlay" \in BlindPcs
      /\ "ClearOverlay" \in BlindPcs /\ "PublishConfig" \in BlindPcs /\ "Publish" \in BlindPcs
      /\ "ScheduleConfig" \in BlindPcs /\ "ScheduleRunner" \in BlindPcs
      /\ "RegisterTask" \in BlindPcs /\ "PublishEmpty" \in BlindPcs
      /\ "ForgetVersion" \in BlindPcs /\ "Reindex" \in BlindPcs /\ "SetConfig" \in BlindPcs
  BY DEF AfterStore, OpenPcs, OverlayPcs, ConfigPcs
<1> HIDE DEF BlindPcs, Ends
<1>8. ASSUME NEW doc, NEW pc \in BlindPcs,
             Resume(s, [handlers[s] EXCEPT !.pc = pc, !.doc = doc])
      PROVE  Ends
  <2> DEFINE h == [handlers[s] EXCEPT !.pc = pc, !.doc = doc]
  <2>1. h.pc = pc /\ Resume(s, h)
    BY <1>1, <1>8 DEF Handler
  <2> HIDE DEF h
  <2> QED
    BY <1>3, <2>1
<1>9. ASSUME NEW cfg, NEW pc \in BlindPcs,
             Resume(s, [handlers[s] EXCEPT !.config = cfg, !.pc = pc])
      PROVE  Ends
  <2> DEFINE h == [handlers[s] EXCEPT !.config = cfg, !.pc = pc]
  <2>1. h.pc = pc /\ Resume(s, h)
    BY <1>1, <1>9 DEF Handler
  <2> HIDE DEF h
  <2> QED
    BY <1>3, <2>1
<1>10. CASE OpenDocument(s) \/ ReplaceDocument(s)
  BY <1>5, <1>6, <1>7, <1>8, <1>10 DEF OpenDocument, ReplaceDocument
<1>11. CASE OverlayConfig(s) \/ PublishConfig(s)
  BY <1>6, <1>7, <1>9, <1>11 DEF OverlayConfig, PublishConfig
<1>12. CASE InstallOverlay(s) \/ RemoveOverlay(s) \/ ScheduleConfig(s) \/ RegisterTask(s)
  BY <1>4, <1>5, <1>6, <1>7, <1>12
  DEF InstallOverlay, RemoveOverlay, ScheduleConfig, RegisterTask
<1>13. CASE ScheduleRunner(s)
  <2>1. ASSUME NEW t, Spawn(s, t)
        PROVE  Ends
    <3> DEFINE h == [handlers[s] EXCEPT !.pc = "RegisterTask", !.task = t]
    <3>1. h.pc = "RegisterTask" /\ Resume(s, h)
      BY <1>1, <2>1 DEF Handler, Spawn
    <3> HIDE DEF h
    <3> QED
      BY <1>3, <1>7, <3>1
  <2> QED
    BY <1>5, <1>6, <1>13, <2>1 DEF ScheduleRunner
<1>14. CASE CloseDocument(s)
  <2> DEFINE h == [handlers[s] EXCEPT !.pc = "CancelTask"]
  <2>1. h.pc = "CancelTask" /\ h.msg.kind = "close" /\ Resume(s, h)
    BY <1>1, <1>14 DEF CloseDocument, At, HandlerFits, Handler, Goto
  <2> HIDE DEF h
  <2>2. Blind(h)
    BY <2>1 DEF Blind, Saves, Checks, Checked
  <2> QED
    BY <1>6, <1>14, <2>1, <2>2 DEF CloseDocument, Ends
<1>15. CASE Publish(s)
  <2> DEFINE pub == LocalPublication(UriOf(s), handlers[s].doc, handlers[s].config)
  <2>1. pub.kind = "local" /\ published' = [published EXCEPT ![UriOf(s)] = pub]
    BY <1>15 DEF Publish, LocalPublication, NoPublication
  <2> HIDE DEF pub
  <2>2. \A u \in Uris : published'[u] = published[u] \/ published'[u].kind # "compiler"
    BY <2>1 DEF TypeInv, TypeOK
  <2>3. Ends
    BY <1>4, <1>5, <1>7, <1>15 DEF Publish
  <2> QED
    BY <2>2, <2>3 DEF BlindStep, Ends
<1>16. CASE PublishEmpty(s)
  <2> DEFINE pub == [NoPublication EXCEPT !.kind = "empty"]
  <2>1. pub.kind = "empty" /\ published' = [published EXCEPT ![UriOf(s)] = pub]
    BY <1>16 DEF PublishEmpty, NoPublication
  <2> HIDE DEF pub
  <2>2. \A u \in Uris : published'[u] = published[u] \/ published'[u].kind # "compiler"
    BY <2>1 DEF TypeInv, TypeOK
  <2>3. Ends
    BY <1>5, <1>16 DEF PublishEmpty
  <2> QED
    BY <2>2, <2>3 DEF BlindStep, Ends
<1>17. CASE SetRunner(s) \/ ForgetVersion(s) \/ ReindexWorkspace(s) \/ SetConfig(s)
  BY <1>4, <1>5, <1>6, <1>7, <1>17 DEF SetRunner, ForgetVersion, ReindexWorkspace, SetConfig
<1> QED
  BY <1>10, <1>11, <1>12, <1>13, <1>14, <1>15, <1>16, <1>17 DEF HandlerStep

(* A save up to the compiler's answer. *)
SaveContext(s) ==
  /\ TypeInv /\ SuspendsAtIo /\ ServiceInv /\ SawInv /\ TraceInv'
  /\ turn \in {s, NoSlot} /\ UNCHANGED <<editor, lastVersion, disk>>

LEMMA ReturnSaw ==
  ASSUME NEW s \in Slots, SaveContext(s), Return(s), UNCHANGED published
  PROVE  SawInv'
<1>1. Blind(IdleHandler)
  BY DEF Blind, Saves, Checks, Checked, IdleHandler
<1>2. BlindStep(s)
  BY <1>1 DEF BlindStep, Return
<1> QED
  BY <1>2, BlindSaw DEF SaveContext

LEMMA GoesOnSaw ==
  ASSUME NEW s \in Slots, SaveContext(s),
         \/ CancelTask(s) \/ SaveEnabled(s) \/ SaveRunner(s) \/ CachedVersion(s)
         \/ QueryVersion(s) \/ StoreVersion(s) \/ ReadSource(s) \/ AwaitCompiler(s)
         \/ SaveCatalog(s)
  PROVE  SawInv'
<1>1. handlers[s] \in Handler /\ HandlerFits(handlers[s])
  BY HandlerAt DEF SaveContext
<1>2. UNCHANGED <<documents, published>>
  BY DEF CancelTask, SaveEnabled, SaveRunner, CachedVersion, QueryVersion, StoreVersion,
         ReadSource, AwaitCompiler, SaveCatalog, serverVars
<1>3. ASSUME NEW h, Resume(s, h), h.msg = handlers[s].msg, h.doc = handlers[s].doc,
             h.checked = handlers[s].checked, Saves(h) => Saves(handlers[s]),
             Checks(h) => Checks(handlers[s]), Checked(h) => Checked(handlers[s])
      PROVE  SawInv'
  BY <1>2, <1>3, SaveGoesOn DEF SaveContext
<1>4. ASSUME NEW pc, NEW h, Resume(s, h), h.pc = pc, h.msg = handlers[s].msg,
             h.doc = handlers[s].doc, h.checked = handlers[s].checked,
             \/ pc \in {"SaveRunner", "SaveDocument"} /\ Saves(handlers[s])
             \/ pc \in {"QueryVersion", "StoreVersion", "ReadSource", "RunCompiler"}
                /\ Checks(handlers[s])
             \/ pc \in {"SaveCatalog", "SaveGate"} /\ Checked(handlers[s])
      PROVE  SawInv'
  BY <1>3, <1>4 DEF Saves, Checks, Checked
<1>5. ASSUME NEW pc
      PROVE  LET h == [handlers[s] EXCEPT !.pc = pc]
             IN  /\ h.pc = pc /\ h.msg = handlers[s].msg /\ h.doc = handlers[s].doc
                 /\ h.checked = handlers[s].checked
  BY <1>1 DEF Handler
<1> USE DEF At
<1>6. CASE CancelTask(s)
  <2> DEFINE pc == IF handlers[s].msg.kind = "save" THEN "SaveEnabled"
                   ELSE IF HasPath(UriOf(s)) THEN "OverlayConfig" ELSE "PublishEmpty"
             h  == [handlers[s] EXCEPT !.pc = pc]
  <2>1. /\ h.pc = pc /\ h.msg = handlers[s].msg /\ h.doc = handlers[s].doc
        /\ h.checked = handlers[s].checked
    BY <1>5
  <2>2. Resume(s, h) /\ handlers[s].pc = "CancelTask"
    BY <1>6 DEF CancelTask, Goto
  <2> HIDE DEF h
  <2> QED
    BY <1>3, <2>1, <2>2 DEF Saves, Checks, Checked
<1>7. CASE SaveEnabled(s)
  BY <1>2, <1>4, <1>5, <1>7, ReturnSaw DEF SaveEnabled, Goto, Saves
<1>8. CASE SaveRunner(s)
  <2> DEFINE h == [handlers[s] EXCEPT !.runner = stanc, !.pc = "SaveDocument"]
  <2>1. /\ h.pc = "SaveDocument" /\ h.msg = handlers[s].msg /\ h.doc = handlers[s].doc
        /\ h.checked = handlers[s].checked
    BY <1>1 DEF Handler
  <2>2. (Return(s) \/ Resume(s, h)) /\ Saves(handlers[s])
    BY <1>8 DEF SaveRunner, Saves
  <2> HIDE DEF h
  <2> QED
    BY <1>2, <1>4, <2>1, <2>2, ReturnSaw
<1>9. CASE CachedVersion(s)
  <2> DEFINE pc == IF compilerVersion = NoRunner THEN "QueryVersion" ELSE "ReadSource"
             h  == [handlers[s] EXCEPT !.reported = compilerVersion, !.pc = pc]
  <2>1. /\ h.pc = pc /\ h.msg = handlers[s].msg /\ h.doc = handlers[s].doc
        /\ h.checked = handlers[s].checked
    BY <1>1 DEF Handler
  <2>2. Resume(s, h) /\ Checks(handlers[s])
    BY <1>9 DEF CachedVersion, Checks
  <2> HIDE DEF h
  <2> QED
    BY <1>4, <2>1, <2>2
<1>10. CASE QueryVersion(s)
  <2> DEFINE h == [handlers[s] EXCEPT !.reported = handlers[s].runner,
                                      !.pc = "StoreVersion"]
             g == [handlers[s] EXCEPT !.pc = "ReadSource"]
  <2>1. /\ h.pc = "StoreVersion" /\ h.msg = handlers[s].msg /\ h.doc = handlers[s].doc
        /\ h.checked = handlers[s].checked
    BY <1>1 DEF Handler
  <2>2. /\ g.pc = "ReadSource" /\ g.msg = handlers[s].msg /\ g.doc = handlers[s].doc
        /\ g.checked = handlers[s].checked
    BY <1>5
  <2>3. (Resume(s, h) \/ Resume(s, g)) /\ Checks(handlers[s])
    BY <1>10 DEF QueryVersion, Goto, Checks
  <2> HIDE DEF h, g
  <2> QED
    BY <1>4, <2>1, <2>2, <2>3
<1>11. CASE StoreVersion(s)
  BY <1>4, <1>5, <1>11 DEF StoreVersion, Goto, Checks
<1>12. CASE ReadSource(s)
  BY <1>2, <1>4, <1>5, <1>12, ReturnSaw DEF ReadSource, Goto, Checks
<1>13. CASE AwaitCompiler(s)
  BY <1>2, <1>4, <1>5, <1>13, ReturnSaw DEF AwaitCompiler, Goto, Checked
<1>14. CASE SaveCatalog(s)
  <2> DEFINE b == handlers[s].reported \notin {NoRunner, config.catalog}
             h == [handlers[s] EXCEPT !.mismatch = b, !.pc = "SaveGate"]
  <2>1. /\ h.pc = "SaveGate" /\ h.msg = handlers[s].msg /\ h.doc = handlers[s].doc
        /\ h.checked = handlers[s].checked
    BY <1>1 DEF Handler
  <2>2. Resume(s, h) /\ Checked(handlers[s])
    BY <1>14 DEF SaveCatalog, Checked
  <2> HIDE DEF h
  <2> QED
    BY <1>4, <2>1, <2>2
<1> QED
  BY <1>6, <1>7, <1>8, <1>9, <1>10, <1>11, <1>12, <1>13, <1>14

(* The save clones the document it follows, and its file holds that text.   *)
LEMMA SaveDocumentSaw ==
  ASSUME NEW s \in Slots, SaveContext(s), SaveDocument(s)
  PROVE  SawInv'
<1> DEFINE u == UriOf(s)
           h == [handlers[s] EXCEPT !.doc = documents[u], !.pc = "CachedVersion"]
<1>1. handlers[s] \in Handler /\ u \in Uris /\ u = handlers[s].msg.uri
  BY HandlerAt DEF SaveContext, UriOf
<1>2. UNCHANGED <<documents, published>> /\ Saves(handlers[s])
  BY DEF SaveDocument, At, Saves, serverVars
<1>3. u \in FileUris /\ Saved(editor, disk, u, documents[u])
  BY <1>1, <1>2 DEF SaveContext, SawInv, HandlersSee, Sees
<1>4. Known(editor, lastVersion, u, documents[u])
  <2>1. Ahead = documents
    BY <1>2, SaversAreAlone DEF SaveContext, ServiceInv, Ahead
  <2> QED
    BY <1>1, <2>1, StoreIsKnown DEF SaveContext, SawInv
<1>5. CASE Return(s)
  BY <1>2, <1>5, ReturnSaw
<1>6. CASE Resume(s, h)
  <2>1. h.pc = "CachedVersion" /\ h.msg = handlers[s].msg /\ h.doc = documents[u]
    BY <1>1 DEF Handler
  <2>2. Resume(s, h)
    BY <1>6
  <2> HIDE DEF h
  <2>3. Sees(h, documents', editor, lastVersion, disk)
    BY <1>1, <1>3, <1>4, <2>1 DEF Sees, Saves, Checks, Checked
  <2>4. ShownSeen'
    BY <1>2 DEF SaveContext, SawInv, ShownSeen
  <2> QED
    BY <2>2, <2>3, <2>4, SawMove DEF SaveContext, SawMoves
<1> QED
  BY <1>5, <1>6 DEF SaveDocument

LEMMA RunCompilerSaw ==
  ASSUME NEW s \in Slots, SaveContext(s), RunCompiler(s)
  PROVE  SawInv'
<1> DEFINE u == UriOf(s)
           h == [handlers[s] EXCEPT !.checked = ReadFile(disk, PathOf[u]),
                                    !.pc = "AwaitCompiler"]
<1>1. handlers[s] \in Handler /\ u = handlers[s].msg.uri
  BY HandlerAt DEF SaveContext, UriOf
<1>2. UNCHANGED <<documents, published>> /\ Checks(handlers[s]) /\ Resume(s, h)
  BY DEF RunCompiler, At, Checks, serverVars
<1>3. h.pc = "AwaitCompiler" /\ h.msg = handlers[s].msg /\ h.doc = handlers[s].doc
      /\ h.checked = ReadFile(disk, PathOf[u])
  BY <1>1 DEF Handler
<1> HIDE DEF h
<1>4. /\ Known(editor, lastVersion, u, handlers[s].doc)
      /\ Saved(editor, disk, u, handlers[s].doc)
  BY <1>1, <1>2 DEF SaveContext, SawInv, HandlersSee, Sees
<1>5. Sees(h, documents', editor, lastVersion, disk)
  BY <1>1, <1>3, <1>4 DEF Sees, Saves, Checks, Checked, Saved, Saw
<1>6. ShownSeen'
  BY <1>2 DEF SaveContext, SawInv, ShownSeen
<1> QED
  BY <1>2, <1>5, <1>6, SawMove DEF SaveContext, SawMoves

(* A revision of the same version that is not superseded is the same.       *)
LEMMA SaveGateSaw ==
  ASSUME NEW s \in Slots, SaveContext(s), InHand, SaveGate(s)
  PROVE  SawInv'
<1> DEFINE u == UriOf(s)
           d == documents[u]
           h == [handlers[s] EXCEPT !.doc = d, !.pc = "PublishSave"]
<1>1. handlers[s] \in Handler /\ u \in Uris /\ u = handlers[s].msg.uri
  BY HandlerAt DEF SaveContext, UriOf
<1>2. UNCHANGED <<documents, published>> /\ Checked(handlers[s])
  BY DEF SaveGate, At, Checked, serverVars
<1>3. /\ Known(editor, lastVersion, u, handlers[s].doc)
      /\ Saw(editor, u, handlers[s].doc, handlers[s].checked)
  BY <1>1, <1>2 DEF SaveContext, SawInv, HandlersSee, Sees
<1>4. Known(editor, lastVersion, u, d)
  <2>1. Ahead = documents
    BY BackendAssumption DEF SaveGate, At, SaveContext, Ahead, StorePcs
  <2> QED
    BY <1>1, <2>1, StoreIsKnown DEF SaveContext, SawInv
<1>5. CASE Return(s)
  BY <1>2, <1>5, ReturnSaw
<1>6. CASE d.version = handlers[s].doc.version /\ Resume(s, h)
  <2>1. h.pc = "PublishSave" /\ h.msg = handlers[s].msg /\ h.doc = d
        /\ h.checked = handlers[s].checked
    BY <1>1 DEF Handler
  <2>2. Resume(s, h)
    BY <1>6
  <2> HIDE DEF h
  <2>3. Saw(editor, u, d, handlers[s].checked)
    BY <1>3, <1>4, <1>6 DEF Known, Saw
  <2>4. Sees(h, documents', editor, lastVersion, disk)
    BY <1>1, <1>4, <2>1, <2>3 DEF Sees, Saves, Checks, Checked
  <2>5. ShownSeen'
    BY <1>2 DEF SaveContext, SawInv, ShownSeen
  <2> QED
    BY <2>2, <2>4, <2>5, SawMove DEF SaveContext, SawMoves
<1> QED
  BY <1>5, <1>6 DEF SaveGate

LEMMA PublishSaveSaw ==
  ASSUME NEW s \in Slots, SaveContext(s), PublishSave(s)
  PROVE  SawInv'
<1> DEFINE h   == handlers[s]
           u   == h.msg.uri
           pub == CompilerPublication(h.doc.version, h.doc.text, h.checked, h.runner,
                                      h.mismatch)
<1>1. h \in Handler /\ u \in Uris
  BY HandlerAt DEF SaveContext, UriOf
<1>2. Return(s) /\ published' = [published EXCEPT ![u] = pub] /\ UNCHANGED documents
  BY DEF PublishSave, serverVars
<1>3. Known(editor, lastVersion, u, h.doc) /\ Saw(editor, u, h.doc, h.checked)
  BY <1>1 DEF PublishSave, At, Checked, SaveContext, SawInv, HandlersSee, Sees
<1>4. pub.version = h.doc.version /\ pub.text = h.doc.text /\ pub.checked = h.checked
  BY DEF CompilerPublication, NoPublication
<1> HIDE DEF h, pub
<1>5. SawIts(pub, editor, lastVersion, u)
  BY <1>3, <1>4 DEF SawIts, Known, Saw
<1>6. \A v \in Uris : published'[v] = IF v = u THEN pub ELSE published[v]
  BY <1>1, <1>2 DEF SaveContext, TypeInv, TypeOK
<1>7. ShownSeen'
  BY <1>5, <1>6 DEF SaveContext, SawInv, ShownSeen
<1>8. Blind(IdleHandler)
  BY DEF Blind, Saves, Checks, Checked, IdleHandler
<1>9. SawMoves(s, IdleHandler)
  BY <1>2, <1>8, BlindSees DEF SawMoves, Return, SaveContext
<1> QED
  BY <1>7, <1>9, SawMove DEF SaveContext

LEMMA HandlerSaw ==
  ASSUME TypeInv, OrderInv, SuspendsAtIo, ServiceInv, SawInv, NEW s \in Slots,
         HandlerStep(s)
  PROVE  SawInv'
<1>1. turn \in {s, NoSlot} /\ UNCHANGED <<editor, lastVersion, disk>>
  BY HandlersLeaveTheEditor DEF editorVars
<1>2. TraceInv'
  BY <1>1, StepsAwayFromStore, StoreStep, AwayStep, TraceRests DEF SawInv
<1>3. SaveContext(s) /\ InHand
  BY <1>1, <1>2 DEF SaveContext, OrderInv
<1>4. BlindStep(s) => SawInv'
  BY <1>1, <1>2, BlindSaw
<1> QED
  BY <1>3, <1>4, BlindSteps, GoesOnSaw, SaveDocumentSaw, RunCompilerSaw, SaveGateSaw,
     PublishSaveSaw

(* A notification leaves the transport. *)
LEMMA TraceShrinks ==
  ASSUME TypeInv, TraceInv, inbox # <<>>, inbox' = Tail(inbox),
         Ahead' = Applied(Ahead, Head(inbox)), UNCHANGED <<editor, lastVersion, disk>>
  PROVE  TraceInv'
<1> DEFINE n == Len(inbox)
<1>1. PICK tr \in [0 .. n -> Store] :
        IsTrace(tr, Ahead, inbox, editor) /\ KnownTrace(tr, inbox, editor, lastVersion, disk)
  BY DEF TraceInv
<1> DEFINE later == Later(tr, n)
<1>2. /\ inbox \in Seq(Message) /\ n \in Nat \ {0} /\ Len(inbox') = n - 1
      /\ \A i \in 1 .. n - 1 : inbox'[i] = inbox[i + 1]
  BY EmptySeq, LenProperties, HeadTailProperties DEF TypeInv, TypeOK
<1>3. later \in [0 .. n - 1 -> Store] /\ IsTrace(later, Ahead', inbox', editor)
  BY <1>1, <1>2, TraceOn
<1>4. \A i \in 0 .. n - 1 : later[i] = tr[i + 1] /\ i + 1 \in 0 .. n
  BY <1>2 DEF Later
<1> HIDE DEF later
<1>5. \A i \in 0 .. n - 1, u \in Uris : Known(editor, lastVersion, u, later[i][u])
  BY <1>1, <1>4 DEF KnownTrace
<1>6. ASSUME NEW i \in 1 .. n - 1, inbox'[i].kind = "save"
      PROVE  /\ inbox'[i].uri \in FileUris
             /\ Saved(editor, disk, inbox'[i].uri, later[i - 1][inbox'[i].uri])
  <2>1. /\ i + 1 \in 1 .. n /\ (i + 1) - 1 = i /\ i - 1 \in 0 .. n - 1
        /\ inbox'[i] = inbox[i + 1] /\ later[i - 1] = tr[i]
    BY <1>2, <1>4
  <2> QED
    BY <1>1, <1>6, <2>1 DEF KnownTrace
<1>7. KnownTrace(later, inbox', editor, lastVersion, disk)
  BY <1>2, <1>5, <1>6 DEF KnownTrace
<1> QED
  BY <1>2, <1>3, <1>7 DEF TraceInv

LEMMA SavedBefore ==
  ASSUME TypeInv, TraceInv, Ahead = documents, inbox # <<>>, Head(inbox).kind = "save"
  PROVE  LET u == Head(inbox).uri
         IN  u \in FileUris /\ Saved(editor, disk, u, documents[u])
<1>1. PICK tr \in [0 .. Len(inbox) -> Store] :
        IsTrace(tr, Ahead, inbox, editor) /\ KnownTrace(tr, inbox, editor, lastVersion, disk)
  BY DEF TraceInv
<1>2. 1 \in 1 .. Len(inbox) /\ Head(inbox) = inbox[1] /\ 1 - 1 = 0
  BY EmptySeq, LenProperties, HeadTailProperties DEF TypeInv, TypeOK
<1>3. tr[0] = documents
  BY <1>1 DEF IsTrace
<1> QED
  BY <1>1, <1>2, <1>3 DEF KnownTrace

LEMMA DispatchSaw ==
  ASSUME TypeInv, OrderInv, SuspendsAtIo, ServiceInv, SawInv, NEW s \in Slots, Dispatch(s)
  PROVE  SawInv'
<1> DEFINE m == Head(inbox)
           h == [IdleHandler EXCEPT !.pc = EntryPoint(m.kind), !.msg = m]
<1>1. /\ inbox # <<>> /\ inbox' = Tail(inbox) /\ turn \in {s, NoSlot} /\ Resume(s, h)
      /\ UNCHANGED <<documents, published, editor, lastVersion, disk>>
  BY DEF Dispatch, serverVars
<1>2. m.kind \in {"open", "change", "close", "save", "configure"}
  BY HeadOfInbox DEF Dispatch, Message
<1>3. Ahead = documents /\ Ahead' = Applied(Ahead, m)
  BY StoresAtOnce, DispatchStep
<1>4. TraceInv'
  BY <1>1, <1>3, TraceShrinks DEF SawInv
<1>5. h.pc = EntryPoint(m.kind) /\ h.msg = m
  BY DEF IdleHandler
<1>6. m.kind = "save" => m.uri \in FileUris /\ Saved(editor, disk, m.uri, documents[m.uri])
  BY <1>1, <1>3, SavedBefore DEF SawInv
<1> HIDE DEF h
<1>7. ~Checks(h) /\ ~Checked(h) /\ (Saves(h) => m.kind = "save")
  BY <1>2, <1>5 DEF EntryPoint, Saves, Checks, Checked
<1>8. Sees(h, documents', editor, lastVersion, disk)
  BY <1>1, <1>5, <1>6, <1>7 DEF Sees
<1>9. ShownSeen'
  BY <1>1 DEF SawInv, ShownSeen
<1> QED
  BY <1>1, <1>4, <1>8, <1>9, SawMove DEF SawMoves

-----------------------------------------------------------------------------
LEMMA NextSaw ==
  ASSUME TypeInv, TypeInv', OrderInv, SuspendsAtIo, DistinctFiles, ~RestartVersions,
         ServiceInv, SawInv, [Next]_vars
  PROVE  SawInv'
<1>1. ASSUME UNCHANGED <<documents, handlers, published, editor, lastVersion, disk>>, TraceInv'
      PROVE  SawInv'
  BY <1>1 DEF SawInv, Numbered, HandlersSee, ShownSeen
<1>2. ASSUME UNCHANGED <<documents, handlers, turn, published, editor, lastVersion, disk>>,
             UNCHANGED inbox
      PROVE  SawInv'
  <2>1. StillAhead
    BY <1>2 DEF StillAhead, Ahead
  <2> QED
    BY <1>1, <1>2, <2>1, TraceRests DEF SawInv
<1>3. CASE IgnoreNotification
  <2>1. /\ inbox # <<>> /\ inbox' = Tail(inbox)
        /\ UNCHANGED <<documents, handlers, published, editor, lastVersion, disk>>
    BY <1>3 DEF IgnoreNotification, serverVars
  <2>2. Ahead' = Applied(Ahead, Head(inbox))
    BY <1>3, IgnoreStep
  <2> QED
    BY <1>1, <2>1, <2>2, TraceShrinks DEF SawInv
<1>4. ASSUME NEW t \in TaskIds
      PROVE  ~TaskRuns(t)
  BY DEF TaskRuns, ServiceInv, NothingScheduled, TaskStep, Debounced, StartCompiler,
         CompilerAnswers, CompilerTimesOut, Gate, PublishCompiled, DropTask
<1>5. ASSUME NEW t \in TaskIds, ProcessExits(t)
      PROVE  SawInv'
  BY <1>2, <1>5 DEF ProcessExits, serverVars, editorVars
<1>6. CASE UNCHANGED vars
  BY <1>2, <1>6 DEF vars, serverVars, editorVars
<1> QED
  BY <1>3, <1>4, <1>5, <1>6, HandlerSaw, DispatchSaw, EditorSaw DEF Next

LEMMA InitSaw ==
  ASSUME Init, TypeInv
  PROVE  SawInv
<1> DEFINE tr == [i \in 0 .. 0 |-> editor]
<1>1. /\ inbox = <<>> /\ Len(inbox) = 0 /\ documents = editor /\ Ahead = editor
      /\ editor = EmptyStore
  BY DEF Init, Ahead, IdleHandler, StorePcs
<1>2. Numbered
  BY <1>1 DEF Numbered, IsOpen, EmptyStore
<1>3. \A u \in Uris : Known(editor, lastVersion, u, editor[u])
  <2> SUFFICES ASSUME NEW u \in Uris
               PROVE  Known(editor, lastVersion, u, editor[u])
    OBVIOUS
  <2> QED
    BY <1>2, EditorFields, ShownIsKnown DEF Numbered
<1>4. tr \in [0 .. 0 -> Store] /\ tr[0] = editor /\ 1 .. 0 = {}
  BY DEF TypeInv, TypeOK
<1> HIDE DEF tr
<1>5. IsTrace(tr, Ahead, inbox, editor)
  BY <1>1, <1>4 DEF IsTrace
<1>6. KnownTrace(tr, inbox, editor, lastVersion, disk)
  <2>1. \A i \in 0 .. 0 : i = 0
    OBVIOUS
  <2> QED
    BY <1>1, <1>3, <1>4, <2>1 DEF KnownTrace
<1>7. TraceInv
  BY <1>1, <1>4, <1>5, <1>6 DEF TraceInv
<1>8. HandlersSee
  <2>1. Blind(IdleHandler)
    BY DEF Blind, Saves, Checks, Checked, IdleHandler
  <2> QED
    BY <2>1, BlindSees DEF Init, HandlersSee
<1>9. ShownSeen
  BY DEF Init, ShownSeen, SawIts, NoPublication
<1> QED
  BY <1>2, <1>7, <1>8, <1>9 DEF SawInv

(* Once settled, what the compiler says of a document on display was said   *)
(* of the text on display, though did_save compares no more than versions   *)
(* and the editor may save again while the compiler is about to read the    *)
(* file: in a server that runs the compiler on save alone, for an editor    *)
(* that gives no two revisions of a document one version, when no two       *)
(* documents are one file.                                                  *)
THEOREM CompilerSawWhatIsShown ==
  ASSUME SuspendsAtIo, OnSaveOnly, DistinctFiles, ~RestartVersions
  PROVE  Spec => []CompilerSawShownText
<1>1. Init /\ TypeInv => ServiceInv /\ CurrentInv /\ SawInv
  BY InitFollows, InitSaw DEF Init, EmptyStore, CurrentInv, Shows, NoPublication
<1>2. TypeInv /\ TypeInv' /\ OrderInv /\ ServiceInv /\ CurrentInv /\ SawInv /\ [Next]_vars
        => ServiceInv' /\ CurrentInv' /\ SawInv'
  BY NextFollows, NextKeepsCurrent, NextSaw DEF Follows
<1>3. TypeInv /\ OrderInv /\ CurrentInv /\ SawInv => CompilerSawShownText
  <2> SUFFICES ASSUME TypeInv, OrderInv, CurrentInv, SawInv, Settled, NEW u \in Uris,
                      published[u].kind = "compiler"
               PROVE  published[u].checked = published[u].text
    BY DEF CompilerSawShownText
  <2>1. documents = editor
    <3>1. Ahead = documents /\ Leads(Ahead, <<>>, editor)
      BY DEF Settled, OrderInv, Ahead, StorePcs
    <3> QED
      BY <3>1, LeadsEmpty
  <2>2. Shows(published[u], editor[u])
    BY <2>1 DEF CurrentInv, Due, Announces, HoldsRevision, HoldsClosed, Settled
  <2>3. IsOpen(editor, u) /\ published[u].version = editor[u].version
    BY <2>2 DEF Shows, IsOpen
  <2>4. ~Superseded(editor, u, published[u].version)
    BY <2>3, EditorFields DEF Superseded
  <2> QED
    BY <2>4 DEF SawInv, ShownSeen, SawIts, Saw
<1>4. Spec => []OrderInv
  BY StoresAtOnce, OrderInvIsInvariant
<1> QED
  BY <1>1, <1>2, <1>3, <1>4, TypeInvIsInvariant, PTL DEF Spec
=============================================================================
