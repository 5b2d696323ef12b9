# Stan-LSP: a verification development

TLA+ models of the Stan language server (`crates/stan-language-server`), of the
analysis crate `stan-language` below it and of the maintenance commands of `xtask`,
TLC configurations that check them on small instances, and theorems that TLAPS
proves for every instance.

## 1. The system

### 1.1 Components

| Component | State | Operations | Hard behaviours | What makes it correct |
|---|---|---|---|---|
| `Backend` (`main.rs`) | documents, stanc runner, configuration, workspace, `compiler_tasks`, `compiler_version`, each behind an async lock | `did_open`, `did_change`, `did_close`, `did_save`, `did_change_configuration`, `publish`, `schedule_compiler` and the task it spawns; read-only requests | up to four handlers interleave at awaits, compiler tasks run on other threads, abort, timeouts, caches that are stale when used | the last diagnostics on display are those of the revision on display; no compiler task escapes cancellation; the server settles |
| `DocumentStore` (`document.rs`) | a document per open URI | `open`, `replace`, `close`, `get` | version comparison, reopening | the store follows the editor |
| `Workspace` (`workspace.rs`) | roots, overlays, index of files and their includes | `set_roots`, `reindex`, `set_overlay`, `clear_overlay`, `resolve_includes` | links, files that are not on disk, two maps keyed by canonical paths | an open file is indexed with its editor text |
| include cycles (`workspace.rs`) | the recursion's stack, visited set, reports | `include_cycles`, `find_cycles` | cyclic graphs, files outside the index | ends; reports real cycles; silence means acyclic |
| `StancRunner` (`stanc.rs`) | temporary files, processes | `discover`, `version`, `check`, `check_source` | timeouts, hanging compilers, partial failure | files are removed, nothing waits for ever |
| diagnostics (`diagnostics.rs`) | none | conversion, merging with stanc's | which sources a publication is built from | nothing that still holds disappears |
| line index, mapper | a table of line starts | offset to position and back | CR, LF, CRLF, UTF-16 widths | a place is the one the client shows |
| LSP features, navigation | none | rename, references, call hierarchy, semantic tokens, signature help, inlay hints; hover, completion, symbols, code actions | capture by rename, distances between tokens, calls that are still open | the renamed program means the same; what is sent decodes to what was meant |
| lexer | offset, `expect_include_path`, tokens | one branch per kind of token | longest match, where comments and paths end, a flag that outlives its token | lossless tokens, a path belongs to the directive of its line |
| parser | stack and pairs of delimiters, nodes found so far | delimiters, blocks, structures, expressions | recovery on broken input: a missing bracket decides the extent of what follows | every delimiter is paired or reported, ranges nest |
| semantics | none | scopes, symbols, resolution, `validate` | shadowing, three rules of visibility, scopes looked up by range | each use resolves to the innermost visible declaration, or to none |
| formatter | `indent`, `line_start`, `pending_space`, the output so far | `format`, `format_range` | flags that outlive their token, trimming what was written | formatting preserves tokens and is idempotent |
| lints | none | `lint`, suppression comments | programs that are still being typed, argument counts over tokens, lines of a suppression | valid programs get no error, finished ones what is true of them |
| analysis host | a snapshot cache | `AnalysisHost` | revisions | not used by the server |
| catalog (`catalog.rs`, `types.rs`) | the parsed table of signatures | `parse`, display, `is_available` | brackets and commas, overloads, generated and hand-kept lines together | what is displayed is what stanc dumps |
| `xtask` | files of the catalog, archive and models of the corpus, on disk | `refresh-stan`, `--check`, `validate`, `corpus fetch`, `corpus check` | each write or command may fail or be cut short; the tool is built from the files it writes | a refresh repairs what an earlier one left; a gate tries the pinned models |
| token derive, stanfmt, stanlint | none | code generation, command lines | -- | outside the models |
| VS Code extension | one language client | start, stop, restart | two restarts at once | one live server |

Components meet in `Backend`: the editor sends notifications over one ordered
stream; a handler calls `DocumentStore` and `Workspace` under their locks, spawns
compiler tasks that call `StancRunner`, and handlers and tasks publish diagnostics
back to the editor, each publication replacing the one before it for its document.
Every analysis is `analyze_revision` of one text: lexer, then parser, then semantics,
then lints; the features work on its result through the line index. The catalog is
embedded in the crate when it is built, from files that `xtask` writes.

### 1.2 How the server runs, and what is atomic

* tower-lsp-server (outside the repository) starts handlers in arrival order and
  polls up to four of them in **one** cooperative task. A handler runs alone from
  one await that suspends it to the next; the handlers' code is therefore modelled
  with one pc per await (`HandlerPcs`) and a variable `turn`, the handler being
  polled. Compiler tasks are `tokio::spawn`ed and run truly in parallel.
* No lock guard lives across another await, so each locked section is one step.
* An await on a free lock does not suspend, except when tokio's cooperative budget
  is exhausted or a task holds the lock at that instant. The constant `YieldPoints`
  names the pcs that suspend: `IoPoints` (the flush of a publication, the version
  query, file reads, the compiler) for the properties about order, and also the
  awaits between which a task changes hands (`TaskPoints`) for the properties about
  who owns it. The proofs of the latter hold for every set of suspending awaits.
* `abort` takes effect at the task's awaits alone: between its version check and
  its publication a task cannot be stopped. A dropped task leaves its temporary file
  and its stanc process, which ends by itself (`ProcessExits`).
* The environment is the editor of the LSP specification: versions of an open
  document grow, a save writes the disk before `didSave`. It also sends what the
  server is written to ignore: stale changes, changes of closed documents,
  malformed changes and settings.

## 2. Modules

| Module | Models | Correspondence |
|---|---|---|
| `Sources` | source texts, told apart | -- |
| `DocumentStore` | `document.rs` | operators on the value of the HashMap; `Accepts`/`Replace` are `replace` |
| `Workspace` | `workspace.rs` without cycles | operators on `[overlays, files]`; `Canonical` is `canonicalize().unwrap_or(path)`, `Target` the links, `ResolvePath` the search list |
| `BackendState` | the fields of `Backend`, the locals of its handlers and tasks | one record per handler: pc, notification, and the values cloned before an await and used after it |
| `Backend` | every handler and the compiler task | one action per step between awaits; the handler's `CancelTask` serves `did_close` and `did_save`, the overlay and publish steps `did_open` and `did_change` |
| `BackendProperties` | the properties and the fairness | -- |
| `DiagnosticsService` | what the server promises its editor | the store, and the revision whose diagnostics are on display; `Backend` implements it |
| `IncludeCycles` | `include_cycles` and `find_cycles` | the recursion as a sequence of frames, one call per step |
| `Formatter` | `format.rs`, with what `lexer.rs` and `parser.rs` demand of its text | one action per token: `Before` is what an arm of `format` does up to pushing the token, `After` the rest |
| `Delimiters` | `match_delimiters` (`parser.rs`) | one action per arm of its match, one token each |
| `Syntax` | `find_program_blocks`, `find_structures`, functions and declarations, and the typed views on them (`parser.rs`) | a node is the range of its tokens; operators on the text and the pairs |
| `Semantics` | `analyze_semantics.rs`, `resolution.rs`, `validate`, `rename` (`navigation.rs`) | scopes and symbols as sequences, in the order the code adds them; `AnalyzeSemantics` is the whole analysis |
| `Analysis` | `analyze_revision` at every revision of a text, beside its author | `Type` and `Slip` write or leave out one token, `Analyze` is the analysis of the text so far; `env` says what each name means |
| `Features` | call hierarchy (`features.rs`) | operators on the semantic model; a position is a token, an item a symbol |
| `Expressions` | `parse_expression_pratt` and what it calls | binding powers over kinds of tokens; the outcome is where it failed, or that it did not; `IsGrammatical` is the reference grammar |
| `Lints` | `lint.rs`, and signature help and inlay hints (`features.rs`) | the checks as sets of diagnostics over the text read so far |
| `Linting` | a program being typed by an author who knows what the lints should say | `Derive` expands a plan of grammar symbols, `Type` hands one token to `Delimiters`, `LeaveOut` and `TypeStray` are slips |
| `LineIndex` | `line_index.rs`, `mapper.rs` | a text is a sequence of characters with widths in bytes and UTF-16 units |
| `Lexer` | `lexer.rs` | one action per branch of `next_token`, one token a step |
| `TextFeatures` | semantic tokens, `diagnostic_range`, suppressions, the name before an open call | operators that cross between places, bytes, columns and lines; `Client...` is the editor as the protocol defines it |
| `Catalog` | `catalog.rs`, `types.rs` | a line is a name in two parts and the words and marks after it; `ParseCatalog` is the constructor |
| `Refresh` | `validate`, `refresh-stan`, `--check`, and `cargo run` around them | one action per step that may fail; `CutShort` is what a write may leave |
| `Corpus` | `corpus fetch`, `corpus check` | the same, on target/corpus |
| `Xtask` | the commands together, and the maintainer | one command at a time, on what others left |
| `MCBackend`, `MCIncludeCycles`, `MCText`, `MCXtask`, `MCLinting` | constants for TLC | -- |
| `BackendProofs` | proofs about `Workspace` and `Backend` | -- |
| `AnalysisProofs`, `RecordProofs`, `UsesProofs` | proofs about `Analysis` | each extends the one before; the last two are about finished programs |
| `IncludeCyclesProofs`, `FormatterProofs`, `LexerProofs`, `XtaskProofs` | proofs about one system each | -- |

`Backend` composes `DocumentStore`, `Workspace` and what it uses of `StancRunner`;
`IncludeCycles` stands alone, on the graph the index holds, and `Formatter` on the
tokens of one text. `Analysis` composes `Delimiters`, `Syntax`, `Semantics` and
`Features`, each extending the one before; `Linting` extends `Lints`, which composes
`Semantics` and `Expressions`. `TextFeatures` composes `Lexer` and `LineIndex`;
`Xtask` composes `Catalog`, `Refresh` and `Corpus`.

Data abstracted away: a text is a model value known by its include requests; a
compiler by its version; a publication by what it was computed from (revision,
text, unresolved includes, text and compiler of stanc's part). Left out: metrics and
logging, lint levels, the length of the debounce, the lookup of a file's own path
among the cycles (`publish`, lines 93-112), edits of the disk by other programs,
files that are not UTF-8, a full disk (a temporary file that could not be written
out in full is not in `tempFiles`), failure of `remove_file`. A task identifier that
is used again forgets the file and the process its former owner left.

`Formatter` reads its text token by token, each with the gap before it, and keeps no
text: the output is the gap before the token written last. A gap is whether a line
ends and how many blanks follow. A second pass runs in lockstep, on the tokens and
the gaps the first one wrote. The texts are those whose delimiters match and which
miss no semicolon; the other errors of the analysis (blocks out of order,
expressions, malformed tokens) would rule out more of them. Left out: legacy
spellings, tabs inside comments and paths, the trim after the last token (blanks and
line ends, so that a text ends in one line end), `format_range`.

`Analysis` checks the analysis against what the author of the text means. He
writes phrases (the head of a block, a declaration with or
without dimensions and initializer, a call, a loop, a nested block, a closing brace)
and keeps, in `env`, what is declared in each scope he has open; `bindings` records
for each use the declaration he means, by the rules of `docs/semantic-model.md`. The
program sees tokens alone and works from ranges. Positions of significant tokens
stand for byte offsets; `Margin` stands for blanks and comments behind the last one.
All type keywords are one token, all operators `=`. Left out: types and constraints,
literals, the lookup of `x_lpdf` by `x`, includes inside a text, and the diagnostics
of blocks and of structural recovery.

`Lexer` reads characters; a word whose letters decide nothing ("real", a keyword,
"lp__", a legacy spelling, "#include") is one character of several bytes. Of the
symbols it has one or more of each length and of each conflict of prefixes. In
`TextFeatures` the directive of a suppression is one word, and the ids are "all".

`Linting` has built-in functions with one or two overloads of scalars and vectors, a
data-only parameter, a function that belongs in some blocks only, an expensive one and
a density behind a distribution. Its author derives one statement of a program from
the grammar, within loops or not. Left out of `Lints`: levels and `stanlint.toml`,
deprecated elements and their fixes, parameters without a prior, distributions the
user defines, and suppressions (which `TextFeatures` has).

`Catalog` keeps blanks out: `trim` and the display agree on them. Left out: the
categories and contexts that are inferred from names, and the generated tables. In
`Refresh` a Rust file that was cut short does not compile; a text file that was cut
short holds a beginning of its lines, the last of which may itself be cut, at one place
of each kind. `Corpus` leaves out the counts of the report; what the crate, the
formatter and stanc make of a model is a constant, `Behaviour`.

In `Backend`, `initialize` is `Init`: it ends before the editor may send notifications;
when it rejects the configuration there is no session. `shutdown` changes no state.

## 3. Runs

| Run | Bounds | Checks | Shows |
|---|---|---|---|
| `backend_save` | one file, two texts, two handlers, versions to 3, compiler on save on or off | `StoreFollowsEditor`, `DiagnosticsAreCurrent`, `OverlaysFollowStore`, `CompilerSawShownText`, `ImplementsService` | in its default configuration the server converges to what the editor shows, and publishes nothing but the revision it holds |
| `backend_change` | one text, two handlers, two tasks, versions to 3, I/O and `TaskPoints` suspend | `TypeOK`, `LiveTasksAreOwned`, `TempFilesAreRemoved` | with the compiler on change, no running task is out of reach of the next cancellation; only aborts leave files |
| `backend_live` | as above with versions to 2, I/O alone suspends, fair | `QuietServerSettles`, `DiagnosticsCatchUp` | if the editor falls silent the server settles, and diagnostics catch up |
| `include_cycles` | all graphs on three files, two directives each, any of them indexed | `TypeOK`, `ReportedCyclesAreReal`, `SilenceMeansAcyclic`, `WalkEnds` | the walk is right on every such graph |
| `formatter` | nesting to four, indent of two | `TypeOK`, `TokensSurvive`, `OnlyCommasWaver`, `LinesAreIndented` | formatting keeps the tokens, and settles but for one blank |
| `backend_stale` | one handler, one file | `DiagnosticsAreCurrent`, violated | a task past its check publishes over a newer revision |
| `analysis` | texts of up to seven phrases, three fewer with a token left out; one variable, two functions one of which shares its name | `TypeOK`, `PairsNest`, `DelimitersAreAccountedFor`, `ModelIsValid`, `ScopesNest`, `UsesResolve`, `DuplicatesAreReported`, `FreshRenamesAreSafe`, `HierarchiesAgree` | on complete texts the analysis finds what the author means; on broken ones it stays well formed |
| `text` | all texts of up to five characters over three alphabets and up to four over three more, locations to line 4 and column 3 | `TokensCoverText`, `PathsFollowDirectives`, `CommentsAndStringsAsScanned`, `PositionsAreTheClients`, `SemanticTokensDecode`, `CompilerRangesAreShown`, `SuppressionsReachTheNextLine` | the lexer loses nothing and ends what it reads where a reader does; places agree with the client's |
| `xtask` | four compilers, two availability files, two pinned archives of two models, one fault | `RefreshedIsDumped`, `ChecksOnlyCompare`, `PassedGatesTriedThePin`, no deadlock | whatever was left on disk, a command that ends well says the truth |
| `linting` | three grammar forms in a statement, or one with a slip | `ExpressionsAsGrammar`, `LintsAreTrue`, `OpenCallsAreHelped` | but for bars the Pratt parser accepts the grammar and nothing else, lints are true of finished programs, open calls are helped and not reported |
| `text_slice` | as `text` | `NamesStartAtCharacters`, violated | signature help cuts a text inside a character |
| `lint_valid` | one call of a density, with a bar | `ValidProgramsHaveNoErrors`, violated | a valid call is two errors: no expression, and an argument too few |

Two handlers are enough for every pair of handlers to overlap, one being suspended
while the other runs to its end; the message in transport and the one in hand give a
third notification in flight. A document's life in these bounds holds open, two
further revisions, saves at any of them, close and reopen. Two tasks are one in the
map and one being registered, or one that was aborted and still runs; that more of
them change nothing is proved. One file: handlers of different documents share the
configuration, the runner and the index, whose entries are per file.

Bounds: `MaxVersion`, `MaxInbox`, `TaskIds`, `Slots` (four in the program), in the
guards of `EditorShows`, `Send`, `FreeTasks` and `Dispatch`; they stop the editor or
delay the server, and change nothing a step does. `Formatter` has one bound,
`MaxDepth`: what a pass does next depends on its flags, its indent and the next
token, so the runs cover texts of every length, and depth enters by the indent alone.

`Analysis` is bounded by `MaxPhrases`, `MaxSlips` and `SlipCost`, in `Fits` and `Slip`.
Seven phrases hold two blocks with a declaration each and a use, a block with two
nested scopes, or a function and a block that calls it: every pair of declarations
the rules of visibility compare, and a use. One name for variables is enough for
shadowing and duplicates, because a second one only adds declarations the lookup
passes over; a function of that name makes functions and variables meet. `Fits` also
leaves room to close what is open, so that texts are finished within the bound, and
no call is written twice in a row. With a token left out the nesting the author means
and the one the parser finds part, so only what must hold of every text is expected
(`TypeOK`, `PairsNest`, `DelimitersAreAccountedFor`, `ModelIsValid`, `ScopesNest`).
A text is analyzed after each phrase; the pairs are checked after each token.

`text`: an alphabet holds the characters one branch of the lexer, or one conversion,
is about, so five characters hold a number with fraction and exponent, a comment with
a star of its own, two line ends around a wide character, and four hold a directive
with a blank, a path and a line end. The lexer's and the conversions' decisions look
one or two characters ahead; that the seven properties hold of texts of every length,
over every alphabet, is proved (section 4).

`linting` (`MaxForms`, `MaxSlips`, `SlipCost`, in `Derive` and `MaySlip`): three forms
hold a call in a call in a call, a repeated call within a loop's sampling statement, or
two operators around a subscript, which is what precedence decides between. A slip
costs two forms. The lints are compared with what the author knows where the code can
tell: see `LintsAreTrue` for the calls it leaves aside (below, under Findings).

`xtask` (`MaxFaults`, in `Fault`): one failure or interruption at any step, then any
number of commands that succeed. Two of the compilers disagree with the checked-in
catalog in what they dump, one has names that collide as Rust variants, one has another
version. Types are displayed to a depth of four (`MaxNesting`); the lines nest two deep.

**Fairness** (`FairSpec`). A handler that is woken stays in the message loop's ready
queue until it is polled: strong fairness per handler, and for starting the next
notification. A spawned task is polled by the runtime: weak fairness, but not of
`CompilerAnswers`: stanc may hang, and only the 30 s timeout is sure. `ProcessExits`
and the editor owe nothing.

**Findings.** The three violated properties are statements of the documentation, and
each run's trace is a schedule, or a text, of the code as written (see `findings` in
PROJECT.json): stale results published after the check (analysis-pipeline.md:19-20);
signature help that slices the text inside a character of several bytes and panics
(release-checklist.md:6); two errors in a valid assignment, `z = nrm_lpdf(n | v, n);`:
its bar ends the expression for the Pratt parser, and separates no arguments for the
lint that counts them (release-checklist.md:9).

Further places where code and documentation part, seen in the models; no run is kept
for them:

* `Backend`: a save that waits for the old compiler's version stores it after
  `did_change_configuration` has cleared it (`main.rs:381`), so a matching compiler is
  reported as a mismatch (stanc-integration.md:4-6).
* `Formatter`: a comma that starts a line, outside all blocks, alternates between `,b`
  and `, b` (`format.rs:154`; formatting.md:4-5). `OnlyCommasWaver` says that nothing
  else does.
* `Semantics`: a file that is one function and not even a line end (`Margin = 0`) has
  the root for its scope and fails the assertion of `analyze_semantics.rs:136-140`. A
  loop without braces gets no scope, so its variable may resolve to an outer one
  (`parser.rs:966`, against `analyze_semantics.rs:12-13`). A rename to a name that
  another scope declares captures (`navigation.rs:68`, against line 1 of that file).
* `Workspace`: a reindex drops the entries of open documents that the walk does not list
  (`workspace.rs:110`), such as files not saved yet, until their next change;
  `OverlaysFollowStore` accepts an open file without an entry for this.
* `Expressions`: conditionals, row vectors, array literals, slices and truncation are no
  expressions for the Pratt parser. `IsGrammatical`, the reference grammar, is written
  from Stan's grammar and has the bar, so `ExpressionsAsGrammar` excepts bars where it
  says that a report is right. The other forms the parser lacks are not in it, as
  nothing types them.
* A declaration with both bounds, `real<lower=n, upper=n> u;`, is parsed as an expression
  from behind its first assignment sign, and the comma is an error
  (`parser.rs:1164-1184`): `lint_valid` with `Forms = {"constraint"}` shows it.
* `Lints`: commas in square brackets count (`lint.rs:483-503`); the type of an
  argument is that of its first literal or name; hints skip an argument that starts with
  a parenthesis; any closing parenthesis completes a sampling statement; a group that is
  open inside a call misleads signature help. `PlainCalls`, `AtomicCalls` and `OwnStarts`
  in `Linting` leave these calls aside, and `PlainCalls` those with a bar.
* `LineIndex`: a CR alone ends a line for the client and not for the server (`NoLoneCR`).
* `Refresh`: a generated Rust file that was cut short keeps the tool from being built,
  and only git repairs it. A line of special signatures that was cut may load with
  another return type, as `complex` for `complex_matrix`, until the next refresh.
* `Corpus`: `corpus check --stanc` before any fetch fails, as nothing creates
  target/corpus (`main.rs:507-509`). A check after a failed fetch passes on part of the
  models, as only the directory is looked for (`main.rs:416`); a formatter that refuses a
  model does not fail the gate (`main.rs:314-320`).

## 4. Proofs

All theorems hold for every value of the constants that the named assumptions allow
(`TextsAssumption`, `VersionAssumption`, `WorkspaceAssumption`, `BackendAssumption`,
`YieldAssumption`, `IndexesAssumption`, `FormatterAssumption`, `AuthorAssumption`, the
`TextsAssumption` of `Lexer`, `MarginAssumption`, `CatalogAssumption`): any number of
handlers, tasks, documents, files, configurations, and any set of suspending awaits. A
theorem that needs more of a constant says so in its `ASSUME`: `StoredAtOnce`,
`SuspendsAtIo`, `OnSaveOnly`, `OverlaidAtOnce`, `DistinctFiles`, `~RestartVersions`,
`IncludesComplete`, `Margin # 0`, `LinesAreNotation`.

* `BackendIsTyped`: `Spec => []TypeOK`. `TypeOK` is not inductive: that
  `InstallOverlay` finds a document to overlay depends on the notification the
  handler was started for and on the branch it took. `TypeInv` adds `InboxFits`
  (opens and changes carry a text and a version) and `HandlersFit` (which pcs belong
  to which notification, and what has been cloned there). One lemma per action.
* `NoTaskEscapes`: `Spec => []LiveTasksAreOwned`, inductive relative to `TypeOK`. The
  steps that matter are `Spawn` (the new task is held by its handler), `RegisterTask`
  and `CancelTask` (the entry they take out is aborted in the same step); all others
  leave the map, or end tasks.
* `OnlyAbortsLeaveFiles`: `Spec => []TempFilesAreRemoved`.
* `StoreIsTheEditors` (`BackendProofs`): `Spec => []StoreFollowsEditor`, if no handler
  suspends before it has stored its document (`StoredAtOnce`; the store's lock is the
  first await of every handler, and nothing before it does I/O). `OrderInv` says that
  the notification in hand and those in transport, applied one after the other, lead
  from the store to what the editor shows (`Leads`). It is stated with a sequence of
  stores, one per notification, so that it needs no recursion; a step of the editor
  makes the sequence longer at its end, a dispatch moves its first step into the hand.
* `ServerImplementsService` (`BackendProofs`): `Spec => ImplementsService`, if handlers
  suspend at I/O alone (`SuspendsAtIo`) and no configuration runs the compiler on
  change (`OnSaveOnly`). Without the second it is false: `backend_stale` is a task that
  publishes an older revision. `ServiceInv` says that a handler between the store and
  its publication is the one being polled (`Alone`) and still holds what is stored
  (`AllHold`). Every step then maps to `Revise`, `Withdraw` or `Refresh`, or stutters;
  that revisions grow comes from `OrderInv`, and from `Accepts` for changes.
* `DiagnosticsStayCurrent` (`BackendProofs`): `Spec => []DiagnosticsAreCurrent`, under
  the same two conditions. `CurrentInv` says that what a document shows is what the
  store holds of it, or that some handler stands between the store and its publication
  for that document (`Due`); a settled server has no such handler. A step either
  leaves its handler there, or publishes the stored revision (`AllHold`), or touches
  neither the store nor the display (`SeesTo`).
* `OverlaysAreTheStores` (`BackendProofs`): `Spec /\ LinksLead => []OverlaysFollowStore`,
  if handlers reach the index before they suspend (`OverlaidAtOnce`), no two documents
  are one file (`DistinctFiles`), and initially no document is a link to a file yet to be
  created (`LinksLead`): such a document would have another path in the index once the
  file exists. `OverlayInv` says of each document that its overlay is the stored text, or
  that the handler being polled is about to install or remove it, and that the index
  serves no other text for it.
* `CompilerSawWhatIsShown` (`BackendProofs`): `Spec => []CompilerSawShownText`, under the
  conditions of `ServerImplementsService`, `DistinctFiles` and no reuse of versions
  (`~RestartVersions`). Revisions are numbered by a trace of stores, so that two revisions
  with one number have one text; a check of a superseded revision is dropped at the
  comparison before its publication, and what is published was compiled from the text of
  the revision compared.
* `WalkIsTyped`, `CyclesAreReal`, `SilenceIsSound` (`IncludeCyclesProofs`). The
  invariant `IInv` says that consecutive frames are includes of each other
  (`Chained`), that the stack holds no file twice, and, while nothing has been
  reported, that the files the walk has left include only files it has left
  (`ClosedIncludesClosed`, `LoopsAreDone`) and no set of them is entangled
  (`ClosedIsAcyclic`). A root with includes is never forgotten (`RootsRemain`), so at
  the end every file with includes has been left, and an entangled set would be one
  of those.

* `FormatterIsTyped`, `FormattingKeepsTokens`, `FormattingSettles`, `FormattingIndents`
  (`FormatterProofs`), for every indent width and every depth; the second and third where
  every include has its path (`IncludesComplete`; without it `FormattingKeepsTokens` is
  false: the line end behind an include without a path becomes a blank, and the next
  token its path).
  `PassInv` says that both passes stand alike after each token, which holds because a
  blank is forgotten once its token is dealt with (`BlanksAreForgotten`), and what a
  pass remembers of the last token (`Remembers`): after a comment or path the line has
  ended, after a word a blank is pending, and a blank is pending at the start of a
  line after a comma only. From this `SecondGap` derives that the passes can differ
  after such a comma alone, and `GapsRemain` that no gap is lost that kept two tokens
  apart. `IndentInv` says that the indent kept is the number of braces among the open
  delimiters (`BlocksIn`), so each line starts under the blocks it stands in.

* `PairsAlwaysNest`, `DelimitersAlwaysAccounted` (`AnalysisProofs`), for texts of every
  length over any names, with any number of tokens left out. `DelimiterInv` says that
  the stack rises (`StackRises`), that what waits there is an opener without a pair
  (`OpenersWait`) and that every opener without a pair waits (`OpenersRemain`). When a
  closer takes the opener on top, what still waits lies before it, so each opener
  between the two is paired already, and with a closer read earlier.
* `ModelsAlwaysValid` (`AnalysisProofs`): `Spec => []ModelIsValid`, the assertion of
  `analyze_semantics.rs` on every revision of every text, however broken, if something
  follows the last token (`Margin # 0`; section 3 has the file for which it fails).
  Every node is a range in the text (`EndIsBehind`, from `PairsNest`, `BracesFollow`,
  `StatementsStart`), sorting by rank puts each node at one place (`Ranked`,
  `NodesAreSorted`), and a scope's parent is an earlier range around it, or the root
  (`ScopesAreBuilt`). What the typed views read lies in the node they read it off
  (`FunctionsAreNamed`, `ParametersAreInside`, `BindersAreInside`), and the range of a
  function or a loop starts at no brace, so that its scope keeps its kind
  (`KindsOfScopes`). Parents come before their children, so lookups end (`ChainsEnd`),
  at a symbol of the model (`NamesResolve`). `ModelInv` keeps the model while the text
  grows; only `Analyze` replaces it.
* `AnalysisIsTyped` (`AnalysisProofs`): `Spec => []TypeOK`. `AuthorInv` adds that what is
  left of a phrase never leaves a scope (`StaysInside`): the closing phrase does, with
  its first token, and only while a scope is open, so the program's own scope is never
  left.
* `ScopesAlwaysNest` (`AnalysisProofs`): `Spec => [](slips = 0 \/ (~due /\ LoopsBegin) =>
  ScopesNest)`. Of texts with several tokens left out `ScopesNest` is false: in
  `type for (x in x f(x) { } ) {` the loop and the function cross. What it needs is
  `LoopsBegin`, that every `for` begins a statement: then the head of a function or loop
  leads to its brace past closed brackets alone (`Heads`), two heads share a brace or are
  apart (`HeadsApart`), and the braces nest by `PairsNest`. Texts that lack no token have
  it because of `LaidInv`: what was typed, with what is pending of the phrase, is tiled
  by the shapes of phrases (`Tiled`), each behind the end of a statement or at a brace.
* `FreshRenamesKeepBindings` (`AnalysisProofs`): `Spec => []FreshRenamesAreSafe`, for
  finished programs of every length. `ModelIsCurrent` says whose text the model is of,
  `LaidInv` that the new name is nowhere in it. From the shapes of phrases, no two nodes
  with symbols begin one statement (`NodesStartApart`) and a node's symbols are at
  different tokens of its own (`ParametersAreLaid`, `LoopsAreLaid`), so that no two
  symbols are at one position (`SymbolsAreDistinct`) and a rename edits one declaration.
  Then no lookup changes (`CandidatesAreFound`): a reference to it has that declaration
  for its only candidate, any other has one candidate less, which was not the nearest.

* The lemma `RecordsAreInText` (`RecordProofs`): `Spec => []RecordInv`: as long as no
  token is left out, the author's record is a function of the text and its delimiter
  pairs. What is in `env`, `held` and `clashes` can be read off the tokens written so
  far: which brace each declaration is under (`FrameOf`), what the head before an open
  brace binds (`HeldAt`), which declarations are of one name under one brace (`Clash`).
  It rests on a grammar of the phrases by kinds and roles of their tokens (`Forms`): the
  text is made of them (`TextsAreFormed`), each stands under a block that allows it
  (`SuitsHold`), and the open scopes are the open braces on the delimiter stack
  (`FramesHold`), for which a closer may never meet another bracket that waits
  (`ClosersStayPaired`).
* `DuplicatesAlwaysReported` (`RecordProofs`): `Spec => []DuplicatesAreReported`, for
  finished programs of every length (and `Margin # 0`). `RecordInv` turns the author's
  clashes into a property of the text, and the analysis is followed through on the other
  side. The functions and loops that the parser finds are the phrases of that form
  (`DeclaredFunctionsAreForms`, `LoopsAreForms`) and its declarations those that were
  meant (`DeclarationsAreEnds`); the names read off them, past brackets that are counted
  (`DepthWalks`, `CountsComeOut`), are the names the author gave (`EndsAreDeclarations`,
  `ParametersAre`, `BindersAre`). A name's smallest scope is that of its innermost brace
  (`InnermostScopes`), and it belongs to the program where that brace is a block's
  (`BlockAround`, `VariableSymbolsAre`). So two symbols share a scope exactly when the
  author declared both under one brace (`ScopesTell`): the scope a head opens is its
  parameter's or binder's alone.
* The lemma `UsesAreBound` (`RecordProofs`): `Spec => []BindInv`: what each use is bound
  to is a function of the text and its pairs too, and of the part in front of the use
  alone: the latest declaration of its name under the nearest brace around it that has
  one, else the latest that its program block may see (`MeantBy`). It has to be carried
  along: `env` is gone when the braces are closed, so a finished text says what was
  visible only if no later step changes what is around, and declared before, an earlier
  token.
* `FinishedUsesResolve` (`UsesProofs`): `Spec => [](Finished => UsesResolve)`, for finished
  programs of every length (and `Margin # 0`): every use resolves to the declaration in
  force. With `UsesAreBound` it is a statement about one text. The chain that `resolve_name`
  walks holds exactly the scopes around the use, the smallest first (`ChainsAround`), so
  what it finds is the latest of the innermost scope that offers the name (`ResolveIs`).
  Every symbol is a function, a declaration or bound by a head (`SymbolsTell`); a scope
  offers what was declared under its brace before the use (`FramesOffer`,
  `BodiesResolve`), and a head's scope what the head binds, where the body's own scope has
  nothing of the name (`HeadsResolve`). At the root it is the program block that decides
  (`RanksTell`, `FunctionsEnclose`, `RootOffers`), and only where nothing else is left a
  function, the latest of its name, which depends on the order in which symbols are
  added (`FunctionsAscend`, `ProgramResolves`).
* `HierarchiesAlwaysAgree` (`UsesProofs`): `Spec => []HierarchiesAgree` (for `Margin # 0`):
  in finished programs of every length, preparing a call hierarchy at a use yields the
  function the use stands for, and the use is an outgoing call of the function it was
  written in, an incoming one of the function it stands for, and a call of no other. What a
  use stands for is `FinishedUsesResolve`; the rest is about who calls. The author writes
  in the last function in front of the use, unless another block has begun; the code looks
  for a function whose declaration encloses the use. Both are the function whose brace is
  open at the use (`WrittenInFunction`, `WrittenInBraces`, `DeclarationsHoldUses`): the
  functions block is the first, functions are in it only, and once it is closed no use is
  inside one (`FunctionsComeFirst`, `FunctionsAreLast`, `UsesInFunctions`). No two symbols
  are at one token, so the caller is one symbol (`CallsAreFound`).

* `LexingIsLossless`, `PathsAreOfDirectives` (`LexerProofs`), for texts of every length
  over any characters. One lemma per branch says between which bounds it leaves off
  (`BlanksAreRead` to `SymbolIsRead`), `NextTokenReads` joins them: each token is longer
  than nothing and ends within the text, which is why lexing is lossless and ends.
  `PathInv` says that a path is due exactly while a directive waits, that is, while only
  blanks of one line lie between it and the place reached (`Waits`).
* `CommentsAreScanned` (`LexerProofs`): `LexerSpec => []CommentsAndStringsAsScanned`, the
  lexer against an automaton that reads one character at a time (`Modes`). `ScanInv` says
  that in a text without include paths and dots (`Clean`) the lexer always stands where
  the automaton is outside comments and strings (`Boundary`), and that the tokens read so
  far are those the automaton ends. There is a lemma per branch; in a string, a quote
  ends it when the number of backslashes before it is even, which the automaton's state
  tells at each place (`EscapeStep`). That the recursively defined states exist is proved
  by looking for the least place without one (`ModesScan`).
* `PositionsAgree`, `HighlightingDecodes`, `CompilerRangesAgree`, `SuppressionsAgree`
  (`LexerProofs`), for texts of every length, with LF and CRLF (`NoLoneCR`). Lines are
  counted by the rank of their starts, bytes and UTF-16 units by the cardinality of the
  units before a place, so that both are additive without recursion. A server's line is
  the client's because a place has as many line starts before it for either; the
  client's running sum over the deltas of semantic tokens is the last token's place,
  since the least token where it is not would follow one where it is.

* `RefreshedDisplaysTheDump` (`XtaskProofs`): `Spec => []RefreshedIsDumped`, for every
  catalog, compiler and availability file and any number of faults, where each line alone
  parses and is displayed as it is written (`LinesAreNotation`). That is about the
  recursion over types, which stays with TLC: the run displays, in every form a type
  takes, what it parsed. `RefreshInv` says that while the loop runs the compiler is the
  one the content was rendered from, and that the targets passed hold that content
  (`WrittenFits`); whatever else was on disk does not matter, as every target is visited.
  The rest is about what was rendered: the lines of a name keep their order and stay
  apart (`PickedAtRanks`, `EntryShows`), and the lines that were synthesized are the ones
  an unnormalized function is to display (`SynthesizedAreDumped`).
* `ChecksCompareAlone` (`XtaskProofs`): `Spec => ChecksOnlyCompare`, from the same
  invariant: a check that ends has found every target current, one after the other, and
  nobody else writes while it runs.
* `GatesTryThePin` (`XtaskProofs`): `Spec => PassedGatesTriedThePin`. `CorpusInv` says
  that an archive is cleared and unpacked for only when it is the pinned one, into an
  empty directory, and that while the success of a fetch is on record the directory holds
  the pinned models and nothing else; repinning and cleaning strike it off the record.

Only model-checked: `UsesResolve` of programs that are being written, where scopes are
still open; the lints and the expressions, whose modules are written with recursive
operators, which the prover cannot read; what one line of the catalog parses to, which is
recursive too; liveness (`QuietServerSettles`, `DiagnosticsCatchUp`, `WalkEnds`), which
the prover's temporal fragment with fairness and ENABLED does not reach; the violations.

## 5. Not modelled

* **The extension.** What it keeps is one language client, whose state machine belongs to
  a library outside the repository. Two restarts at once stop one client and start two
  (`extension.js:42`); as an editor the extension is the environment of `Backend`.
* **`stan-token-derive`, `stanfmt`, `stanlint`.** A macro that runs in the compiler, and
  sequential command lines around `format` and `lint`; neither keeps state.
* **Listings.** Completion, hover, document symbols, folding and code actions read the
  catalog and the semantic model and list what is there. The generated tables
  (`generated_functions.rs`, a fourth of the implementation's lines) are data.
* **Parser.** Diagnostics of block order, duplicate blocks and missing semicolons, array
  literals, constraints, includes inside a text. The missing-semicolon check takes the
  brace of an array literal for the end of a block (`parser.rs:867`).
* **Formatter.** `format_range`, the trim at the end of the text, `stanfmt.toml`.
* **Backend.** The lookup of a file among the reported cycles (`main.rs:96`), reopening
  at an old version (`RestartVersions` is FALSE in all runs), convergence of concurrent
  configuration changes, which handlers can interleave only where awaits without I/O
  suspend; duplicates of stanc's diagnostics, and how its output is split.

What would come next: the missing-semicolon check in `Syntax`, `format_range` over the
nodes it finds, a run with `RestartVersions`; as a theorem,
the part of `UsesResolve` about programs that are being written.
