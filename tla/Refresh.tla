-------------------------------- MODULE Refresh --------------------------------
(***************************************************************************)
(* xtask, run through cargo: refresh-stan, its --check, and validate. The  *)
(* checked-in catalog is four files, written one after the other from what *)
(* a compiler dumps; any write may fail or be cut short, and the command   *)
(* may be interrupted between any two steps. The command itself is linked  *)
(* with the language crate, which embeds those files: cargo builds it anew *)
(* each time, or fails to.                                                 *)
(***************************************************************************)
EXTENDS Catalog

CONSTANTS
  Compilers,        \* what may be behind --stanc: [version, dump]
  LineOrder,        \* every line of a catalog, in the order of a BTreeSet
  SpecialLines,     \* SPECIAL_SIGNATURES
  Removed,          \* REMOVED_FUNCTIONS
  Availabilities,   \* what availability.tsv may hold: [valid, introduced]
  MaxFaults         \* how often something fails or is interrupted

VARIABLES
  files,     \* the files: signatures, special, functions, distributions, availability
  stanc,     \* the compiler at the path
  job,       \* the command that runs
  exits,     \* how the last fetch and the last command ended
  faults     \* how often something has failed

refreshVars == <<files, stanc, job, exits, faults>>

Version == "2.39.0"
Commands == {"refresh", "check", "validate", "fetch", "corpus"}
Lasting  == {"fetch"}
Targets == <<"signatures", "special", "functions", "distributions">>
Idle == [pc |-> "idle"]

Names == [base : STRING, suffix : STRING]
NamesOf(lines) == {lines[n].name : n \in DOMAIN lines}

(* rust_variant: words joined by their capitals, so an underscore before a   *)
(* digit leaves no trace.                                                    *)
RustVariant(name) == <<IF name.base = "a_1" THEN "a1" ELSE name.base, name.suffix>>
Collides(names) ==
  \E a, b \in names : a # b /\ RustVariant(a) = RustVariant(b)

(* synthesize_unnormalized_probability_functions *)
Unnormalized(suffix) ==
  CASE suffix = "_lpdf" -> "_lupdf"
    [] suffix = "_lpmf" -> "_lupmf"
    [] OTHER -> suffix
Synthesized(dump) ==
  dump \cup {[line EXCEPT !.name.suffix = Unnormalized(@)] : line \in dump}

(* LineOrder has each line once, and every line of what the compilers of the *)
(* pinned version dump; a special signature has its display and what it      *)
(* returns.                                                                  *)
ASSUME CatalogAssumption ==
  /\ LineOrder \in Seq([name : Names, text : Texts]) /\ IsInjective(LineOrder)
  /\ \A compiler \in Compilers :
       compiler.version = Version => Synthesized(compiler.dump) \subseteq ToSet(LineOrder)
  /\ SpecialLines \in Seq([name : Names, fields : STRING \X STRING])
  /\ Removed \subseteq Names

(* lifecycle_expression *)
NewFamilies == {"laplace_tol"}
Lifecycle(name, availability) ==
  [removed |-> name \in Removed,
   introduced |-> IF name.base \in NewFamilies THEN CurrentMinor
                  ELSE IF name \in DOMAIN availability.introduced
                       THEN availability.introduced[name] ELSE 0]

(* The contents the four files get. A Rust file that is cut short does not   *)
(* compile; of the text files a cut one is a beginning of the lines, the     *)
(* last of which may itself be cut.                                          *)
RenderSignatures(lines) ==
  Picked(LineOrder, {n \in DOMAIN LineOrder : LineOrder[n] \in lines})
FunctionNames(lines) ==
  {line.name : line \in lines} \cup NamesOf(SpecialLines) \cup Removed
RenderFunctions(names, availability) ==
  [whole |-> TRUE, lifecycles |-> [name \in names |-> Lifecycle(name, availability)]]
(* Both kinds of a base in one dump: the mass function comes last. *)
Bases(names, suffix) == {name.base : name \in {n \in names : n.suffix = suffix}}
RenderDistributions(names) ==
  [whole |-> TRUE,
   kinds |-> [base \in Bases(names, "_lpdf") \cup Bases(names, "_lpmf") |->
                IF base \in Bases(names, "_lpmf") THEN "Discrete" ELSE "Continuous"]]
Content(dump, availability) ==
  LET lines == Synthesized(dump)
      names == FunctionNames(lines)
  IN [signatures    |-> RenderSignatures(lines),
      special       |-> SpecialLines,
      functions     |-> RenderFunctions(names, availability),
      distributions |-> RenderDistributions(names)]

(* A cut elsewhere is taken as one of these: before the parenthesis, within  *)
(* the arguments, before the arrow, within the type, or in a type whose      *)
(* beginning is one.                                                         *)
CutSignature(line) ==
  {[line EXCEPT !.text = SubSeq(@, 1, n)] :
     n \in {0, 1, Len(line.text) - 2, Len(line.text) - 1}} \cup
  IF Last(line.text) = "complex_matrix"
  THEN {[line EXCEPT !.text = Append(Front(@), "complex")]} ELSE {}
CutSpecial(line) ==
  {[line EXCEPT !.fields = f] : f \in {<<>>, <<line.fields[1]>>, <<line.fields[1], "vec">>}}
Beginnings(lines, cut) ==
  {SubSeq(lines, 1, n) : n \in 0 .. Len(lines) - 1} \cup
  UNION {{Append(SubSeq(lines, 1, n - 1), part) : part \in cut[n]} : n \in DOMAIN lines}
CutShort(target, content) ==
  CASE target = "signatures" ->
         Beginnings(content, [n \in DOMAIN content |-> CutSignature(content[n])])
    [] target = "special" ->
         Beginnings(content, [n \in DOMAIN content |-> CutSpecial(content[n])])
    [] OTHER -> {[content EXCEPT !.whole = FALSE]}

-----------------------------------------------------------------------------
(* cargo run: the crates are built from the files as they are, and nothing   *)
(* but the command itself changes them while it runs.                        *)
Builds == files.functions.whole /\ files.distributions.whole
Run(command, start) ==
  /\ job = Idle
  /\ job' = IF Builds THEN start ELSE Idle
  /\ exits' = [c \in Commands |->
                 IF c = command THEN IF Builds THEN "running" ELSE "unbuilt"
                 ELSE IF c \in Lasting THEN exits[c] ELSE "none"]
  /\ UNCHANGED faults
Exit(status) ==
  /\ job' = Idle
  /\ exits' = [exits EXCEPT ![job.command] = status]
  /\ UNCHANGED faults
(* What should not fail fails: bounded by MaxFaults. *)
Fault ==
  /\ faults < MaxFaults
  /\ faults' = faults + 1
  /\ job' = Idle
  /\ exits' = [exits EXCEPT ![job.command] = "failed"]
Proceed(next) == job' = next /\ UNCHANGED <<exits, faults>>

(* validate: global() panics when the embedded catalog does not parse. *)
EmbeddedCatalog ==
  ParseCatalog(files.signatures, files.special, DOMAIN files.functions.lifecycles)
HasOverloads(catalog) ==
  \A name \in DOMAIN catalog :
    IsAvailable(files.functions.lifecycles[name]) =>
      catalog[name].concrete # <<>> \/ catalog[name].variadic # <<>>
(* A catalog that parses, of which Holds is true *)
Loaded(catalog, Holds(_)) == IsValue(catalog) /\ Holds(catalog.value)
Validates == Loaded(EmbeddedCatalog, HasOverloads)

StartValidate == Run("validate", [pc |-> "validate", command |-> "validate"])
                 /\ UNCHANGED <<files, stanc>>
Validate ==
  /\ job.pc = "validate"
  /\ Exit(IF Validates THEN "ok" ELSE "failed")
  /\ UNCHANGED <<files, stanc>>

(* refresh: the version, the dump, the files it reads, and what it renders. *)
StartRefresh(command) ==
  Run(command, [pc |-> "version", command |-> command]) /\ UNCHANGED <<files, stanc>>
AskVersion ==
  /\ job.pc = "version"
  /\ \/ stanc.version = Version /\ Proceed([job EXCEPT !.pc = "dump"])
     \/ stanc.version # Version /\ Exit("failed")
  /\ UNCHANGED <<files, stanc>>
DumpSignatures ==
  /\ job.pc = "dump"
  /\ LET content == Content(stanc.dump, files.availability)
         names == DOMAIN content.functions.lifecycles
     IN IF files.availability.valid /\ ~Collides(names)
           /\ ~Collides({[base |-> b, suffix |-> ""] :
                           b \in DOMAIN content.distributions.kinds})
        THEN Proceed([pc |-> "update", command |-> job.command, target |-> 1,
                      content |-> content])
        ELSE Exit("failed")
  /\ UNCHANGED <<files, stanc>>
CommandFails ==    \* stanc does not run, or a file cannot be read
  /\ job.pc \in {"version", "dump"}
  /\ Fault
  /\ UNCHANGED <<files, stanc>>

(* update, of the target the loop is at *)
Target == Targets[job.target]
Current == files[Target] = job.content[Target]
NextTarget ==
  Proceed(IF job.target = Len(Targets) THEN [pc |-> "done", command |-> job.command]
          ELSE [job EXCEPT !.target = @ + 1])
SkipCurrent == Current /\ NextTarget /\ UNCHANGED files
ReportDrift == ~Current /\ job.command = "check" /\ Exit("failed") /\ UNCHANGED files
WriteFile ==
  /\ ~Current /\ job.command = "refresh"
  /\ files' = [files EXCEPT ![Target] = job.content[Target]]
  /\ NextTarget
WriteFails ==
  /\ ~Current /\ job.command = "refresh"
  /\ \/ UNCHANGED files
     \/ \E rest \in CutShort(Target, job.content[Target]) :
          files' = [files EXCEPT ![Target] = rest]
  /\ Fault

(* A mutant: a file that differs is written by a check as well. *)
UpdateDespiteCheck ==
  /\ job.pc = "update"
  /\ \/ Current /\ NextTarget /\ UNCHANGED files
     \/ /\ ~Current
        /\ files' = [files EXCEPT ![Target] = job.content[Target]]
        /\ NextTarget
     \/ WriteFails
  /\ UNCHANGED stanc

Update ==
  /\ job.pc = "update"
  /\ SkipCurrent \/ ReportDrift \/ WriteFile \/ WriteFails
  /\ UNCHANGED stanc
Finish == job.pc = "done" /\ Exit("ok") /\ UNCHANGED <<files, stanc>>

-----------------------------------------------------------------------------
(* The maintainer: interrupts a command, installs another compiler, edits    *)
(* the availability file, or takes the checked-in files back from git.       *)
Interrupt == job # Idle /\ Fault /\ UNCHANGED <<files, stanc>>
InstallCompiler ==
  /\ job = Idle
  /\ \E compiler \in Compilers \ {stanc} : stanc' = compiler
  /\ UNCHANGED <<files, job, exits, faults>>
EditAvailability ==
  /\ job = Idle
  /\ \E availability \in Availabilities \ {files.availability} :
       files' = [files EXCEPT !.availability = availability]
  /\ UNCHANGED <<stanc, job, exits, faults>>

CheckedIn(compiler, availability) ==
  LET content == Content(compiler.dump, availability)
  IN [file \in DOMAIN content \cup {"availability"} |->
        IF file = "availability" THEN availability ELSE content[file]]
TakeBack ==
  /\ job = Idle
  /\ files' = CheckedIn(CHOOSE c \in Compilers : c.version = Version,
                        CHOOSE a \in Availabilities : a.valid)
  /\ UNCHANGED <<stanc, job, exits, faults>>

RefreshInit ==
  /\ stanc \in {c \in Compilers : c.version = Version}
  /\ files = CheckedIn(CHOOSE c \in Compilers : c.version = Version,
                       CHOOSE a \in Availabilities : a.valid)
  /\ job = Idle
  /\ exits = [command \in Commands |-> "none"]
  /\ faults = 0

RefreshNext ==
  \/ \E command \in {"refresh", "check"} : StartRefresh(command)
  \/ StartValidate \/ Validate
  \/ AskVersion \/ DumpSignatures \/ CommandFails \/ Update \/ Finish
  \/ Interrupt \/ InstallCompiler \/ EditAvailability \/ TakeBack
================================================================================
