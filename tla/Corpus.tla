--------------------------------- MODULE Corpus --------------------------------
(***************************************************************************)
(* xtask corpus: fetching the pinned archive of models, and checking the   *)
(* analysis and the formatter against the models on disk. Fetching is a    *)
(* sequence of commands, each of which may fail half way; what they leave  *)
(* under target/corpus is what a later check finds.                        *)
(***************************************************************************)
EXTENDS Refresh

CONSTANTS
  Pins,       \* revisions the manifest may pin
  Parts,      \* the models of an archive
  Smoke,      \* the models of the checked-in corpus
  Behaviour   \* of a model: how the language crate and stanc take it

VARIABLES
  pin,        \* corpus/manifest.toml
  cache,      \* the directory target/corpus exists
  archive,    \* external.tar.gz: a revision, "part" of one, or "none"
  external    \* [exists, models]: the unpacked archive

corpusVars == <<pin, cache, archive, external>>

Absent == [exists |-> FALSE, models |-> {}]
ModelsOf(revision) == {revision} \X Parts

StartFetch ==
  Run("fetch", [pc |-> "prepare", command |-> "fetch"]) /\ UNCHANGED <<files, stanc, corpusVars>>

(* create_dir_all, then curl: the archive is written as it arrives; the host *)
(* may serve another revision's under the address.                           *)
Download ==
  /\ job.pc = "prepare"
  /\ cache' = TRUE
  /\ \/ /\ archive' \in Pins
        /\ Proceed([job EXCEPT !.pc = "checksum"])
     \/ archive' \in {archive, "part"} /\ Fault
  /\ UNCHANGED <<files, stanc, pin, external>>
CompareChecksum ==
  /\ job.pc = "checksum"
  /\ \/ archive = pin /\ Proceed([job EXCEPT !.pc = "clear"])
     \/ archive # pin /\ Exit("failed")
     \/ Fault     \* no tool computes a digest
  /\ UNCHANGED <<files, stanc, corpusVars>>

(* A mutant: the directory of the last fetch is unpacked over. *)
KeepExternal ==
  /\ job.pc = "clear"
  /\ external' = [external EXCEPT !.exists = TRUE]
  /\ Proceed([job EXCEPT !.pc = "unpack"])
  /\ UNCHANGED <<files, stanc, pin, cache, archive>>

ClearExternal ==
  /\ job.pc = "clear"
  /\ \/ /\ external' = [exists |-> TRUE, models |-> {}]
        /\ Proceed([job EXCEPT !.pc = "unpack"])
     \/ /\ external.exists
        /\ \E left \in SUBSET external.models : external' = [external EXCEPT !.models = left]
        /\ Fault
     \/ external' = Absent /\ Fault    \* it cannot be created again
  /\ UNCHANGED <<files, stanc, pin, cache, archive>>
Unpack ==
  /\ job.pc = "unpack"
  /\ \/ /\ external' = [external EXCEPT !.models = @ \cup ModelsOf(archive)]
        /\ Exit("ok")
     \/ /\ \E some \in SUBSET ModelsOf(archive) \ {ModelsOf(archive)} :
             external' = [external EXCEPT !.models = @ \cup some]
        /\ Fault
  /\ UNCHANGED <<files, stanc, pin, cache, archive>>

-----------------------------------------------------------------------------
(* check_corpus: a model is analyzed and formatted; with a compiler that     *)
(* accepts it, local errors count and the formatted text is compiled too,    *)
(* from a file under target/corpus, which nothing creates here.              *)
Failures(model, compiles) ==
  LET b == Behaviour[model] IN
  IF "analysis panics" \in b THEN {"analysis panics"}
  ELSE (b \cap {"ranges are wrong", "semantics are wrong", "formatter panics"})
       \cup (IF b \cap {"formatter panics", "formatter refuses"} = {}
             THEN b \cap {"formatter wavers"} ELSE {})
       \cup (IF compiles /\ "accepted" \in b THEN b \cap {"local errors"} ELSE {})
       \cup (IF compiles /\ "accepted" \in b /\
                b \cap {"formatter panics", "formatter refuses"} = {}
             THEN b \cap {"formatted rejected"} ELSE {})
WritesFormatted(model) ==
  /\ "accepted" \in Behaviour[model]
  /\ Behaviour[model] \cap {"analysis panics", "formatter panics", "formatter refuses"} = {}

(* The gate; a formatter that refuses a model does not count. *)
Passes(models, compiles) == \A model \in models : Failures(model, compiles) = {}

Checked(withExternal) == Smoke \cup (IF withExternal THEN external.models ELSE {})

StartCheck ==
  /\ \E withExternal, compiles \in BOOLEAN :
       Run("corpus", [pc |-> "corpus", command |-> "corpus",
                      external |-> withExternal, compiles |-> compiles])
  /\ UNCHANGED <<files, stanc, corpusVars>>
CheckCorpus ==
  /\ job.pc = "corpus"
  /\ LET models == Checked(job.external)
         stuck == \/ job.external /\ ~external.exists
                  \/ job.compiles /\ ~cache /\ \E model \in models : WritesFormatted(model)
     IN \/ ~stuck /\ Proceed([pc |-> "report", command |-> "corpus", external |-> job.external,
                             compiles |-> job.compiles, models |-> models])
        \/ stuck /\ Exit("failed")
        \/ Fault    \* a model cannot be read, or formatted.stan not be written
  /\ UNCHANGED <<files, stanc, corpusVars>>
ReportCorpus ==
  /\ job.pc = "report"
  /\ \/ Exit(IF Passes(job.models, job.compiles) THEN "ok" ELSE "failed")
     \/ Fault    \* the report cannot be written
  /\ UNCHANGED <<files, stanc, corpusVars>>

(* The maintainer pins another revision, or cleans target. *)
Repin ==
  /\ job = Idle
  /\ pin' \in Pins \ {pin}
  /\ exits' = [exits EXCEPT !["fetch"] = "none"]
  /\ UNCHANGED <<files, stanc, job, faults, cache, archive, external>>
Clean ==
  /\ job = Idle
  /\ cache' = FALSE /\ archive' = "none" /\ external' = Absent
  /\ exits' = [exits EXCEPT !["fetch"] = "none"]
  /\ UNCHANGED <<files, stanc, job, faults, pin>>

CorpusInit ==
  /\ pin \in Pins
  /\ cache = FALSE /\ archive = "none" /\ external = Absent

CorpusNext ==
  \/ StartFetch \/ Download \/ CompareChecksum \/ ClearExternal \/ Unpack
  \/ StartCheck \/ CheckCorpus \/ ReportCorpus \/ Repin \/ Clean
================================================================================
