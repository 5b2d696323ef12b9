--------------------------------- MODULE Xtask ---------------------------------
(***************************************************************************)
(* The maintenance commands together: one runs at a time, each built from  *)
(* the catalog files another may have left half written.                   *)
(***************************************************************************)
EXTENDS Corpus

vars == <<refreshVars, corpusVars>>

Init == RefreshInit /\ CorpusInit
Next ==
  \/ RefreshNext /\ UNCHANGED corpusVars
  \/ CorpusNext
Spec == Init /\ [][Next]_vars

-----------------------------------------------------------------------------
(* The overloads of a function in the form stanc dumps them *)
Displayed(entry) ==
  [n \in DOMAIN entry.concrete |-> DisplaySignature(entry.concrete[n])]
Normalized(name) ==
  {name} \cup (IF name.suffix = "_lupdf" THEN {[name EXCEPT !.suffix = "_lpdf"]}
               ELSE IF name.suffix = "_lupmf" THEN {[name EXCEPT !.suffix = "_lpmf"]} ELSE {})
Dumped(dump, name) == {line.text : line \in {l \in dump : l.name \in Normalized(name)}}

HoldsTheDump(catalog, kinds, dump) ==
  /\ \A line \in dump : line.name \in DOMAIN catalog
  /\ \A name \in DOMAIN catalog :
       LET displayed == Displayed(catalog[name])
       IN ToSet(displayed) = Dumped(dump, name) /\ IsInjective(displayed)
  /\ \A base \in DOMAIN kinds :
       kinds[base] = "Discrete" <=> [base |-> base, suffix |-> "_lpmf"] \in DOMAIN catalog

(* When a refresh, or a check that finds no drift, comes to its end, then,   *)
(* whatever was on disk before it, the crates build, the embedded catalog    *)
(* parses and validates, and what it displays of a function is what the      *)
(* compiler dumps of it, each overload once; an unnormalized function has    *)
(* the overloads of its density or mass function.                            *)
RefreshedIsDumped ==
  job.pc = "done" =>
    /\ Builds
    /\ Loaded(EmbeddedCatalog, LAMBDA catalog :
         HasOverloads(catalog)
         /\ HoldsTheDump(catalog, files.distributions.kinds, stanc.dump))

(* refresh-stan --check writes nothing, and says that nothing drifted only   *)
(* when a refresh with the same compiler would leave every file as it is,    *)
(* though it looks at one file after the other.                              *)
ChecksOnlyCompare ==
  [][job # Idle /\ job.command = "check" =>
       /\ files' = files
       /\ exits'["check"] = "ok" =>
            LET content == Content(stanc.dump, files.availability)
            IN \A target \in DOMAIN content : files[target] = content[target]]_vars

(* A gate over the external corpus that passes, when the last fetch since    *)
(* the manifest was changed succeeded, has tried every pinned model and no   *)
(* model of another revision, whatever earlier fetches left behind, and the  *)
(* language crate panicked in none.                                          *)
PassedGatesTriedThePin ==
  [][/\ job # Idle /\ job.command = "corpus"
     /\ exits'["corpus"] = "ok" /\ job.external /\ exits["fetch"] = "ok"
     => /\ job.models = Smoke \cup ModelsOf(pin)
        /\ \A model \in job.models :
             Behaviour[model] \cap {"analysis panics", "formatter panics"} = {}]_vars
================================================================================
