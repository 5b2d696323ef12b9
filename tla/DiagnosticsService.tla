-------------------------- MODULE DiagnosticsService --------------------------
(***************************************************************************)
(* What the language server promises the editor, whatever runs inside it:  *)
(* the documents move from revision to newer revision, and a publication   *)
(* shows the revision that is stored at that moment, or nothing for a      *)
(* closed document.                                                        *)
(***************************************************************************)
EXTENDS DocumentStore

VARIABLES
  documents,   \* the store
  shown        \* the revision whose diagnostics the editor shows, if any

vars == <<documents, shown>>

Init == documents = EmptyStore /\ shown = EmptyStore

Revise(u, doc) ==
  /\ doc.version > documents[u].version
  /\ documents' = Open(documents, u, doc)
  /\ UNCHANGED shown

Withdraw(u) == documents' = Close(documents, u) /\ UNCHANGED shown

Refresh(u) == shown' = [shown EXCEPT ![u] = documents[u]] /\ UNCHANGED documents

Next == \E u \in Uris :
  (\E doc \in Document : Revise(u, doc)) \/ Withdraw(u) \/ Refresh(u)

Spec == Init /\ [][Next]_vars
=============================================================================
