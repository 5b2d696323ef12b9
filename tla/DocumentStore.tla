---------------------------- MODULE DocumentStore ----------------------------
(***************************************************************************)
(* The URI-keyed store of open documents of                                *)
(* crates/stan-language-server/src/document.rs, as operators on the value  *)
(* of the HashMap.  A document is the pair of its accepted client version  *)
(* and its text; its line index and its analysis are functions of the text *)
(* and are not kept.  An URI that is not a key maps to NoDocument, whose   *)
(* version is 0.                                                           *)
(***************************************************************************)
EXTENDS Naturals, Sources

CONSTANTS
  Uris,        \* document URIs
  MaxVersion   \* bound on the client's version numbers (an i32 in the code)

ASSUME VersionAssumption == MaxVersion \in Nat \ {0}

Versions   == 1 .. MaxVersion
Document   == [version : Versions, text : Texts]
NoDocument == [version |-> 0, text |-> NoText]
Store      == [Uris -> Document \cup {NoDocument}]
EmptyStore == [u \in Uris |-> NoDocument]

NewDocument(v, t) == [version |-> v, text |-> t]

IsOpen(store, u) == store[u] # NoDocument

(* open: inserts or replaces, whatever the version. *)
Open(store, u, doc) == [store EXCEPT ![u] = doc]

(* A bug: a change is accepted whatever its version. *)
AcceptsAnyVersion(store, u, v) == IsOpen(store, u)

(* A bug: the change that follows at once is taken for a duplicate. *)
AcceptsWithGap(store, u, v) == IsOpen(store, u) /\ v > store[u].version + 1

(* The guard of replace: the document is open and the version is newer. *)
Accepts(store, u, v) == IsOpen(store, u) /\ v > store[u].version

Replace(store, u, v, t) == [store EXCEPT ![u] = NewDocument(v, t)]

(* A bug: the version outlives the document. *)
CloseKeepsVersion(store, u) == [store EXCEPT ![u].text = NoText]

Close(store, u) == [store EXCEPT ![u] = NoDocument]
=============================================================================
