------------------------------- MODULE Sources -------------------------------
(***************************************************************************)
(* Stan source texts.  The modules of this project tell texts apart and    *)
(* look at nothing inside them but their include directives (Workspace).   *)
(***************************************************************************)
CONSTANTS
  Texts,   \* complete source texts
  NoText   \* no text: a closed document, a missing file, a path not indexed

ASSUME TextsAssumption == NoText \notin Texts

MaybeText == Texts \cup {NoText}
=============================================================================
