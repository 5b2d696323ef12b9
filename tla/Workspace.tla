------------------------------ MODULE Workspace ------------------------------
(***************************************************************************)
(* The folder index of crates/stan-language-server/src/workspace.rs, as    *)
(* operators on a value [overlays, files] and on the state of the disk.    *)
(*                                                                         *)
(* Paths are the spellings the program meets.  Target[p] is the file that  *)
(* spelling names once symbolic links are followed, and a file exists when *)
(* disk[Target[p]] is a text.  A text is known by the include requests it  *)
(* holds; a configuration is read for its include paths alone.             *)
(***************************************************************************)
EXTENDS Naturals, Sequences, Sources

CONSTANTS
  Paths,         \* spellings of .stan paths
  Target,        \* [Paths -> Paths], where the links of a path lead
  Scanned,       \* the paths a walk of the workspace roots can list
  Bases,         \* directories an include is resolved against
  Parent,        \* [Paths -> Bases], the directory of a path
  Requests,      \* spellings after #include
  EmptyRequest,  \* the directive with no path
  Locate,        \* [Bases -> [Requests -> Paths]], base.join(requested)
  Includes       \* [Texts -> SUBSET Requests], the directives of a text

ASSUME WorkspaceAssumption ==
  /\ Target \in [Paths -> Paths]
  /\ \A p \in Paths : Target[Target[p]] = Target[p]
  /\ Scanned \subseteq Paths
  /\ Parent \in [Paths -> Bases]
  /\ Locate \in [Bases -> [Requests -> Paths]]
  /\ Includes \in [Texts -> SUBSET Requests]

Disk       == [Paths -> MaybeText]
Entry      == [text : Texts, dependencies : SUBSET Paths]
NoEntry    == [text |-> NoText, dependencies |-> {}]
Workspaces == [overlays : [Paths -> MaybeText],
               files    : [Paths -> Entry \cup {NoEntry}]]

-----------------------------------------------------------------------------
(* The file system as the program sees it. *)

IsFile(disk, p)   == disk[Target[p]] # NoText
ReadFile(disk, p) == disk[Target[p]]

(* path.canonicalize().unwrap_or(path): it fails on a missing file. *)
Canonical(disk, p) == IF IsFile(disk, p) THEN Target[p] ELSE p

-----------------------------------------------------------------------------
(* Include resolution. *)

(* The directories tried in order: the including file's, then the           *)
(* configured include paths.                                                *)
SearchBases(path, config) == <<Parent[path]>> \o config.includePaths

Candidate(path, config, request, i) == Locate[SearchBases(path, config)[i]][request]

(* The places of the search list that hold the requested file. *)
Hits(disk, path, config, request) ==
  {i \in DOMAIN SearchBases(path, config) :
      IsFile(disk, Candidate(path, config, request, i))}

Resolves(disk, path, config, request) ==
  request # EmptyRequest /\ Hits(disk, path, config, request) # {}

(* resolve_path: the first candidate that is a file, canonical. *)
ResolvePath(disk, path, config, request) ==
  LET hits  == Hits(disk, path, config, request)
      first == CHOOSE i \in hits : \A j \in hits : i <= j
  IN  Target[Candidate(path, config, request, first)]

Dependencies(disk, path, text, config) ==
  {ResolvePath(disk, path, config, r) :
      r \in {q \in Includes[text] : Resolves(disk, path, config, q)}}

(* The requests that get a workspace.missing-include or                     *)
(* workspace.invalid-include diagnostic.                                    *)
Unresolved(disk, path, text, config) ==
  {r \in Includes[text] : ~Resolves(disk, path, config, r)}

-----------------------------------------------------------------------------
(* The operations of Workspace. *)

IndexEntry(disk, path, text, config) ==
  [text |-> text, dependencies |-> Dependencies(disk, path, text, config)]

SetOverlay(ws, disk, path, text, config) ==
  LET p == Canonical(disk, path)
  IN  [overlays |-> [ws.overlays EXCEPT ![p] = text],
       files    |-> [ws.files EXCEPT ![p] = IndexEntry(disk, p, text, config)]]

ClearOverlay(ws, disk, path, config) ==
  LET p == Canonical(disk, path)
  IN  [overlays |-> [ws.overlays EXCEPT ![p] = NoText],
       files    |-> [ws.files EXCEPT ![p] =
                       IF IsFile(disk, p)
                       THEN IndexEntry(disk, p, ReadFile(disk, p), config)
                       ELSE NoEntry]]

(* scan_directory lists a path when the file or a link to it is there, and  *)
(* prefers the overlay stored under that very spelling.                     *)
Listed(disk, p) == p \in Scanned /\ (Target[p] # p \/ disk[p] # NoText)

ScannedText(ws, disk, p) ==
  IF ws.overlays[p] # NoText THEN ws.overlays[p] ELSE ReadFile(disk, p)

Reindex(ws, disk, config) ==
  [ws EXCEPT !.files =
     [p \in Paths |->
        IF Listed(disk, p) /\ ScannedText(ws, disk, p) # NoText
        THEN IndexEntry(disk, p, ScannedText(ws, disk, p), config)
        ELSE NoEntry]]

EmptyWorkspace == [overlays |-> [p \in Paths |-> NoText],
                   files    |-> [p \in Paths |-> NoEntry]]
=============================================================================
