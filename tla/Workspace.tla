------------------------------ MODULE Workspace -------------------------------
(***************************************************************************)
(* Paths in the workspace of the agent: normalize_path and                 *)
(* resolve_workspace_path of tools.rs, which every tool that takes a path  *)
(* calls, and the write that write_file and a staged run share.            *)
(*                                                                         *)
(* Abstractions: a path is its components; the workspace is an absolute    *)
(* path; there are no links; of a file's content only which writes it is   *)
(* made of is kept.                                                        *)
(***************************************************************************)
EXTENDS Integers, Sequences, SequencesExt

CONSTANTS Root,          \* workspace_root: its components
          Absent         \* the content of a file that is not there

Escapes == <<"escapes">>

\* The component after those before it: ".." at the root stays there.
Step(path, component) ==
    CASE component = "."  -> path
      [] component = ".." -> IF path = << >> THEN path ELSE Front(path)
      [] OTHER            -> Append(path, component)

Normalize(components) == FoldLeft(Step, << >>, components)

\* Mutant: a relative path is taken as it is.
ResolveUnchecked(request) ==
    Normalize(IF request.absolute THEN request.parts ELSE Root \o request.parts)

\* The requested path, when it is inside the workspace.
Resolve(request) ==
    LET candidate == Normalize(IF request.absolute THEN request.parts
                               ELSE Root \o request.parts)
    IN  IF IsPrefix(Root, candidate) THEN candidate ELSE Escapes

\* What a file holds after the write.
Written(old, append, text) ==
    IF append /\ old # Absent THEN Append(old, text) ELSE <<text>>
=============================================================================
