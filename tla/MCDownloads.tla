---------------------------- MODULE MCDownloads -----------------------------
(* Instances of Downloads for TLC. *)
EXTENDS Downloads

CONSTANTS exe, pak

\* The first chunk holds the executable, the second a part of each file, the
\* third only the archive.
Layout == <<<<exe>>, <<exe, pak>>, <<pak>>>>
=============================================================================
