----------------------------- MODULE Templates -----------------------------
(***************************************************************************)
(* What the chunking templates that regroup a text promise together.       *)
(***************************************************************************)
EXTENDS Markdown, QAPairs, Resume

\* Regrouping a text loses nothing: a resume's groups hold its lines, an
\* answer stands whole under its question, and Markdown keeps its lines,
\* a table's in one atom (worker/resume.go, worker/qa.go, parser/markdown.go).
TemplatesKeepText == ResumeKeepsText /\ PairsAreWhole /\ MarkdownKept
=============================================================================
