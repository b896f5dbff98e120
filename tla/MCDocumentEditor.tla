--------------------------- MODULE MCDocumentEditor ---------------------------
(* DocumentEditor on small instances. *)
EXTENDS DocumentEditor

CONSTANTS d1, d2, d3, s1, s2, s3

\* Two documents: d1 of session s1, d3 not yet created; s2 has none.
TwoDocs == {d1, d3}
TwoSessions == {s1, s2}
\* Three documents: d1 of s1, d2 of s2, d3 not yet created; s3 has none.
ThreeDocs == {d1, d2, d3}
ThreeSessions == {s1, s2, s3}
OneEach == [d \in Docs |-> CASE d = d1 -> s1 [] d = d2 -> s2 [] OTHER -> NoSession]
=============================================================================
