---------------------------- MODULE MCSessionNav ----------------------------
(* Instances of SessionNav for model checking.                             *)
EXTENDS SessionNav

CONSTANTS a, t, x, f1, f2

TwoActive == {a, t}
TasksChat == {t}
OneArchived == {x}
NoneArchived == {}
TwoFresh == {f1, f2}

\* The new identifiers are alike: the first one given to a chat is f1
InOrder == LET ids == {m.id : m \in made'} IN f2 \in ids => f1 \in ids
=============================================================================
