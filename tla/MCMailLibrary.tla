---------------------------- MODULE MCMailLibrary ----------------------------
(* Instances of MailLibrary for model checking.                            *)
EXTENDS MailLibrary, TLC

CONSTANTS a, b, inbox, work, u1, u2

\* Two accounts, of which one has a folder the other has not.
TwoAccounts == {a, b}
TwoFolders == {inbox, work}
WorkOfA == {<<a, inbox>>, <<a, work>>, <<b, inbox>>}
WorkHere == <<a, work>>
InboxOnly == {inbox}

\* Two messages of a mailbox are alike
TwoUids == {u1, u2}
UidSymmetry == Permutations(TwoUids)
=============================================================================
