---------------------------- MODULE MCChatClient ----------------------------
(* Instances of ChatClient for model checking.                             *)
EXTENDS ChatClient

CONSTANTS a, b

TwoChats == {a, b}

\* The chats are alike: the one that is open at first is a
MCInit == Init /\ cl.current = a
MCSpec == MCInit /\ [][Next]_vars /\ Fairness
=============================================================================
