------------------------------ MODULE ReplayLog ------------------------------
(***************************************************************************)
(* What a subscription promises (docstring of subscribe() in               *)
(* src/agent_runs.py), without queues, sentinels, heartbeats or timers: a  *)
(* run is a log that only grows; a reader reads it from its first event,   *)
(* one event after the other; a response ends by itself only when its run  *)
(* has ended and everything the log holds then has been read.              *)
(***************************************************************************)
EXTENDS Naturals

CONSTANTS Logs, Readers

VARIABLES size,      \* events in each log
          sealed,    \* the log will not grow any more
          ended,     \* the run has ended: its readers may be let go
          reading,   \* the log each reader follows
          position,  \* events the reader's response has delivered
          mode       \* away, reading, or complete: the response ended by itself

logVars == <<size, sealed, ended>>
vars == <<logVars, reading, position, mode>>

Init ==
  /\ size = [l \in Logs |-> 0]
  /\ sealed = [l \in Logs |-> FALSE]
  /\ ended = [l \in Logs |-> FALSE]
  /\ reading \in [Readers -> Logs \cup {0}]
  /\ position = [r \in Readers |-> 0]
  /\ mode = [r \in Readers |-> "away"]

\* A log that is not sealed grows, ends or is sealed; a sealed one is over.
Advance(l) ==
  /\ ~sealed[l]
  /\ \A k \in Logs \ {l} :
       size'[k] = size[k] /\ sealed'[k] = sealed[k] /\ ended'[k] = ended[k]
  /\ size'[l] >= size[l]
  /\ ended[l] => ended'[l]
  /\ sealed'[l] => ended'[l]

\* A reader that is not reading may turn to another log.
Turn ==
  /\ \A r \in Readers :
       \/ mode'[r] = mode[r] /\ (mode[r] # "away" => reading'[r] = reading[r])
       \/ mode[r] = "complete" /\ mode'[r] = "away"
  /\ UNCHANGED position

Open(r) ==
  /\ mode[r] = "away"
  /\ mode' = [mode EXCEPT ![r] = "reading"]
  /\ position' = [position EXCEPT ![r] = 0]
  /\ UNCHANGED <<logVars, reading>>

Read(r) ==
  /\ mode[r] = "reading"
  /\ position[r] < size[reading[r]]
  /\ position' = [position EXCEPT ![r] = @ + 1]
  /\ UNCHANGED <<logVars, reading, mode>>

Complete(r) ==
  /\ mode[r] = "reading"
  /\ ended[reading[r]]
  /\ position[r] = size[reading[r]]
  /\ mode' = [mode EXCEPT ![r] = "complete"]
  /\ UNCHANGED <<logVars, reading, position>>

GoAway(r) ==
  /\ mode[r] = "reading"
  /\ mode' = [mode EXCEPT ![r] = "away"]
  /\ UNCHANGED <<logVars, reading, position>>

Next ==
  \/ (\E l \in Logs : Advance(l)) /\ Turn
  \/ UNCHANGED logVars /\ Turn
  \/ \E r \in Readers : Open(r) \/ Read(r) \/ Complete(r) \/ GoAway(r)

Spec == Init /\ [][Next]_vars
=============================================================================
