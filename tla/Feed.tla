-------------------------------- MODULE Feed --------------------------------
(***************************************************************************)
(* What a fan-out of snapshots promises its readers: a reader that joins   *)
(* sees every message accepted from then on, in order, with no message     *)
(* skipped or repeated, until it is cut; a cut reader still gets what was  *)
(* queued for it and nothing more.  Messages are numbered in the order in  *)
(* which they are accepted.  The SSE broker and the WebSocket hub are both *)
(* shown to implement it.                                                  *)
(***************************************************************************)
EXTENDS Naturals

CONSTANT Readers

VARIABLES log,     \* how many messages have been accepted
          status,  \* status[r]: "out" (never joined), "in" or "cut"
          pos,     \* pos[r]: the last message r has taken
          end      \* end[r]: the last message queued for r

feedVars == <<log, status, pos, end>>

Init == /\ log = 0
        /\ status = [r \in Readers |-> "out"]
        /\ pos = [r \in Readers |-> 0]
        /\ end = [r \in Readers |-> 0]

Accept == /\ log' = log + 1
          /\ UNCHANGED <<status, pos, end>>

Join(r) == /\ status[r] = "out"
           /\ status' = [status EXCEPT ![r] = "in"]
           /\ pos' = [pos EXCEPT ![r] = log]
           /\ end' = [end EXCEPT ![r] = log]
           /\ UNCHANGED log

Queue(r) == /\ status[r] = "in"
            /\ end[r] < log
            /\ end' = [end EXCEPT ![r] = end[r] + 1]
            /\ UNCHANGED <<log, status, pos>>

Take(r) == /\ pos[r] < end[r]
           /\ pos' = [pos EXCEPT ![r] = pos[r] + 1]
           /\ UNCHANGED <<log, status, end>>

Cut(r) == /\ status[r] = "in"
          /\ status' = [status EXCEPT ![r] = "cut"]
          /\ UNCHANGED <<log, pos, end>>

Next == Accept \/ \E r \in Readers : Join(r) \/ Queue(r) \/ Take(r) \/ Cut(r)

Spec == Init /\ [][Next]_feedVars
=============================================================================
