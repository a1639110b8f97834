------------------------------- MODULE Workers -------------------------------
(***************************************************************************)
(* What a group of polling goroutines promises whoever stops it: they are  *)
(* launched in any order and at any time, each fetches again and again,    *)
(* none leaves unless told to, one that has left is never seen again, and  *)
(* a Stop that was asked for answers only at a moment at which none of     *)
(* them is at work.  The sync manager, with its WaitGroup, and the part of *)
(* it that Lifecycle keeps are both shown to implement it.                 *)
(***************************************************************************)
CONSTANTS Worker,   \* the polling goroutines
          Callers   \* the goroutines that may call Stop

VARIABLES work,  \* work[w]: "off", "busy" (fetching), "ready" (waiting), "gone"
          told,  \* the workers have been told to leave
          call   \* call[c]: "none", "called" or "answered"

workVars == <<work, told, call>>

Init == /\ work = [w \in Worker |-> "off"]
        /\ told = FALSE
        /\ call = [c \in Callers |-> "none"]

Launch(group) == /\ \A w \in group : work[w] = "off"
                 /\ work' = [w \in Worker |-> IF w \in group THEN "busy" ELSE work[w]]
                 /\ UNCHANGED <<told, call>>

Fetched(w) == /\ work[w] = "busy"
              /\ work' = [work EXCEPT ![w] = "ready"]
              /\ UNCHANGED <<told, call>>

Fetch(w) == /\ work[w] = "ready"
            /\ work' = [work EXCEPT ![w] = "busy"]
            /\ UNCHANGED <<told, call>>

Leave(w) == /\ told
            /\ work[w] = "ready"
            /\ work' = [work EXCEPT ![w] = "gone"]
            /\ UNCHANGED <<told, call>>

\* The context that the workers share is cancelled.
Tell == told' = TRUE /\ UNCHANGED <<work, call>>

Ask(c) == /\ call[c] = "none"
          /\ call' = [call EXCEPT ![c] = "called"]
          /\ told' = TRUE
          /\ UNCHANGED work

AtWork == {w \in Worker : work[w] \in {"busy", "ready"}}

Answer(c) == /\ call[c] = "called"
             /\ AtWork = {}
             /\ call' = [call EXCEPT ![c] = "answered"]
             /\ UNCHANGED <<work, told>>

Next == \/ \E group \in SUBSET Worker : Launch(group)
        \/ \E w \in Worker : Fetched(w) \/ Fetch(w) \/ Leave(w)
        \/ Tell
        \/ \E c \in Callers : Ask(c) \/ Answer(c)

Spec == Init /\ [][Next]_workVars
=============================================================================
