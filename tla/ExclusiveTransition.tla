------------------------ MODULE ExclusiveTransition ------------------------
(***************************************************************************)
(* What the admission layer of a live session promises, without saying    *)
(* how: whole-session transitions (create, resume, fork, switch, exit)    *)
(* enter one at a time and in the order they were asked for, and never     *)
(* while an ordinary write (prompt, steer, Host command, model selection)  *)
(* is in progress.  A write may start whenever no transition is inside.    *)
(* SessionAdmission implements this with the FIFO gate and the barrier.    *)
(***************************************************************************)
EXTENDS Sequences

CONSTANTS Task,    \* callers that can ask for a transition
          Writer   \* callers that can ask for an ordinary session write

VARIABLES line,    \* transitions asked for and not yet settled, oldest first
          inside,  \* the transitions whose body is running
          writing  \* the writes whose body is running

vars == <<line, inside, writing>>

Init == /\ line = <<>>
        /\ inside = {}
        /\ writing = {}

Join(t) == /\ \A i \in DOMAIN line : line[i] # t
           /\ line' = Append(line, t)
           /\ UNCHANGED <<inside, writing>>

Enter(t) == /\ line # <<>>
            /\ t = Head(line)
            /\ inside = {}
            /\ writing = {}
            /\ inside' = {t}
            /\ UNCHANGED <<line, writing>>

Exit(t) == /\ t \in inside
           /\ inside' = inside \ {t}
           /\ UNCHANGED <<line, writing>>

Settle(t) == /\ line # <<>>
             /\ t = Head(line)
             /\ t \notin inside
             /\ line' = Tail(line)
             /\ UNCHANGED <<inside, writing>>

StartWrite(w) == /\ inside = {}
                 /\ w \notin writing
                 /\ writing' = writing \union {w}
                 /\ UNCHANGED <<line, inside>>

EndWrite(w) == /\ w \in writing
               /\ writing' = writing \ {w}
               /\ UNCHANGED <<line, inside>>

Next == \/ \E t \in Task : Join(t) \/ Enter(t) \/ Exit(t) \/ Settle(t)
        \/ \E w \in Writer : StartWrite(w) \/ EndWrite(w)

Spec == Init /\ [][Next]_vars
============================================================================
