---------------------------- MODULE SessionLease ----------------------------
(***************************************************************************)
(* What the session runtime promises about write leases, whatever          *)
(* navigates, forks or exits: a lease of a session is taken only while     *)
(* nobody holds one, the surface moves from one owner to a live spare in   *)
(* one step and leaves the previous owner to be released, and a released   *)
(* lease never comes back.                                                 *)
(***************************************************************************)
CONSTANTS Owner, Session, None

VARIABLES role, of    \* the role of each owner and the session it owns

vars == <<role, of>>

Init ==
  /\ \/ role = [o \in Owner |-> "unborn"] /\ of = [o \in Owner |-> None]
     \/ \E first \in Owner, s \in Session :
          /\ role = [o \in Owner |-> IF o = first THEN "current" ELSE "unborn"]
          /\ of = [o \in Owner |-> IF o = first THEN s ELSE None]

Holds(o) == role[o] \in {"spare", "current", "leaving"}

\* The Host grants the lease of a session nobody holds.
Acquire(o, s) ==
  /\ role[o] = "unborn"
  /\ \A x \in Owner : Holds(x) => of[x] # s
  /\ role' = [role EXCEPT ![o] = "spare"]
  /\ of' = [of EXCEPT ![o] = s]

\* The surface moves to a spare owner; the owner it leaves is on its way out.
Publish(o) ==
  /\ role[o] = "spare"
  /\ role' = [x \in Owner |-> IF x = o THEN "current"
                              ELSE IF role[x] = "current" THEN "leaving"
                              ELSE role[x]]
  /\ UNCHANGED of

\* A spare that is not wanted, or everything at the exit.
Abandon(o) ==
  /\ role[o] \in {"spare", "current"}
  /\ role' = [role EXCEPT ![o] = "leaving"]
  /\ UNCHANGED of

Release(o) ==
  /\ role[o] = "leaving"
  /\ role' = [role EXCEPT ![o] = "gone"]
  /\ UNCHANGED of

Next == \E o \in Owner : \/ \E s \in Session : Acquire(o, s)
                         \/ Publish(o) \/ Abandon(o) \/ Release(o)

Spec == Init /\ [][Next]_vars
============================================================================
