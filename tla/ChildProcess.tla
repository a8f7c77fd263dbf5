---------------------------- MODULE ChildProcess ----------------------------
(***************************************************************************)
(* RunChildCommand and CBMBackend.Close: how the gateway waits for a       *)
(* backend process and tears its process tree down on a Unix system.       *)
(*                                                                         *)
(* The child leads a process group of its own and writes to pipes that the *)
(* gateway copies from, even when it discards what it copies.  The child   *)
(* and its descendants start further processes, each in the group or, after*)
(* setsid, out of it, and each holding the write end of a pipe or not.     *)
(* Wait returns when the child has exited and nobody holds a pipe any more.*)
(***************************************************************************)
EXTENDS Naturals

CONSTANTS
  Descendants,    \* processes that the child and its descendants may start
  Deadline        \* can the caller's context end?

VARIABLES
  pc,         \* "start", "select", "teardown", "drain" or "returned"
  child,      \* the direct child: "none", "running", "exited" or "killed"
  expired,    \* the caller's context has ended
  waited,     \* Wait has returned, its result is in the channel
  fresh,      \* descendants not started yet
  alive,      \* descendants running
  grouped,    \* descendants that stay in the child's process group and that
              \* the gateway may signal (a set-user-ID program may not be)
  holding     \* descendants that inherited the write end of a pipe

vars == <<pc, child, expired, waited, fresh, alive, grouped, holding>>

tree == <<fresh, alive, grouped, holding>>

Init ==
  /\ pc \in {"start", "close"}
  /\ child = IF pc = "close" THEN "running" ELSE "none"
  /\ expired = FALSE
  /\ waited = FALSE
  /\ fresh = Descendants
  /\ alive = {} /\ grouped = {} /\ holding = {}

-----------------------------------------------------------------------------
(* The gateway.  Close of a running backend enters at "close".             *)

Start ==
  /\ pc = "start"
  /\ \/ child' = "running" /\ pc' = "select"
     \/ child' = "none" /\ pc' = "returned"
  /\ UNCHANGED <<expired, waited, tree>>

\* The goroutine that calls Wait, or Wait at the end of Close.
Drained == child \in {"exited", "killed"} /\ alive \cap holding = {}

Wait ==
  /\ pc \in {"select", "drain"} /\ ~waited
  /\ Drained
  /\ waited' = TRUE
  /\ UNCHANGED <<pc, child, expired, tree>>

\* Faulty variant of Terminate: the direct child alone is killed.
KillsChildOnly ==
  /\ child' = IF child = "running" THEN "killed" ELSE child
  /\ UNCHANGED <<fresh, alive, grouped, holding>>

\* kill(-pid): every process that is in the group at that moment, and the
\* child if it still runs; none of them can start another one.  kill returns an
\* error only if it could signal nobody: the state is then the same, and the
\* error is passed over or returned where the command returns anyway.
Terminate ==
  /\ child' = IF child = "running" THEN "killed" ELSE child
  /\ alive' = alive \ grouped
  /\ UNCHANGED <<fresh, grouped, holding>>

\* The select statement: either ready channel may be taken.
SelectDone ==
  /\ pc = "select" /\ waited
  /\ pc' = "teardown"
  /\ UNCHANGED <<child, expired, waited, tree>>

\* Faulty variant of SelectExpired: it waits before it kills.
DrainsFirst ==
  /\ pc = "select" /\ expired
  /\ pc' = "drain"
  /\ UNCHANGED <<child, expired, waited, tree>>

SelectExpired ==
  /\ pc = "select" /\ expired
  /\ Terminate
  /\ pc' = "drain"
  /\ UNCHANGED <<expired, waited>>

Teardown ==
  /\ pc = "teardown"
  /\ Terminate
  /\ pc' = "returned"
  /\ UNCHANGED <<expired, waited>>

\* Close closes the child's input, kills the group and then waits.
Close ==
  /\ pc = "close"
  /\ Terminate
  /\ pc' = "drain"
  /\ UNCHANGED <<expired, waited>>

Drain ==
  /\ pc = "drain" /\ waited
  /\ pc' = "returned"
  /\ UNCHANGED <<child, expired, waited, tree>>

Gateway == Start \/ Wait \/ SelectDone \/ SelectExpired \/ Teardown \/ Close \/ Drain

Expire ==
  /\ Deadline /\ pc = "select" /\ ~expired
  /\ expired' = TRUE
  /\ UNCHANGED <<pc, child, waited, tree>>

-----------------------------------------------------------------------------
(* The child and its descendants.                                          *)

Exit ==
  /\ child = "running"
  /\ child' = "exited"
  /\ UNCHANGED <<pc, expired, waited, tree>>

\* A process inherits the group and the pipes of the one that starts it, if it
\* does not leave or close them.
Spawn(d, inGroup, holds) ==
  /\ d \in fresh
  /\ \/ child = "running"
     \/ \E parent \in alive : /\ inGroup => parent \in grouped
                              /\ holds => parent \in holding
  /\ fresh' = fresh \ {d}
  /\ alive' = alive \cup {d}
  /\ grouped' = IF inGroup THEN grouped \cup {d} ELSE grouped
  /\ holding' = IF holds THEN holding \cup {d} ELSE holding
  /\ UNCHANGED <<pc, child, expired, waited>>

End(d) ==
  /\ d \in alive
  /\ alive' = alive \ {d}
  /\ UNCHANGED <<pc, child, expired, waited, fresh, grouped, holding>>

Next ==
  \/ Gateway
  \/ Expire \/ Exit
  \/ \E d \in Descendants : End(d) \/ \E inGroup, holds \in BOOLEAN : Spawn(d, inGroup, holds)

Spec == Init /\ [][Next]_vars

\* The gateway's goroutines run, and a context with a deadline ends.  The child
\* and its descendants owe nothing: they may run for ever.
FairSpec == Spec /\ WF_vars(Gateway) /\ WF_vars(Expire)

-----------------------------------------------------------------------------
TypeOK ==
  /\ pc \in {"start", "select", "teardown", "close", "drain", "returned"}
  /\ child \in {"none", "running", "exited", "killed"}
  /\ expired \in BOOLEAN /\ waited \in BOOLEAN
  /\ fresh \subseteq Descendants /\ alive \subseteq Descendants \ fresh
  /\ grouped \subseteq Descendants \ fresh /\ holding \subseteq Descendants \ fresh

\* When RunChildCommand or Close has returned, the child has ended and no member
\* of its process group that may be signalled runs, although the group may have
\* grown until the kill.
GroupTornDown ==
  pc = "returned" => child # "running" /\ alive \cap grouped = {}

\* A command whose context ends is returned from, unless a descendant that left
\* the process group keeps a pipe open.
ReturnsUnlessEscaped ==
  pc # "returned" ~> pc = "returned" \/ alive \cap (holding \ grouped) # {}

\* After the direct child has exited its process group is torn down, "including
\* descendants left after the direct child exits".
DescendantsTornDown == child = "exited" ~> alive \cap grouped = {}

=============================================================================
