---------------------------- MODULE ActiveIndex ----------------------------
(***************************************************************************)
(* What the state directory of codegraph-gateway promises to its readers:  *)
(* one register that names the active index generation, replaced in one    *)
(* step by a later generation, and servers whose identity comparison is    *)
(* decided against the register at a single instant.  IndexStore, which    *)
(* writes a manifest file, a pointer file and reads them back separately,  *)
(* implements this module.                                                 *)
(***************************************************************************)
EXTENDS Naturals

CONSTANTS Servers,      \* serve processes
          Identities,   \* what a manifest is compared on: commit, files, pins
          MaxGen        \* bound on the number of generations

NoIndex == [gen |-> 0]

Index == [gen : 1..MaxGen, id : Identities]

VARIABLES active,    \* the active generation and its identity, or NoIndex
          asked,     \* the identity each server demands
          verdict    \* "none", "asked", "match" or "mismatch", per server

activeVars == <<active, asked, verdict>>

Init ==
  /\ active = NoIndex
  /\ asked \in [Servers -> Identities]
  /\ verdict = [s \in Servers |-> "none"]

\* A finished build becomes the active index; an older one never returns.
Activate ==
  /\ \E index \in Index : index.gen > active.gen /\ active' = index
  /\ UNCHANGED <<asked, verdict>>

Ask(s) ==
  /\ verdict[s] = "none"
  /\ \E id \in Identities : asked' = [asked EXCEPT ![s] = id]
  /\ verdict' = [verdict EXCEPT ![s] = "asked"]
  /\ UNCHANGED active

\* The comparison takes effect at one instant, against the index active then.
Decide(s) ==
  /\ verdict[s] = "asked"
  /\ verdict' = [verdict EXCEPT ![s] =
                   IF active \in Index /\ active.id = asked[s]
                     THEN "match" ELSE "mismatch"]
  /\ UNCHANGED <<active, asked>>

\* A server may give up or stop at any time: only a match lets it use a graph,
\* and no match is ever produced by anything but Decide.
Withdraw(s) ==
  /\ \E id \in Identities : asked' = [asked EXCEPT ![s] = id]
  /\ verdict' = [verdict EXCEPT ![s] = "none"]
  /\ UNCHANGED active

Next == Activate \/ \E s \in Servers : Ask(s) \/ Decide(s) \/ Withdraw(s)

Spec == Init /\ [][Next]_activeVars
=============================================================================
