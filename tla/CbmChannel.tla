----------------------------- MODULE CbmChannel -----------------------------
(***************************************************************************)
(* CBMBackend: the JSON-RPC conversation of one serve process with the     *)
(* Codebase-Memory child it started.  Requests are lines on the child's    *)
(* standard input, all with id 1; answers are lines on its standard output,*)
(* read through a buffer of one mebibyte and taken in order.  A mutex      *)
(* serializes the callers.  Nothing but that order ties an answer to the   *)
(* request it answers.                                                     *)
(*                                                                         *)
(* A line is what ReadSlice can make of it: a reply that fits the buffer,  *)
(* the pieces of one that does not, or a line the child sent unasked.      *)
(***************************************************************************)
EXTENDS Naturals, Sequences

CONSTANTS
  Callers,      \* goroutines that call tools
  Starter,      \* the goroutine that runs StartCBM
  Cancellable,  \* may a caller's context be cancelled?
  MaxCalls,     \* bound on the requests, initialize included
  MaxStray,     \* bound on the long replies and unasked lines
  None

Clients == Callers \cup {Starter}

VARIABLES
  pc,       \* where each client is
  mutex,    \* holder of CBMBackend.mu
  calls,    \* requests begun so far; each request is its number
  mine,     \* the last request each client began
  result,   \* what the last rpc of each client returned
  stdin,    \* lines the child has not read: request numbers, 0 a notification
  stdout,   \* lines the gateway has not read
  strays,   \* long replies and unasked lines so far
  child,    \* "running" or "gone"
  held,     \* a process that the child started has its ends of the pipes
  closed    \* Close has run

vars == <<pc, mutex, calls, mine, result, stdin, stdout, strays, child, held,
          closed>>

pipes == <<stdin, stdout, strays, child, held>>

-----------------------------------------------------------------------------
\* One line, or buffer-sized piece of a line, on the child's output.
Line == [part : {"reply", "head", "tail", "unasked"}, of : 0..MaxCalls]

\* An rpc that returned a reply names the request that the reply was sent for.
Result == [kind : {"none", "failed", "reply"}, of : 0..MaxCalls]

NoResult == [kind |-> "none", of |-> 0]

Failed == [kind |-> "failed", of |-> 0]

ASSUME ChannelAssumption ==
  /\ Starter \notin Callers
  /\ None \notin Clients
  /\ Cancellable \in BOOLEAN
  /\ MaxCalls \in Nat \ {0} /\ MaxStray \in Nat

Init ==
  /\ pc = [c \in Clients |-> IF c = Starter THEN "lock" ELSE "waiting"]
  /\ mutex = None
  /\ calls = 1
  /\ mine = [c \in Clients |-> IF c = Starter THEN 1 ELSE 0]
  /\ result = [c \in Clients |-> NoResult]
  /\ stdin = << >>
  /\ stdout = << >>
  /\ strays = 0
  /\ child = "running" /\ held = FALSE
  /\ closed = FALSE

-----------------------------------------------------------------------------
(* rpc, one client at a time.                                              *)

Goto(c, label) == pc' = [pc EXCEPT ![c] = label]

\* A server is made only after StartCBM returned, so no call comes before.
Call(c) ==
  /\ pc[c] = "waiting" /\ pc[Starter] = "done"
  /\ calls < MaxCalls
  /\ calls' = calls + 1
  /\ mine' = [mine EXCEPT ![c] = calls + 1]
  /\ Goto(c, "lock")
  /\ result' = [result EXCEPT ![c] = NoResult]
  /\ UNCHANGED <<mutex, pipes, closed>>

\* Faulty variant of Lock: callers are not serialized.
IgnoresMutex(c) ==
  /\ pc[c] = "lock"
  /\ mutex' = c
  /\ Goto(c, "write")
  /\ UNCHANGED <<calls, mine, result, pipes, closed>>

Lock(c) ==
  /\ pc[c] = "lock" /\ mutex = None
  /\ mutex' = c
  /\ Goto(c, "write")
  /\ UNCHANGED <<calls, mine, result, pipes, closed>>

\* Faulty variant of Return: the mutex stays locked.
ForgetsUnlock(c, r) ==
  /\ result' = [result EXCEPT ![c] = r]
  /\ Goto(c, IF c # Starter THEN "waiting"
             ELSE IF r.kind = "reply" THEN "notify" ELSE "close")
  /\ UNCHANGED mutex

\* The rpc returns and its deferred Unlock runs.  An error during StartCBM
\* closes the backend; a reply there is followed by the notification.
Return(c, r) ==
  /\ mutex' = None
  /\ result' = [result EXCEPT ![c] = r]
  /\ Goto(c, IF c # Starter THEN "waiting"
             ELSE IF r.kind = "reply" THEN "notify" ELSE "close")

\* The pipes are closed at one end.
Broken == closed \/ (child = "gone" /\ ~held)

Write(c) ==
  /\ pc[c] = "write"
  /\ IF Broken
       THEN /\ Return(c, Failed)
            /\ UNCHANGED <<calls, mine, pipes, closed>>
       ELSE /\ stdin' = Append(stdin, mine[c])
            /\ Goto(c, "read")
            /\ UNCHANGED <<mutex, calls, mine, result, stdout, strays, child, held,
                           closed>>

\* ReadSlice takes what is first: only a reply is a JSON line with id 1; a
\* piece of a long line is a full buffer or does not parse, and an unasked
\* line has another id or none.  A reply may be an error object or match none
\* of the pinned contracts, which fails the call too.
Read(c) ==
  /\ pc[c] = "read" /\ stdout # << >>
  /\ stdout' = Tail(stdout)
  /\ \/ /\ Head(stdout).part = "reply"
        /\ Return(c, [kind |-> "reply", of |-> Head(stdout).of])
     \/ Return(c, Failed)
  /\ UNCHANGED <<calls, mine, stdin, strays, child, held, closed>>

\* End of file, or the pipe was closed under the reader.  Close does that only
\* when its Wait is over.
ReadFails(c) ==
  /\ pc[c] = "read" /\ stdout = << >>
  /\ child = "gone" /\ ~held
  /\ Return(c, Failed)
  /\ UNCHANGED <<calls, mine, pipes, closed>>

\* Close closes the input and kills the child's group; what left the group may
\* keep the pipes.  What the reader had already buffered can still be read.
Shut ==
  /\ closed' = TRUE
  /\ child' = "gone"
  /\ held' \in {held, FALSE}
  /\ stdin' = << >>
  /\ stdout' \in {stdout, << >>}

\* Faulty variant of Cancel: the reply to an abandoned call is left behind.
AbandonsRead(c) ==
  /\ Cancellable /\ pc[c] \in {"write", "read"}
  /\ Return(c, Failed)
  /\ UNCHANGED <<calls, mine, pipes, closed>>

\* The caller's context ends: before it writes the request nothing happens,
\* while it waits for a line the backend is closed, with the mutex locked.
Cancel(c) ==
  /\ Cancellable
  /\ \/ pc[c] = "write" /\ Return(c, Failed) /\ UNCHANGED <<pipes, closed>>
     \/ /\ pc[c] = "read" /\ Shut
        /\ Goto(c, "closing")
        /\ UNCHANGED <<mutex, result, strays>>
  /\ UNCHANGED <<calls, mine>>

\* Close's Wait is over when nobody holds the child's output any more.
Closed(c) ==
  /\ pc[c] = "closing" /\ ~held
  /\ Return(c, Failed)
  /\ UNCHANGED <<calls, mine, pipes, closed>>

Rpc(c) == Lock(c) \/ Write(c) \/ Read(c) \/ ReadFails(c) \/ Closed(c)

-----------------------------------------------------------------------------
(* StartCBM after the initialize rpc, and Close at the end of serve.       *)

Notify ==
  /\ pc[Starter] = "notify"
  /\ IF Broken
       THEN Goto(Starter, "close") /\ UNCHANGED stdin
       ELSE Goto(Starter, "done") /\ stdin' = Append(stdin, 0)
  /\ UNCHANGED <<mutex, calls, mine, result, stdout, strays, child, held, closed>>

CloseAfterFailure ==
  /\ pc[Starter] = "close"
  /\ Shut
  /\ Goto(Starter, "failed")
  /\ UNCHANGED <<mutex, calls, mine, result, strays>>

\* The deferred Close of serve, which does not take the mutex.
Close ==
  /\ pc[Starter] = "done" /\ ~closed
  /\ Shut
  /\ UNCHANGED <<pc, mutex, calls, mine, result, strays>>

-----------------------------------------------------------------------------
(* The child.  It answers requests in order and ignores the notification.  *)

Reply(n) == [part |-> "reply", of |-> n]

Pieces(n) == << [part |-> "head", of |-> n], [part |-> "tail", of |-> n] >>

Answer ==
  /\ child = "running" /\ stdin # << >>
  /\ stdin' = Tail(stdin)
  /\ \/ Head(stdin) = 0 /\ UNCHANGED <<stdout, strays>>
     \/ /\ Head(stdin) # 0
        /\ stdout' = Append(stdout, Reply(Head(stdin)))
        /\ UNCHANGED strays
     \/ /\ Head(stdin) # 0 /\ strays < MaxStray
        /\ stdout' = stdout \o Pieces(Head(stdin))
        /\ strays' = strays + 1
  /\ UNCHANGED <<pc, mutex, calls, mine, result, child, held, closed>>

SpeakUnasked ==
  /\ child = "running" \/ held
  /\ strays < MaxStray
  /\ stdout' = Append(stdout, [part |-> "unasked", of |-> 0])
  /\ strays' = strays + 1
  /\ UNCHANGED <<pc, mutex, calls, mine, result, stdin, child, held, closed>>

Die ==
  /\ child = "running"
  /\ child' = "gone"
  /\ stdin' = << >>
  /\ UNCHANGED <<pc, mutex, calls, mine, result, stdout, strays, held, closed>>

\* The child starts a process that inherits its pipes; or the last one ends.
Inherit ==
  /\ held' = ~held
  /\ child = "running" \/ held
  /\ UNCHANGED <<pc, mutex, calls, mine, result, stdin, stdout, strays, child,
                 closed>>

-----------------------------------------------------------------------------
Next ==
  \/ \E c \in Callers : Call(c) \/ Cancel(c)
  \/ \E c \in Clients : Rpc(c)
  \/ Notify \/ CloseAfterFailure \/ Close
  \/ Answer \/ SpeakUnasked \/ Die \/ Inherit

Spec == Init /\ [][Next]_vars

\* A client that holds or can get the mutex goes on (Go's mutex starves no
\* goroutine), and the child answers what it reads: rpc has no time limit of
\* its own, so nothing else ends a call.
FairSpec ==
  /\ Spec
  /\ \A c \in Clients : SF_vars(Lock(c)) /\ WF_vars(Rpc(c))
  /\ WF_vars(Notify) /\ WF_vars(CloseAfterFailure)
  /\ WF_vars(Answer)

-----------------------------------------------------------------------------
TypeOK ==
  /\ pc \in [Clients -> {"waiting", "lock", "write", "read", "closing",
                         "notify", "close", "done", "failed"}]
  /\ mutex \in Clients \cup {None}
  /\ calls \in 0..MaxCalls
  /\ mine \in [Clients -> 0..MaxCalls]
  /\ result \in [Clients -> Result]
  /\ stdin \in Seq(0..MaxCalls)
  /\ stdout \in Seq(Line)
  /\ strays \in 0..MaxStray
  /\ child \in {"running", "gone"} /\ held \in BOOLEAN
  /\ closed \in BOOLEAN

\* What a call returns as its answer is the answer the child gave to that call,
\* although every request carries the same id ("CBM response id did not match
\* request" is the error for any other).
OwnAnswer ==
  \A c \in Clients : result[c].kind = "reply" => result[c].of = mine[c]

\* As long as the child has sent one line of at most the buffer's size for each
\* request, no reply to a cancelled, failed or concurrent call is ever taken
\* for the answer of another.
OwnAnswerInStep == strays = 0 => OwnAnswer

\* And between two calls nothing is left in the pipes that a later call could
\* take for its answer, whichever way the last call ended.
NothingLeftBetweenCalls ==
  strays = 0 /\ mutex = None /\ child = "running" =>
    stdout = << >> /\ \A i \in 1..Len(stdin) : stdin[i] = 0

\* Every call, and the start of the backend, comes to an end, whether the child
\* answers, dies, or is closed in the middle of it, and although a cancelled call
\* waits for the child with the mutex locked: unless another process keeps the
\* pipes of a child that is gone.
InCall(c) == pc[c] \in {"lock", "write", "read", "closing"}

CallReturns ==
  \A c \in Clients : InCall(c) ~> ~InCall(c) \/ (child = "gone" /\ held)

=============================================================================
