--------------------------- MODULE CbmChannelProofs ---------------------------
(* While the child keeps to one line for a request, a call is answered by its  *)
(* own reply, for any number of callers and requests.                          *)
EXTENDS CbmChannel, SequenceTheorems, TLAPS

\* Who uses the pipes holds the mutex, and asks with a request of its own.
MutexOK ==
  \A c \in Clients :
    /\ pc[c] \in {"write", "read", "closing"} => mutex = c
    /\ InCall(c) => mine[c] # 0

\* No tool is called before the backend is started, and only Close and a failed
\* start close it.
StartOK ==
  /\ pc[Starter] # "done" => \A c \in Callers : pc[c] = "waiting"
  /\ closed => child = "gone"

OnlyNotifications(lines) == \A i \in 1..Len(lines) : lines[i] = 0

\* The request is the last line the child has to read.
LastIs(lines, n) ==
  /\ lines # << >> /\ lines[Len(lines)] = n
  /\ \A i \in 1..(Len(lines) - 1) : lines[i] = 0

\* One reply is outstanding for the client that reads: it is in one pipe or
\* the other, and nothing else is.
Outstanding(c) ==
  \/ stdout = << >> /\ (child = "running" => LastIs(stdin, mine[c]))
  \/ stdout = << Reply(mine[c]) >> /\ (child = "running" => OnlyNotifications(stdin))

\* Both pipes hold no request and no reply when nobody reads.
Idle ==
  /\ ~closed => stdout = << >>
  /\ child = "running" => OnlyNotifications(stdin)

PipesOK ==
  strays = 0 =>
    /\ \A c \in Clients : pc[c] = "read" => Outstanding(c)
    /\ (\A c \in Clients : pc[c] # "read") => Idle

IInv == TypeOK /\ MutexOK /\ StartOK /\ PipesOK /\ OwnAnswerInStep

-----------------------------------------------------------------------------
(* Sequences of lines.                                                         *)

LEMMA AppendRequest ==
  ASSUME NEW lines \in Seq(Nat), NEW n \in Nat, OnlyNotifications(lines)
  PROVE  LastIs(Append(lines, n), n)
BY DEF OnlyNotifications, LastIs

LEMMA AppendNotification ==
  ASSUME NEW lines \in Seq(Nat), OnlyNotifications(lines)
  PROVE  OnlyNotifications(Append(lines, 0))
BY DEF OnlyNotifications

LEMMA TailElements ==
  ASSUME NEW lines \in Seq(Nat), lines # << >>
  PROVE  /\ Tail(lines) \in Seq(Nat)
         /\ Len(lines) \in Nat \ {0} /\ Len(Tail(lines)) = Len(lines) - 1
         /\ Head(lines) = lines[1]
         /\ \A i \in 1..(Len(lines) - 1) : Tail(lines)[i] = lines[i + 1]
BY HeadTailProperties

\* A notification that is read leaves the request that is last, or none.
LEMMA TailNotification ==
  ASSUME NEW lines \in Seq(Nat), lines # << >>, Head(lines) = 0
  PROVE  /\ OnlyNotifications(lines) => OnlyNotifications(Tail(lines))
         /\ \A n \in Nat \ {0} : LastIs(lines, n) => LastIs(Tail(lines), n)
<1>1. OnlyNotifications(lines) => OnlyNotifications(Tail(lines))
  BY TailElements DEF OnlyNotifications
<1>2. ASSUME NEW n \in Nat \ {0}, LastIs(lines, n)
      PROVE  LastIs(Tail(lines), n)
  <2>1. Len(lines) # 1
    BY <1>2, TailElements DEF LastIs
  <2>2. Tail(lines) # << >>
    <3>1. Len(Tail(lines)) # 0
      BY <2>1, TailElements
    <3>2. Len(<< >>) = 0
      BY EmptySeq
    <3>3. QED
      BY <3>1, <3>2
  <2>3. Tail(lines)[Len(Tail(lines))] = n
    BY <1>2, <2>1, TailElements DEF LastIs
  <2>4. ASSUME NEW i \in 1..(Len(Tail(lines)) - 1)
        PROVE  Tail(lines)[i] = 0
    <3>1. i + 1 \in 1..(Len(lines) - 1) /\ i \in 1..(Len(lines) - 1)
      BY <2>1, TailElements
    <3>2. QED
      BY <1>2, <3>1, TailElements DEF LastIs
  <2>5. QED
    BY <2>2, <2>3, <2>4 DEF LastIs
<1>3. QED
  BY <1>1, <1>2

\* A request that is read was the last line.
LEMMA TailRequest ==
  ASSUME NEW lines \in Seq(Nat), lines # << >>, Head(lines) # 0
  PROVE  /\ ~OnlyNotifications(lines)
         /\ \A n \in Nat \ {0} : LastIs(lines, n) =>
               Head(lines) = n /\ OnlyNotifications(Tail(lines))
BY DEF OnlyNotifications, LastIs

-----------------------------------------------------------------------------
(* The types.                                                                  *)

LEMMA InitType == Init => TypeOK
<1> SUFFICES ASSUME Init
             PROVE  TypeOK
  OBVIOUS
<1>1. stdin \in Seq(0..MaxCalls) /\ stdout \in Seq(Line)
  BY EmptySeq DEF Init
<1>2. 1 \in 0..MaxCalls /\ 0 \in 0..MaxCalls /\ 0 \in 0..MaxStray
  BY ChannelAssumption
<1>3. NoResult \in Result
  BY <1>2 DEF NoResult, Result
<1>4. /\ mine \in [Clients -> 0..MaxCalls]
      /\ result \in [Clients -> Result]
  BY <1>2, <1>3 DEF Init
<1>5. pc \in [Clients -> {"waiting", "lock", "write", "read", "closing",
                         "notify", "close", "done", "failed"}]
  BY DEF Init
<1>6. QED
  BY <1>1, <1>2, <1>4, <1>5 DEF Init, TypeOK


LEMMA ReturnType ==
  ASSUME TypeOK, NEW c \in Clients, NEW r \in Result, Return(c, r)
  PROVE  /\ pc' \in [Clients -> {"waiting", "lock", "write", "read", "closing",
                                 "notify", "close", "done", "failed"}]
         /\ mutex' \in Clients \cup {None}
         /\ result' \in [Clients -> Result]
         /\ \A d \in Clients \ {c} : pc'[d] = pc[d]
         /\ c # Starter => pc'[c] = "waiting"
         /\ c = Starter => pc'[c] \in {"notify", "close"}
<1>1. CASE c # Starter
  BY <1>1 DEF TypeOK, Return, Goto
<1>2. CASE c = Starter /\ r.kind = "reply"
  BY <1>2 DEF TypeOK, Return, Goto
<1>3. CASE c = Starter /\ r.kind # "reply"
  BY <1>3 DEF TypeOK, Return, Goto
<1>4. QED
  BY <1>1, <1>2, <1>3

LEMMA ShutType ==
  ASSUME TypeOK, Shut
  PROVE  /\ stdin' \in Seq(0..MaxCalls) /\ stdout' \in Seq(Line)
         /\ child' \in {"running", "gone"} /\ held' \in BOOLEAN /\ closed' \in BOOLEAN
BY EmptySeq DEF TypeOK, Shut

LEMMA RequestLines ==
  ASSUME TypeOK
  PROVE  stdin \in Seq(Nat)
<1>1. 0..MaxCalls \subseteq Nat /\ stdin \in Seq(0..MaxCalls)
  BY DEF TypeOK
<1>2. QED
  BY <1>1, SeqMonotonic

LEMMA FailedIsResult == Failed \in Result
BY ChannelAssumption DEF Failed, Result

-----------------------------------------------------------------------------
(* The steps.  Each lemma proves that one action preserves the invariant.      *)

LEMMA InitEstablishes == Init => IInv
<1> SUFFICES ASSUME Init
             PROVE  IInv
  OBVIOUS
<1>1. MutexOK /\ StartOK
  <2>1. \A c \in Clients : IF c = Starter THEN pc[c] = "lock" /\ mine[c] = 1
                                          ELSE pc[c] = "waiting"
    BY DEF Init
  <2>2. MutexOK
    BY <2>1 DEF MutexOK, InCall
  <2>3. \A c \in Callers : c \in Clients /\ c # Starter
    BY ChannelAssumption DEF Clients
  <2>4. ~closed
    BY DEF Init
  <2>5. QED
    BY <2>1, <2>2, <2>3, <2>4 DEF StartOK
<1>2. OnlyNotifications(stdin)
  BY EmptySeq DEF Init, OnlyNotifications
<1>3. PipesOK
  BY <1>2 DEF Init, PipesOK, Idle
<1>4. OwnAnswerInStep
  BY DEF Init, OwnAnswerInStep, OwnAnswer, NoResult
<1>5. QED
  BY <1>1, <1>3, <1>4, InitType DEF IInv

LEMMA CallPreserves ==
  ASSUME IInv, NEW c \in Callers, Call(c)
  PROVE  IInv'
<1> c \in Clients /\ c # Starter
  BY ChannelAssumption DEF Clients
<1>1. TypeOK'
  <2>1. calls + 1 \in 0..MaxCalls /\ NoResult \in Result
    BY ChannelAssumption DEF IInv, TypeOK, Call, NoResult, Result
  <2>2. QED
    BY <2>1 DEF IInv, TypeOK, Call, Goto, pipes
<1>2. MutexOK' /\ StartOK'
  BY ChannelAssumption DEF IInv, TypeOK, MutexOK, InCall, StartOK, Call, Goto, pipes
<1>3. PipesOK'
  <2>1. \A d \in Clients : /\ pc'[d] = "read" <=> pc[d] = "read"
                           /\ pc[d] = "read" => mine'[d] = mine[d]
    BY DEF IInv, TypeOK, Call, Goto
  <2>2. QED
    BY <2>1 DEF IInv, PipesOK, Outstanding, Idle, Call, pipes
<1>4. OwnAnswerInStep'
  BY DEF IInv, TypeOK, OwnAnswerInStep, OwnAnswer, Call, NoResult, pipes
<1>5. QED
  BY <1>1, <1>2, <1>3, <1>4 DEF IInv

LEMMA LockPreserves ==
  ASSUME IInv, NEW c \in Clients, Lock(c)
  PROVE  IInv'
<1>1. TypeOK'
  BY DEF IInv, TypeOK, Lock, Goto, pipes
<1>2. MutexOK'
  BY ChannelAssumption DEF IInv, TypeOK, MutexOK, InCall, Lock, Goto, pipes
<1>3. StartOK'
  BY ChannelAssumption DEF IInv, TypeOK, StartOK, Lock, Goto, pipes, Clients
<1>4. PipesOK'
  <2>1. \A d \in Clients : pc'[d] = "read" <=> pc[d] = "read"
    BY DEF IInv, TypeOK, Lock, Goto
  <2>2. QED
    BY <2>1 DEF IInv, PipesOK, Outstanding, Idle, Lock, pipes
<1>5. OwnAnswerInStep'
  BY DEF IInv, OwnAnswerInStep, OwnAnswer, Lock, pipes
<1>6. QED
  BY <1>1, <1>2, <1>3, <1>4, <1>5 DEF IInv

\* A return leaves the pipes to the caller of this lemma: what it needs is that
\* they are idle afterwards, or that nobody will read them.
LEMMA ReturnPreserves ==
  ASSUME IInv, NEW c \in Clients, pc[c] \in {"write", "read", "closing"},
         NEW r \in Result, Return(c, r),
         UNCHANGED <<calls, mine>>, strays' = strays,
         stdin' \in Seq(0..MaxCalls), stdout' \in Seq(Line),
         child' \in {"running", "gone"}, held' \in BOOLEAN, closed' \in BOOLEAN,
         closed' => child' = "gone",
         strays = 0 => Idle',
         strays = 0 /\ r.kind = "reply" => r.of = mine[c]
  PROVE  IInv'
<1>1. TypeOK'
  BY ReturnType DEF IInv, TypeOK
<1>2. /\ \A d \in Clients \ {c} : pc'[d] = pc[d]
      /\ pc'[c] \in {"waiting", "notify", "close"}
      /\ c # Starter => pc'[c] = "waiting"
  BY ReturnType DEF IInv
<1>3. \A d \in Clients : pc'[d] \notin {"write", "read", "closing"}
  <2>1. mutex = c /\ None \notin Clients
    BY ChannelAssumption DEF IInv, MutexOK, InCall
  <2>2. QED
    BY <1>2, <2>1 DEF IInv, MutexOK, InCall
<1>4. MutexOK'
  BY <1>2, <1>3 DEF IInv, MutexOK, InCall
<1>5. StartOK'
  <2>1. ASSUME pc'[Starter] # "done", NEW d \in Callers
        PROVE  pc'[d] = "waiting"
    <3>1. d \in Clients /\ d # Starter /\ Starter \in Clients
      BY ChannelAssumption DEF Clients
    <3>2. pc[Starter] # "done"
      BY <1>2, <2>1, <3>1
    <3>3. QED
      BY <1>2, <3>1, <3>2 DEF IInv, StartOK
  <2>2. QED
    BY <2>1 DEF StartOK
<1>6. PipesOK'
  BY <1>3 DEF PipesOK
<1>7. OwnAnswerInStep'
  BY DEF IInv, TypeOK, OwnAnswerInStep, OwnAnswer, Return
<1>8. QED
  BY <1>1, <1>4, <1>5, <1>6, <1>7 DEF IInv

-----------------------------------------------------------------------------
(* The actions that use the pipes.                                             *)

\* Nobody else reads while a client is in its rpc.
LEMMA OnlyReader ==
  ASSUME IInv, NEW c \in Clients, pc[c] \in {"write", "read", "closing"},
         NEW d \in Clients, pc[d] = "read"
  PROVE  d = c
BY DEF IInv, MutexOK, InCall

LEMMA WritePreserves ==
  ASSUME IInv, NEW c \in Clients, Write(c)
  PROVE  IInv'
<1>1. pc[c] = "write" /\ mine[c] \in Nat /\ mine[c] \in 0..MaxCalls /\ mutex = c
  BY ChannelAssumption DEF IInv, TypeOK, MutexOK, InCall, Write
<1>2. \A d \in Clients : pc[d] # "read"
  BY <1>1, OnlyReader
<1>3. strays = 0 => Idle
  BY <1>2 DEF IInv, PipesOK
<1>4. CASE Broken
  <2>1. Return(c, Failed) /\ UNCHANGED <<calls, mine, pipes, closed>>
    BY <1>4 DEF Write
  <2>2. Idle' <=> Idle
    BY <2>1 DEF Idle, pipes
  <2>3. QED
    BY <1>1, <1>3, <2>1, <2>2, ReturnPreserves, FailedIsResult
      DEF IInv, TypeOK, StartOK, pipes, Failed
<1>5. CASE ~Broken
  <2>1. /\ stdin' = Append(stdin, mine[c]) /\ pc' = [pc EXCEPT ![c] = "read"]
        /\ UNCHANGED <<mutex, calls, mine, result, stdout, strays, child, held, closed>>
    BY <1>5 DEF Write, Goto
  <2>2. TypeOK'
    BY <1>1, <2>1 DEF IInv, TypeOK
  <2>3. MutexOK'
    BY <1>1, <2>1 DEF IInv, TypeOK, MutexOK, InCall
  <2>4. StartOK'
    BY <1>1, <2>1, ChannelAssumption DEF IInv, TypeOK, StartOK, Clients
  <2>5. PipesOK'
    <3> SUFFICES ASSUME strays = 0
                 PROVE  /\ \A d \in Clients : pc'[d] = "read" => Outstanding(d)'
                        /\ ~(\A d \in Clients : pc'[d] # "read")
      BY <2>1 DEF PipesOK
    <3>1. stdout = << >> /\ (child = "running" => OnlyNotifications(stdin))
      BY <1>3, <1>5 DEF Idle, Broken
    <3>2. stdin \in Seq(Nat)
      BY RequestLines DEF IInv
    <3>3. child = "running" => LastIs(stdin', mine'[c])
      BY <1>1, <2>1, <3>1, <3>2, AppendRequest
    <3>4. Outstanding(c)'
      BY <2>1, <3>1, <3>3 DEF Outstanding
    <3>5. \A d \in Clients : pc'[d] = "read" => d = c
      BY <1>2, <2>1 DEF IInv, TypeOK
    <3>6. pc'[c] = "read"
      BY <2>1 DEF IInv, TypeOK
    <3>7. QED
      BY <3>4, <3>5, <3>6
  <2>6. OwnAnswerInStep'
    BY <2>1 DEF IInv, OwnAnswerInStep, OwnAnswer
  <2>7. QED
    BY <2>2, <2>3, <2>4, <2>5, <2>6 DEF IInv
<1>6. QED
  BY <1>4, <1>5

\* The line that is read is the one reply that was outstanding, whether the call
\* succeeds or fails on it.
LEMMA ReadPreserves ==
  ASSUME IInv, NEW c \in Clients, Read(c)
  PROVE  IInv'
<1>1. /\ pc[c] = "read" /\ stdout # << >> /\ stdout' = Tail(stdout)
      /\ UNCHANGED <<calls, mine, stdin, strays, child, held, closed>>
  BY DEF Read
<1>2. Head(stdout) \in Line /\ Tail(stdout) \in Seq(Line)
  BY <1>1, HeadTailProperties DEF IInv, TypeOK
<1>3. ASSUME strays = 0
      PROVE  Idle' /\ Head(stdout).of = mine[c]
  <2>1. Outstanding(c)
    BY <1>1, <1>3 DEF IInv, PipesOK
  <2>2. stdout = << Reply(mine[c]) >> /\ (child = "running" => OnlyNotifications(stdin))
    BY <1>1, <2>1 DEF Outstanding
  <2>3. Head(stdout) = Reply(mine[c]) /\ Tail(stdout) = << >>
    BY <2>2
  <2>4. QED
    BY <1>1, <2>2, <2>3 DEF Idle, Reply
<1>4. PICK r \in Result : Return(c, r) /\ (r.kind = "reply" => r.of = Head(stdout).of)
  <2>1. CASE Return(c, Failed)
    BY <2>1, FailedIsResult DEF Failed
  <2>2. CASE Return(c, [kind |-> "reply", of |-> Head(stdout).of])
    BY <1>2, <2>2 DEF Line, Result
  <2>3. QED
    BY <2>1, <2>2 DEF Read
<1>5. QED
  BY <1>1, <1>2, <1>3, <1>4, ReturnPreserves DEF IInv, TypeOK, StartOK

LEMMA ReadFailsPreserves ==
  ASSUME IInv, NEW c \in Clients, ReadFails(c)
  PROVE  IInv'
<1>1. child' = "gone" /\ stdout' = << >>
  BY DEF ReadFails, pipes
<1>2. Idle'
  BY <1>1 DEF Idle
<1>3. QED
  BY <1>1, <1>2, ReturnPreserves, FailedIsResult
    DEF ReadFails, IInv, TypeOK, StartOK, pipes, Failed

\* A closed backend's pipes hold at most the reply that is outstanding.
LEMMA ShutPreserves ==
  ASSUME IInv, Shut, UNCHANGED <<mutex, calls, mine, result, strays>>,
         \/ pc' = pc
         \/ pc[Starter] = "close" /\ pc' = [pc EXCEPT ![Starter] = "failed"]
         \/ \E c \in Callers : pc[c] = "read" /\ pc' = [pc EXCEPT ![c] = "closing"]
  PROVE  IInv'
<1> Starter \in Clients /\ \A d \in Callers : d \in Clients /\ d # Starter
  BY ChannelAssumption DEF Clients
<1>1. TypeOK'
  BY ShutType DEF IInv, TypeOK
<1>2. \A d \in Clients : \/ pc'[d] = pc[d]
                         \/ pc[d] = "close" /\ pc'[d] = "failed"
                         \/ pc[d] = "read" /\ pc'[d] = "closing"
  BY DEF IInv, TypeOK
<1>3. MutexOK'
  BY <1>2 DEF IInv, MutexOK, InCall
<1>4. StartOK'
  <2>1. closed' => child' = "gone"
    BY DEF Shut
  <2>2. ASSUME pc'[Starter] # "done", NEW d \in Callers
        PROVE  pc'[d] = "waiting"
    <3>1. pc[Starter] # "done"
      BY <1>2, <2>2
    <3>2. pc[d] = "waiting"
      BY <2>2, <3>1 DEF IInv, StartOK
    <3>3. QED
      BY <1>2, <2>2, <3>2
  <2>3. QED
    BY <2>1, <2>2 DEF StartOK
<1>5. PipesOK'
  <2>1. child' = "gone" /\ closed' /\ stdout' \in {stdout, << >>}
    BY DEF Shut
  <2>2. ASSUME strays = 0, NEW d \in Clients, pc'[d] = "read"
        PROVE  Outstanding(d)'
    <3>1. pc[d] = "read"
      BY <1>2, <2>2
    <3>2. Outstanding(d)
      BY <2>2, <3>1 DEF IInv, PipesOK
    <3>3. QED
      BY <2>1, <3>2 DEF Outstanding, Reply
  <2>3. QED
    BY <2>1, <2>2 DEF PipesOK, Idle
<1>6. OwnAnswerInStep'
  BY DEF IInv, OwnAnswerInStep, OwnAnswer
<1>7. QED
  BY <1>1, <1>3, <1>4, <1>5, <1>6 DEF IInv

LEMMA CancelPreserves ==
  ASSUME IInv, NEW c \in Callers, Cancel(c)
  PROVE  IInv'
<1> c \in Clients
  BY DEF Clients
<1>1. CASE pc[c] = "write" /\ Return(c, Failed) /\ UNCHANGED <<pipes, closed>>
  <2>1. strays = 0 => Idle
    BY <1>1, OnlyReader DEF IInv, PipesOK
  <2>2. Idle' <=> Idle
    BY <1>1 DEF Idle, pipes
  <2>3. QED
    BY <1>1, <2>1, <2>2, ReturnPreserves, FailedIsResult
      DEF Cancel, IInv, TypeOK, StartOK, pipes, Failed
<1>2. CASE /\ pc[c] = "read" /\ Shut
           /\ Goto(c, "closing")
           /\ UNCHANGED <<mutex, result, strays>>
  BY <1>2, ShutPreserves DEF Cancel, Goto
<1>3. QED
  BY <1>1, <1>2 DEF Cancel

LEMMA ClosedPreserves ==
  ASSUME IInv, NEW c \in Clients, Closed(c)
  PROVE  IInv'
<1>1. /\ pc[c] = "closing" /\ Return(c, Failed)
      /\ UNCHANGED <<calls, mine, pipes, closed>>
  BY DEF Closed
<1>2. strays = 0 => Idle
  BY <1>1, OnlyReader DEF IInv, PipesOK
<1>3. Idle' <=> Idle
  BY <1>1 DEF Idle, pipes
<1>4. QED
  BY <1>1, <1>2, <1>3, ReturnPreserves, FailedIsResult
    DEF IInv, TypeOK, StartOK, pipes, Failed

LEMMA NotifyPreserves ==
  ASSUME IInv, Notify
  PROVE  IInv'
<1> Starter \in Clients /\ pc[Starter] = "notify"
  BY DEF Clients, Notify
<1>1. UNCHANGED <<mutex, calls, mine, result, stdout, strays, child, held, closed>>
  BY DEF Notify
<1>2. PICK label \in {"close", "done"} : pc' = [pc EXCEPT ![Starter] = label]
  BY DEF Notify, Goto
<1>3. stdin' = stdin \/ stdin' = Append(stdin, 0)
  BY DEF Notify
<1>4. TypeOK'
  <2>1. 0 \in 0..MaxCalls
    BY ChannelAssumption
  <2>2. stdin' \in Seq(0..MaxCalls)
    <3>1. stdin \in Seq(0..MaxCalls)
      BY DEF IInv, TypeOK
    <3>2. Append(stdin, 0) \in Seq(0..MaxCalls)
      BY <2>1, <3>1, AppendProperties
    <3>3. QED
      BY <1>3, <3>1, <3>2
  <2>3. QED
    BY <1>1, <1>2, <2>2 DEF IInv, TypeOK
<1>5. \A d \in Callers : d \in Clients /\ d # Starter
  BY ChannelAssumption DEF Clients
<1>6. \A d \in Clients : pc[d] # "read" /\ pc'[d] \notin {"lock", "write", "read", "closing"}
  BY <1>2, <1>5 DEF IInv, TypeOK, StartOK, Clients
<1>7. MutexOK'
  BY <1>6 DEF MutexOK, InCall
<1>8. StartOK'
  BY <1>1, <1>2, <1>5 DEF IInv, TypeOK, StartOK
<1>9. PipesOK'
  <2>1. OnlyNotifications(stdin) => OnlyNotifications(stdin')
    BY <1>3, AppendNotification, RequestLines DEF IInv
  <2>2. strays = 0 => Idle
    BY <1>6 DEF IInv, PipesOK
  <2>3. QED
    BY <1>1, <1>6, <2>1, <2>2 DEF PipesOK, Idle
<1>10. OwnAnswerInStep'
  BY <1>1 DEF IInv, OwnAnswerInStep, OwnAnswer
<1>11. QED
  BY <1>4, <1>7, <1>8, <1>9, <1>10 DEF IInv

-----------------------------------------------------------------------------
(* The child.                                                                  *)

LEMMA AnswerType ==
  ASSUME IInv, Answer
  PROVE  TypeOK'
<1>1. /\ stdin \in Seq(0..MaxCalls) /\ stdin # << >> /\ stdout \in Seq(Line)
      /\ stdin' = Tail(stdin)
      /\ UNCHANGED <<pc, mutex, calls, mine, result, child, held, closed>>
  BY DEF IInv, TypeOK, Answer
<1>2. Head(stdin) \in 0..MaxCalls /\ Tail(stdin) \in Seq(0..MaxCalls)
  BY <1>1, HeadTailProperties
<1>3. strays' \in 0..MaxStray
  BY ChannelAssumption DEF IInv, TypeOK, Answer
<1>4. Append(stdout, Reply(Head(stdin))) \in Seq(Line)
  <2>1. Reply(Head(stdin)) \in Line
    BY <1>2 DEF Reply, Line
  <2>2. QED
    BY <1>1, <2>1, AppendProperties
<1>5. stdout \o Pieces(Head(stdin)) \in Seq(Line)
  <2>1. /\ [part |-> "head", of |-> Head(stdin)] \in Line
        /\ [part |-> "tail", of |-> Head(stdin)] \in Line
    BY <1>2 DEF Line
  <2>2. Pieces(Head(stdin)) \in Seq(Line)
    BY <2>1 DEF Pieces
  <2>3. QED
    BY <1>1, <2>2, ConcatProperties
<1>6. stdout' \in Seq(Line)
  BY <1>1, <1>4, <1>5 DEF Answer
<1>7. QED
  BY <1>1, <1>2, <1>3, <1>6 DEF IInv, TypeOK

\* The request that is answered is the one that is outstanding, so there is no
\* reply in the other pipe.
LEMMA AnswerPreserves ==
  ASSUME IInv, Answer
  PROVE  IInv'
<1>1. /\ child = "running" /\ stdin # << >> /\ stdin' = Tail(stdin)
      /\ UNCHANGED <<pc, mutex, calls, mine, result, child, held, closed>>
      /\ stdin \in Seq(Nat)
  BY RequestLines DEF Answer, IInv
<1>2. MutexOK' /\ StartOK'
  BY <1>1 DEF IInv, MutexOK, InCall, StartOK
<1>3. strays' = 0 => strays = 0
  BY DEF Answer, IInv, TypeOK
<1>4. OwnAnswerInStep'
  BY <1>1, <1>3 DEF IInv, OwnAnswerInStep, OwnAnswer
<1>5. ASSUME strays' = 0, NEW d \in Clients, pc[d] = "read"
      PROVE  Outstanding(d)'
  <2>1. mine[d] \in Nat \ {0}
    BY <1>5 DEF IInv, TypeOK, MutexOK, InCall
  <2>2. Outstanding(d)
    BY <1>3, <1>5 DEF IInv, PipesOK
  <2>3. CASE Head(stdin) = 0
    <3>1. stdout' = stdout
      BY <2>3 DEF Answer
    <3>2. QED
      BY <1>1, <2>1, <2>2, <2>3, <3>1, TailNotification DEF Outstanding, Reply
  <2>4. CASE Head(stdin) # 0
    <3>1. ~OnlyNotifications(stdin)
      BY <1>1, <2>4, TailRequest
    <3>2. stdout = << >> /\ LastIs(stdin, mine[d])
      BY <1>1, <2>2, <3>1 DEF Outstanding
    <3>3. Head(stdin) = mine[d] /\ OnlyNotifications(Tail(stdin))
      BY <1>1, <2>1, <2>4, <3>2, TailRequest
    <3>4. stdout' = Append(stdout, Reply(mine[d]))
      BY <1>5, <2>4, <3>3 DEF Answer, IInv, TypeOK
    <3>5. stdout' = << Reply(mine[d]) >>
      BY <3>2, <3>4
    <3>6. QED
      BY <1>1, <3>3, <3>5 DEF Outstanding, Reply
  <2>5. QED
    BY <2>3, <2>4
<1>6. ASSUME strays' = 0, \A d \in Clients : pc[d] # "read"
      PROVE  Idle'
  <2>1. stdout = << >> /\ OnlyNotifications(stdin)
    BY <1>1, <1>3, <1>6 DEF IInv, StartOK, PipesOK, Idle
  <2>2. Head(stdin) = 0
    BY <1>1, <2>1, TailRequest
  <2>3. stdout' = stdout
    BY <2>2 DEF Answer
  <2>4. QED
    BY <1>1, <2>1, <2>2, <2>3, TailNotification DEF Idle
<1>7. PipesOK'
  BY <1>1, <1>5, <1>6 DEF PipesOK
<1>8. QED
  BY <1>2, <1>4, <1>7, AnswerType DEF IInv

LEMMA SpeakUnaskedPreserves ==
  ASSUME IInv, SpeakUnasked
  PROVE  IInv'
<1>1. strays' \in 0..MaxStray /\ strays' # 0
  BY ChannelAssumption DEF SpeakUnasked, IInv, TypeOK
<1>2. stdout' \in Seq(Line)
  <2>1. [part |-> "unasked", of |-> 0] \in Line
    BY ChannelAssumption DEF Line
  <2>2. stdout \in Seq(Line)
    BY DEF IInv, TypeOK
  <2>3. QED
    BY <2>1, <2>2, AppendProperties DEF SpeakUnasked
<1>3. UNCHANGED <<pc, mutex, calls, mine, result, stdin, child, held, closed>>
  BY DEF SpeakUnasked
<1>4. TypeOK'
  BY <1>1, <1>2, <1>3 DEF IInv, TypeOK
<1>5. MutexOK' /\ StartOK'
  BY <1>3 DEF IInv, MutexOK, InCall, StartOK
<1>6. QED
  BY <1>1, <1>4, <1>5 DEF IInv, PipesOK, OwnAnswerInStep

LEMMA DiePreserves ==
  ASSUME IInv, Die
  PROVE  IInv'
<1>1. /\ child' = "gone" /\ stdin' = << >>
      /\ UNCHANGED <<pc, mutex, calls, mine, result, stdout, strays, held, closed>>
  BY DEF Die
<1>2. TypeOK'
  BY <1>1, EmptySeq DEF IInv, TypeOK
<1>3. MutexOK' /\ StartOK'
  BY <1>1 DEF IInv, MutexOK, InCall, StartOK
<1>4. PipesOK'
  BY <1>1 DEF IInv, PipesOK, Outstanding, Idle, Reply
<1>5. OwnAnswerInStep'
  BY <1>1 DEF IInv, OwnAnswerInStep, OwnAnswer
<1>6. QED
  BY <1>2, <1>3, <1>4, <1>5 DEF IInv

\* Who else holds the child's pipes matters only to when a call ends.
LEMMA InheritPreserves ==
  ASSUME IInv, Inherit
  PROVE  IInv'
<1>1. UNCHANGED <<pc, mutex, calls, mine, result, stdin, stdout, strays, child, closed>>
  BY DEF Inherit
<1>2. TypeOK'
  BY <1>1 DEF IInv, TypeOK, Inherit
<1>3. MutexOK' /\ StartOK' /\ PipesOK' /\ OwnAnswerInStep'
  BY <1>1 DEF IInv, MutexOK, InCall, StartOK, PipesOK, Outstanding, Idle,
              OnlyNotifications, LastIs, Reply, OwnAnswerInStep, OwnAnswer
<1>4. QED
  BY <1>2, <1>3 DEF IInv

-----------------------------------------------------------------------------
LEMMA StepPreserves == IInv /\ [Next]_vars => IInv'
<1> SUFFICES ASSUME IInv, [Next]_vars
             PROVE  IInv'
  OBVIOUS
<1>1. ASSUME NEW c \in Clients, Rpc(c)
      PROVE  IInv'
  BY <1>1, LockPreserves, WritePreserves, ReadPreserves, ReadFailsPreserves,
     ClosedPreserves DEF Rpc
<1>2. CASE CloseAfterFailure
  BY <1>2, ShutPreserves DEF CloseAfterFailure, Goto
<1>3. CASE Close
  BY <1>3, ShutPreserves DEF Close
<1>4. CASE UNCHANGED vars
  BY <1>4 DEF vars, IInv, TypeOK, MutexOK, InCall, StartOK, PipesOK, Outstanding, Idle,
              OnlyNotifications, LastIs, Reply, OwnAnswerInStep, OwnAnswer
<1>5. QED
  BY <1>1, <1>2, <1>3, <1>4, CallPreserves, CancelPreserves, NotifyPreserves,
     AnswerPreserves, SpeakUnaskedPreserves, DiePreserves, InheritPreserves DEF Next

THEOREM Inductive == Spec => []IInv
BY InitEstablishes, StepPreserves, PTL DEF Spec

\* Type correctness, for any callers and bounds.
THEOREM TypeCorrect == Spec => []TypeOK
<1>1. IInv => TypeOK
  BY DEF IInv
<1>2. QED
  BY <1>1, Inductive, PTL

\* As long as the child sends one line that fits the buffer for each request,
\* every caller gets the reply to its own request, for any number of callers and
\* requests and whatever was cancelled, failed or closed before.
THEOREM OwnAnswers == Spec => []OwnAnswerInStep
<1>1. IInv => OwnAnswerInStep
  BY DEF IInv
<1>2. QED
  BY <1>1, Inductive, PTL

\* While the mutex is free and the child runs, no request and no reply of an
\* earlier call is in a pipe.
THEOREM NothingLeft == Spec => []NothingLeftBetweenCalls
<1>1. IInv => NothingLeftBetweenCalls
  <2> SUFFICES ASSUME IInv, strays = 0, mutex = None, child = "running"
               PROVE  stdout = << >> /\ \A i \in 1..Len(stdin) : stdin[i] = 0
    BY DEF NothingLeftBetweenCalls
  <2>1. \A d \in Clients : pc[d] # "read"
    BY ChannelAssumption DEF IInv, MutexOK, InCall
  <2>2. QED
    BY <2>1 DEF IInv, StartOK, PipesOK, Idle, OnlyNotifications
<1>2. QED
  BY <1>1, Inductive, PTL

=============================================================================
