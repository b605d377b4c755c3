----------------------------- MODULE LspProofs ------------------------------
(***************************************************************************)
(* Proofs about Lsp for any number of callers, of goroutines that call     *)
(* Close and of files, and any bound on processes, requests and messages   *)
(* in a pipe.                                                              *)
(***************************************************************************)
EXTENDS Lsp, TLAPS, FiniteSetTheorems, SequenceTheorems

USE ProcsAssumption, BoundsAssumption, FilesAssumption DEF Procs, Conns

-----------------------------------------------------------------------------
(***************************************************************************)
(* Types.                                                                  *)
(***************************************************************************)
(* A message fits into the pipe it is written to. *)
LEMMA WriteType ==
  ASSUME GoplsOK, NEW k \in Conns, NEW m \in Message, CanWrite(k), Write(k, m)
  PROVE  input' \in [Conns -> Seq(Message)] /\ \A j \in Conns : Len(input'[j]) <= PipeRoom
<1>1. input[k] \in Seq(Message) /\ Len(input[k]) < PipeRoom
  BY DEF GoplsOK, CanWrite
<1>2. Append(input[k], m) \in Seq(Message) /\ Len(Append(input[k], m)) = Len(input[k]) + 1
  BY <1>1, AppendProperties
<1>3. Len(input[k]) \in Nat
  BY <1>1, LenProperties
<1>4. QED
  BY <1>1, <1>2, <1>3 DEF GoplsOK, Write

LEMMA MessageType ==
  /\ \A f \in Files : Open(f) \in Message
  /\ \A f \in Files, n \in Nat : Call(f, n) \in Message
  /\ \A n \in Nat : \A s \in {"initialize", "initialized", "shutdown", "exit", "reply"} :
       Other(s, n) \in Message
BY DEF Open, Call, Other, Message

LEMMA GoneType ==
  ASSUME GoplsOK, NEW K, Gone(K), UNCHANGED <<output, owned>>
  PROVE  GoplsOK'
<1>1. <<>> \in Seq(Message) /\ Len(<<>>) = 0
  BY EmptySeq
<1>2. \A k \in Conns : Len(input'[k]) <= PipeRoom
  BY <1>1 DEF GoplsOK, Gone
<1>3. QED
  BY <1>1, <1>2 DEF GoplsOK, Gone

LEMMA FinishType ==
  ASSUME ClientOK, ProcOK, NEW x \in Procs, Finish(x), UNCHANGED <<conn, conns>>
  PROVE  ClientOK' /\ ProcOK'
BY DEF ClientOK, ProcOK, Finish

LEMMA FailsType ==
  ASSUME ClientOK, GoplsOK, ProcOK, NEW x \in Procs, Fails(x),
         UNCHANGED <<conn, conns, output, owned>>
  PROVE  ClientOK' /\ GoplsOK' /\ ProcOK'
<1>1. CASE Purpose(x) = "shutdown"
  BY <1>1 DEF Fails, Goto, ClientOK, GoplsOK, ProcOK
<1>2. CASE Purpose(x) # "shutdown"
  BY <1>2, GoneType, FinishType DEF Fails
<1>3. QED
  BY <1>1, <1>2

LEMMA CallerType ==
  ASSUME TypeOK, NEW c \in Callers, (\E f \in Files : Ask(c, f)) \/ Connect(c) \/ Request(c)
  PROVE  TypeOK'
<1> USE DEF TypeOK, client, gopls, table, proc
<1>1. CASE \E f \in Files : Ask(c, f)
  <2>1. PICK f \in Files : Ask(c, f)
    BY <1>1
  <2>2. ProcOK'
    BY <2>1 DEF Ask, Goto, ProcOK
  <2>3. asks' \in 0..MaxAsks
    BY <2>1 DEF Ask
  <2>4. QED
    BY <2>1, <2>2, <2>3 DEF Ask, ClientOK, GoplsOK, TableOK
<1>2. CASE Connected(c)
  BY <1>2 DEF Connected, Goto, ClientOK, GoplsOK, TableOK, ProcOK
<1>3. CASE StartProcess(c)
  <2>1. conns + 1 \in Conns
    BY <1>3 DEF StartProcess, ClientOK
  <2>2. ClientOK' /\ GoplsOK'
    BY <1>3, <2>1 DEF StartProcess, ClientOK, GoplsOK
  <2>3. ProcOK'
    BY <1>3, <2>1 DEF StartProcess, Goto, ProcOK
  <2>4. QED
    BY <1>3, <2>2, <2>3 DEF StartProcess, TableOK
<1>4. CASE Unavailable(c)
  BY <1>4, FinishType DEF Unavailable, GoplsOK, TableOK
<1>5. CASE Initialized(c)
  <2>1. on[c] \in Conns
    BY <1>5 DEF Initialized, CanWrite, GoplsOK
  <2>2. GoplsOK'
    BY <1>5, <2>1, WriteType, MessageType DEF Initialized, GoplsOK
  <2>3. QED
    BY <1>5, <2>1, <2>2 DEF Initialized, Goto, ClientOK, TableOK, ProcOK
<1>6. CASE InitializedFails(c)
  BY <1>6, FailsType DEF InitializedFails, TableOK
<1>7. CASE AlreadyOpen(c)
  BY <1>7 DEF AlreadyOpen, Goto, ClientOK, GoplsOK, TableOK, ProcOK
<1>8. CASE MarkOpen(c)
  <2>1. opened' \in [Conns -> SUBSET Files]
    <3>1. on[c] \in Conns => opened[on[c]] \cup {file[c]} \in SUBSET Files
      BY DEF TableOK, ProcOK
    <3>2. QED
      BY <1>8, <3>1 DEF MarkOpen, TableOK
  <2>2. QED
    BY <1>8, <2>1 DEF MarkOpen, Goto, ClientOK, GoplsOK, TableOK, ProcOK
<1>9. CASE DidOpen(c)
  <2>1. on[c] \in Conns /\ file[c] \in Files
    BY <1>9 DEF DidOpen, CanWrite, GoplsOK, ProcOK
  <2>2. GoplsOK'
    BY <1>9, <2>1, WriteType, MessageType DEF DidOpen, GoplsOK
  <2>3. QED
    BY <1>9, <2>2 DEF DidOpen, Goto, ClientOK, TableOK, ProcOK
<1>10. CASE DidOpenFails(c)
  BY <1>10, FinishType DEF DidOpenFails, GoplsOK, TableOK
<1>11. QED
  BY <1>1, <1>2, <1>3, <1>4, <1>5, <1>6, <1>7, <1>8, <1>9, <1>10 DEF Connect, Request

LEMMA CallType ==
  ASSUME TypeOK, Places, NEW x \in Procs, CallStep(x) \/ Timeout(x)
  PROVE  TypeOK'
<1> USE DEF TypeOK, client, gopls, table, proc
<1>1. CASE Register(x)
  <2>1. on[x] \in Conns
    <3>1. pc[x] = "call"
      BY <1>1 DEF Register
    <3>2. on[x] \in 1..conns /\ conns \in 0..MaxConns
      BY <3>1 DEF Places, ClientOK
    <3>3. QED
      BY <3>2
  <2>2. nextID[on[x]] + 1 \in Nat /\ pending[on[x]] \cup {nextID[on[x]] + 1} \in SUBSET Nat
    BY <2>1 DEF TableOK
  <2>3. TableOK'
    BY <1>1, <2>2 DEF Register, TableOK
  <2>4. QED
    BY <1>1, <2>2, <2>3 DEF Register, Goto, ClientOK, GoplsOK, ProcOK
<1>2. CASE RegisterFails(x)
  BY <1>2, FailsType DEF RegisterFails, TableOK
<1>3. CASE Send(x)
  <2>1. on[x] \in Conns /\ id[x] \in Nat
    BY <1>3 DEF Send, CanWrite, GoplsOK, ProcOK
  <2>2. (IF Purpose(x) = "request" THEN Call(file[x], id[x]) ELSE Other(Purpose(x), id[x]))
          \in Message
    BY <2>1, MessageType DEF Purpose, ProcOK
  <2>3. GoplsOK'
    BY <1>3, <2>1, <2>2, WriteType DEF Send, GoplsOK
  <2>4. QED
    BY <1>3, <2>3 DEF Send, Goto, ClientOK, TableOK, ProcOK
<1>4. CASE SendFails(x)
  BY <1>4, FailsType DEF SendFails, TableOK
<1>5. CASE Answered(x)
  <2>1. ClientOK' /\ ProcOK'
    BY <1>5, FinishType DEF Answered, Goto, ClientOK, ProcOK
  <2>2. QED
    BY <1>5, <2>1 DEF Answered, GoplsOK, TableOK
<1>6. CASE Hangup(x)
  BY <1>6, FailsType DEF Hangup, TableOK
<1>7. CASE Timeout(x)
  <2>1. pending' \in [Conns -> SUBSET Nat]
    BY <1>7 DEF Timeout, TableOK
  <2>2. QED
    BY <1>7, <2>1, FailsType DEF Timeout, TableOK
<1>8. QED
  BY <1>1, <1>2, <1>3, <1>4, <1>5, <1>6, <1>7 DEF CallStep

LEMMA CloserType ==
  ASSUME TypeOK, NEW x \in Closers, Close(x) \/ Exit(x) \/ Await(x)
  PROVE  TypeOK'
<1> USE DEF TypeOK, client, gopls, table, proc
<1>1. CASE Close(x)
  <2>1. ProcOK'
    <3>1. CASE conn \in closed
      BY <1>1, <3>1 DEF Close, ProcOK
    <3>2. CASE conn \notin closed
      <4>1. pc' = [pc EXCEPT ![x] = "call"] /\ on' = [on EXCEPT ![x] = conn] /\ UNCHANGED <<file, id, chan>>
        BY <1>1, <3>2 DEF Close, Goto
      <4>2. QED
        BY <4>1 DEF ClientOK, ProcOK
    <3>3. QED
      BY <3>1, <3>2
  <2>2. QED
    BY <1>1, <2>1 DEF Close, ClientOK, GoplsOK, TableOK
<1>2. CASE Exit(x)
  <2>1. GoplsOK'
    <3>1. CASE CanWrite(on[x]) /\ Write(on[x], Other("exit", 0))
      BY <1>2, <3>1, WriteType, MessageType DEF Exit, CanWrite, GoplsOK
    <3>2. CASE UNCHANGED input
      BY <1>2, <3>2 DEF Exit, GoplsOK
    <3>3. QED
      BY <1>2, <3>1, <3>2 DEF Exit
  <2>2. QED
    BY <1>2, <2>1 DEF Exit, Goto, ClientOK, TableOK, ProcOK
<1>3. CASE Await(x)
  BY <1>3, GoneType, FinishType DEF Await, TableOK
<1>4. QED
  BY <1>1, <1>2, <1>3

LEMMA ConnectionType ==
  ASSUME TypeOK, NEW k \in Conns, Connection(k) \/ GoplsRead(k) \/ GoplsAsks(k) \/ Crash(k)
  PROVE  TypeOK'
<1> USE DEF TypeOK, client, gopls, table, proc
<1>1. CASE ReadMessage(k)
  <2>1. PICK n \in output[k] :
          /\ output' = [output EXCEPT ![k] = @ \ {n}]
          /\ pending' = [pending EXCEPT ![k] = @ \ {n}]
          /\ reading' = [reading EXCEPT ![k] = IF n = 0 \/ n \in pending[k] THEN n ELSE -1]
    BY <1>1 DEF ReadMessage
  <2>2. n \in Nat
    BY DEF GoplsOK
  <2>3. output' \in [Conns -> SUBSET Nat] /\ pending' \in [Conns -> SUBSET Nat]
    BY <2>1 DEF GoplsOK, TableOK
  <2>4. reading' \in [Conns -> Nat \cup {-1}]
    BY <2>1, <2>2
  <2>5. QED
    BY <1>1, <2>3, <2>4 DEF ReadMessage, ClientOK, GoplsOK, TableOK, ProcOK
<1>2. CASE Deliver(k)
  BY <1>2 DEF Deliver, ClientOK, GoplsOK, TableOK, ProcOK
<1>3. CASE Reply(k)
  <2>1. GoplsOK'
    <3>1. CASE CanWrite(k) /\ Write(k, Other("reply", 0))
      BY <1>3, <3>1, WriteType, MessageType DEF Reply, GoplsOK
    <3>2. CASE UNCHANGED input
      BY <1>3, <3>2 DEF Reply, GoplsOK
    <3>3. QED
      BY <1>3, <3>1, <3>2 DEF Reply
  <2>2. QED
    BY <1>3, <2>1 DEF Reply, ClientOK, TableOK, ProcOK
<1>4. CASE Fail(k)
  BY <1>4 DEF Fail, ClientOK, GoplsOK, TableOK, ProcOK
<1>5. CASE GoplsRead(k)
  <2> DEFINE m == Head(input[k])
  <2>1. input[k] \in Seq(Message) /\ input[k] # <<>> /\ Len(input[k]) <= PipeRoom
    BY <1>5 DEF GoplsRead, GoplsOK
  <2>2. m \in Message /\ Tail(input[k]) \in Seq(Message) /\ Len(Tail(input[k])) = Len(input[k]) - 1
    BY <2>1, HeadTailProperties
  <2>3. output' \in [Conns -> SUBSET Nat]
    <3>1. output[k] \cup {m.id} \in SUBSET Nat
      BY <2>2 DEF GoplsOK, Message
    <3>2. QED
      BY <1>5, <3>1 DEF GoplsRead, GoplsOK
  <2>4. CASE Gone({k})
    <3>1. GoplsOK'
      <4>1. <<>> \in Seq(Message) /\ Len(<<>>) = 0
        BY EmptySeq
      <4>2. \A j \in Conns : Len(input'[j]) <= PipeRoom
        BY <2>4, <4>1 DEF GoplsOK, Gone
      <4>3. QED
        BY <1>5, <2>3, <2>4, <4>1, <4>2 DEF GoplsRead, GoplsOK, Gone
    <3>2. QED
      BY <1>5, <3>1 DEF GoplsRead, ClientOK, TableOK, ProcOK
  <2>5. CASE /\ input' = [input EXCEPT ![k] = Tail(@)] /\ UNCHANGED running
             /\ known' = IF m.kind = "open" THEN [known EXCEPT ![k] = @ \cup {m.file}]
                         ELSE known
    <3>1. known' \in [Conns -> SUBSET Files]
      <4>1. m.kind = "open" => known[k] \cup {m.file} \in SUBSET Files
        BY <2>2 DEF Message, GoplsOK
      <4>2. QED
        BY <2>5, <4>1 DEF GoplsOK
    <3>2. Len(input[k]) \in Nat /\ PipeRoom \in Nat
      BY <2>1, LenProperties
    <3>3. \A j \in Conns : Len(input'[j]) <= PipeRoom
      BY <2>1, <2>2, <2>5, <3>2 DEF GoplsOK
    <3>4. input' \in [Conns -> Seq(Message)]
      BY <2>2, <2>5 DEF GoplsOK
    <3>5. GoplsOK'
      BY <1>5, <2>3, <2>5, <3>1, <3>3, <3>4 DEF GoplsRead, GoplsOK
    <3>6. QED
      BY <1>5, <3>5 DEF GoplsRead, ClientOK, TableOK, ProcOK
  <2>6. QED
    BY <1>5, <2>4, <2>5 DEF GoplsRead
<1>6. CASE GoplsAsks(k)
  <2>1. output[k] \cup {0} \in SUBSET Nat
    BY DEF GoplsOK
  <2>2. output' \in [Conns -> SUBSET Nat]
    BY <1>6, <2>1 DEF GoplsAsks, GoplsOK
  <2>3. owned' \in 0..MaxOwn
    BY <1>6 DEF GoplsAsks, GoplsOK
  <2>4. QED
    BY <1>6, <2>2, <2>3 DEF GoplsAsks, ClientOK, GoplsOK, TableOK, ProcOK
<1>7. CASE Crash(k)
  BY <1>7, GoneType DEF Crash, ClientOK, TableOK, ProcOK
<1>8. QED
  BY <1>1, <1>2, <1>3, <1>4, <1>5, <1>6, <1>7 DEF Connection

-----------------------------------------------------------------------------
(***************************************************************************)
(* What most steps have in common: the calls under way go on, or one ends. *)
(***************************************************************************)
InCall(x) == pc[x] \in {"send", "wait"}

LEMMA CallsGoOn ==
  ASSUME TypeOK, Places, Ids, Calls, NoneRegisteredForEver,
         UNCHANGED <<closed, nextID, pending, id, chan>>,
         \A k \in Conns : reading'[k] = reading[k] \/ (reading[k] = 0 /\ reading'[k] = -1),
         conns' \in {conns, conns + 1},
         \A k \in running' : k \in running \/ (k \in Conns /\ k > conns),
         \A x \in Procs : /\ id[x] # 0 => on'[x] = on[x]
                          /\ InCall(x)' <=> InCall(x)
  PROVE  Ids' /\ Calls' /\ NoneRegisteredForEver'
<1> USE DEF TypeOK, ClientOK, GoplsOK, TableOK, ProcOK
<1>1. Ids'
  <2>1. \A k \in Conns : /\ pending[k] \subseteq 1..nextID[k] /\ (k \in closed => pending[k] = {})
                        /\ reading'[k] <= nextID[k] /\ reading'[k] \notin pending[k]
    <3> SUFFICES ASSUME NEW k \in Conns
                 PROVE  /\ pending[k] \subseteq 1..nextID[k] /\ (k \in closed => pending[k] = {})
                        /\ reading'[k] <= nextID[k] /\ reading'[k] \notin pending[k]
      OBVIOUS
    <3>1. /\ pending[k] \subseteq 1..nextID[k] /\ (k \in closed => pending[k] = {})
          /\ reading[k] <= nextID[k] /\ reading[k] \notin pending[k] /\ nextID[k] \in Nat
      BY DEF Ids
    <3>2. reading'[k] = reading[k] \/ reading'[k] = -1
      OBVIOUS
    <3>3. -1 \notin pending[k] /\ -1 <= nextID[k]
      BY <3>1
    <3>4. QED
      BY <3>1, <3>2, <3>3
  <2>2. \A k \in Conns : k > conns' => nextID[k] = 0
    BY DEF Ids
  <2>3. \A x \in Procs : id[x] # 0 => on'[x] # 0 /\ id[x] <= nextID[on'[x]]
    BY DEF Ids
  <2>4. \A x, y \in Procs : id[x] # 0 /\ id[x] = id[y] /\ on'[x] = on'[y] => x = y
    BY DEF Ids
  <2>5. QED
    BY <2>1, <2>2, <2>3, <2>4 DEF Ids
<1>2. Calls'
  BY SMTT(60) DEF Ids, Calls, InCall, Places
<1>3. NoneRegisteredForEver'
  <2> SUFFICES ASSUME NEW k \in running', NEW n \in pending[k]
               PROVE  \E x \in Procs : on'[x] = k /\ id[x] = n /\ InCall(x)'
    BY DEF NoneRegisteredForEver, InCall
  <2>1. k \in running
    BY DEF Ids
  <2>2. PICK x \in Procs : on[x] = k /\ id[x] = n /\ InCall(x)
    BY <2>1 DEF NoneRegisteredForEver, InCall
  <2>3. id[x] # 0
    BY <2>2 DEF Calls, InCall
  <2>4. QED
    BY <2>2, <2>3
<1>4. QED
  BY <1>1, <1>2, <1>3

LEMMA CallEnds ==
  ASSUME TypeOK, Places, Ids, Calls, NoneRegisteredForEver, NEW x \in Procs,
         UNCHANGED <<closed, nextID, reading, conns>>, running' \subseteq running,
         \A k \in Conns : /\ pending'[k] \subseteq pending[k]
                          /\ \A n \in pending[k] \ pending'[k] : k = on[x] /\ n = id[x],
         \A y \in Procs \ {x} : /\ id'[y] = id[y] /\ on'[y] = on[y]
                                /\ chan'[y] = chan[y] /\ pc'[y] = pc[y],
         ~InCall(x)', id'[x] = 0 \/ (id'[x] = id[x] /\ on'[x] = on[x]),
         InCall(x) => on[x] \notin running' \/ id[x] \notin pending'[on[x]]
  PROVE  Ids' /\ Calls' /\ NoneRegisteredForEver'
<1> USE DEF TypeOK, ClientOK, GoplsOK, TableOK, ProcOK
<1>1. Ids'
  <2>1. \A y \in Procs : id'[y] # 0 => id'[y] = id[y] /\ on'[y] = on[y]
    OBVIOUS
  <2>2. \A k \in Conns : /\ pending'[k] \subseteq 1..nextID[k] /\ (k \in closed => pending'[k] = {})
                        /\ reading[k] <= nextID[k] /\ reading[k] \notin pending'[k]
                        /\ k > conns => nextID[k] = 0
    BY DEF Ids
  <2>3. \A y \in Procs : id'[y] # 0 => on'[y] # 0 /\ id'[y] <= nextID[on'[y]]
    BY <2>1, SMTT(60) DEF Ids
  <2>4. \A y, z \in Procs : id'[y] # 0 /\ id'[y] = id'[z] /\ on'[y] = on'[z] => y = z
    BY <2>1 DEF Ids
  <2>5. QED
    BY <2>2, <2>3, <2>4 DEF Ids
<1>2. Calls'
  <2> SUFFICES ASSUME NEW y \in Procs, InCall(y)'
               PROVE  /\ id'[y] # 0
                      /\ chan'[y] = "empty"  => \/ id'[y] \in pending'[on'[y]] /\ on'[y] \notin closed
                                                \/ reading[on'[y]] = id'[y]
                      /\ chan'[y] = "answer" => id'[y] \notin pending'[on'[y]]
                      /\ chan'[y] = "closed" => on'[y] \in closed
    BY DEF Calls, InCall
  <2>1. y # x /\ InCall(y) /\ id'[y] = id[y] /\ on'[y] = on[y] /\ chan'[y] = chan[y]
    BY DEF InCall
  <2>2. id[y] # 0 /\ on[y] \in Conns
    BY <2>1 DEF Calls, InCall, Places
  <2>3. ~(on[y] = on[x] /\ id[y] = id[x])
    BY <2>1, <2>2 DEF Ids
  <2>4. id[y] \in pending'[on[y]] <=> id[y] \in pending[on[y]]
    BY <2>2, <2>3
  <2>5. /\ chan[y] = "empty"  => \/ id[y] \in pending[on[y]] /\ on[y] \notin closed
                                 \/ reading[on[y]] = id[y]
        /\ chan[y] = "answer" => id[y] \notin pending[on[y]]
        /\ chan[y] = "closed" => on[y] \in closed
    BY <2>1 DEF Calls, InCall
  <2>6. QED
    BY <2>1, <2>2, <2>4, <2>5
<1>3. NoneRegisteredForEver'
  <2> SUFFICES ASSUME NEW k \in running', NEW n \in pending'[k]
               PROVE  \E y \in Procs : on'[y] = k /\ id'[y] = n /\ InCall(y)'
    BY DEF NoneRegisteredForEver, InCall
  <2>1. k \in running /\ n \in pending[k]
    OBVIOUS
  <2>2. PICK y \in Procs : on[y] = k /\ id[y] = n /\ InCall(y)
    BY <2>1 DEF NoneRegisteredForEver, InCall
  <2>3. y # x
    BY <2>2
  <2>4. QED
    BY <2>2, <2>3 DEF InCall
<1>4. QED
  BY <1>1, <1>2, <1>3

(* What x's return, or its call's error, does to x and to nobody else. *)
LEMMA FinishDoes ==
  ASSUME TypeOK, NEW x \in Procs, Finish(x)
  PROVE  /\ pc'[x] = "idle" /\ on'[x] = 0 /\ id'[x] = 0 /\ chan'[x] = "empty"
         /\ \A y \in Procs \ {x} : /\ id'[y] = id[y] /\ on'[y] = on[y]
                                   /\ chan'[y] = chan[y] /\ pc'[y] = pc[y]
         /\ startMu' = IF startMu = x THEN Nobody ELSE startMu
BY DEF Finish, TypeOK, ProcOK

LEMMA FailsDoes ==
  ASSUME TypeOK, NEW x \in Procs, Fails(x)
  PROVE  /\ \/ /\ x \in Closers /\ pc'[x] = "exit" /\ on'[x] = on[x] /\ id'[x] = id[x]
               /\ startMu' = startMu /\ running' = running
            \/ /\ x \in Callers /\ pc'[x] = "idle" /\ on'[x] = 0 /\ id'[x] = 0 /\ chan'[x] = "empty"
               /\ startMu' = IF startMu = x THEN Nobody ELSE startMu
               /\ running' = IF startMu = x THEN running \ {on[x]} ELSE running
         /\ \A y \in Procs \ {x} : /\ id'[y] = id[y] /\ on'[y] = on[y]
                                   /\ chan'[y] = chan[y] /\ pc'[y] = pc[y]
<1>1. CASE Purpose(x) = "shutdown"
  BY <1>1 DEF Fails, Purpose, Goto, TypeOK, ProcOK
<1>2. CASE Purpose(x) # "shutdown"
  <2>1. Finish(x) /\ x \in Callers
    BY <1>2 DEF Fails, Purpose
  <2>2. running' = IF startMu = x THEN running \ {on[x]} ELSE running
    BY <1>2, <2>1 DEF Fails, Purpose, Gone
  <2>3. QED
    BY <2>1, <2>2, FinishDoes
<1>3. QED
  BY <1>1, <1>2

-----------------------------------------------------------------------------
(***************************************************************************)
(* Places and Starting.                                                    *)
(***************************************************************************)
LEMMA StepPlaces ==
  ASSUME TypeOK, Places, Starting, Next
  PROVE  Places'
<1> USE DEF client, gopls, table, proc
<1> DEFINE At(x) == IF pc[x] \in {"idle", "connect"}
                    THEN on[x] = 0 /\ id[x] = 0 /\ chan[x] = "empty"
                    ELSE on[x] \in 1..conns
<1>0. ASSUME NEW x \in Procs, At(x)', conns' = conns, conn' <= conns, closed' = closed,
             running' \subseteq running, x \in Callers => pc'[x] \notin {"exit", "await"},
             x \in Closers => pc'[x] \in {"idle", "call", "send", "wait", "exit", "await"},
             \A y \in Procs \ {x} : /\ id'[y] = id[y] /\ on'[y] = on[y]
                                    /\ chan'[y] = chan[y] /\ pc'[y] = pc[y]
      PROVE  Places'
  <2>1. \A y \in Procs : At(y)'
    BY <1>0 DEF Places
  <2>2. conn' <= conns' /\ running' \subseteq 1..conns' /\ closed' \subseteq (1..conns') \ running'
    BY <1>0 DEF Places
  <2>3. (\A c \in Callers : pc'[c] \notin {"exit", "await"})
        /\ \A y \in Closers : pc'[y] \in {"idle", "call", "send", "wait", "exit", "await"}
    BY <1>0 DEF Places
  <2>4. QED
    BY <2>1, <2>2, <2>3 DEF Places
<1>1. ASSUME NEW c \in Callers, (\E f \in Files : Ask(c, f)) \/ Connected(c) \/ AlreadyOpen(c)
                                 \/ MarkOpen(c) \/ DidOpen(c) \/ Initialized(c)
      PROVE  Places'
  <2> USE DEF TypeOK, ClientOK, ProcOK, Places, Goto
  <2>1. CASE \E f \in Files : Ask(c, f)
    BY <2>1 DEF Ask
  <2>2. CASE Connected(c)
    BY <2>2 DEF Connected
  <2>3. CASE AlreadyOpen(c) \/ MarkOpen(c) \/ DidOpen(c)
    BY <2>3 DEF AlreadyOpen, MarkOpen, DidOpen
  <2>4. CASE Initialized(c)
    BY <2>4 DEF Initialized
  <2>5. QED
    BY <1>1, <2>1, <2>2, <2>3, <2>4
<1>2. ASSUME NEW c \in Callers, StartProcess(c) PROVE Places'
  <2>1. conns' = conns + 1 /\ conns \in Nat /\ closed' = closed /\ conn' = conn
    BY <1>2 DEF StartProcess, TypeOK, ClientOK
  <2>2. conns + 1 \notin closed
    BY <2>1 DEF Places
  <2>3. running' \subseteq 1..conns' /\ closed' \subseteq (1..conns') \ running' /\ conn' <= conns'
    BY <1>2, <2>1, <2>2 DEF StartProcess, Places, TypeOK, ClientOK
  <2>4. \A x \in Procs : At(x)'
    BY <1>2, <2>1 DEF StartProcess, Places, Goto, TypeOK, ProcOK
  <2>5. QED
    BY <1>2, <2>3, <2>4 DEF StartProcess, Places, Goto, TypeOK, ProcOK
<1>3. ASSUME NEW c \in Callers, Unavailable(c) \/ DidOpenFails(c) PROVE Places'
  <2>1. Finish(c) /\ UNCHANGED <<conns, conn, closed, running>>
    BY <1>3 DEF Unavailable, DidOpenFails
  <2>2. QED
    BY <2>1, <1>0, FinishDoes DEF Places
<1>4. ASSUME NEW x \in Procs, Fails(x), UNCHANGED <<conn, conns, closed>>, pc[x] \notin {"idle", "connect"}
      PROVE  Places'
  <2>1. on[x] \in 1..conns /\ conn <= conns
    BY <1>4 DEF Places
  <2>2. running' \subseteq running
    BY <1>4, FailsDoes
  <2>3. At(x)'
    BY <1>4, <2>1, FailsDoes
  <2>4. QED
    BY <1>4, <2>1, <2>2, <2>3, <1>0, FailsDoes
<1>5. ASSUME NEW x \in Procs, Register(x) \/ Send(x) PROVE Places'
  BY <1>5 DEF TypeOK, ProcOK, Places, Register, Send, Goto
<1>6. ASSUME NEW x \in Procs, Answered(x) PROVE Places'
  <2>1. CASE Finish(x) /\ x \in Callers
    BY <1>6, <2>1, FinishDoes DEF Answered, Places
  <2>2. CASE Purpose(x) # "request"
    <3>1. PICK l \in {"initialized", "exit"} : pc' = [pc EXCEPT ![x] = l]
                                             /\ (l = "initialized" => x \in Callers)
                                             /\ (l = "exit" => x \in Closers)
      BY <1>6, <2>2 DEF Answered, Purpose, Goto
    <3>2. UNCHANGED <<on, id, chan, conn, conns, closed, running>> /\ pc[x] = "wait"
      BY <1>6, <2>2 DEF Answered
    <3>3. pc'[x] = l /\ \A y \in Procs \ {x} : pc'[y] = pc[y]
      BY <3>1 DEF TypeOK, ProcOK
    <3>4. At(x)'
      BY <3>2, <3>3 DEF Places
    <3>5. conn' <= conns
      BY <3>2 DEF Places
    <3>6. QED
      BY <3>1, <3>2, <3>3, <3>4, <3>5, <1>0
  <2>3. QED
    BY <1>6, <2>1, <2>2 DEF Answered, Purpose
<1>7. ASSUME NEW x \in Closers, Close(x) PROVE Places'
  <2>1. conn \in 1..conns /\ conn' <= conns
    BY <1>7 DEF TypeOK, ClientOK, Places, Close
  <2>2. At(x)' /\ pc'[x] \in {"idle", "call"}
    BY <1>7, <2>1 DEF TypeOK, ProcOK, Places, Close, Goto
  <2>3. \A y \in Procs \ {x} : /\ id'[y] = id[y] /\ on'[y] = on[y]
                                /\ chan'[y] = chan[y] /\ pc'[y] = pc[y]
    BY <1>7 DEF TypeOK, ProcOK, Close, Goto
  <2>4. QED
    BY <1>7, <1>0, <2>1, <2>2, <2>3 DEF Close
<1>8. ASSUME NEW x \in Closers, Exit(x) PROVE Places'
  BY <1>8 DEF TypeOK, ClientOK, ProcOK, Places, Exit, Goto
<1>9. ASSUME NEW x \in Closers, Await(x) PROVE Places'
  <2>1. Finish(x) /\ UNCHANGED <<conns, conn, closed>> /\ running' \subseteq running
    BY <1>9 DEF Await, Gone
  <2>2. QED
    BY <2>1, <1>0, FinishDoes DEF Places
<1>10. ASSUME NEW k \in Conns, ReadMessage(k) \/ Deliver(k) \/ Reply(k) \/ Fail(k)
                               \/ GoplsRead(k) \/ GoplsAsks(k) \/ Crash(k)
       PROVE  Places'
  <2>1. /\ UNCHANGED <<pc, on, id, conn, conns>> /\ running' \subseteq running
        /\ closed' = closed \/ (closed' = closed \cup {k} /\ k \in 1..conns /\ k \notin running)
    BY <1>10 DEF ReadMessage, Deliver, Reply, Fail, GoplsRead, GoplsAsks, Crash, Gone
  <2>2. \A x \in Procs : pc[x] \in {"idle", "connect"} => chan'[x] = "empty"
    BY <1>10 DEF ReadMessage, Deliver, Reply, Fail, GoplsRead, GoplsAsks, Crash, Places
  <2>3. QED
    BY <2>1, <2>2 DEF Places
<1>11. ASSUME NEW x \in Procs, Timeout(x) \/ Hangup(x) \/ SendFails(x) \/ RegisterFails(x)
       PROVE  Places'
  BY <1>11, <1>4 DEF Timeout, Hangup, SendFails, RegisterFails
<1>12. ASSUME NEW c \in Callers, InitializedFails(c) PROVE Places'
  BY <1>12, <1>4 DEF InitializedFails
<1>13. QED
  BY <1>1, <1>2, <1>3, <1>5, <1>6, <1>7, <1>8, <1>9, <1>10, <1>11, <1>12
  DEF Next, Connect, Request, CallStep, Connection

LEMMA StepStarting ==
  ASSUME TypeOK, Places, Starting, Next
  PROVE  Starting'
<1> USE DEF client, gopls, table, proc
<1>0. ASSUME NEW x \in Procs, x \in Closers => on'[x] = on[x] \/ on[x] \notin running',
             conn' = conn, closed \subseteq closed', running' \subseteq running,
             startMu' = startMu \/ startMu' = Nobody,
             startMu' # startMu => startMu = x /\ on[x] \notin running',
             x \in Callers => \/ startMu' # x /\ pc'[x] # "initialized"
                              \/ /\ startMu' = x /\ on'[x] = on[x]
                                 /\ pc'[x] \in {"call", "send", "wait", "initialized"},
             \A y \in Procs \ {x} : on'[y] = on[y] /\ pc'[y] = pc[y]
      PROVE  Starting'
  <2>1. \A c \in Callers : startMu' = c => startMu = c
    BY <1>0
  <2>2. \A c \in Callers : startMu' = c =>
          pc'[c] \in {"call", "send", "wait", "initialized"} /\ (conn' = 0 \/ conn' \in closed')
    BY <1>0, <2>1 DEF Starting
  <2>3. \A c \in Callers : pc'[c] = "initialized" => startMu' = c
    BY <1>0 DEF Starting
  <2>4. ASSUME NEW k \in running' \ Stopping'
        PROVE  k = conn' \/ \E c \in Callers : startMu' = c /\ on'[c] = k
    <3>1. k \in running \ Stopping
      BY <1>0, <2>4 DEF Stopping
    <3>2. k = conn \/ \E c \in Callers : startMu = c /\ on[c] = k
      BY <3>1 DEF Starting
    <3>3. QED
      BY <1>0, <2>4, <3>2
  <2>5. QED
    BY <2>2, <2>3, <2>4 DEF Starting
<1>1. ASSUME NEW c \in Callers, (\E f \in Files : Ask(c, f)) \/ Connected(c) \/ AlreadyOpen(c)
                                 \/ MarkOpen(c) \/ DidOpen(c)
      PROVE  Starting'
  <2>1. /\ UNCHANGED <<conn, closed, running, startMu>> /\ startMu # c /\ pc'[c] # "initialized"
        /\ \A y \in Procs \ {c} : on'[y] = on[y] /\ pc'[y] = pc[y]
    <3> USE DEF TypeOK, ProcOK, Starting, Goto
    <3>1. CASE (\E f \in Files : Ask(c, f)) \/ Connected(c)
      BY <3>1 DEF Ask, Connected
    <3>2. CASE AlreadyOpen(c) \/ MarkOpen(c) \/ DidOpen(c)
      BY <3>2 DEF AlreadyOpen, MarkOpen, DidOpen
    <3>3. QED
      BY <1>1, <3>1, <3>2
  <2>2. QED
    BY <2>1, <1>0
<1>2. ASSUME NEW c \in Callers, StartProcess(c) PROVE Starting'
  <2>1. /\ startMu = Nobody /\ startMu' = c /\ UNCHANGED <<conn, closed>>
        /\ running' = running \cup {conns + 1} /\ on'[c] = conns + 1 /\ pc'[c] = "call"
        /\ \A y \in Procs \ {c} : on'[y] = on[y] /\ pc'[y] = pc[y]
    BY <1>2 DEF StartProcess, Goto, TypeOK, ProcOK
  <2>2. conn = 0 \/ conn \in closed
    BY <1>2 DEF StartProcess
  <2>3. \A d \in Callers : pc[d] # "initialized"
    BY <2>1 DEF Starting
  <2>4. ASSUME NEW k \in running' \ Stopping' PROVE k = conn' \/ on'[c] = k
    <3>1. k = conns + 1 \/ k \in running \ Stopping
      BY <2>1, <2>4 DEF Stopping
    <3>2. QED
      BY <3>1, <2>1 DEF Starting
  <2>5. QED
    BY <2>1, <2>2, <2>3, <2>4 DEF Starting
<1>3. ASSUME NEW c \in Callers, Unavailable(c) \/ DidOpenFails(c) PROVE Starting'
  <2>1. Finish(c) /\ UNCHANGED <<conn, closed, running>> /\ startMu # c
    BY <1>3 DEF Unavailable, DidOpenFails, Starting
  <2>2. QED
    BY <2>1, <1>0, FinishDoes
<1>4. ASSUME NEW x \in Procs, Fails(x), UNCHANGED <<conn, conns, closed>>
      PROVE  Starting'
  <2>1. running' \subseteq running
    BY <1>4, FailsDoes
  <2>2. startMu' # startMu => startMu = x /\ startMu' = Nobody /\ on[x] \notin running'
    BY <1>4, FailsDoes
  <2>3. x \in Closers => on'[x] = on[x]
    BY <1>4, FailsDoes
  <2>4. x \in Callers => startMu' # x /\ pc'[x] # "initialized"
    BY <1>4, FailsDoes
  <2>5. QED
    BY <1>4, <1>0, <2>1, <2>2, <2>3, <2>4, FailsDoes
<1>5. ASSUME NEW x \in Procs, Register(x) \/ Send(x) PROVE Starting'
  <2>1. /\ UNCHANGED <<conn, closed, running, startMu, on>> /\ pc'[x] \in {"send", "wait"}
        /\ \A y \in Procs \ {x} : pc'[y] = pc[y]
    BY <1>5 DEF TypeOK, ProcOK, Register, Send, Goto
  <2>2. QED
    BY <2>1, <1>0
<1>6. ASSUME NEW x \in Procs, Answered(x) PROVE Starting'
  <2>1. CASE Finish(x) /\ startMu # x /\ x \in Callers
    BY <1>6, <1>0, <2>1, FinishDoes DEF Answered
  <2>2. CASE Purpose(x) # "request"
    <3>1. /\ UNCHANGED <<conn, closed, running, startMu, on>>
          /\ x \in Callers => startMu = x /\ pc'[x] = "initialized"
          /\ \A y \in Procs \ {x} : pc'[y] = pc[y]
      BY <1>6, <2>2 DEF Answered, Purpose, Goto, TypeOK, ProcOK
    <3>2. QED
      BY <3>1, <1>0
  <2>3. QED
    BY <1>6, <2>1, <2>2 DEF Answered, Purpose
<1>7. ASSUME NEW x \in Closers, Close(x) PROVE Starting'
  <2>1. /\ conn' = 0 /\ UNCHANGED <<startMu, running, closed>>
        /\ conn \in running => on'[x] = conn
        /\ \A c \in Callers : pc'[c] = pc[c] /\ on'[c] = on[c]
        /\ \A y \in Closers \ {x} : on'[y] = on[y]
        /\ on[x] = 0
    BY <1>7 DEF Close, Goto, TypeOK, ProcOK, Places
  <2>2. ASSUME NEW k \in running' \ Stopping'
        PROVE  \E c \in Callers : startMu' = c /\ on'[c] = k
    <3>1. k # conn
      BY <2>1, <2>2 DEF Stopping
    <3>2. 0 \notin running
      BY DEF TypeOK, GoplsOK
    <3>3. k \in running \ Stopping
      BY <2>1, <2>2, <3>2 DEF Stopping
    <3>4. QED
      BY <3>1, <3>3, <2>1 DEF Starting
  <2>3. QED
    BY <2>1, <2>2 DEF Starting
<1>8. ASSUME NEW x \in Closers, Exit(x) PROVE Starting'
  <2>1. /\ UNCHANGED <<conn, closed, running, startMu, on>>
        /\ \A y \in Procs \ {x} : pc'[y] = pc[y]
    BY <1>8 DEF TypeOK, ProcOK, Exit, Goto
  <2>2. QED
    BY <2>1, <1>0
<1>9. ASSUME NEW x \in Closers, Await(x) PROVE Starting'
  <2>1. Finish(x) /\ UNCHANGED <<conn, closed>> /\ running' = running \ {on[x]} /\ startMu # x
    BY <1>9 DEF Await, Gone, TypeOK, ClientOK
  <2>2. QED
    BY <2>1, <1>0, FinishDoes
<1>10. ASSUME NEW k \in Conns, ReadMessage(k) \/ Deliver(k) \/ Reply(k) \/ Fail(k)
                               \/ GoplsRead(k) \/ GoplsAsks(k) \/ Crash(k)
       PROVE  Starting'
  <2>1. /\ UNCHANGED <<pc, on, conn, startMu>> /\ running' \subseteq running
        /\ closed \subseteq closed'
    BY <1>10 DEF ReadMessage, Deliver, Reply, Fail, GoplsRead, GoplsAsks, Crash, Gone
  <2>2. QED
    BY <2>1 DEF Starting, Stopping
<1>11. ASSUME NEW x \in Procs, Timeout(x) \/ Hangup(x) \/ SendFails(x) \/ RegisterFails(x)
       PROVE  Starting'
  BY <1>11, <1>4 DEF Timeout, Hangup, SendFails, RegisterFails
<1>12. ASSUME NEW c \in Callers, InitializedFails(c) PROVE Starting'
  BY <1>12, <1>4 DEF InitializedFails
<1>13. ASSUME NEW c \in Callers, Initialized(c) PROVE Starting'
  <2>1. /\ startMu = c /\ startMu' = Nobody /\ conn' = on[c] /\ UNCHANGED <<running, closed, on>>
        /\ pc'[c] = "open" /\ \A y \in Procs \ {c} : pc'[y] = pc[y]
    BY <1>13 DEF Initialized, Goto, Starting, TypeOK, ProcOK
  <2>2. conn \notin running
    BY <2>1 DEF Starting, Places, TypeOK, GoplsOK
  <2>3. \A k \in running' \ Stopping' : k = conn'
    BY <2>1, <2>2 DEF Starting, Stopping
  <2>4. \A d \in Callers : pc'[d] # "initialized" /\ startMu' # d
    BY <2>1 DEF Starting
  <2>5. QED
    BY <2>3, <2>4 DEF Starting
<1>14. QED
  BY <1>1, <1>2, <1>3, <1>5, <1>6, <1>7, <1>8, <1>9, <1>10, <1>11, <1>12, <1>13
  DEF Next, Connect, Request, CallStep, Connection

-----------------------------------------------------------------------------
(***************************************************************************)
(* Ids, Calls and NoneRegisteredForEver.                                   *)
(***************************************************************************)
LEMMA ConnectionOf ==
  ASSUME TypeOK, Places, NEW x \in Procs, pc[x] \notin {"idle", "connect"}
  PROVE  on[x] \in Conns /\ on[x] <= conns
<1>1. on[x] \in 1..conns /\ conns \in 0..MaxConns
  BY DEF Places, TypeOK, ClientOK
<1>2. QED
  BY <1>1

LEMMA RegisterCalls ==
  ASSUME TypeOK, Places, Ids, Calls, NoneRegisteredForEver, NEW x \in Procs, Register(x)
  PROVE  Ids' /\ Calls' /\ NoneRegisteredForEver'
<1> DEFINE k == on[x]
           n == nextID[k] + 1
<1>1. k \in Conns /\ k <= conns /\ k \notin closed /\ nextID[k] \in Nat /\ n \in Nat
  <2>1. k \in Conns /\ k <= conns /\ k \notin closed
    BY ConnectionOf DEF Register
  <2>2. QED
    BY <2>1 DEF TypeOK, TableOK
<1>2. /\ id'[x] = n /\ chan'[x] = "empty" /\ pc'[x] = "send" /\ pc[x] = "call"
      /\ \A y \in Procs \ {x} : id'[y] = id[y] /\ chan'[y] = chan[y] /\ pc'[y] = pc[y]
  BY DEF Register, Goto, TypeOK, ProcOK
<1>3. /\ nextID'[k] = n /\ \A j \in Conns \ {k} : nextID'[j] = nextID[j] /\ pending'[j] = pending[j]
      /\ \A i : i \in pending'[k] <=> i \in pending[k] \/ i = n
  BY <1>1 DEF Register, TypeOK, TableOK
<1>4. UNCHANGED <<conns, running, closed, reading, on>>
  BY DEF Register, client, gopls
<1>5. \A y \in Procs : id[y] # 0 /\ on[y] = k => id[y] <= nextID[k] /\ id[y] # n
  BY <1>1 DEF Ids, TypeOK, ProcOK
<1>6. Ids'
  <2>1. ASSUME NEW j \in Conns
        PROVE  /\ pending'[j] \subseteq 1..nextID'[j] /\ (j \in closed => pending'[j] = {})
               /\ reading[j] <= nextID'[j] /\ reading[j] \notin pending'[j]
               /\ j > conns => nextID'[j] = 0
    <3>1. CASE j = k
      <4>1. reading[k] <= nextID[k] /\ reading[k] \in Nat \cup {-1} /\ reading[k] \notin pending[k]
        BY <1>1 DEF Ids, TypeOK
      <4>2. pending[k] \subseteq 1..nextID[k]
        BY <1>1 DEF Ids
      <4>3. pending'[k] \subseteq 1..n
        BY <1>1, <1>3, <4>2
      <4>4. reading[k] # n
        BY <1>1, <4>1
      <4>5. conns \in Nat /\ ~(k > conns)
        BY <1>1 DEF TypeOK, ClientOK
      <4>6. QED
        BY <1>1, <1>3, <3>1, <4>1, <4>3, <4>4, <4>5
    <3>2. CASE j # k
      BY <1>3, <3>2 DEF Ids
    <3>3. QED
      BY <3>1, <3>2
  <2>2. ASSUME NEW y \in Procs, id'[y] # 0 PROVE on[y] # 0 /\ id'[y] <= nextID'[on[y]]
    <3>1. CASE y = x
      BY <1>1, <1>2, <1>3, <3>1
    <3>2. CASE y # x /\ on[y] = k
      <4>1. id[y] \in Nat /\ id[y] <= nextID[k]
        BY <2>2, <1>2, <1>5, <3>2 DEF TypeOK, ProcOK
      <4>2. QED
        BY <4>1, <1>1, <1>2, <1>3, <3>2
    <3>3. CASE y # x /\ on[y] # k
      <4>1. on[y] # 0 /\ id[y] <= nextID[on[y]] /\ id'[y] = id[y]
        BY <2>2, <1>2, <3>3 DEF Ids
      <4>2. on[y] \in Conns
        BY <4>1 DEF TypeOK, ProcOK
      <4>3. QED
        BY <4>1, <4>2, <1>3, <3>3
    <3>4. QED
      BY <3>1, <3>2, <3>3
  <2>3. ASSUME NEW y \in Procs, NEW z \in Procs, id'[y] # 0, id'[y] = id'[z], on[y] = on[z]
        PROVE  y = z
    BY <2>3, <1>1, <1>2, <1>5 DEF Ids
  <2>4. QED
    BY <2>1, <2>2, <2>3, <1>4 DEF Ids
<1>7. Calls'
  <2> SUFFICES ASSUME NEW y \in Procs, pc'[y] \in {"send", "wait"}
               PROVE  /\ id'[y] # 0
                      /\ chan'[y] = "empty"  => \/ id'[y] \in pending'[on[y]] /\ on[y] \notin closed
                                                \/ reading[on[y]] = id'[y]
                      /\ chan'[y] = "answer" => id'[y] \notin pending'[on[y]]
                      /\ chan'[y] = "closed" => on[y] \in closed
    BY <1>4 DEF Calls
  <2>1. CASE y = x
    BY <2>1, <1>1, <1>2, <1>3
  <2>2. CASE y # x
    <3>1. id'[y] = id[y] /\ chan'[y] = chan[y] /\ pc[y] \in {"send", "wait"}
      BY <2>2, <1>2
    <3>2. id[y] # 0 /\ on[y] \in Conns
      BY <3>1 DEF Calls, Places, TypeOK, ClientOK
    <3>3. id[y] \in pending'[on[y]] <=> id[y] \in pending[on[y]]
      BY <3>2, <1>3, <1>5
    <3>4. /\ chan[y] = "empty"  => \/ id[y] \in pending[on[y]] /\ on[y] \notin closed
                                   \/ reading[on[y]] = id[y]
          /\ chan[y] = "answer" => id[y] \notin pending[on[y]]
          /\ chan[y] = "closed" => on[y] \in closed
      BY <3>1 DEF Calls
    <3>5. QED
      BY <3>1, <3>2, <3>3, <3>4
  <2>3. QED
    BY <2>1, <2>2
<1>8. NoneRegisteredForEver'
  <2> SUFFICES ASSUME NEW j \in running, NEW i \in pending'[j]
               PROVE  \E y \in Procs : on[y] = j /\ id'[y] = i /\ pc'[y] \in {"send", "wait"}
    BY <1>4 DEF NoneRegisteredForEver
  <2>1. CASE j = k /\ i = n
    BY <2>1, <1>2
  <2>2. CASE i \in pending[j]
    <3>1. PICK y \in Procs : on[y] = j /\ id[y] = i /\ pc[y] \in {"send", "wait"}
      BY <2>2 DEF NoneRegisteredForEver
    <3>2. QED
      BY <3>1, <1>2
  <2>3. j \in Conns
    BY DEF TypeOK, GoplsOK
  <2>4. QED
    BY <1>3, <2>1, <2>2, <2>3
<1>9. QED
  BY <1>6, <1>7, <1>8

LEMMA ReadCalls ==
  ASSUME TypeOK, Places, Ids, Calls, NoneRegisteredForEver, NEW k \in Conns, ReadMessage(k)
  PROVE  Ids' /\ Calls' /\ NoneRegisteredForEver'
<1>1. UNCHANGED <<conns, running, closed, nextID, pc, on, id, chan>> /\ reading[k] = -1
  BY DEF ReadMessage, client, proc
<1>2. PICK n \in output[k] :
        /\ pending' = [pending EXCEPT ![k] = @ \ {n}]
        /\ reading' = [reading EXCEPT ![k] = IF n = 0 \/ n \in pending[k] THEN n ELSE -1]
  BY DEF ReadMessage
<1>3. n \in Nat
  BY DEF TypeOK, GoplsOK
<1>4. /\ reading'[k] = IF n = 0 \/ n \in pending[k] THEN n ELSE -1
      /\ \A j \in Conns \ {k} : reading'[j] = reading[j] /\ pending'[j] = pending[j]
      /\ \A i : i \in pending'[k] <=> i \in pending[k] /\ i # n
  BY <1>2 DEF TypeOK, TableOK
<1>5. Ids'
  <2>1. ASSUME NEW j \in Conns
        PROVE  /\ pending'[j] \subseteq 1..nextID[j] /\ (j \in closed => pending'[j] = {})
               /\ reading'[j] <= nextID[j] /\ reading'[j] \notin pending'[j]
    <3>1. CASE j = k
      <4>1. pending[k] \subseteq 1..nextID[k] /\ nextID[k] \in Nat /\ (k \in closed => pending[k] = {})
        BY DEF Ids, TypeOK, TableOK
      <4>2. QED
        BY <4>1, <3>1, <1>3, <1>4
    <3>2. CASE j # k
      BY <1>4, <3>2 DEF Ids
    <3>3. QED
      BY <3>1, <3>2
  <2>2. QED
    BY <2>1, <1>1 DEF Ids
<1>6. Calls'
  <2> SUFFICES ASSUME NEW y \in Procs, pc[y] \in {"send", "wait"}
               PROVE  /\ id[y] # 0
                      /\ chan[y] = "empty"  => \/ id[y] \in pending'[on[y]] /\ on[y] \notin closed
                                               \/ reading'[on[y]] = id[y]
                      /\ chan[y] = "answer" => id[y] \notin pending'[on[y]]
                      /\ chan[y] = "closed" => on[y] \in closed
    BY <1>1 DEF Calls
  <2>1. /\ id[y] # 0
        /\ chan[y] = "empty"  => \/ id[y] \in pending[on[y]] /\ on[y] \notin closed
                                 \/ reading[on[y]] = id[y]
        /\ chan[y] = "answer" => id[y] \notin pending[on[y]]
        /\ chan[y] = "closed" => on[y] \in closed
    BY DEF Calls
  <2>2. on[y] \in Conns /\ id[y] \in Nat
    BY ConnectionOf DEF TypeOK, ProcOK
  <2>3. CASE on[y] = k
    BY <2>1, <2>2, <2>3, <1>1, <1>3, <1>4
  <2>4. CASE on[y] # k
    BY <2>1, <2>2, <2>4, <1>4
  <2>5. QED
    BY <2>3, <2>4
<1>7. NoneRegisteredForEver'
  <2>1. \A j \in running : pending'[j] \subseteq pending[j]
    BY <1>2 DEF TypeOK, GoplsOK, TableOK
  <2>2. QED
    BY <2>1, <1>1 DEF NoneRegisteredForEver
<1>8. QED
  BY <1>5, <1>6, <1>7

LEMMA DeliverCalls ==
  ASSUME TypeOK, Places, Ids, Calls, NoneRegisteredForEver, NEW k \in Conns, Deliver(k)
  PROVE  Ids' /\ Calls' /\ NoneRegisteredForEver'
<1>1. UNCHANGED <<conns, running, closed, nextID, pending, pc, on, id>>
  BY DEF Deliver, client, gopls, table
<1>2. /\ reading[k] \in Nat \ {0} /\ reading'[k] = -1
      /\ \A j \in Conns \ {k} : reading'[j] = reading[j]
      /\ \A y \in Procs : chan'[y] = IF on[y] = k /\ id[y] = reading[k] THEN "answer" ELSE chan[y]
  BY DEF Deliver, TypeOK
<1>3. Ids'
  <2>1. ASSUME NEW j \in Conns PROVE reading'[j] <= nextID[j] /\ reading'[j] \notin pending[j]
    <3>1. nextID[j] \in Nat /\ pending[j] \subseteq Nat
      BY DEF TypeOK, TableOK
    <3>2. QED
      BY <3>1, <1>2 DEF Ids
  <2>2. QED
    BY <2>1, <1>1 DEF Ids
<1>4. Calls'
  <2> SUFFICES ASSUME NEW y \in Procs, pc[y] \in {"send", "wait"}
               PROVE  /\ id[y] # 0
                      /\ chan'[y] = "empty"  => \/ id[y] \in pending[on[y]] /\ on[y] \notin closed
                                                \/ reading'[on[y]] = id[y]
                      /\ chan'[y] = "answer" => id[y] \notin pending[on[y]]
                      /\ chan'[y] = "closed" => on[y] \in closed
    BY <1>1 DEF Calls
  <2>1. /\ id[y] # 0
        /\ chan[y] = "empty"  => \/ id[y] \in pending[on[y]] /\ on[y] \notin closed
                                 \/ reading[on[y]] = id[y]
        /\ chan[y] = "answer" => id[y] \notin pending[on[y]]
        /\ chan[y] = "closed" => on[y] \in closed
    BY DEF Calls
  <2>2. on[y] \in Conns
    BY ConnectionOf
  <2>3. reading[k] \notin pending[k]
    BY DEF Ids
  <2>4. QED
    BY <2>1, <2>2, <2>3, <1>2
<1>5. NoneRegisteredForEver'
  BY <1>1 DEF NoneRegisteredForEver
<1>6. QED
  BY <1>3, <1>4, <1>5

LEMMA FailCalls ==
  ASSUME TypeOK, Places, Ids, Calls, NoneRegisteredForEver, NEW k \in Conns, Fail(k)
  PROVE  Ids' /\ Calls' /\ NoneRegisteredForEver'
<1>1. /\ UNCHANGED <<conns, running, nextID, reading, pc, on, id>>
      /\ closed' = closed \cup {k} /\ k \notin running
  BY DEF Fail, client
<1>2. /\ pending'[k] = {} /\ \A j \in Conns \ {k} : pending'[j] = pending[j]
      /\ \A y \in Procs : chan'[y] = IF on[y] = k /\ id[y] \in pending[k] THEN "closed" ELSE chan[y]
  BY DEF Fail, TypeOK, TableOK
<1>3. Ids'
  <2>1. ASSUME NEW j \in Conns
        PROVE  /\ pending'[j] \subseteq 1..nextID[j] /\ (j \in closed' => pending'[j] = {})
               /\ reading[j] \notin pending'[j]
    BY <1>1, <1>2 DEF Ids
  <2>2. QED
    BY <2>1, <1>1 DEF Ids
<1>4. Calls'
  <2> SUFFICES ASSUME NEW y \in Procs, pc[y] \in {"send", "wait"}
               PROVE  /\ id[y] # 0
                      /\ chan'[y] = "empty"  => \/ id[y] \in pending'[on[y]] /\ on[y] \notin closed'
                                                \/ reading[on[y]] = id[y]
                      /\ chan'[y] = "answer" => id[y] \notin pending'[on[y]]
                      /\ chan'[y] = "closed" => on[y] \in closed'
    BY <1>1 DEF Calls
  <2>1. /\ id[y] # 0
        /\ chan[y] = "empty"  => \/ id[y] \in pending[on[y]] /\ on[y] \notin closed
                                 \/ reading[on[y]] = id[y]
        /\ chan[y] = "answer" => id[y] \notin pending[on[y]]
        /\ chan[y] = "closed" => on[y] \in closed
    BY DEF Calls
  <2>2. on[y] \in Conns
    BY ConnectionOf
  <2>3. QED
    BY <2>1, <2>2, <1>1, <1>2
<1>5. NoneRegisteredForEver'
  <2>1. \A j \in running : j \in Conns \ {k}
    BY <1>1 DEF TypeOK, GoplsOK
  <2>2. QED
    BY <2>1, <1>1, <1>2 DEF NoneRegisteredForEver
<1>6. QED
  BY <1>3, <1>4, <1>5

LEMMA StepCalls ==
  ASSUME TypeOK, Places, Ids, Calls, NoneRegisteredForEver, Starting, Next
  PROVE  Ids' /\ Calls' /\ NoneRegisteredForEver'
<1> DEFINE Done == Ids' /\ Calls' /\ NoneRegisteredForEver'
<1> USE DEF client, gopls, table, proc
<1>1. ASSUME NEW c \in Callers, (\E f \in Files : Ask(c, f)) \/ Connected(c) \/ StartProcess(c)
                                 \/ AlreadyOpen(c) \/ MarkOpen(c) \/ DidOpen(c) \/ Initialized(c)
      PROVE  Done
  <2>1. /\ UNCHANGED <<closed, nextID, pending, id, chan, reading>>
        /\ \A y \in Procs \ {c} : on'[y] = on[y] /\ pc'[y] = pc[y]
        /\ id[c] # 0 => on'[c] = on[c]
        /\ ~InCall(c) /\ ~InCall(c)'
    <3> USE DEF TypeOK, ProcOK, Places, Goto, InCall
    <3>1. CASE (\E f \in Files : Ask(c, f)) \/ Connected(c)
      BY <3>1 DEF Ask, Connected
    <3>2. CASE AlreadyOpen(c) \/ MarkOpen(c) \/ DidOpen(c)
      BY <3>2 DEF AlreadyOpen, MarkOpen, DidOpen
    <3>3. CASE StartProcess(c)
      BY <3>3 DEF StartProcess
    <3>4. CASE Initialized(c)
      BY <3>4 DEF Initialized
    <3>5. QED
      BY <1>1, <3>1, <3>2, <3>3, <3>4
  <2>2. \/ conns' = conns /\ running' = running
        \/ conns' = conns + 1 /\ running' = running \cup {conns + 1} /\ conns < MaxConns
    BY <1>1 DEF Ask, Connected, StartProcess, AlreadyOpen, MarkOpen, DidOpen, Initialized
  <2>3. conns' \in {conns, conns + 1} /\ \A k \in running' : k \in running \/ (k \in Conns /\ k > conns)
    BY <2>2 DEF TypeOK, ClientOK
  <2>4. \A x \in Procs : (id[x] # 0 => on'[x] = on[x]) /\ (InCall(x)' <=> InCall(x))
    BY <2>1 DEF InCall
  <2>5. QED
    BY <2>1, <2>3, <2>4, CallsGoOn
<1>2. ASSUME NEW x \in Procs, Send(x) PROVE Done
  <2>1. UNCHANGED <<closed, nextID, pending, id, chan, reading, conns, running, on>>
    BY <1>2 DEF Send
  <2>2. \A y \in Procs : InCall(y)' <=> InCall(y)
    BY <1>2 DEF Send, Goto, InCall, TypeOK, ProcOK
  <2>3. QED
    BY <2>1, <2>2, CallsGoOn
<1>3. ASSUME NEW x \in Closers, Close(x) \/ Exit(x) PROVE Done
  <2>1. UNCHANGED <<closed, nextID, pending, id, chan, reading, conns, running>>
    BY <1>3 DEF Close, Exit
  <2>2. \A y \in Procs : (id[y] # 0 => on'[y] = on[y]) /\ (InCall(y)' <=> InCall(y))
    BY <1>3 DEF Close, Exit, Goto, InCall, Places, TypeOK, ProcOK
  <2>3. QED
    BY <2>1, <2>2, CallsGoOn
<1>4. ASSUME NEW k \in Conns, Reply(k) \/ GoplsRead(k) \/ GoplsAsks(k) \/ Crash(k) PROVE Done
  <2>1. UNCHANGED <<closed, nextID, pending, id, chan, conns, on, pc>> /\ running' \subseteq running
    BY <1>4 DEF Reply, GoplsRead, GoplsAsks, Crash, Gone
  <2>2. \A j \in Conns : reading'[j] = reading[j] \/ (reading[j] = 0 /\ reading'[j] = -1)
    BY <1>4 DEF Reply, GoplsRead, GoplsAsks, Crash, TypeOK
  <2>3. QED
    BY <2>1, <2>2, CallsGoOn DEF InCall
<1>5. ASSUME NEW x \in Procs, Finish(x), ~InCall(x) \/ id[x] \notin pending[on[x]],
             UNCHANGED <<closed, nextID, pending, reading, conns>>, running' \subseteq running
      PROVE  Done
  <2>1. ~InCall(x)' /\ id'[x] = 0
    BY <1>5, FinishDoes DEF InCall
  <2>2. QED
    BY <1>5, <2>1, FinishDoes, CallEnds
<1>6. ASSUME NEW x \in Procs, Fails(x), InCall(x) => on[x] \notin running \/ id[x] \notin pending'[on[x]],
             UNCHANGED <<closed, nextID, reading, conns>>,
             pending' = pending \/ pending' = [pending EXCEPT ![on[x]] = @ \ {id[x]}]
      PROVE  Done
  <2>1. ~InCall(x)' /\ (id'[x] = 0 \/ (id'[x] = id[x] /\ on'[x] = on[x])) /\ running' \subseteq running
    BY <1>6, FailsDoes DEF InCall
  <2>2. \A k \in Conns : /\ pending'[k] \subseteq pending[k]
                        /\ \A n \in pending[k] \ pending'[k] : k = on[x] /\ n = id[x]
    BY <1>6 DEF TypeOK, TableOK
  <2>3. \A y \in Procs \ {x} : /\ id'[y] = id[y] /\ on'[y] = on[y]
                              /\ chan'[y] = chan[y] /\ pc'[y] = pc[y]
    BY <1>6, FailsDoes
  <2>4. InCall(x) => on[x] \notin running' \/ id[x] \notin pending'[on[x]]
    BY <1>6, <2>1
  <2>5. QED
    BY <1>6, <2>1, <2>2, <2>3, <2>4, CallEnds
<1>7. ASSUME NEW c \in Callers, Unavailable(c) \/ DidOpenFails(c) PROVE Done
  BY <1>7, <1>5 DEF Unavailable, DidOpenFails, InCall
<1>8. ASSUME NEW c \in Callers, InitializedFails(c) PROVE Done
  BY <1>8, <1>6 DEF InitializedFails, InCall
<1>9. ASSUME NEW x \in Procs, RegisterFails(x) \/ SendFails(x) PROVE Done
  BY <1>9, <1>6 DEF RegisterFails, SendFails, CannotWrite, InCall
<1>10. ASSUME NEW x \in Procs, Hangup(x) PROVE Done
  <2>1. on[x] \in closed
    BY <1>10 DEF Hangup, Calls
  <2>2. on[x] \notin running
    BY <2>1 DEF Places
  <2>3. QED
    BY <1>10, <2>2, <1>6 DEF Hangup
<1>11. ASSUME NEW x \in Procs, Timeout(x) PROVE Done
  <2>1. on[x] \in Conns
    BY <1>11, ConnectionOf DEF Timeout
  <2>2. pending' = [pending EXCEPT ![on[x]] = @ \ {id[x]}] /\ id[x] \notin pending'[on[x]]
    BY <1>11, <2>1 DEF Timeout, TypeOK, TableOK
  <2>3. QED
    BY <1>11, <2>2, <1>6 DEF Timeout
<1>12. ASSUME NEW x \in Procs, Answered(x) PROVE Done
  <2>1. id[x] \notin pending[on[x]]
    BY <1>12 DEF Answered, Calls
  <2>2. UNCHANGED <<closed, nextID, pending, reading, conns, running>>
    BY <1>12 DEF Answered
  <2>3. CASE Finish(x)
    BY <2>1, <2>2, <2>3, <1>5
  <2>4. CASE Purpose(x) # "request"
    <3>1. /\ UNCHANGED <<on, id, chan>> /\ ~InCall(x)'
          /\ \A y \in Procs \ {x} : pc'[y] = pc[y]
      BY <1>12, <2>4 DEF Answered, Goto, InCall, TypeOK, ProcOK
    <3>2. QED
      BY <3>1, <2>1, <2>2, CallEnds
  <2>5. QED
    BY <1>12, <2>3, <2>4 DEF Answered
<1>13. ASSUME NEW x \in Closers, Await(x) PROVE Done
  BY <1>13, <1>5 DEF Await, Gone, InCall
<1>14. QED
  BY <1>1, <1>2, <1>3, <1>4, <1>7, <1>8, <1>9, <1>10, <1>11, <1>12, <1>13,
     RegisterCalls, ReadCalls, DeliverCalls, FailCalls
  DEF Next, Connect, Request, CallStep, Connection

-----------------------------------------------------------------------------
(***************************************************************************)
(* Pipes and Unanswered.                                                   *)
(***************************************************************************)
LEMMA InputIs ==
  ASSUME TypeOK, NEW k \in Conns
  PROVE  /\ input[k] \in Seq(Message) /\ Len(input[k]) \in Nat /\ DOMAIN input[k] = 1..Len(input[k])
         /\ \A i \in DOMAIN input[k] : input[k][i] \in Message /\ input[k][i].id \in Nat
<1>1. input[k] \in Seq(Message)
  BY DEF TypeOK, GoplsOK
<1>2. /\ Len(input[k]) \in Nat /\ DOMAIN input[k] = 1..Len(input[k])
      /\ \A i \in 1..Len(input[k]) : input[k][i] \in Message
  BY <1>1, LenProperties, ElementOfSeq
<1>3. \A m \in Message : m.id \in Nat
  BY DEF Message
<1>4. QED
  BY <1>1, <1>2, <1>3

LEMMA InCallHas ==
  ASSUME TypeOK, Places, Calls, NEW x \in Procs, InCall(x)
  PROVE  id[x] \in Nat \ {0} /\ on[x] \in Conns /\ on[x] \in 1..conns
BY ConnectionOf DEF InCall, Calls, TypeOK, ProcOK, Places

(* A step that writes nothing, but for what gopls may ask. *)
LEMMA QuietWires ==
  ASSUME TypeOK, Places, Calls, Pipes, Unanswered, UNCHANGED <<nextID, reading>>,
         \A k \in Conns : /\ input'[k] = input[k] \/ input'[k] = <<>>
                          /\ k \notin running' => k \notin running \/ input'[k] = <<>>
                          /\ output'[k] \subseteq output[k] \cup {0},
         \A x \in Procs : InCall(x)' => /\ InCall(x) /\ pc'[x] = pc[x] /\ on'[x] = on[x] /\ id'[x] = id[x]
                                        /\ chan'[x] = chan[x]
                                           \/ (id[x] # reading[on[x]] /\ chan'[x] # "answer")
  PROVE  Pipes' /\ Unanswered'
<1>1. Pipes'
  <2> SUFFICES ASSUME NEW k \in Conns
               PROVE  /\ k \notin running' => input'[k] = <<>>
                      /\ \A i \in DOMAIN input'[k] :
                           input'[k][i].id <= nextID[k] /\ (input'[k][i].kind = "exit" => input'[k][i].id = 0)
                      /\ \A n \in output'[k] : n <= nextID[k]
    BY DEF Pipes
  <2>1. nextID[k] \in Nat
    BY DEF TypeOK, TableOK
  <2>2. DOMAIN <<>> = {}
    OBVIOUS
  <2>3. QED
    BY <2>1, <2>2 DEF Pipes
<1>2. Unanswered'
  <2> SUFFICES ASSUME NEW x \in Procs, InCall(x)'
               PROVE  /\ pc'[x] = "send" =>
                           /\ id'[x] \notin IdsIn(input'[on'[x]]) \cup output'[on'[x]] \cup {reading[on'[x]]}
                           /\ chan'[x] # "answer"
                      /\ reading[on'[x]] = id'[x] => chan'[x] = "empty"
    BY DEF Unanswered, InCall
  <2>1. /\ InCall(x) /\ pc'[x] = pc[x] /\ on'[x] = on[x] /\ id'[x] = id[x]
        /\ chan'[x] = chan[x] \/ (id[x] # reading[on[x]] /\ chan'[x] # "answer")
    OBVIOUS
  <2>2. id[x] \in Nat \ {0} /\ on[x] \in Conns
    BY <2>1, InCallHas
  <2>3. /\ pc[x] = "send" => /\ id[x] \notin IdsIn(input[on[x]]) \cup output[on[x]] \cup {reading[on[x]]}
                             /\ chan[x] # "answer"
        /\ reading[on[x]] = id[x] => chan[x] = "empty"
    BY <2>1 DEF Unanswered, InCall
  <2>4. IdsIn(input'[on[x]]) \subseteq IdsIn(input[on[x]])
    BY <2>2 DEF IdsIn
  <2>5. output'[on[x]] \subseteq output[on[x]] \cup {0}
    BY <2>2
  <2>6. QED
    BY <2>1, <2>2, <2>3, <2>4, <2>5
<1>3. QED
  BY <1>1, <1>2

LEMMA IdsAppend ==
  ASSUME NEW s \in Seq(Message), NEW m \in Message
  PROVE  /\ IdsIn(Append(s, m)) = IdsIn(s) \cup {m.id}
         /\ \A i \in DOMAIN Append(s, m) : Append(s, m)[i] = m \/ (i \in DOMAIN s /\ Append(s, m)[i] = s[i])
<1>1. /\ Len(s) \in Nat /\ DOMAIN s = 1..Len(s) /\ DOMAIN Append(s, m) = 1..(Len(s) + 1)
      /\ \A i \in 1..Len(s) : Append(s, m)[i] = s[i]
      /\ Append(s, m)[Len(s) + 1] = m
  BY AppendProperties, LenProperties
<1>2. \A i : i \in 1..(Len(s) + 1) <=> i \in 1..Len(s) \/ i = Len(s) + 1
  BY <1>1
<1>3. QED
  BY <1>1, <1>2 DEF IdsIn

LEMMA IdsTail ==
  ASSUME NEW s \in Seq(Message), s # <<>>
  PROVE  /\ IdsIn(s) = {Head(s).id} \cup IdsIn(Tail(s))
         /\ Head(s) = s[1] /\ 1 \in DOMAIN s
         /\ \A i \in DOMAIN Tail(s) : i + 1 \in DOMAIN s /\ Tail(s)[i] = s[i+1]
<1>1. /\ Len(s) \in Nat \ {0} /\ DOMAIN s = 1..Len(s) /\ DOMAIN Tail(s) = 1..(Len(s) - 1)
      /\ \A i \in 1..(Len(s) - 1) : Tail(s)[i] = s[i+1]
      /\ Head(s) = s[1]
  BY LenProperties, HeadTailProperties
<1>2. \A i \in 1..Len(s) : i = 1 \/ (i - 1 \in 1..(Len(s) - 1) /\ Tail(s)[i-1] = s[i])
  BY <1>1
<1>3. \A i \in 1..(Len(s) - 1) : i + 1 \in 1..Len(s)
  BY <1>1
<1>4. 1 \in 1..Len(s)
  BY <1>1
<1>5. IdsIn(s) \subseteq {Head(s).id} \cup IdsIn(Tail(s))
  <2> SUFFICES ASSUME NEW i \in 1..Len(s) PROVE s[i].id \in {Head(s).id} \cup IdsIn(Tail(s))
    BY <1>1 DEF IdsIn
  <2>1. CASE i = 1
    BY <1>1, <2>1
  <2>2. CASE i # 1
    <3>1. PICK j \in 1..(Len(s) - 1) : Tail(s)[j] = s[i]
      BY <1>2, <2>2
    <3>2. QED
      BY <1>1, <3>1 DEF IdsIn
  <2>3. QED
    BY <2>1, <2>2
<1>6. {Head(s).id} \cup IdsIn(Tail(s)) \subseteq IdsIn(s)
  <2> SUFFICES ASSUME NEW j \in 1..(Len(s) - 1) PROVE Tail(s)[j].id \in IdsIn(s)
    BY <1>1, <1>4 DEF IdsIn
  <2>1. PICK i \in 1..Len(s) : Tail(s)[j] = s[i]
    BY <1>1, <1>3
  <2>2. QED
    BY <1>1, <2>1 DEF IdsIn
<1>7. QED
  BY <1>1, <1>3, <1>4, <1>5, <1>6

(* A step that writes m to the gopls of k. *)
LEMMA WriteWires ==
  ASSUME TypeOK, Places, Calls, Pipes, Unanswered, UNCHANGED <<nextID, output, running, chan, id>>,
         NEW k \in Conns, NEW m \in Message, k \in running, Write(k, m),
         m.id <= nextID[k], m.kind = "exit" => m.id = 0,
         \A j \in Conns : reading'[j] = reading[j] \/ (reading[j] = 0 /\ reading'[j] = -1),
         \A x \in Procs : InCall(x)' => /\ InCall(x) /\ on'[x] = on[x]
                                        /\ pc'[x] = "send" => pc[x] = "send" /\ ~(m.id = id[x] /\ on[x] = k)
  PROVE  Pipes' /\ Unanswered'
<1>1. input'[k] = Append(input[k], m) /\ \A j \in Conns \ {k} : input'[j] = input[j]
  BY DEF Write, TypeOK, GoplsOK
<1>2. input[k] \in Seq(Message)
  BY InputIs
<1>3. Pipes'
  <2> SUFFICES ASSUME NEW j \in Conns
               PROVE  /\ j \notin running => input'[j] = <<>>
                      /\ \A i \in DOMAIN input'[j] :
                           input'[j][i].id <= nextID[j] /\ (input'[j][i].kind = "exit" => input'[j][i].id = 0)
                      /\ \A n \in output[j] : n <= nextID[j]
    BY DEF Pipes
  <2>1. /\ j \notin running => input[j] = <<>>
        /\ \A i \in DOMAIN input[j] :
             input[j][i].id <= nextID[j] /\ (input[j][i].kind = "exit" => input[j][i].id = 0)
        /\ \A n \in output[j] : n <= nextID[j]
    BY DEF Pipes
  <2>2. CASE j # k
    BY <1>1, <2>1, <2>2
  <2>3. CASE j = k
    <3>1. \A i \in DOMAIN input'[k] : input'[k][i] = m \/ (i \in DOMAIN input[k] /\ input'[k][i] = input[k][i])
      BY <1>1, <1>2, IdsAppend
    <3>2. QED
      BY <2>1, <2>3, <3>1
  <2>4. QED
    BY <2>2, <2>3
<1>4. Unanswered'
  <2> SUFFICES ASSUME NEW x \in Procs, InCall(x)'
               PROVE  /\ pc'[x] = "send" =>
                           /\ id[x] \notin IdsIn(input'[on'[x]]) \cup output[on'[x]] \cup {reading'[on'[x]]}
                           /\ chan[x] # "answer"
                      /\ reading'[on'[x]] = id[x] => chan[x] = "empty"
    BY DEF Unanswered, InCall
  <2>1. InCall(x) /\ on'[x] = on[x] /\ (pc'[x] = "send" => pc[x] = "send" /\ ~(m.id = id[x] /\ on[x] = k))
    OBVIOUS
  <2>2. id[x] \in Nat \ {0} /\ on[x] \in Conns
    BY <2>1, InCallHas
  <2>3. /\ pc[x] = "send" => /\ id[x] \notin IdsIn(input[on[x]]) \cup output[on[x]] \cup {reading[on[x]]}
                             /\ chan[x] # "answer"
        /\ reading[on[x]] = id[x] => chan[x] = "empty"
    BY <2>1 DEF Unanswered, InCall
  <2>4. reading'[on[x]] = id[x] => reading[on[x]] = id[x]
    BY <2>2
  <2>5. pc'[x] = "send" => id[x] \notin IdsIn(input'[on[x]])
    <3>1. CASE on[x] = k
      <4>1. IdsIn(input'[k]) = IdsIn(input[k]) \cup {m.id}
        BY <1>1, <1>2, IdsAppend
      <4>2. QED
        BY <2>1, <2>3, <3>1, <4>1
    <3>2. CASE on[x] # k
      BY <1>1, <2>1, <2>2, <2>3, <3>2
    <3>3. QED
      BY <3>1, <3>2
  <2>6. QED
    BY <2>1, <2>3, <2>4, <2>5
<1>5. QED
  BY <1>3, <1>4

LEMMA RegisterWires ==
  ASSUME TypeOK, Places, Ids, Calls, Pipes, Unanswered, NEW x \in Procs, Register(x)
  PROVE  Pipes' /\ Unanswered'
<1>1. /\ on[x] \in Conns /\ nextID[on[x]] \in Nat
      /\ UNCHANGED <<input, output, running, reading, on>>
  BY ConnectionOf DEF Register, gopls, TypeOK, TableOK
<1>2. PICK k, n : k = on[x] /\ n = nextID[k] + 1
  OBVIOUS
<1>3. /\ nextID'[k] = n /\ \A j \in Conns \ {k} : nextID'[j] = nextID[j]
      /\ id'[x] = n /\ chan'[x] = "empty"
      /\ \A y \in Procs \ {x} : id'[y] = id[y] /\ chan'[y] = chan[y] /\ pc'[y] = pc[y]
  BY <1>1, <1>2 DEF Register, Goto, TypeOK, TableOK, ProcOK
<1>4. \A j \in Conns : nextID[j] \in Nat /\ nextID[j] <= nextID'[j]
  BY <1>1, <1>2, <1>3 DEF TypeOK, TableOK
<1>5. \A j \in Conns : /\ \A i \in IdsIn(input[j]) : i \in Nat /\ i <= nextID[j]
                       /\ \A i \in output[j] : i \in Nat /\ i <= nextID[j]
  <2> SUFFICES ASSUME NEW j \in Conns
               PROVE  /\ \A i \in IdsIn(input[j]) : i \in Nat /\ i <= nextID[j]
                      /\ \A i \in output[j] : i \in Nat /\ i <= nextID[j]
    OBVIOUS
  <2>1. \A i \in DOMAIN input[j] : input[j][i].id \in Nat /\ input[j][i].id <= nextID[j]
    BY InputIs DEF Pipes
  <2>2. output[j] \in SUBSET Nat /\ \A i \in output[j] : i <= nextID[j]
    BY DEF Pipes, TypeOK, GoplsOK
  <2>3. QED
    BY <2>1, <2>2 DEF IdsIn
<1>6. Pipes'
  <2> SUFFICES ASSUME NEW j \in Conns
               PROVE  /\ j \notin running => input[j] = <<>>
                      /\ \A i \in DOMAIN input[j] :
                           input[j][i].id <= nextID'[j] /\ (input[j][i].kind = "exit" => input[j][i].id = 0)
                      /\ \A i \in output[j] : i <= nextID'[j]
    BY <1>1 DEF Pipes
  <2>1. \A i \in DOMAIN input[j] : input[j][i].id \in Nat /\ input[j][i].id <= nextID[j]
    BY InputIs DEF Pipes
  <2>2. PICK a, b : a = nextID[j] /\ b = nextID'[j]
    OBVIOUS
  <2>3. a \in Nat /\ b \in Nat /\ a <= b
    BY <1>3, <1>4, <2>2, <1>1, <1>2
  <2>4. \A i \in DOMAIN input[j] : input[j][i].id <= b
    BY <2>1, <2>2, <2>3
  <2>5. \A i \in output[j] : i <= b
    BY <1>5, <2>2, <2>3
  <2>6. /\ j \notin running => input[j] = <<>>
        /\ \A i \in DOMAIN input[j] : input[j][i].kind = "exit" => input[j][i].id = 0
    BY DEF Pipes
  <2>7. QED
    BY <2>2, <2>4, <2>5, <2>6
<1>7. Unanswered'
  <2> SUFFICES ASSUME NEW y \in Procs
               PROVE  /\ pc'[y] = "send" =>
                           /\ id'[y] \notin IdsIn(input[on[y]]) \cup output[on[y]] \cup {reading[on[y]]}
                           /\ chan'[y] # "answer"
                      /\ pc'[y] \in {"send", "wait"} /\ reading[on[y]] = id'[y] => chan'[y] = "empty"
    BY <1>1 DEF Unanswered
  <2>1. CASE y = x
    <3>1. n \notin IdsIn(input[k]) /\ n \notin output[k]
      BY <1>1, <1>2, <1>5
    <3>2. reading[k] <= nextID[k] /\ reading[k] \in Nat \cup {-1}
      BY <1>1, <1>2 DEF Ids, TypeOK
    <3>3. n # reading[k]
      BY <1>1, <1>2, <3>2
    <3>4. QED
      BY <1>2, <1>3, <2>1, <3>1, <3>3
  <2>2. CASE y # x
    BY <1>3, <2>2 DEF Unanswered
  <2>3. QED
    BY <2>1, <2>2
<1>8. QED
  BY <1>6, <1>7

LEMMA ReadWires ==
  ASSUME TypeOK, Places, Ids, Calls, Pipes, Unanswered, NEW k \in Conns, ReadMessage(k)
  PROVE  Pipes' /\ Unanswered'
<1>1. UNCHANGED <<input, nextID, running, pc, on, id, chan>> /\ reading[k] = -1
  BY DEF ReadMessage, proc
<1>2. PICK n \in output[k] :
        /\ output' = [output EXCEPT ![k] = @ \ {n}]
        /\ reading' = [reading EXCEPT ![k] = IF n = 0 \/ n \in pending[k] THEN n ELSE -1]
  BY DEF ReadMessage
<1>3. /\ n \in Nat
      /\ \A j \in Conns : output'[j] \subseteq output[j]
      /\ reading'[k] = IF n = 0 \/ n \in pending[k] THEN n ELSE -1
      /\ \A j \in Conns \ {k} : reading'[j] = reading[j]
  BY <1>2 DEF TypeOK, GoplsOK
<1>4. Pipes'
  BY <1>1, <1>3 DEF Pipes
<1>5. Unanswered'
  <2> SUFFICES ASSUME NEW y \in Procs, InCall(y)
               PROVE  /\ pc[y] = "send" =>
                           /\ id[y] \notin IdsIn(input[on[y]]) \cup output'[on[y]] \cup {reading'[on[y]]}
                           /\ chan[y] # "answer"
                      /\ reading'[on[y]] = id[y] => chan[y] = "empty"
    BY <1>1 DEF Unanswered, InCall
  <2>1. id[y] \in Nat \ {0} /\ on[y] \in Conns
    BY InCallHas
  <2>2. /\ pc[y] = "send" => /\ id[y] \notin IdsIn(input[on[y]]) \cup output[on[y]] \cup {reading[on[y]]}
                             /\ chan[y] # "answer"
        /\ reading[on[y]] = id[y] => chan[y] = "empty"
    BY DEF Unanswered, InCall
  <2>3. reading'[on[y]] = id[y] => \/ reading[on[y]] = id[y]
                                   \/ on[y] = k /\ id[y] \in output[k] /\ id[y] \in pending[k]
    BY <1>2, <1>3, <2>1
  <2>4. id[y] \in pending[on[y]] => chan[y] = "empty"
    <3>1. on[y] \in closed => pending[on[y]] = {}
      BY <2>1 DEF Ids
    <3>2. chan[y] \in {"empty", "answer", "closed"}
      BY DEF TypeOK, ProcOK
    <3>3. /\ chan[y] = "answer" => id[y] \notin pending[on[y]]
          /\ chan[y] = "closed" => on[y] \in closed
      BY DEF Calls, InCall
    <3>4. QED
      BY <3>1, <3>2, <3>3
  <2>5. output'[on[y]] \subseteq output[on[y]]
    BY <1>3, <2>1
  <2>6. QED
    BY <2>2, <2>3, <2>4, <2>5
<1>6. QED
  BY <1>4, <1>5

LEMMA DeliverWires ==
  ASSUME TypeOK, Places, Ids, Calls, Pipes, Unanswered, NEW k \in Conns, Deliver(k)
  PROVE  Pipes' /\ Unanswered'
<1>1. UNCHANGED <<input, output, nextID, running, pc, on, id>>
  BY DEF Deliver, gopls, table
<1>2. /\ reading[k] \in Nat \ {0} /\ reading'[k] = -1
      /\ \A j \in Conns \ {k} : reading'[j] = reading[j]
      /\ \A y \in Procs : chan'[y] = IF on[y] = k /\ id[y] = reading[k] THEN "answer" ELSE chan[y]
  BY DEF Deliver, TypeOK
<1>3. Pipes'
  BY <1>1 DEF Pipes
<1>4. Unanswered'
  <2> SUFFICES ASSUME NEW y \in Procs, InCall(y)
               PROVE  /\ pc[y] = "send" =>
                           /\ id[y] \notin IdsIn(input[on[y]]) \cup output[on[y]] \cup {reading'[on[y]]}
                           /\ chan'[y] # "answer"
                      /\ reading'[on[y]] = id[y] => chan'[y] = "empty"
    BY <1>1 DEF Unanswered, InCall
  <2>1. id[y] \in Nat \ {0} /\ on[y] \in Conns
    BY InCallHas
  <2>2. /\ pc[y] = "send" => /\ id[y] \notin IdsIn(input[on[y]]) \cup output[on[y]] \cup {reading[on[y]]}
                             /\ chan[y] # "answer"
        /\ reading[on[y]] = id[y] => chan[y] = "empty"
    BY DEF Unanswered, InCall
  <2>3. CASE on[y] = k
    BY <1>2, <2>1, <2>2, <2>3
  <2>4. CASE on[y] # k
    BY <1>2, <2>1, <2>2, <2>4
  <2>5. QED
    BY <2>3, <2>4
<1>5. QED
  BY <1>3, <1>4

LEMMA GoplsReadWires ==
  ASSUME TypeOK, Places, Ids, Calls, Pipes, Unanswered, NEW k \in Conns, GoplsRead(k)
  PROVE  Pipes' /\ Unanswered'
<1>1. PICK m : m = Head(input[k])
  OBVIOUS
<1>2. /\ UNCHANGED <<nextID, reading, pc, on, id, chan>> /\ k \in running /\ input[k] # <<>>
      /\ output' = IF m.id # 0 THEN [output EXCEPT ![k] = @ \cup {m.id}] ELSE output
      /\ \/ m.kind = "exit" /\ Gone({k})
         \/ input' = [input EXCEPT ![k] = Tail(@)] /\ UNCHANGED running
  BY <1>1 DEF GoplsRead, table, proc
<1>3. /\ input[k] \in Seq(Message) /\ IdsIn(input[k]) = {m.id} \cup IdsIn(Tail(input[k]))
      /\ m = input[k][1] /\ 1 \in DOMAIN input[k] /\ m.id \in Nat
      /\ \A i \in DOMAIN Tail(input[k]) : i + 1 \in DOMAIN input[k] /\ Tail(input[k])[i] = input[k][i+1]
  BY <1>1, <1>2, InputIs, IdsTail
<1>4. m.id <= nextID[k] /\ (m.kind = "exit" => m.id = 0)
  BY <1>3 DEF Pipes
<1>5. CASE m.kind = "exit" /\ Gone({k})
  <2>1. output' = output
    BY <1>2, <1>4, <1>5
  <2>2. \A j \in Conns : /\ input'[j] = input[j] \/ input'[j] = <<>>
                         /\ j \notin running' => j \notin running \/ input'[j] = <<>>
    BY <1>5 DEF Gone
  <2>3. QED
    BY <1>2, <2>1, <2>2, QuietWires DEF InCall
<1>6. CASE input' = [input EXCEPT ![k] = Tail(@)] /\ UNCHANGED running
  <2>1. /\ input'[k] = Tail(input[k]) /\ \A j \in Conns \ {k} : input'[j] = input[j]
        /\ \A j \in Conns \ {k} : output'[j] = output[j]
        /\ output'[k] = output[k] \cup ({m.id} \ {0})
    BY <1>2, <1>6 DEF TypeOK, GoplsOK
  <2>2. Pipes'
    <3> SUFFICES ASSUME NEW j \in Conns
                 PROVE  /\ j \notin running => input'[j] = <<>>
                        /\ \A i \in DOMAIN input'[j] :
                             input'[j][i].id <= nextID[j] /\ (input'[j][i].kind = "exit" => input'[j][i].id = 0)
                        /\ \A n \in output'[j] : n <= nextID[j]
      BY <1>2, <1>6 DEF Pipes
    <3>1. CASE j = k
      <4>1. \A i \in DOMAIN input'[k] : i + 1 \in DOMAIN input[k] /\ input'[k][i] = input[k][i+1]
        BY <1>3, <2>1
      <4>2. \A n \in output'[k] : n <= nextID[k]
        BY <1>4, <2>1 DEF Pipes
      <4>3. QED
        BY <1>2, <3>1, <4>1, <4>2 DEF Pipes
    <3>2. CASE j # k
      BY <2>1, <3>2 DEF Pipes
    <3>3. QED
      BY <3>1, <3>2
  <2>3. Unanswered'
    <3> SUFFICES ASSUME NEW y \in Procs, InCall(y)
                 PROVE  /\ pc[y] = "send" =>
                             /\ id[y] \notin IdsIn(input'[on[y]]) \cup output'[on[y]] \cup {reading[on[y]]}
                             /\ chan[y] # "answer"
                        /\ reading[on[y]] = id[y] => chan[y] = "empty"
      BY <1>2 DEF Unanswered, InCall
    <3>1. on[y] \in Conns
      BY InCallHas
    <3>2. /\ pc[y] = "send" => /\ id[y] \notin IdsIn(input[on[y]]) \cup output[on[y]] \cup {reading[on[y]]}
                               /\ chan[y] # "answer"
          /\ reading[on[y]] = id[y] => chan[y] = "empty"
      BY DEF Unanswered, InCall
    <3>3. IdsIn(input'[on[y]]) \cup output'[on[y]] \subseteq IdsIn(input[on[y]]) \cup output[on[y]]
      BY <1>3, <2>1, <3>1
    <3>4. QED
      BY <3>2, <3>3
  <2>4. QED
    BY <2>2, <2>3
<1>7. QED
  BY <1>2, <1>5, <1>6

(* x ends its call, or makes none: its return, or an error. *)
LEMMA EndWires ==
  ASSUME TypeOK, Places, Calls, Pipes, Unanswered, NEW x \in Procs, UNCHANGED <<nextID, reading, output>>,
         (input' = input /\ running \subseteq running') \/ \E K : Gone(K),
         ~InCall(x)',
         \A y \in Procs \ {x} : /\ id'[y] = id[y] /\ on'[y] = on[y]
                                /\ chan'[y] = chan[y] /\ pc'[y] = pc[y]
  PROVE  Pipes' /\ Unanswered'
<1>1. \A k \in Conns : /\ input'[k] = input[k] \/ input'[k] = <<>>
                       /\ k \notin running' => k \notin running \/ input'[k] = <<>>
  BY DEF Gone
<1>2. \A y \in Procs : InCall(y)' => /\ InCall(y) /\ pc'[y] = pc[y] /\ on'[y] = on[y] /\ id'[y] = id[y]
                                     /\ chan'[y] = chan[y]
  BY DEF InCall
<1>3. QED
  BY <1>1, <1>2, QuietWires

LEMMA StepWires ==
  ASSUME TypeOK, Places, Ids, Calls, Pipes, Unanswered, Next
  PROVE  Pipes' /\ Unanswered'
<1> DEFINE Done == Pipes' /\ Unanswered'
<1>1. ASSUME NEW c \in Callers, (\E f \in Files : Ask(c, f)) \/ Connected(c) \/ StartProcess(c)
                                 \/ AlreadyOpen(c) \/ MarkOpen(c)
      PROVE  Done
  <2>1. /\ UNCHANGED <<input, nextID, reading, output, id, chan>> /\ running \subseteq running'
        /\ ~InCall(c)' /\ \A y \in Procs \ {c} : on'[y] = on[y] /\ pc'[y] = pc[y]
    <3> USE DEF TypeOK, ProcOK, Goto, InCall, gopls, table, client, proc
    <3>1. CASE (\E f \in Files : Ask(c, f)) \/ Connected(c)
      BY <3>1 DEF Ask, Connected
    <3>2. CASE AlreadyOpen(c) \/ MarkOpen(c)
      BY <3>2 DEF AlreadyOpen, MarkOpen
    <3>3. CASE StartProcess(c)
      BY <3>3 DEF StartProcess
    <3>4. QED
      BY <1>1, <3>1, <3>2, <3>3
  <2>2. QED
    BY <2>1, EndWires
<1>2. ASSUME NEW x \in Procs, Finish(x), UNCHANGED <<nextID, reading, output>>,
             (input' = input /\ running \subseteq running') \/ \E K : Gone(K)
      PROVE  Done
  <2>1. ~InCall(x)'
    BY <1>2, FinishDoes DEF InCall
  <2>2. QED
    BY <1>2, <2>1, FinishDoes, EndWires
<1>3. ASSUME NEW x \in Procs, Fails(x), UNCHANGED <<nextID, reading, output>> PROVE Done
  <2>1. ~InCall(x)'
    BY <1>3, FailsDoes DEF InCall
  <2>2. (input' = input /\ running \subseteq running') \/ \E K : Gone(K)
    BY <1>3 DEF Fails
  <2>3. QED
    BY <1>3, <2>1, <2>2, FailsDoes, EndWires
<1>4. ASSUME NEW c \in Callers, Unavailable(c) \/ DidOpenFails(c) PROVE Done
  BY <1>4, <1>2 DEF Unavailable, DidOpenFails, gopls, table
<1>5. ASSUME NEW c \in Callers, InitializedFails(c) PROVE Done
  BY <1>5, <1>3 DEF InitializedFails, table
<1>6. ASSUME NEW x \in Procs, RegisterFails(x) \/ SendFails(x) \/ Hangup(x) \/ Timeout(x) PROVE Done
  BY <1>6, <1>3 DEF RegisterFails, SendFails, Hangup, Timeout, table
<1>7. ASSUME NEW x \in Procs, Answered(x) PROVE Done
  <2>1. UNCHANGED <<input, running, nextID, reading, output>>
    BY <1>7 DEF Answered, gopls, table
  <2>2. CASE Finish(x)
    BY <2>1, <2>2, <1>2
  <2>3. CASE Purpose(x) # "request"
    <3>1. /\ UNCHANGED <<on, id, chan>> /\ ~InCall(x)'
          /\ \A y \in Procs \ {x} : pc'[y] = pc[y]
      BY <1>7, <2>3 DEF Answered, Goto, InCall, TypeOK, ProcOK
    <3>2. QED
      BY <2>1, <3>1, EndWires
  <2>4. QED
    BY <1>7, <2>2, <2>3 DEF Answered
<1>8. ASSUME NEW x \in Closers, Await(x) PROVE Done
  BY <1>8, <1>2 DEF Await, table
<1>9. ASSUME NEW x \in Closers, Close(x) PROVE Done
  <2>1. /\ UNCHANGED <<input, running, nextID, reading, output, id, chan>>
        /\ ~InCall(x)' /\ \A y \in Procs \ {x} : on'[y] = on[y] /\ pc'[y] = pc[y]
    BY <1>9 DEF Close, gopls, table, Goto, InCall, TypeOK, ProcOK
  <2>2. QED
    BY <2>1, EndWires
<1>10. ASSUME NEW k \in Conns, NEW n \in Nat, NEW s \in {"initialized", "exit", "reply"}, n = 0,
              CanWrite(k), Write(k, Other(s, n)), UNCHANGED <<nextID, output, running, chan, id>>,
              \A j \in Conns : reading'[j] = reading[j] \/ (reading[j] = 0 /\ reading'[j] = -1),
              \A x \in Procs : InCall(x)' => InCall(x) /\ on'[x] = on[x] /\ pc'[x] = pc[x]
       PROVE  Done
  <2>1. PICK m : m = Other(s, n)
    OBVIOUS
  <2>2. m \in Message /\ m.id = 0
    BY <1>10, <2>1, MessageType DEF Other
  <2> nextID[k] \in Nat
    BY DEF TypeOK, TableOK
  <2>3. Write(k, m) /\ k \in running
    BY <1>10, <2>1 DEF CanWrite
  <2>4. \A x \in Procs : InCall(x)' => /\ InCall(x) /\ on'[x] = on[x]
                                       /\ pc'[x] = "send" => pc[x] = "send" /\ ~(m.id = id[x] /\ on[x] = k)
    BY <1>10, <2>2, InCallHas
  <2>5. QED
    BY <1>10, <2>2, <2>3, <2>4, WriteWires
<1>11. ASSUME NEW c \in Callers, Initialized(c) PROVE Done
  <2>1. on[c] \in Conns
    BY <1>11, ConnectionOf DEF Initialized
  <2>2. \A x \in Procs : InCall(x)' => InCall(x) /\ on'[x] = on[x] /\ pc'[x] = pc[x]
    BY <1>11 DEF Initialized, Goto, InCall, TypeOK, ProcOK
  <2>3. QED
    BY <1>11, <2>1, <2>2, <1>10 DEF Initialized, table
<1>12. ASSUME NEW c \in Callers, DidOpen(c) PROVE Done
  <2>1. PICK k, m : k = on[c] /\ m = Open(file[c])
    OBVIOUS
  <2>2. k \in Conns /\ file[c] \in Files
    BY <1>12, <2>1, ConnectionOf DEF DidOpen, TypeOK, ProcOK
  <2> m \in Message /\ m.id = 0 /\ m.kind = "open"
    BY <2>1, <2>2, MessageType DEF Open
  <2> nextID[k] \in Nat
    BY <2>2 DEF TypeOK, TableOK
  <2>3. Write(k, m) /\ k \in running /\ UNCHANGED <<nextID, output, running, chan, id, reading, on>>
    BY <1>12, <2>1 DEF DidOpen, CanWrite, table
  <2>4. \A x \in Procs : InCall(x)' => InCall(x) /\ on'[x] = on[x] /\ pc'[x] = pc[x]
    BY <1>12 DEF DidOpen, Goto, InCall, Places, TypeOK, ProcOK
  <2>5. \A x \in Procs : InCall(x)' => /\ InCall(x) /\ on'[x] = on[x]
                                       /\ pc'[x] = "send" => pc[x] = "send" /\ ~(m.id = id[x] /\ on[x] = k)
    BY <2>2, <2>4, InCallHas
  <2>6. QED
    BY <2>2, <2>3, <2>5, WriteWires
<1>13. ASSUME NEW x \in Closers, Exit(x) PROVE Done
  <2>1. on[x] \in Conns
    BY <1>13, ConnectionOf DEF Exit
  <2>2. /\ UNCHANGED <<nextID, output, running, chan, id, reading, on>>
        /\ ~InCall(x)' /\ \A y \in Procs \ {x} : pc'[y] = pc[y]
    BY <1>13 DEF Exit, Goto, InCall, TypeOK, ProcOK, table
  <2>3. CASE CanWrite(on[x]) /\ Write(on[x], Other("exit", 0))
    <3>1. \A y \in Procs : InCall(y)' => InCall(y) /\ on'[y] = on[y] /\ pc'[y] = pc[y]
      BY <2>2 DEF InCall
    <3>2. QED
      BY <2>1, <2>2, <2>3, <3>1, <1>10
  <2>4. CASE UNCHANGED input
    BY <2>2, <2>4, EndWires
  <2>5. QED
    BY <1>13, <2>3, <2>4 DEF Exit
<1>14. ASSUME NEW x \in Procs, Send(x) PROVE Done
  <2>1. PICK k, m : k = on[x] /\ m = IF Purpose(x) = "request" THEN Call(file[x], id[x])
                                                              ELSE Other(Purpose(x), id[x])
    OBVIOUS
  <2>2. InCall(x) /\ k \in Conns /\ id[x] \in Nat \ {0}
    BY <1>14, <2>1, InCallHas DEF Send, InCall
  <2>3. m \in Message /\ m.id = id[x] /\ m.kind # "exit"
    <3>1. CASE Purpose(x) = "request"
      <4>1. x \in Callers
        BY <3>1 DEF Purpose
      <4>2. file[x] \in Files
        BY <4>1 DEF TypeOK, ProcOK
      <4>3. QED
        BY <2>1, <2>2, <3>1, <4>2, MessageType DEF Call
    <3>2. CASE Purpose(x) # "request"
      <4>1. Purpose(x) \in {"initialize", "shutdown"}
        BY <3>2 DEF Purpose
      <4>2. QED
        BY <2>1, <2>2, <3>2, <4>1, MessageType DEF Other
    <3>3. QED
      BY <3>1, <3>2
  <2>4. m.id <= nextID[k]
    BY <2>1, <2>2, <2>3 DEF Ids
  <2>5. /\ Write(k, m) /\ k \in running
        /\ UNCHANGED <<nextID, output, running, chan, id, reading, on>>
    BY <1>14, <2>1 DEF Send, CanWrite, table
  <2>6. pc'[x] = "wait" /\ \A y \in Procs \ {x} : pc'[y] = pc[y]
    BY <1>14 DEF Send, Goto, TypeOK, ProcOK
  <2>7. \A y \in Procs : InCall(y)' => /\ InCall(y) /\ on'[y] = on[y]
                                       /\ pc'[y] = "send" => pc[y] = "send" /\ ~(m.id = id[y] /\ on[y] = k)
    <3> SUFFICES ASSUME NEW y \in Procs, InCall(y)'
                 PROVE  /\ InCall(y) /\ on'[y] = on[y]
                        /\ pc'[y] = "send" => pc[y] = "send" /\ ~(m.id = id[y] /\ on[y] = k)
      OBVIOUS
    <3>1. InCall(y)
      BY <2>2, <2>6 DEF InCall
    <3>2. ASSUME m.id = id[y], on[y] = k PROVE y = x
      BY <3>2, <2>1, <2>2, <2>3 DEF Ids
    <3>3. QED
      BY <2>5, <2>6, <3>1, <3>2
  <2>8. QED
    BY <2>3, <2>4, <2>5, <2>7, <2>2, WriteWires
<1>15. ASSUME NEW k \in Conns, Reply(k) PROVE Done
  <2>1. /\ UNCHANGED <<nextID, output, running, chan, id, on, pc>>
        /\ \A j \in Conns : reading'[j] = reading[j] \/ (reading[j] = 0 /\ reading'[j] = -1)
    BY <1>15 DEF Reply, table, proc, TypeOK
  <2>2. CASE CanWrite(k) /\ Write(k, Other("reply", 0))
    BY <2>1, <2>2, <1>10 DEF InCall
  <2>3. CASE UNCHANGED input
    <3>1. Pipes'
      BY <2>1, <2>3 DEF Pipes
    <3>2. Unanswered'
      <4> SUFFICES ASSUME NEW x \in Procs, InCall(x)
                   PROVE  /\ pc[x] = "send" =>
                               /\ id[x] \notin IdsIn(input[on[x]]) \cup output[on[x]] \cup {reading'[on[x]]}
                               /\ chan[x] # "answer"
                          /\ reading'[on[x]] = id[x] => chan[x] = "empty"
        BY <2>1, <2>3 DEF Unanswered, InCall
      <4>1. id[x] \in Nat \ {0} /\ on[x] \in Conns
        BY InCallHas
      <4>2. reading'[on[x]] = id[x] => reading[on[x]] = id[x]
        BY <2>1, <4>1
      <4>3. QED
        BY <4>2 DEF Unanswered, InCall
    <3>3. QED
      BY <3>1, <3>2
  <2>4. QED
    BY <1>15, <2>2, <2>3 DEF Reply
<1>16. ASSUME NEW k \in Conns, Fail(k) PROVE Done
  <2>1. /\ UNCHANGED <<input, nextID, running, reading, pc, on, id>>
        /\ \A j \in Conns : output'[j] \subseteq output[j] \cup {0}
        /\ \A y \in Procs : chan'[y] = chan[y] \/ (on[y] = k /\ id[y] \in pending[k] /\ chan'[y] = "closed")
    BY <1>16 DEF Fail, TypeOK, GoplsOK, ProcOK
  <2>2. reading[k] \notin pending[k]
    BY DEF Ids
  <2>3. \A y \in Procs : InCall(y)' => /\ InCall(y) /\ pc'[y] = pc[y] /\ on'[y] = on[y] /\ id'[y] = id[y]
                                       /\ chan'[y] = chan[y]
                                          \/ (id[y] # reading[on[y]] /\ chan'[y] # "answer")
    BY <2>1, <2>2 DEF InCall
  <2>4. QED
    BY <2>1, <2>3, QuietWires
<1>17. ASSUME NEW k \in Conns, GoplsAsks(k) \/ Crash(k) PROVE Done
  <2>1. /\ UNCHANGED <<nextID, reading, pc, on, id, chan>>
        /\ \A j \in Conns : output'[j] \subseteq output[j] \cup {0}
    BY <1>17 DEF GoplsAsks, Crash, table, proc, TypeOK, GoplsOK
  <2>2. \A j \in Conns : /\ input'[j] = input[j] \/ input'[j] = <<>>
                         /\ j \notin running' => j \notin running \/ input'[j] = <<>>
    BY <1>17 DEF GoplsAsks, Crash, Gone
  <2>3. QED
    BY <2>1, <2>2, QuietWires DEF InCall
<1>18. QED
  BY <1>1, <1>4, <1>5, <1>6, <1>7, <1>8, <1>9, <1>11, <1>12, <1>13, <1>14, <1>15, <1>16, <1>17,
     RegisterWires, ReadWires, DeliverWires, GoplsReadWires
  DEF Next, Connect, Request, CallStep, Connection

-----------------------------------------------------------------------------
(***************************************************************************)
(* The theorems.                                                           *)
(***************************************************************************)
LEMMA InitInv == Init => IInv
<1> SUFFICES ASSUME Init PROVE IInv
  OBVIOUS
<1>1. TypeOK
  BY EmptySeq DEF Init, TypeOK, ClientOK, GoplsOK, TableOK, ProcOK
<1>2. Places /\ Starting
  BY DEF Init, Places, Starting, Stopping
<1>3. Ids /\ Calls /\ NoneRegisteredForEver
  BY DEF Init, Ids, Calls, NoneRegisteredForEver
<1>4. Pipes /\ Unanswered
  BY DEF Init, Pipes, Unanswered
<1>5. QED
  BY <1>1, <1>2, <1>3, <1>4 DEF IInv

LEMMA StepInv == IInv /\ [Next]_vars => IInv'
<1> SUFFICES ASSUME IInv, [Next]_vars PROVE IInv'
  OBVIOUS
<1> USE DEF IInv
<1>1. CASE Next
  <2>1. TypeOK'
    BY <1>1, CallerType, CallType, CloserType, ConnectionType DEF Next
  <2>2. QED
    BY <1>1, <2>1, StepPlaces, StepStarting, StepCalls, StepWires
<1>2. CASE UNCHANGED vars
  <2> USE <1>2 DEF vars, client, gopls, table, proc
  <2>1. TypeOK'
    BY DEF TypeOK, ClientOK, GoplsOK, TableOK, ProcOK
  <2>2. Places' /\ Starting'
    BY DEF Places, Starting, Stopping
  <2>3. Ids' /\ Calls' /\ NoneRegisteredForEver'
    BY DEF Ids, Calls, NoneRegisteredForEver
  <2>4. Pipes' /\ Unanswered'
    BY DEF Pipes, Unanswered, IdsIn
  <2>5. QED
    BY <2>1, <2>2, <2>3, <2>4
<1>3. QED
  BY <1>1, <1>2

\* The strengthened invariant that the safety properties follow from.
THEOREM Invariant == Spec => []IInv
BY InitInv, StepInv, PTL DEF Spec

\* Every variable keeps its type, and no message is written to a full pipe.
THEOREM TypeCorrect == Spec => []TypeOK
<1>1. IInv => TypeOK
  BY DEF IInv
<1>2. QED
  BY <1>1, Invariant, PTL

\* No call waits for an answer that cannot come: fail tells every call that is
\* registered when gopls is gone, and call registers none on a closed connection.
THEOREM NoCallIsStranded == Spec => []NoCallStranded
<1>1. IInv => NoCallStranded
  BY DEF IInv, Calls, NoCallStranded
<1>2. QED
  BY <1>1, Invariant, PTL

\* The table of pending calls of a running gopls holds calls under way only.
THEOREM PendingAreUnderWay == Spec => []NoneRegisteredForEver
<1>1. IInv => NoneRegisteredForEver
  BY DEF IInv
<1>2. QED
  BY <1>1, Invariant, PTL

\* startMu keeps two requests from starting a gopls each, however many find it
\* gone at once and however often it dies.
THEOREM AtMostOneGopls == Spec => []OneGopls
<1>1. ASSUME IInv PROVE OneGopls
  <2> USE <1>1 DEF IInv
  <2>1. \A k \in running \ Stopping : k = conn \/ \E c \in Callers : startMu = c /\ on[c] = k
    BY DEF Starting
  <2>2. ASSUME NEW j \in running \ Stopping, NEW k \in running \ Stopping PROVE j = k
    <3>1. CASE startMu \in Callers
      <4>1. conn = 0 \/ conn \in closed
        BY <3>1 DEF Starting
      <4>2. conn \notin running
        <5>1. 0 \notin running /\ closed \cap running = {}
          BY DEF Places, TypeOK, GoplsOK
        <5>2. QED
          BY <4>1, <5>1
      <4>3. QED
        BY <2>1, <2>2, <4>2
    <3>2. CASE startMu \notin Callers
      BY <2>1, <2>2, <3>2
    <3>3. QED
      BY <3>1, <3>2
  <2>3. Cardinality(running \ Stopping) <= 1
    <3>1. CASE running \ Stopping = {}
      BY <3>1, FS_EmptySet
    <3>2. CASE running \ Stopping # {}
      <4>1. PICK k : k \in running \ Stopping
        BY <3>2
      <4>2. running \ Stopping = {k}
        BY <2>2, <4>1
      <4>3. Cardinality({k}) = 1
        BY FS_Singleton
      <4>4. QED
        BY <4>2, <4>3
    <3>3. QED
      BY <3>1, <3>2
  <2>4. QED
    BY <2>1, <2>3 DEF OneGopls
<1>2. QED
  BY <1>1, Invariant, PTL

-----------------------------------------------------------------------------
(***************************************************************************)
(* The client implements Exchange.                                         *)
(***************************************************************************)
LEMMA SameTold ==
  ASSUME TypeOK, NEW x \in Procs,
         \/ ~InCall(x) /\ ~InCall(x)'
         \/ /\ pc'[x] = pc[x] /\ on'[x] = on[x] /\ id'[x] = id[x] /\ chan'[x] = chan[x]
            /\ chan[x] = "empty" =>
                 /\ id[x] \in output'[on[x]] \cup {reading'[on[x]]} <=> id[x] \in output[on[x]] \cup {reading[on[x]]}
                 /\ \/ id[x] \in output[on[x]] \cup {reading[on[x]]}
                    \/ id[x] \in IdsIn(input'[on[x]]) <=> id[x] \in IdsIn(input[on[x]])
  PROVE  Phase(x)' = Phase(x) /\ Peer(x)' = Peer(x)
<1>1. CASE ~InCall(x) /\ ~InCall(x)'
  BY <1>1 DEF InCall, Phase, Peer
<1>2. CASE ~(~InCall(x) /\ ~InCall(x)')
  <2>1. chan[x] \in {"empty", "answer", "closed"}
    BY DEF TypeOK, ProcOK
  <2>2. QED
    BY <1>2, <2>1 DEF Phase, Peer
<1>3. QED
  BY <1>1, <1>2

LEMMA Told ==
  ASSUME TypeOK, NEW x \in Procs
  PROVE  /\ InCall(x) <=> Phase(x) # "none"
         /\ InCall(x) => Peer(x) = on[x]
         /\ ~InCall(x) => Peer(x) = 0
BY DEF InCall, Phase, Peer

(* Steps that are none of Exchange. *)
LEMMA NothingDone ==
  ASSUME UNCHANGED <<conns, running, closed>>, \A x \in Procs : Phase(x)' = Phase(x) /\ Peer(x)' = Peer(x)
  PROVE  UNCHANGED E!vars
BY DEF E!vars

LEMMA ComesOn ==
  ASSUME NEW x \in Procs, UNCHANGED <<conns, running, closed>>, \A y \in Procs : Peer(y)' = Peer(y),
         \A y \in Procs \ {x} : Phase(y)' = Phase(y),
         NEW from, NEW to, Phase(x) = from, Phase(x)' = to
  PROVE  E!Comes(x, from, to)
BY DEF E!Comes

LEMMA IsMade ==
  ASSUME NEW x \in Procs, UNCHANGED <<conns, running, closed>>,
         \A y \in Procs \ {x} : Phase(y)' = Phase(y) /\ Peer(y)' = Peer(y),
         NEW k \in (1..conns) \ closed,
         Phase(x) = "none", Phase(x)' = "made", Peer(x)' = k
  PROVE  E!Make(x, k)
BY DEF E!Make

LEMMA IsStarted ==
  ASSUME conns' = conns + 1, running' = running \cup {conns + 1}, closed' = closed,
         \A x \in Procs : Phase(x)' = Phase(x) /\ Peer(x)' = Peer(x)
  PROVE  E!Start
BY DEF E!Start

LEMMA HasReturned ==
  ASSUME NEW x \in Procs, UNCHANGED <<conns, running, closed>>,
         \A y \in Procs \ {x} : Phase(y)' = Phase(y) /\ Peer(y)' = Peer(y),
         Phase(x) # "none", Phase(x)' = "none", Peer(x)' = 0
  PROVE  E!Return(x)
BY DEF E!Return

LEMMA HasStopped ==
  ASSUME NEW k \in running, running' = running \ {k}, UNCHANGED <<conns, closed>>, NEW R \in SUBSET Procs,
         \A x \in R : Peer(x) = k /\ Phase(x)' = "none" /\ Peer(x)' = 0,
         \A x \in Procs \ R : /\ Peer(x)' = Peer(x)
                              /\ Phase(x)' = IF Peer(x) = k /\ Phase(x) = "sent" THEN "lost" ELSE Phase(x)
  PROVE  E!Stop(k, R)
BY DEF E!Stop

LEMMA HasEnded ==
  ASSUME NEW k \in (1..conns) \ (running \cup closed), UNCHANGED <<conns, running>>, closed' = closed \cup {k},
         NEW R \in SUBSET Procs,
         \A x \in R : Peer(x) = k /\ Phase(x) \in {"made", "lost", "answered"} /\ Phase(x)' = "failed",
         \A x \in Procs \ R : Phase(x)' = Phase(x) /\ ~(Peer(x) = k /\ Phase(x) \in {"made", "lost"}),
         \A x \in Procs : Peer(x)' = Peer(x)
  PROVE  E!End(k, R)
BY DEF E!End

(* The gopls of k is gone, and maybe the calls of R with it. *)
LEMMA ProcessStops ==
  ASSUME IInv, NEW k \in running, Gone({k}), UNCHANGED <<conns, closed, reading, output>>,
         NEW R \in SUBSET Procs, \A x \in R : InCall(x) /\ on[x] = k /\ ~InCall(x)',
         \A x \in Procs \ R : \/ ~InCall(x) /\ ~InCall(x)'
                              \/ pc'[x] = pc[x] /\ on'[x] = on[x] /\ id'[x] = id[x] /\ chan'[x] = chan[x]
  PROVE  E!Next
<1> USE DEF IInv
<1>1. k \in Conns /\ k \in 1..conns /\ k \notin closed
  BY DEF Places, TypeOK, GoplsOK
<1>2. /\ running' = running \ {k} /\ IdsIn(input'[k]) = {}
      /\ \A j \in Conns \ {k} : input'[j] = input[j]
  BY <1>1 DEF Gone, IdsIn
<1>3. ASSUME NEW x \in R PROVE Peer(x) = k /\ Phase(x)' = "none" /\ Peer(x)' = 0
  BY <1>3 DEF InCall, Phase, Peer
<1>4. ASSUME NEW x \in Procs \ R
      PROVE  /\ Peer(x)' = Peer(x)
             /\ Phase(x)' = IF Peer(x) = k /\ Phase(x) = "sent" THEN "lost" ELSE Phase(x)
  <2>1. CASE ~InCall(x) /\ ~InCall(x)'
    <3>1. Phase(x) = "none"
      BY <2>1, Told, <1>4
    <3>2. QED
      BY <2>1, <3>1, SameTold, <1>4
  <2>2. CASE /\ InCall(x)
             /\ pc'[x] = pc[x] /\ on'[x] = on[x] /\ id'[x] = id[x] /\ chan'[x] = chan[x]
    <3>1. on[x] \in Conns /\ Peer(x) = on[x]
      BY <2>2, InCallHas, Told, <1>4
    <3>2. CASE on[x] # k
      <4>1. input'[on[x]] = input[on[x]]
        BY <1>2, <3>1, <3>2
      <4>2. QED
        BY <2>2, <3>1, <3>2, <4>1, SameTold, <1>4
    <3>3. CASE on[x] = k
      <4>1. chan[x] # "closed"
        BY <1>1, <1>4, <2>2, <3>3 DEF Calls, InCall
      <4>2. pc[x] = "send" => id[x] \notin IdsIn(input[k])
        BY <1>4, <3>3 DEF Unanswered
      <4>3. Peer(x)' = Peer(x)
        BY <2>2 DEF Peer
      <4>4. Phase(x)' = IF Phase(x) = "sent" THEN "lost" ELSE Phase(x)
        BY <1>2, <2>2, <3>3, <4>1, <4>2 DEF Phase, InCall
      <4>5. QED
        BY <3>1, <3>3, <4>3, <4>4
    <3>4. QED
      BY <3>2, <3>3
  <2>3. QED
    BY <1>4, <2>1, <2>2 DEF InCall
<1>5. E!Stop(k, R)
  BY <1>2, <1>3, <1>4, HasStopped
<1>6. QED
  BY <1>1, <1>5 DEF E!Next

(* x ends its call, or makes none, and maybe kills its gopls. *)
LEMMA EndStep ==
  ASSUME IInv, NEW x \in Procs, UNCHANGED <<conns, closed, reading, output>>,
         \/ running' = running /\ input' = input
         \/ on[x] \in Conns /\ Gone({on[x]}),
         ~InCall(x)',
         \A y \in Procs \ {x} : /\ id'[y] = id[y] /\ on'[y] = on[y]
                                /\ chan'[y] = chan[y] /\ pc'[y] = pc[y]
  PROVE  [E!Next]_(E!vars)
<1> USE DEF IInv
<1>1. CASE on[x] \in running /\ Gone({on[x]})
  <2>1. CASE InCall(x)
    <3>1. PICK k \in running, R \in SUBSET Procs : k = on[x] /\ R = {x}
      BY <1>1
    <3>2. /\ Gone({k}) /\ \A y \in R : InCall(y) /\ on[y] = k /\ ~InCall(y)'
          /\ \A y \in Procs \ R : /\ pc'[y] = pc[y] /\ on'[y] = on[y]
                                  /\ id'[y] = id[y] /\ chan'[y] = chan[y]
      BY <1>1, <2>1, <3>1
    <3>3. E!Next
      BY <3>2, ProcessStops
    <3>4. QED
      BY <3>3
  <2>2. CASE ~InCall(x)
    BY <1>1, <2>2, ProcessStops
  <2>3. QED
    BY <2>1, <2>2
<1>2. CASE ~(on[x] \in running /\ Gone({on[x]}))
  <2>1. running' = running /\ \A k \in Conns : input'[k] = input[k]
    <3>1. CASE running' = running /\ input' = input
      BY <3>1
    <3>2. CASE on[x] \in Conns /\ Gone({on[x]})
      <4>1. on[x] \notin running /\ input[on[x]] = <<>>
        BY <1>2, <3>2 DEF Pipes
      <4>2. QED
        BY <3>2, <4>1 DEF Gone
    <3>3. QED
      BY <3>1, <3>2
  <2>2. ASSUME NEW y \in Procs \ {x} PROVE Phase(y)' = Phase(y) /\ Peer(y)' = Peer(y)
    <3>1. CASE InCall(y)
      <4>1. input'[on[y]] = input[on[y]]
        BY <2>1, <2>2, <3>1, InCallHas
      <4>2. QED
        BY <2>2, <4>1, SameTold
    <3>2. CASE ~InCall(y)
      <4>1. ~InCall(y)'
        BY <2>2, <3>2 DEF InCall
      <4>2. QED
        BY <2>2, <3>2, <4>1, SameTold
    <3>3. QED
      BY <3>1, <3>2
  <2>3. CASE InCall(x)
    <3>1. Phase(x) # "none" /\ Phase(x)' = "none" /\ Peer(x)' = 0
      BY <2>3 DEF InCall, Phase, Peer
    <3>2. E!Return(x)
      BY <2>1, <2>2, <3>1, HasReturned
    <3>3. QED
      BY <3>2 DEF E!Next
  <2>4. CASE ~InCall(x)
    <3>1. Phase(x)' = Phase(x) /\ Peer(x)' = Peer(x)
      BY <2>4, SameTold
    <3>2. QED
      BY <2>1, <2>2, <3>1, NothingDone
  <2>5. QED
    BY <2>3, <2>4
<1>3. QED
  BY <1>1, <1>2

(* A message that is none of a call is written to the gopls of k. *)
LEMMA WriteStep ==
  ASSUME IInv, NEW k \in Conns, NEW m \in Message, m.id = 0, Write(k, m),
         UNCHANGED <<conns, running, closed, output, id, chan>>,
         \A j \in Conns : reading'[j] = reading[j] \/ (reading[j] = 0 /\ reading'[j] = -1),
         \A x \in Procs : \/ ~InCall(x) /\ ~InCall(x)'
                          \/ pc'[x] = pc[x] /\ on'[x] = on[x]
  PROVE  UNCHANGED E!vars
<1> USE DEF IInv
<1>1. input'[k] = Append(input[k], m) /\ \A j \in Conns \ {k} : input'[j] = input[j]
  BY DEF Write, TypeOK, GoplsOK
<1>2. IdsIn(input'[k]) = IdsIn(input[k]) \cup {0}
  BY <1>1, InputIs, IdsAppend
<1>3. ASSUME NEW x \in Procs PROVE Phase(x)' = Phase(x) /\ Peer(x)' = Peer(x)
  <2>1. CASE ~InCall(x) /\ ~InCall(x)'
    BY <2>1, SameTold
  <2>2. CASE InCall(x) /\ pc'[x] = pc[x] /\ on'[x] = on[x]
    <3>1. id[x] \in Nat \ {0} /\ on[x] \in Conns
      BY <2>2, InCallHas
    <3>2. id[x] = reading'[on[x]] <=> id[x] = reading[on[x]]
      BY <3>1
    <3>3. id[x] \in IdsIn(input'[on[x]]) <=> id[x] \in IdsIn(input[on[x]])
      BY <1>1, <1>2, <3>1
    <3>4. QED
      BY <2>2, <3>2, <3>3, SameTold
  <2>3. QED
    BY <2>1, <2>2 DEF InCall
<1>4. QED
  BY <1>3, NothingDone

LEMMA SendStep ==
  ASSUME IInv, NEW x \in Procs, Send(x)
  PROVE  E!Next
<1> USE DEF IInv
<1>1. InCall(x) /\ pc[x] = "send"
  BY DEF Send, InCall
<1>2. PICK k, m : k = on[x] /\ m = IF Purpose(x) = "request" THEN Call(file[x], id[x])
                                                            ELSE Other(Purpose(x), id[x])
  OBVIOUS
<1>3. k \in Conns /\ id[x] \in Nat \ {0}
  BY <1>1, <1>2, InCallHas
<1>4. m \in Message /\ m.id = id[x]
  <2>1. CASE Purpose(x) = "request"
    <3>1. file[x] \in Files
      BY <2>1 DEF Purpose, TypeOK, ProcOK
    <3>2. QED
      BY <1>2, <1>3, <2>1, <3>1, MessageType DEF Call
  <2>2. CASE Purpose(x) # "request"
    <3>1. Purpose(x) \in {"initialize", "shutdown"}
      BY <2>2 DEF Purpose
    <3>2. QED
      BY <1>2, <1>3, <2>2, <3>1, MessageType DEF Other
  <2>3. QED
    BY <2>1, <2>2
<1>5. /\ Write(k, m) /\ k \in running
      /\ UNCHANGED <<conns, running, closed, output, reading, on, id, chan>>
  BY <1>2 DEF Send, CanWrite, client, table
<1>6. pc'[x] = "wait" /\ \A y \in Procs \ {x} : pc'[y] = pc[y]
  BY DEF Send, Goto, TypeOK, ProcOK
<1>7. input'[k] = Append(input[k], m) /\ \A j \in Conns \ {k} : input'[j] = input[j]
  BY <1>5 DEF Write, TypeOK, GoplsOK
<1>8. IdsIn(input'[k]) = IdsIn(input[k]) \cup {id[x]}
  BY <1>3, <1>4, <1>7, InputIs, IdsAppend
<1>9. /\ id[x] \notin IdsIn(input[k]) \cup output[k] \cup {reading[k]}
      /\ chan[x] = "empty"
  <2>1. k \notin closed
    BY <1>5 DEF Places
  <2>2. chan[x] # "closed"
    BY <1>1, <1>2, <2>1 DEF Calls
  <2>3. chan[x] \in {"empty", "answer", "closed"}
    BY DEF TypeOK, ProcOK
  <2>4. QED
    BY <1>1, <1>2, <2>2, <2>3 DEF Unanswered
<1>10. Phase(x) = "made" /\ Phase(x)' = "sent" /\ Peer(x) = k /\ Peer(x)' = Peer(x)
  BY <1>1, <1>2, <1>5, <1>6, <1>8, <1>9 DEF Phase, Peer
<1>11. ASSUME NEW y \in Procs \ {x} PROVE Phase(y)' = Phase(y) /\ Peer(y)' = Peer(y)
  <2>1. CASE InCall(y)
    <3>1. id[y] \in Nat \ {0} /\ on[y] \in Conns
      BY <1>11, <2>1, InCallHas
    <3>2. on[y] = k => id[y] # id[x]
      BY <1>2, <1>11, <3>1 DEF Ids
    <3>3. id[y] \in IdsIn(input'[on[y]]) <=> id[y] \in IdsIn(input[on[y]])
      BY <1>7, <1>8, <3>1, <3>2
    <3>4. QED
      BY <1>5, <1>6, <1>11, <3>3, SameTold
  <2>2. CASE ~InCall(y)
    <3>1. ~InCall(y)'
      BY <1>6, <1>11, <2>2 DEF InCall
    <3>2. QED
      BY <1>11, <2>2, <3>1, SameTold
  <2>3. QED
    BY <2>1, <2>2
<1>12. E!Comes(x, "made", "sent")
  BY <1>5, <1>10, <1>11, ComesOn
<1>13. E!Send(x)
  BY <1>5, <1>10, <1>12 DEF E!Send
<1>14. QED
  BY <1>13 DEF E!Next

LEMMA RegisterStep ==
  ASSUME IInv, IInv', NEW x \in Procs, Register(x)
  PROVE  E!Next
<1>1. /\ pc[x] = "call" /\ on[x] \notin closed /\ UNCHANGED <<conns, running, closed, input, output, reading, on>>
  BY DEF Register, client, gopls
<1>2. on[x] \in (1..conns) \ closed
  BY <1>1 DEF IInv, Places
<1>3. /\ pc'[x] = "send" /\ chan'[x] = "empty"
      /\ \A y \in Procs \ {x} : pc'[y] = pc[y] /\ id'[y] = id[y] /\ chan'[y] = chan[y]
  BY DEF Register, Goto, IInv, TypeOK, ProcOK
<1>4. id'[x] \notin IdsIn(input'[on'[x]]) \cup output'[on'[x]] \cup {reading'[on'[x]]}
  BY <1>3 DEF IInv, Unanswered
<1>5. Phase(x) = "none" /\ Phase(x)' = "made" /\ Peer(x)' = on[x]
  BY <1>1, <1>3, <1>4 DEF Phase, Peer
<1>6. ASSUME NEW y \in Procs \ {x} PROVE Phase(y)' = Phase(y) /\ Peer(y)' = Peer(y)
  BY <1>1, <1>3, <1>6 DEF Phase, Peer
<1>7. E!Make(x, on[x])
  BY <1>1, <1>2, <1>5, <1>6, IsMade
<1>8. QED
  BY <1>2, <1>7 DEF E!Next

LEMMA ReadStep ==
  ASSUME IInv, NEW k \in Conns, ReadMessage(k)
  PROVE  UNCHANGED E!vars
<1> USE DEF IInv
<1>1. PICK n \in output[k] :
        /\ output' = [output EXCEPT ![k] = @ \ {n}]
        /\ reading' = [reading EXCEPT ![k] = IF n = 0 \/ n \in pending[k] THEN n ELSE -1]
  BY DEF ReadMessage
<1>2. reading[k] = -1 /\ UNCHANGED <<conns, running, closed, input, pc, on, id, chan>>
  BY DEF ReadMessage, client, proc
<1>3. /\ output'[k] = output[k] \ {n} /\ reading'[k] = IF n = 0 \/ n \in pending[k] THEN n ELSE -1
      /\ \A j \in Conns \ {k} : output'[j] = output[j] /\ reading'[j] = reading[j]
  BY <1>1 DEF TypeOK, GoplsOK
<1>4. ASSUME NEW x \in Procs PROVE Phase(x)' = Phase(x) /\ Peer(x)' = Peer(x)
  <2>1. CASE InCall(x)
    <3>1. id[x] \in Nat \ {0} /\ on[x] \in Conns
      BY <1>4, <2>1, InCallHas
    <3>2. CASE on[x] # k \/ chan[x] # "empty"
      BY <1>2, <1>3, <1>4, <3>1, <3>2, SameTold
    <3>3. CASE on[x] = k /\ chan[x] = "empty"
      <4>1. id[x] \in pending[k]
        BY <1>2, <1>4, <2>1, <3>1, <3>3 DEF Calls, InCall
      <4>2. id[x] \in output'[k] \cup {reading'[k]} <=> id[x] \in output[k] \cup {reading[k]}
        BY <1>2, <1>3, <3>1, <4>1
      <4>3. QED
        BY <1>2, <1>4, <3>3, <4>2, SameTold
    <3>4. QED
      BY <3>2, <3>3
  <2>2. CASE ~InCall(x)
    <3>1. ~InCall(x)'
      BY <1>2, <2>2 DEF InCall
    <3>2. QED
      BY <1>4, <2>2, <3>1, SameTold
  <2>3. QED
    BY <2>1, <2>2
<1>5. QED
  BY <1>2, <1>4, NothingDone

LEMMA DeliverStep ==
  ASSUME IInv, NEW k \in Conns, Deliver(k)
  PROVE  [E!Next]_(E!vars)
<1> USE DEF IInv
<1>1. PICK n : n = reading[k] /\ n > 0
  BY DEF Deliver
<1>2. n \in Nat \ {0}
  BY <1>1 DEF TypeOK
<1>3. /\ UNCHANGED <<conns, running, closed, input, output, pc, on, id>>
      /\ reading'[k] = -1 /\ \A j \in Conns \ {k} : reading'[j] = reading[j]
      /\ \A x \in Procs : chan'[x] = IF on[x] = k /\ id[x] = n THEN "answer" ELSE chan[x]
  BY <1>1 DEF Deliver, client, gopls, table, TypeOK, ProcOK
<1>4. ASSUME NEW x \in Procs, ~(InCall(x) /\ on[x] = k /\ id[x] = n)
      PROVE  Phase(x)' = Phase(x) /\ Peer(x)' = Peer(x)
  <2>1. CASE InCall(x)
    <3>1. id[x] \in Nat \ {0} /\ on[x] \in Conns
      BY <1>4, <2>1, InCallHas
    <3>2. id[x] = reading'[on[x]] <=> id[x] = reading[on[x]]
      BY <1>1, <1>3, <1>4, <2>1, <3>1
    <3>3. QED
      BY <1>3, <1>4, <2>1, <3>2, SameTold
  <2>2. CASE ~InCall(x)
    <3>1. ~InCall(x)'
      BY <1>3, <2>2 DEF InCall
    <3>2. QED
      BY <1>4, <2>2, <3>1, SameTold
  <2>3. QED
    BY <2>1, <2>2
<1>5. CASE \E x \in Procs : InCall(x) /\ on[x] = k /\ id[x] = n
  <2>1. PICK x \in Procs : InCall(x) /\ on[x] = k /\ id[x] = n
    BY <1>5
  <2>2. \A y \in Procs \ {x} : ~(InCall(y) /\ on[y] = k /\ id[y] = n)
    BY <1>2, <2>1 DEF Ids
  <2>3. chan[x] = "empty" /\ chan'[x] = "answer"
    BY <1>1, <1>3, <2>1 DEF Unanswered, InCall
  <2>4. /\ Phase(x) = "answered" /\ Phase(x)' = "given" /\ Peer(x)' = Peer(x)
    BY <1>1, <1>3, <2>1, <2>3 DEF Phase, Peer, InCall
  <2>5. E!Comes(x, "answered", "given")
    BY <1>3, <1>4, <2>2, <2>4, ComesOn
  <2>6. QED
    BY <2>5 DEF E!Give, E!Next
<1>6. CASE \A x \in Procs : ~(InCall(x) /\ on[x] = k /\ id[x] = n)
  BY <1>3, <1>4, <1>6, NothingDone
<1>7. QED
  BY <1>5, <1>6

LEMMA FailStep ==
  ASSUME IInv, NEW k \in Conns, Fail(k)
  PROVE  E!Next
<1> USE DEF IInv
<1>1. /\ k \in (1..conns) \ (running \cup closed) /\ closed' = closed \cup {k}
      /\ UNCHANGED <<conns, running, input, reading, pc, on, id>>
      /\ \A j \in Conns \ {k} : output'[j] = output[j]
      /\ \A x \in Procs : chan'[x] = IF on[x] = k /\ id[x] \in pending[k] THEN "closed" ELSE chan[x]
  BY DEF Fail, client, TypeOK, ProcOK, GoplsOK
<1>2. PICK R \in SUBSET Procs : R = {x \in Procs : InCall(x) /\ on[x] = k /\ id[x] \in pending[k]}
  OBVIOUS
<1>3. ASSUME NEW x \in R
      PROVE  Peer(x) = k /\ Phase(x) \in {"made", "lost", "answered"} /\ Phase(x)' = "failed"
  <2>1. x \in Procs /\ InCall(x) /\ on[x] = k /\ id[x] \in pending[k]
    BY <1>2, <1>3
  <2>2. chan[x] = "empty"
    BY <1>1, <2>1 DEF Calls, InCall, TypeOK, ProcOK
  <2>3. IdsIn(input[k]) = {}
    BY <1>1 DEF Pipes, IdsIn
  <2>4. QED
    BY <1>1, <2>1, <2>2, <2>3 DEF Phase, Peer, InCall
<1>4. ASSUME NEW x \in Procs \ R
      PROVE  Phase(x)' = Phase(x) /\ Peer(x)' = Peer(x) /\ ~(Peer(x) = k /\ Phase(x) \in {"made", "lost"})
  <2>1. CASE ~InCall(x)
    <3>1. ~InCall(x)'
      BY <1>1, <2>1 DEF InCall
    <3>2. Phase(x) = "none"
      BY <1>4, <2>1, Told
    <3>3. QED
      BY <1>4, <2>1, <3>1, <3>2, SameTold
  <2>2. CASE InCall(x)
    <3>1. id[x] \in Nat \ {0} /\ on[x] \in Conns /\ Peer(x) = on[x]
      BY <1>4, <2>2, InCallHas, Told
    <3>2. chan'[x] = chan[x]
      BY <1>1, <1>2, <2>2
    <3>3. CASE on[x] # k
      <4>1. output'[on[x]] = output[on[x]]
        BY <1>1, <3>1, <3>3
      <4>2. QED
        BY <1>1, <1>4, <3>1, <3>2, <3>3, <4>1, SameTold
    <3>4. CASE on[x] = k
      <4>1. chan[x] = "empty" => reading[k] = id[x]
        BY <1>2, <2>2, <3>4 DEF Calls, InCall
      <4>2. Phase(x)' = Phase(x) /\ Peer(x)' = Peer(x)
        BY <1>1, <1>4, <3>2, <3>4, <4>1, SameTold
      <4>3. chan[x] \in {"empty", "answer", "closed"}
        BY DEF TypeOK, ProcOK
      <4>4. Phase(x) \in {"failed", "given", "answered"}
        BY <2>2, <3>4, <4>1, <4>3 DEF Phase, InCall
      <4>5. QED
        BY <4>2, <4>4
    <3>5. QED
      BY <3>3, <3>4
  <2>3. QED
    BY <2>1, <2>2
<1>5. \A x \in Procs : Peer(x)' = Peer(x)
  BY <1>1 DEF Peer
<1>6. E!End(k, R)
  BY <1>1, <1>3, <1>4, <1>5, HasEnded
<1>7. QED
  BY <1>1, <1>6 DEF E!Next

LEMMA GoplsReadStep ==
  ASSUME IInv, NEW k \in Conns, GoplsRead(k)
  PROVE  [E!Next]_(E!vars)
<1> USE DEF IInv
<1>1. PICK m : m = Head(input[k])
  OBVIOUS
<1>2. /\ k \in running /\ input[k] # <<>> /\ input[k] \in Seq(Message)
      /\ UNCHANGED <<conns, closed, reading, pc, on, id, chan>>
      /\ output' = IF m.id # 0 THEN [output EXCEPT ![k] = @ \cup {m.id}] ELSE output
      /\ (m.kind = "exit" /\ Gone({k})) \/ (input' = [input EXCEPT ![k] = Tail(@)] /\ running' = running)
  BY <1>1, InputIs DEF GoplsRead, client, table, proc
<1>3. /\ IdsIn(input[k]) = {m.id} \cup IdsIn(Tail(input[k]))
      /\ m = input[k][1] /\ 1 \in DOMAIN input[k] /\ m.id \in Nat
  BY <1>1, <1>2, InputIs, IdsTail
<1>4. CASE m.kind = "exit" /\ Gone({k})
  <2>1. m.id = 0
    BY <1>3, <1>4 DEF Pipes
  <2>2. output' = output
    BY <1>2, <2>1
  <2>3. E!Next
    BY <1>2, <1>4, <2>2, ProcessStops
  <2>4. QED
    BY <2>3
<1>5. CASE input' = [input EXCEPT ![k] = Tail(@)] /\ running' = running
  <2>1. /\ input'[k] = Tail(input[k]) /\ \A j \in Conns \ {k} : input'[j] = input[j]
        /\ output'[k] = output[k] \cup ({m.id} \ {0}) /\ \A j \in Conns \ {k} : output'[j] = output[j]
    BY <1>2, <1>5 DEF TypeOK, GoplsOK
  <2>2. ASSUME NEW x \in Procs, ~(InCall(x) /\ on[x] = k /\ id[x] = m.id)
        PROVE  Phase(x)' = Phase(x) /\ Peer(x)' = Peer(x)
    <3>1. CASE InCall(x)
      <4>1. id[x] \in Nat \ {0} /\ on[x] \in Conns
        BY <2>2, <3>1, InCallHas
      <4>2. /\ id[x] \in output'[on[x]] <=> id[x] \in output[on[x]]
            /\ id[x] \in IdsIn(input'[on[x]]) <=> id[x] \in IdsIn(input[on[x]])
        BY <1>3, <2>1, <2>2, <3>1, <4>1
      <4>3. QED
        BY <1>2, <2>2, <4>2, SameTold
    <3>2. CASE ~InCall(x)
      <4>1. ~InCall(x)'
        BY <1>2, <3>2 DEF InCall
      <4>2. QED
        BY <2>2, <3>2, <4>1, SameTold
    <3>3. QED
      BY <3>1, <3>2
  <2>3. ASSUME NEW x \in Procs, InCall(x), on[x] = k, id[x] = m.id PROVE [E!Next]_(E!vars)
    <3>1. id[x] \in Nat \ {0}
      BY <2>3, InCallHas
    <3>2. \A y \in Procs \ {x} : ~(InCall(y) /\ on[y] = k /\ id[y] = m.id)
      BY <2>3, <3>1 DEF Ids
    <3>3. Peer(x) = k /\ Peer(x)' = Peer(x)
      BY <1>2, <2>3 DEF Peer, InCall
    <3>4. CASE chan[x] = "empty" /\ id[x] \notin output[k] \cup {reading[k]}
      <4>1. Phase(x) = "sent" /\ Phase(x)' = "answered"
        BY <1>2, <1>3, <2>1, <2>3, <3>1, <3>4 DEF Phase, InCall
      <4>2. E!Comes(x, "sent", "answered")
        BY <1>2, <1>5, <2>2, <3>2, <3>3, <4>1, ComesOn
      <4>3. E!Answer(x)
        BY <1>2, <3>3, <4>2 DEF E!Answer
      <4>4. QED
        BY <4>3 DEF E!Next
    <3>5. CASE ~(chan[x] = "empty" /\ id[x] \notin output[k] \cup {reading[k]})
      <4>1. Phase(x)' = Phase(x)
        BY <1>2, <2>1, <2>3, <3>5, SameTold
      <4>2. QED
        BY <1>2, <1>5, <2>2, <3>2, <3>3, <4>1, NothingDone
    <3>6. QED
      BY <3>4, <3>5
  <2>4. QED
    BY <1>2, <1>5, <2>2, <2>3, NothingDone
<1>6. QED
  BY <1>2, <1>4, <1>5

LEMMA ExchangeStep ==
  ASSUME IInv, IInv', Next
  PROVE  [E!Next]_(E!vars)
<1> DEFINE Done == [E!Next]_(E!vars)
<1> USE DEF IInv
<1>1. ASSUME NEW c \in Callers, (\E f \in Files : Ask(c, f)) \/ Connected(c) \/ AlreadyOpen(c) \/ MarkOpen(c)
      PROVE  Done
  <2>1. /\ UNCHANGED <<conns, running, closed, input, reading, output, id, chan>>
        /\ ~InCall(c)' /\ \A y \in Procs \ {c} : on'[y] = on[y] /\ pc'[y] = pc[y]
    <3> USE DEF TypeOK, ProcOK, Goto, InCall, client, gopls, table, proc
    <3>1. CASE (\E f \in Files : Ask(c, f)) \/ Connected(c)
      BY <3>1 DEF Ask, Connected
    <3>2. CASE AlreadyOpen(c) \/ MarkOpen(c)
      BY <3>2 DEF AlreadyOpen, MarkOpen
    <3>3. QED
      BY <1>1, <3>1, <3>2
  <2>2. QED
    BY <2>1, EndStep
<1>2. ASSUME NEW c \in Callers, StartProcess(c) PROVE Done
  <2>1. /\ conns' = conns + 1 /\ running' = running \cup {conns + 1}
        /\ UNCHANGED <<closed, input, reading, output, id, chan>>
        /\ pc[c] = "connect" /\ pc'[c] = "call"
        /\ \A y \in Procs \ {c} : on'[y] = on[y] /\ pc'[y] = pc[y]
    BY <1>2 DEF StartProcess, Goto, TypeOK, ProcOK, table
  <2>2. \A y \in Procs : Phase(y)' = Phase(y) /\ Peer(y)' = Peer(y)
    BY <2>1 DEF Phase, Peer
  <2>3. E!Start
    BY <2>1, <2>2, IsStarted
  <2>4. QED
    BY <2>3 DEF E!Next
<1>3. ASSUME NEW x \in Procs, Finish(x), UNCHANGED <<conns, closed, reading, output>>,
             (running' = running /\ input' = input) \/ (on[x] \in Conns /\ Gone({on[x]}))
      PROVE  Done
  <2>1. ~InCall(x)'
    BY <1>3, FinishDoes DEF InCall
  <2>2. QED
    BY <1>3, <2>1, FinishDoes, EndStep
<1>4. ASSUME NEW x \in Procs, pc[x] \notin {"idle", "connect"}, Fails(x), UNCHANGED <<conns, closed, reading, output>>
      PROVE  Done
  <2>1. ~InCall(x)'
    BY <1>4, FailsDoes DEF InCall
  <2>2. (running' = running /\ input' = input) \/ (on[x] \in Conns /\ Gone({on[x]}))
    <3>1. CASE Purpose(x) = "shutdown"
      BY <1>4, <3>1 DEF Fails
    <3>2. CASE Purpose(x) = "initialize"
      BY <1>4, <3>2, ConnectionOf DEF Fails
    <3>3. CASE Purpose(x) = "request"
      <4>1. Gone({})
        BY <1>4, <3>3 DEF Fails
      <4>2. running' = running /\ \A k \in Conns : input'[k] = input[k]
        BY <4>1 DEF Gone
      <4>3. input' = [k \in Conns |-> input[k]] /\ input = [k \in Conns |-> input[k]]
        BY <4>1 DEF Gone, TypeOK, GoplsOK
      <4>4. QED
        BY <4>2, <4>3
    <3>4. QED
      BY <3>1, <3>2, <3>3 DEF Purpose
  <2>3. QED
    BY <1>4, <2>1, <2>2, FailsDoes, EndStep
<1>5. ASSUME NEW c \in Callers, Unavailable(c) \/ DidOpenFails(c) PROVE Done
  BY <1>5, <1>3 DEF Unavailable, DidOpenFails, gopls, table
<1>6. ASSUME NEW c \in Callers, InitializedFails(c) PROVE Done
  BY <1>6, <1>4 DEF InitializedFails, table
<1>7. ASSUME NEW x \in Procs, RegisterFails(x) \/ SendFails(x) \/ Hangup(x) \/ Timeout(x) PROVE Done
  BY <1>7, <1>4 DEF RegisterFails, SendFails, Hangup, Timeout, table
<1>8. ASSUME NEW x \in Procs, Answered(x) PROVE Done
  <2>1. UNCHANGED <<conns, closed, input, running, reading, output>>
    BY <1>8 DEF Answered, gopls, table
  <2>2. CASE Finish(x)
    BY <2>1, <2>2, <1>3
  <2>3. CASE Purpose(x) # "request"
    <3>1. /\ UNCHANGED <<on, id, chan>> /\ ~InCall(x)'
          /\ \A y \in Procs \ {x} : pc'[y] = pc[y]
      BY <1>8, <2>3 DEF Answered, Goto, InCall, TypeOK, ProcOK
    <3>2. QED
      BY <2>1, <3>1, EndStep
  <2>4. QED
    BY <1>8, <2>2, <2>3 DEF Answered
<1>9. ASSUME NEW x \in Closers, Await(x) PROVE Done
  <2>1. on[x] \in Conns
    BY <1>9, ConnectionOf DEF Await
  <2>2. QED
    BY <1>9, <2>1, <1>3 DEF Await, table
<1>10. ASSUME NEW x \in Closers, Close(x) PROVE Done
  <2>1. /\ UNCHANGED <<conns, running, closed, input, reading, output, id, chan>>
        /\ ~InCall(x)' /\ \A y \in Procs \ {x} : on'[y] = on[y] /\ pc'[y] = pc[y]
    BY <1>10 DEF Close, gopls, table, Goto, InCall, TypeOK, ProcOK
  <2>2. QED
    BY <2>1, EndStep
<1>11. ASSUME NEW k \in Conns, NEW s \in {"initialized", "exit", "reply"}, Write(k, Other(s, 0)),
              UNCHANGED <<conns, running, closed, output, id, chan>>,
              \A j \in Conns : reading'[j] = reading[j] \/ (reading[j] = 0 /\ reading'[j] = -1),
              \A x \in Procs : \/ ~InCall(x) /\ ~InCall(x)'
                               \/ pc'[x] = pc[x] /\ on'[x] = on[x]
       PROVE  Done
  <2>1. PICK m : m = Other(s, 0)
    OBVIOUS
  <2>2. m \in Message /\ m.id = 0 /\ Write(k, m)
    BY <1>11, <2>1, MessageType DEF Other
  <2>3. QED
    BY <1>11, <2>2, WriteStep
<1>12. ASSUME NEW c \in Callers, Initialized(c) PROVE Done
  <2>1. on[c] \in Conns
    BY <1>12, ConnectionOf DEF Initialized
  <2>2. \A x \in Procs : \/ ~InCall(x) /\ ~InCall(x)'
                         \/ pc'[x] = pc[x] /\ on'[x] = on[x]
    BY <1>12 DEF Initialized, Goto, InCall, TypeOK, ProcOK
  <2>3. QED
    BY <1>12, <2>1, <2>2, <1>11 DEF Initialized, table
<1>13. ASSUME NEW c \in Callers, DidOpen(c) PROVE Done
  <2>1. PICK k, m : k = on[c] /\ m = Open(file[c])
    OBVIOUS
  <2>2. k \in Conns /\ file[c] \in Files
    BY <1>13, <2>1, ConnectionOf DEF DidOpen, TypeOK, ProcOK
  <2>3. m \in Message /\ m.id = 0
    BY <2>1, <2>2, MessageType DEF Open
  <2>4. Write(k, m) /\ UNCHANGED <<conns, running, closed, output, id, chan, reading>>
    BY <1>13, <2>1 DEF DidOpen, client, table
  <2>5. \A x \in Procs : \/ ~InCall(x) /\ ~InCall(x)'
                         \/ pc'[x] = pc[x] /\ on'[x] = on[x]
    BY <1>13 DEF DidOpen, Goto, InCall, TypeOK, ProcOK
  <2>6. QED
    BY <2>2, <2>3, <2>4, <2>5, WriteStep
<1>14. ASSUME NEW x \in Closers, Exit(x) PROVE Done
  <2>1. on[x] \in Conns
    BY <1>14, ConnectionOf DEF Exit
  <2>2. /\ UNCHANGED <<conns, closed, output, running, chan, id, reading, on>>
        /\ ~InCall(x)' /\ ~InCall(x) /\ \A y \in Procs \ {x} : pc'[y] = pc[y]
    BY <1>14 DEF Exit, Goto, InCall, TypeOK, ProcOK, client, table
  <2>3. CASE Write(on[x], Other("exit", 0))
    BY <2>1, <2>2, <2>3, <1>11
  <2>4. CASE UNCHANGED input
    BY <2>2, <2>4, EndStep
  <2>5. QED
    BY <1>14, <2>3, <2>4 DEF Exit
<1>15. ASSUME NEW k \in Conns, Reply(k) PROVE Done
  <2>1. /\ UNCHANGED <<conns, running, closed, output, chan, id, on, pc>>
        /\ \A j \in Conns : reading'[j] = reading[j] \/ (reading[j] = 0 /\ reading'[j] = -1)
    BY <1>15 DEF Reply, client, table, proc, TypeOK
  <2>2. CASE Write(k, Other("reply", 0))
    BY <2>1, <2>2, <1>11 DEF InCall
  <2>3. CASE UNCHANGED input
    <3>1. ASSUME NEW x \in Procs PROVE Phase(x)' = Phase(x) /\ Peer(x)' = Peer(x)
      <4>1. CASE InCall(x)
        <5>1. id[x] \in Nat \ {0} /\ on[x] \in Conns
          BY <3>1, <4>1, InCallHas
        <5>2. id[x] = reading'[on[x]] <=> id[x] = reading[on[x]]
          BY <2>1, <5>1
        <5>3. QED
          BY <2>1, <2>3, <3>1, <5>2, SameTold
      <4>2. CASE ~InCall(x)
        <5>1. ~InCall(x)'
          BY <2>1, <4>2 DEF InCall
        <5>2. QED
          BY <3>1, <4>2, <5>1, SameTold
      <4>3. QED
        BY <4>1, <4>2
    <3>2. QED
      BY <2>1, <3>1, NothingDone
  <2>4. QED
    BY <1>15, <2>2, <2>3 DEF Reply
<1>16. ASSUME NEW k \in Conns, GoplsAsks(k) PROVE Done
  <2>1. /\ UNCHANGED <<conns, running, closed, input, reading, pc, on, id, chan>>
        /\ \A j \in Conns : output'[j] = output[j] \/ output'[j] = output[j] \cup {0}
    BY <1>16 DEF GoplsAsks, client, table, proc, TypeOK, GoplsOK
  <2>2. ASSUME NEW x \in Procs PROVE Phase(x)' = Phase(x) /\ Peer(x)' = Peer(x)
    <3>1. CASE InCall(x)
      <4>1. id[x] \in Nat \ {0} /\ on[x] \in Conns
        BY <2>2, <3>1, InCallHas
      <4>2. id[x] \in output'[on[x]] <=> id[x] \in output[on[x]]
        BY <2>1, <4>1
      <4>3. QED
        BY <2>1, <2>2, <4>2, SameTold
    <3>2. CASE ~InCall(x)
      <4>1. ~InCall(x)'
        BY <2>1, <3>2 DEF InCall
      <4>2. QED
        BY <2>2, <3>2, <4>1, SameTold
    <3>3. QED
      BY <3>1, <3>2
  <2>3. QED
    BY <2>1, <2>2, NothingDone
<1>17. ASSUME NEW k \in Conns, Crash(k) PROVE Done
  <2>1. /\ k \in running /\ Gone({k}) /\ UNCHANGED <<conns, closed, reading, output, pc, on, id, chan>>
    BY <1>17 DEF Crash, client, table, proc
  <2>2. E!Next
    BY <2>1, ProcessStops
  <2>3. QED
    BY <2>2
<1>18. ASSUME NEW x \in Procs, Send(x) \/ Register(x) PROVE Done
  BY <1>18, SendStep, RegisterStep
<1>19. ASSUME NEW k \in Conns, ReadMessage(k) \/ Deliver(k) \/ Fail(k) \/ GoplsRead(k) PROVE Done
  BY <1>19, ReadStep, DeliverStep, FailStep, GoplsReadStep
<1>20. QED
  BY <1>1, <1>2, <1>5, <1>6, <1>7, <1>8, <1>9, <1>10, <1>12, <1>13, <1>14, <1>15, <1>16, <1>17, <1>18, <1>19
  DEF Next, Connect, Request, CallStep, Connection

\* Without ids, pipes, locks and reader goroutines the client is Exchange: a
\* call is given an answer once and only its own, never that of another or of
\* an earlier call that timed out, and hears of the end of its gopls.
THEOREM Implementation == Spec => ImplementsExchange
<1>1. Init => E!Init
  BY DEF Init, E!Init, Phase, Peer
<1>2. ASSUME IInv, IInv', [Next]_vars PROVE [E!Next]_(E!vars)
  <2>1. CASE Next
    BY <1>2, <2>1, ExchangeStep
  <2>2. CASE UNCHANGED vars
    BY <2>2 DEF vars, client, gopls, table, proc, E!vars, Phase, Peer
  <2>3. QED
    BY <1>2, <2>1, <2>2
<1>3. QED
  BY <1>1, <1>2, Invariant, PTL DEF Spec, ImplementsExchange, E!Spec

=============================================================================
