--------------------------------- MODULE Lsp --------------------------------
(***************************************************************************)
(* The gopls client of internal/lsp/lsp.go: requests share one gopls       *)
(* process, which is started by the first that needs it and again by the   *)
(* first that finds it gone; each process has a connection with a reader   *)
(* goroutine that hands answers to the calls waiting for them.             *)
(*                                                                         *)
(* Connections and call ids are numbers, 0 for none.  A message written to *)
(* gopls is appended whole (writeMu), and only while its input pipe has    *)
(* room.  gopls answers calls in any order, or never; it may die at any    *)
(* time.  The text of files, positions and results are left out.           *)
(***************************************************************************)
EXTENDS Integers, Sequences, FiniteSets

CONSTANTS
  Callers,     \* goroutines making position requests
  Closers,     \* goroutines that call Close
  Files,       \* the module's files
  Nobody,      \* the holder of a free startMu
  MaxConns,    \* bound: how many gopls processes are ever started
  MaxAsks,     \* bound: how many requests are made
  MaxOwn,      \* bound: how many requests gopls makes of its client
  PipeRoom     \* how many messages gopls's input pipe holds

Procs == Callers \cup Closers
Conns == 1..MaxConns

ASSUME ProcsAssumption == Callers \cap Closers = {} /\ Nobody \notin Procs
ASSUME FilesAssumption == Files # {}
ASSUME BoundsAssumption ==
  MaxConns \in Nat \ {0} /\ MaxAsks \in Nat /\ MaxOwn \in Nat /\ PipeRoom \in Nat \ {0}

VARIABLES
  conn,      \* Client.conn
  startMu,   \* holder of Client.startMu
  conns,     \* how many connections have been made
  running,   \* connections whose gopls process runs
  closed,    \* connections whose closed channel is closed
  nextID,    \* conn.nextID
  pending,   \* conn.pending: the ids registered
  opened,    \* conn.opened
  input,     \* messages in the pipe to gopls
  known,     \* files gopls was told about
  output,    \* ids gopls has answered, 0 for a request of its own
  reading,   \* what the reader goroutine is busy with: an id, or -1
  owned,     \* how many requests of its own gopls has made
  pc,        \* where each goroutine is
  on,        \* the connection it uses
  file,      \* the file it asks about
  id,        \* the id of its call
  chan,      \* that call's channel: empty, answer or closed
  asks       \* how many requests were made

client == <<conn, startMu, conns>>
gopls  == <<running, input, known, output, owned>>
table  == <<closed, nextID, pending, opened>>
proc   == <<pc, on, file, id, chan>>
vars   == <<client, gopls, table, reading, proc, asks>>

Init ==
  /\ conn = 0 /\ startMu = Nobody /\ conns = 0
  /\ running = {} /\ closed = {}
  /\ nextID = [k \in Conns |-> 0] /\ pending = [k \in Conns |-> {}]
  /\ opened = [k \in Conns |-> {}] /\ known = [k \in Conns |-> {}]
  /\ input = [k \in Conns |-> <<>>] /\ output = [k \in Conns |-> {}]
  /\ reading = [k \in Conns |-> -1] /\ owned = 0
  /\ pc = [x \in Procs |-> "idle"] /\ on = [x \in Procs |-> 0]
  /\ file = [c \in Callers |-> CHOOSE f \in Files : TRUE]
  /\ id = [x \in Procs |-> 0] /\ chan = [x \in Procs |-> "empty"]
  /\ asks = 0

-----------------------------------------------------------------------------
(***************************************************************************)
(* Helpers.                                                                *)
(***************************************************************************)
Goto(x, l) == pc' = [pc EXCEPT ![x] = l]

\* The message goes into the pipe, or the write fails since gopls is gone.
CanWrite(k)   == k \in running /\ Len(input[k]) < PipeRoom
CannotWrite(k) == k \notin running
Write(k, m)   == input' = [input EXCEPT ![k] = Append(@, m)]

\* The processes of the connections K are gone, and what they had not read.
Gone(K) ==
  /\ running' = running \ K
  /\ input' = [k \in Conns |-> IF k \in K THEN <<>> ELSE input[k]]
  /\ known' = [k \in Conns |-> IF k \in K THEN {} ELSE known[k]]

Open(f)    == [kind |-> "open", file |-> f, id |-> 0]
Call(f, n) == [kind |-> "call", file |-> f, id |-> n]
Other(s, n) == [kind |-> s, file |-> CHOOSE f \in Files : TRUE, id |-> n]

\* x is done and returns to its caller, startMu unlocked if it held that.
Finish(x) ==
  /\ pc' = [pc EXCEPT ![x] = "idle"]
  /\ on' = [on EXCEPT ![x] = 0]
  /\ id' = [id EXCEPT ![x] = 0]
  /\ chan' = [chan EXCEPT ![x] = "empty"]
  /\ startMu' = IF startMu = x THEN Nobody ELSE startMu
  /\ UNCHANGED file

\* What a call is for: start's initialize, Close's shutdown or a request.
Purpose(x) == IF x \in Closers THEN "shutdown"
              ELSE IF startMu = x THEN "initialize" ELSE "request"

\* Faulty variant of Fails: a gopls that failed to initialize is left running.
FailsOnly(x) ==
  /\ IF Purpose(x) = "shutdown"
     THEN Goto(x, "exit") /\ UNCHANGED <<startMu, on, file, id, chan>>
     ELSE Finish(x)
  /\ UNCHANGED <<running, input, known>>

\* A call's error: shutdown goes on, a request returns it, and start kills the
\* gopls that did not initialize.
Fails(x) ==
  IF Purpose(x) = "shutdown"
  THEN Goto(x, "exit") /\ UNCHANGED <<startMu, on, file, id, chan, running, input, known>>
  ELSE /\ Gone(IF Purpose(x) = "initialize" THEN {on[x]} ELSE {})
       /\ Finish(x)

-----------------------------------------------------------------------------
(***************************************************************************)
(* Faulty variants of operations below.                                    *)
(***************************************************************************)
\* A caller that finds gopls gone starts it without waiting for startMu.
StartUnlocked(c) ==
  /\ pc[c] = "connect" /\ (conn = 0 \/ conn \in closed) /\ conns < MaxConns
  /\ startMu' = c
  /\ conns' = conns + 1
  /\ running' = running \cup {conns + 1}
  /\ on' = [on EXCEPT ![c] = conns + 1]
  /\ Goto(c, "call")
  /\ UNCHANGED <<conn, input, known, output, owned, table, reading, file, id, chan, asks>>

\* The return for a gopls that cannot be found leaves startMu locked.
UnavailableLocked(c) ==
  /\ pc[c] = "connect" /\ startMu = Nobody /\ (conn = 0 \/ conn \in closed)
  /\ startMu' = c
  /\ Goto(c, "idle")
  /\ UNCHANGED <<conn, conns, gopls, table, reading, on, file, id, chan, asks>>

\* A new call is given the first id that no registered call has.
RegisterReusing(x) ==
  /\ pc[x] = "call" /\ on[x] \notin closed
  /\ LET n == CHOOSE i \in 1..Cardinality(pending[on[x]]) + 1 :
                i \notin pending[on[x]] /\ 1..i-1 \subseteq pending[on[x]]
     IN /\ id' = [id EXCEPT ![x] = n]
        /\ pending' = [pending EXCEPT ![on[x]] = @ \cup {n}]
  /\ chan' = [chan EXCEPT ![x] = "empty"]
  /\ Goto(x, "send")
  /\ UNCHANGED <<client, gopls, closed, nextID, opened, reading, on, file, asks>>

\* A call that times out stays registered.
TimeoutOnly(x) ==
  /\ pc[x] = "wait"
  /\ Fails(x)
  /\ UNCHANGED <<conn, conns, output, owned, table, reading, asks>>

\* The connection is closed without waking the calls that wait on it.
FailQuietly(k) ==
  /\ k \in 1..conns /\ k \notin running /\ k \notin closed
  /\ closed' = closed \cup {k}
  /\ pending' = [pending EXCEPT ![k] = {}]
  /\ output' = [output EXCEPT ![k] = {}]
  /\ UNCHANGED <<client, running, input, known, owned, nextID, opened, reading,
                 proc, asks>>

\* Close waits for gopls to exit, however long that takes.
AwaitOnly(x) ==
  /\ pc[x] = "await" /\ on[x] \in closed
  /\ Finish(x)
  /\ UNCHANGED <<conn, conns, gopls, table, reading, asks>>

-----------------------------------------------------------------------------
(***************************************************************************)
(* connection: the running gopls, started if needed.                       *)
(***************************************************************************)
Ask(c, f) ==
  /\ pc[c] = "idle" /\ asks < MaxAsks
  /\ asks' = asks + 1
  /\ file' = [file EXCEPT ![c] = f]
  /\ Goto(c, "connect")
  /\ UNCHANGED <<client, gopls, table, reading, on, id, chan>>

\* Reading conn, under startMu, decides; nothing else happens before startMu
\* is unlocked again.
Connected(c) ==
  /\ pc[c] = "connect" /\ startMu = Nobody
  /\ conn # 0 /\ conn \notin closed
  /\ on' = [on EXCEPT ![c] = conn]
  /\ Goto(c, "open")
  /\ UNCHANGED <<client, gopls, table, reading, file, id, chan, asks>>

\* cmd.Start and the goroutines that read and wait; startMu stays locked.
StartProcess(c) ==
  /\ pc[c] = "connect" /\ startMu = Nobody
  /\ conn = 0 \/ conn \in closed
  /\ conns < MaxConns
  /\ startMu' = c
  /\ conns' = conns + 1
  /\ running' = running \cup {conns + 1}
  /\ on' = [on EXCEPT ![c] = conns + 1]
  /\ Goto(c, "call")
  /\ UNCHANGED <<conn, input, known, output, owned, table, reading, file, id, chan, asks>>

\* gopls is not installed, or does not start.
Unavailable(c) ==
  /\ pc[c] = "connect" /\ startMu = Nobody
  /\ conn = 0 \/ conn \in closed
  /\ Finish(c)
  /\ UNCHANGED <<conn, conns, gopls, table, reading, asks>>

\* notify("initialized"), then c.conn = cn and startMu is unlocked.
Initialized(c) ==
  /\ pc[c] = "initialized" /\ CanWrite(on[c])
  /\ Write(on[c], Other("initialized", 0))
  /\ conn' = on[c] /\ startMu' = Nobody
  /\ Goto(c, "open")
  /\ UNCHANGED <<conns, running, known, output, owned, table, reading, on,
                 file, id, chan, asks>>

InitializedFails(c) ==
  /\ pc[c] = "initialized" /\ CannotWrite(on[c])
  /\ Fails(c)
  /\ UNCHANGED <<conn, conns, output, owned, table, reading, asks>>

-----------------------------------------------------------------------------
(***************************************************************************)
(* open: gopls is told about a file once.                                  *)
(***************************************************************************)
AlreadyOpen(c) ==
  /\ pc[c] = "open" /\ file[c] \in opened[on[c]]
  /\ Goto(c, "call")
  /\ UNCHANGED <<client, gopls, table, reading, on, file, id, chan, asks>>

MarkOpen(c) ==
  /\ pc[c] = "open" /\ file[c] \notin opened[on[c]]
  /\ opened' = [opened EXCEPT ![on[c]] = @ \cup {file[c]}]
  /\ Goto(c, "didOpen")
  /\ UNCHANGED <<client, gopls, closed, nextID, pending, reading, on, file, id,
                 chan, asks>>

DidOpen(c) ==
  /\ pc[c] = "didOpen" /\ CanWrite(on[c])
  /\ Write(on[c], Open(file[c]))
  /\ Goto(c, "call")
  /\ UNCHANGED <<client, running, known, output, owned, table, reading, on,
                 file, id, chan, asks>>

DidOpenFails(c) ==
  /\ pc[c] = "didOpen" /\ CannotWrite(on[c])
  /\ Finish(c)
  /\ UNCHANGED <<conn, conns, gopls, table, reading, asks>>

-----------------------------------------------------------------------------
(***************************************************************************)
(* call, for each of its purposes.                                         *)
(***************************************************************************)
Register(x) ==
  /\ pc[x] = "call" /\ on[x] \notin closed
  /\ nextID' = [nextID EXCEPT ![on[x]] = @ + 1]
  /\ id' = [id EXCEPT ![x] = nextID[on[x]] + 1]
  /\ pending' = [pending EXCEPT ![on[x]] = @ \cup {nextID[on[x]] + 1}]
  /\ chan' = [chan EXCEPT ![x] = "empty"]
  /\ Goto(x, "send")
  /\ UNCHANGED <<client, gopls, closed, opened, reading, on, file, asks>>

RegisterFails(x) ==
  /\ pc[x] = "call" /\ on[x] \in closed
  /\ Fails(x)
  /\ UNCHANGED <<conn, conns, output, owned, table, reading, asks>>

Send(x) ==
  /\ pc[x] = "send" /\ CanWrite(on[x])
  /\ Write(on[x], IF Purpose(x) = "request" THEN Call(file[x], id[x])
                                            ELSE Other(Purpose(x), id[x]))
  /\ Goto(x, "wait")
  /\ UNCHANGED <<client, running, known, output, owned, table, reading, on,
                 file, id, chan, asks>>

\* The write fails; the call stays registered.
SendFails(x) ==
  /\ pc[x] = "send" /\ CannotWrite(on[x])
  /\ Fails(x)
  /\ UNCHANGED <<conn, conns, output, owned, table, reading, asks>>

\* The answer, or the end of the connection, has come through the channel.
Answered(x) ==
  /\ pc[x] = "wait" /\ chan[x] = "answer"
  /\ IF Purpose(x) = "request" THEN Finish(x)
     ELSE /\ Goto(x, IF Purpose(x) = "initialize" THEN "initialized" ELSE "exit")
          /\ UNCHANGED <<startMu, on, file, id, chan>>
  /\ UNCHANGED <<conn, conns, gopls, table, reading, asks>>

Hangup(x) ==
  /\ pc[x] = "wait" /\ chan[x] = "closed"
  /\ Fails(x)
  /\ UNCHANGED <<conn, conns, output, owned, table, reading, asks>>

\* ctx has ended: the timeout, or the client of a request is gone.
Timeout(x) ==
  /\ pc[x] = "wait"
  /\ pending' = [pending EXCEPT ![on[x]] = @ \ {id[x]}]
  /\ Fails(x)
  /\ UNCHANGED <<conn, conns, output, owned, closed, nextID, opened, reading, asks>>

-----------------------------------------------------------------------------
(***************************************************************************)
(* Close and shutdown.                                                     *)
(***************************************************************************)
Close(k) ==
  /\ pc[k] = "idle"
  /\ conn # 0 /\ conn' = 0
  /\ IF conn \in closed THEN UNCHANGED <<pc, on>>
     ELSE on' = [on EXCEPT ![k] = conn] /\ Goto(k, "call")
  /\ UNCHANGED <<startMu, conns, gopls, table, reading, file, id, chan, asks>>

Exit(k) ==
  /\ pc[k] = "exit"
  /\ \/ CanWrite(on[k]) /\ Write(on[k], Other("exit", 0))
     \/ CannotWrite(on[k]) /\ UNCHANGED input
  /\ Goto(k, "await")
  /\ UNCHANGED <<client, running, known, output, owned, table, reading, on,
                 file, id, chan, asks>>

\* gopls is gone, or is killed when five seconds have passed.
Await(k) ==
  /\ pc[k] = "await"
  /\ Gone({on[k]})
  /\ Finish(k)
  /\ UNCHANGED <<conn, conns, output, owned, table, reading, asks>>

-----------------------------------------------------------------------------
(***************************************************************************)
(* The goroutines of a connection.                                         *)
(***************************************************************************)
\* read takes an answer and unregisters its call, or takes a request.
ReadMessage(k) ==
  /\ reading[k] = -1 /\ k \notin closed
  /\ \E n \in output[k] :
       /\ output' = [output EXCEPT ![k] = @ \ {n}]
       /\ pending' = [pending EXCEPT ![k] = @ \ {n}]
       /\ reading' = [reading EXCEPT ![k] = IF n = 0 \/ n \in pending[k] THEN n ELSE -1]
  /\ UNCHANGED <<client, running, input, known, owned, closed, nextID, opened,
                 proc, asks>>

\* ch <- msg.response: the call may have given up meanwhile.
Deliver(k) ==
  /\ reading[k] > 0
  /\ chan' = [x \in Procs |-> IF on[x] = k /\ id[x] = reading[k] THEN "answer" ELSE chan[x]]
  /\ reading' = [reading EXCEPT ![k] = -1]
  /\ UNCHANGED <<client, gopls, table, pc, on, file, id, asks>>

\* A request of gopls is answered with nothing; a failed write is ignored.
Reply(k) ==
  /\ reading[k] = 0
  /\ \/ CanWrite(k) /\ Write(k, Other("reply", 0))
     \/ CannotWrite(k) /\ UNCHANGED input
  /\ reading' = [reading EXCEPT ![k] = -1]
  /\ UNCHANGED <<client, running, known, output, owned, table, proc, asks>>

\* fail, once the process has ended: by read at the end of its output or by
\* the goroutine in cmd.Wait, which may find answers unread.  Those that read
\* finds later belong to no call.
Fail(k) ==
  /\ k \in 1..conns /\ k \notin running /\ k \notin closed
  /\ closed' = closed \cup {k}
  /\ pending' = [pending EXCEPT ![k] = {}]
  /\ chan' = [x \in Procs |-> IF on[x] = k /\ id[x] \in pending[k] THEN "closed" ELSE chan[x]]
  /\ output' = [output EXCEPT ![k] = {}]
  /\ UNCHANGED <<client, running, input, known, owned, nextID, opened, reading,
                 pc, on, file, id, asks>>

(***************************************************************************)
(* gopls.  It may fail to exit when told to.                               *)
(***************************************************************************)
GoplsRead(k) ==
  /\ k \in running /\ input[k] # <<>>
  /\ LET m == Head(input[k]) IN
       /\ output' = IF m.id # 0 THEN [output EXCEPT ![k] = @ \cup {m.id}] ELSE output
       /\ \/ m.kind = "exit" /\ Gone({k})
          \/ /\ input' = [input EXCEPT ![k] = Tail(@)] /\ UNCHANGED running
             /\ known' = IF m.kind = "open" THEN [known EXCEPT ![k] = @ \cup {m.file}]
                         ELSE known
  /\ UNCHANGED <<client, owned, table, reading, proc, asks>>

GoplsAsks(k) ==
  /\ k \in running /\ owned < MaxOwn
  /\ owned' = owned + 1
  /\ output' = [output EXCEPT ![k] = @ \cup {0}]
  /\ UNCHANGED <<client, running, input, known, table, reading, proc, asks>>

Crash(k) ==
  /\ k \in running
  /\ Gone({k})
  /\ UNCHANGED <<client, output, owned, table, reading, proc, asks>>

-----------------------------------------------------------------------------
CallStep(x) ==
  \/ Register(x) \/ RegisterFails(x) \/ Send(x) \/ SendFails(x)
  \/ Answered(x) \/ Hangup(x)

Connect(c) == Connected(c) \/ StartProcess(c) \/ Unavailable(c)

Request(c) ==
  \/ Initialized(c) \/ InitializedFails(c)
  \/ AlreadyOpen(c) \/ MarkOpen(c) \/ DidOpen(c) \/ DidOpenFails(c)

Connection(k) == ReadMessage(k) \/ Deliver(k) \/ Reply(k) \/ Fail(k)

Next ==
  \/ \E c \in Callers : (\E f \in Files : Ask(c, f)) \/ Connect(c) \/ Request(c)
  \/ \E x \in Procs   : CallStep(x) \/ Timeout(x)
  \/ \E x \in Closers : Close(x) \/ Exit(x) \/ Await(x)
  \/ \E k \in Conns   : Connection(k) \/ GoplsRead(k) \/ GoplsAsks(k) \/ Crash(k)

Spec == Init /\ [][Next]_vars

\* Goroutines that can run do, a mutex is handed on and timeouts fire.
GoroutinesRun ==
  /\ \A c \in Callers : SF_vars(Connect(c)) /\ WF_vars(Request(c))
  /\ \A x \in Procs   : WF_vars(CallStep(x)) /\ WF_vars(Timeout(x))
  /\ \A x \in Closers : WF_vars(Exit(x)) /\ WF_vars(Await(x))
  /\ \A k \in Conns   : WF_vars(Connection(k))

\* gopls reads its input until it dies; that it answers is not assumed.
GoplsReads == \A k \in Conns : WF_vars(GoplsRead(k))

FairSpec == Spec /\ GoroutinesRun /\ GoplsReads
HungSpec == Spec /\ GoroutinesRun

-----------------------------------------------------------------------------
(***************************************************************************)
(* Properties.                                                             *)
(***************************************************************************)
Message == [kind : {"open", "call", "initialize", "initialized", "shutdown", "exit", "reply"},
            file : Files, id : Nat]

ClientOK ==
  conn \in 0..MaxConns /\ startMu \in Callers \cup {Nobody} /\ conns \in 0..MaxConns
GoplsOK ==
  /\ running \subseteq Conns /\ known \in [Conns -> SUBSET Files]
  /\ input \in [Conns -> Seq(Message)] /\ \A k \in Conns : Len(input[k]) <= PipeRoom
  /\ output \in [Conns -> SUBSET Nat] /\ owned \in 0..MaxOwn
TableOK ==
  /\ closed \subseteq Conns /\ nextID \in [Conns -> Nat]
  /\ pending \in [Conns -> SUBSET Nat] /\ opened \in [Conns -> SUBSET Files]
ProcOK ==
  /\ pc \in [Procs -> {"idle", "connect", "initialized", "open",
                       "didOpen", "call", "send", "wait", "exit", "await"}]
  /\ on \in [Procs -> 0..MaxConns] /\ file \in [Callers -> Files]
  /\ id \in [Procs -> Nat] /\ chan \in [Procs -> {"empty", "answer", "closed"}]

\* Every variable has its type, and a pipe holds no more than it has room for.
TypeOK ==
  /\ ClientOK /\ GoplsOK /\ TableOK /\ ProcOK
  /\ reading \in [Conns -> Nat \cup {-1}] /\ asks \in 0..MaxAsks

\* "fail wakes every waiting call once gopls is gone" (lsp.go:369): a call
\* that waits is registered, or its answer is on its way, or its channel has
\* told it; on a closed connection only the last.
NoCallStranded ==
  \A x \in Procs : pc[x] = "wait" /\ chan[x] = "empty" =>
    \/ id[x] \in pending[on[x]] /\ on[x] \notin closed
    \/ reading[on[x]] = id[x]

\* On a connection whose gopls runs only calls under way are registered:
\* neither a timeout nor an answer leaves its entry behind.
NoneRegisteredForEver ==
  \A k \in running : \A n \in pending[k] :
    \E x \in Procs : on[x] = k /\ id[x] = n /\ pc[x] \in {"send", "wait"}

\* "Client talks to one gopls process": but for those that Close is stopping,
\* there is at most one, and it is the client's or about to become it.
Stopping == {on[x] : x \in Closers}
OneGopls ==
  /\ Cardinality(running \ Stopping) <= 1
  /\ \A k \in running \ Stopping : k = conn \/ \E c \in Callers : startMu = c /\ on[c] = k

\* How far a call has come: its id is in the pipe to gopls, among the answers,
\* or in the reader's hand, or the caller has heard.
IdsIn(pipe) == {pipe[i].id : i \in DOMAIN pipe}

Phase(x) ==
  IF pc[x] \notin {"send", "wait"} THEN "none"
  ELSE IF chan[x] = "closed" THEN "failed"
  ELSE IF chan[x] = "answer" THEN "given"
  ELSE IF id[x] \in output[on[x]] \cup {reading[on[x]]} THEN "answered"
  ELSE IF id[x] \in IdsIn(input[on[x]]) THEN "sent"
  ELSE IF pc[x] = "send" THEN "made" ELSE "lost"

Peer(x) == IF pc[x] \in {"send", "wait"} THEN on[x] ELSE 0

\* Without ids, pipes, locks and reader goroutines the client is Exchange: no
\* call is given the answer of another, or of an earlier call that timed out.
E == INSTANCE Exchange WITH Clients <- Procs, started <- conns, alive <- running, over <- closed,
                            call <- [x \in Procs |-> Phase(x)], peer <- [x \in Procs |-> Peer(x)]
ImplementsExchange == E!Spec

\* Every request returns, whatever gopls does short of never reading.
RequestsReturn == \A c \in Callers : pc[c] # "idle" ~> pc[c] = "idle"

\* So does Close, and the gopls it was to stop is gone then.
CloseStops ==
  \A x \in Closers, k \in Conns :
    on[x] = k ~> (pc[x] = "idle" /\ k \notin running)

-----------------------------------------------------------------------------
(***************************************************************************)
(* What the invariants above rest on, and the proofs need.                 *)
(***************************************************************************)
\* A goroutine at rest has no call; any other has a connection that was made.
\* A connection is closed only once its process is gone.
Places ==
  /\ \A c \in Callers : pc[c] \notin {"exit", "await"}
  /\ \A x \in Closers : pc[x] \in {"idle", "call", "send", "wait", "exit", "await"}
  /\ \A x \in Procs :
       IF pc[x] \in {"idle", "connect"} THEN on[x] = 0 /\ id[x] = 0 /\ chan[x] = "empty"
                                       ELSE on[x] \in 1..conns
  /\ conn <= conns /\ running \subseteq 1..conns /\ closed \subseteq (1..conns) \ running

\* No two calls of a connection have the same id, and what is registered or
\* being delivered has been given out.
Ids ==
  /\ \A k \in Conns : /\ pending[k] \subseteq 1..nextID[k]
                      /\ reading[k] <= nextID[k] /\ reading[k] \notin pending[k]
                      /\ k \in closed => pending[k] = {}
                      /\ k > conns => nextID[k] = 0
  /\ \A x \in Procs : id[x] # 0 => on[x] # 0 /\ id[x] <= nextID[on[x]]
  /\ \A x, y \in Procs : id[x] # 0 /\ id[x] = id[y] /\ on[x] = on[y] => x = y

\* What a registered call knows of its answer.
Calls ==
  \A x \in Procs : pc[x] \in {"send", "wait"} =>
    /\ id[x] # 0
    /\ chan[x] = "empty"  => \/ id[x] \in pending[on[x]] /\ on[x] \notin closed
                            \/ reading[on[x]] = id[x]
    /\ chan[x] = "answer" => id[x] \notin pending[on[x]]
    /\ chan[x] = "closed" => on[x] \in closed

\* Who holds startMu between two steps is starting a gopls, since the one
\* there was is gone, and every other that runs is the client's.
Starting ==
  /\ \A c \in Callers : startMu = c =>
       pc[c] \in {"call", "send", "wait", "initialized"} /\ (conn = 0 \/ conn \in closed)
  /\ \A c \in Callers : pc[c] = "initialized" => startMu = c
  /\ \A k \in running \ Stopping : k = conn \/ \E c \in Callers : startMu = c /\ on[c] = k

\* Only a gopls that runs has something to read; ids in it or in its answers
\* have been given out.
Pipes ==
  \A k \in Conns :
    /\ k \notin running => input[k] = <<>>
    /\ \A i \in DOMAIN input[k] :
         input[k][i].id <= nextID[k] /\ (input[k][i].kind = "exit" => input[k][i].id = 0)
    /\ \A n \in output[k] : n <= nextID[k]

\* A call that was not sent is not under way to gopls or back, nor answered,
\* and one whose answer is in the reader's hand has not heard of it.
Unanswered ==
  \A x \in Procs :
    /\ pc[x] = "send" => /\ id[x] \notin IdsIn(input[on[x]]) \cup output[on[x]] \cup {reading[on[x]]}
                         /\ chan[x] # "answer"
    /\ pc[x] \in {"send", "wait"} /\ reading[on[x]] = id[x] => chan[x] = "empty"

\* Everything the proofs carry from state to state.
IInv ==
  /\ TypeOK /\ Places /\ Ids /\ Calls /\ NoneRegisteredForEver /\ Starting
  /\ Pipes /\ Unanswered

=============================================================================
