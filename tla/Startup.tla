------------------------------ MODULE Startup ------------------------------
(***************************************************************************)
(* Programs that start workers, subscribe to messages, run commands and    *)
(* register services, executed (Routing) against the entry points that     *)
(* analysis finds in them (Entrypoints).  A goroutine runs at once and to  *)
(* its end: what is started does not depend on the schedule.               *)
(***************************************************************************)
EXTENDS Routing, Entrypoints

VARIABLES entries,   \* what analysis finds
          entered,   \* the ways in that the program had so far
          commands   \* the cobra.Commands that it made

startVars == <<vars, entries, entered, commands>>

StartInit ==
  /\ Init
  /\ entries = DiscoverEntryPoints(code)
  /\ entered = {} /\ commands = <<>>

\* A way in: name is a text, path for commands a sequence of them, worker
\* the goroutine that runs a job.
Way(kind, name, fn, worker) == [kind |-> kind, name |-> name, path |-> <<>>, fn |-> fn, worker |-> worker]
Enter(ways) == entered' = entered \cup ways

\* The running function goes on after f, which it calls as role.
Run(role, f, args) ==
  frames' = (IF f \in DOMAIN code THEN <<Frame(role, f, args)>> ELSE <<>>) \o <<Given(Text(<<>>))>> \o Tail(frames)

Go ==
  /\ Is("go")
  /\ IF Top.fn \in MainPackage
     THEN Run("worker", I.fn, Args) /\ Enter({Way("worker", <<>>, I.fn, "")})
     ELSE Run("goroutine", I.fn, Args) /\ UNCHANGED entered
  /\ UNCHANGED <<code, found, globals, branches, libraries, entries, commands>>

\* The string a row is called by.
RowName(row, type) ==
  LET fields == StringFields[type]
      like == {n \in DOMAIN fields : fields[n] \in NameFields}
  IN  row.strs[IF like = {} THEN 1 ELSE Min(like)]

\* A job is what a worker calls in a row, but for what jobs do themselves.
CallField ==
  /\ Is("callfield")
  /\ LET row == Args[1]
         roles == {n \in DOMAIN frames : frames[n].role \in {"worker", "job"}}
         by == frames[Min(roles)]
     IN  /\ Run("job", row.fn, Tail(Args))
         /\ Enter(IF roles = {} \/ by.role = "job" THEN {}
                  ELSE {Way("job", RowName(row, I.type), row.fn, by.fn)})
  /\ UNCHANGED <<code, found, globals, branches, libraries, entries, commands>>

Subscribe ==
  /\ Is("subscribe")
  /\ Enter({Way("consumer", Args[1].text, Args[2].fn, "")})
  /\ Continue(Text(<<>>))
  /\ UNCHANGED <<code, found, globals, branches, libraries, entries, commands>>

RegisterService ==
  /\ Is("rpc")
  /\ LET set == MethodSets[Args[1].type]
     IN  Enter({Way("rpc", <<I.service, "/", m>>, set[m], "") : m \in {x \in I.methods : set[x] \in DOMAIN code}})
  /\ Continue(Text(<<>>))
  /\ UNCHANGED <<code, found, globals, branches, libraries, entries, commands>>

-----------------------------------------------------------------------------
\* cobra: a command is called by the first word of its Use, after its
\* parents, and is run if it can be.
Command ==
  /\ Is("command")
  /\ commands' = Append(commands, [use |-> Args[1].text, fn |-> IF Len(Args) = 1 THEN "" ELSE Args[2].fn, parent |-> 0])
  /\ Continue([kind |-> "command", id |-> Len(commands) + 1])
  /\ UNCHANGED <<code, found, globals, branches, libraries, entries, entered>>

AddCommand ==
  /\ Is("addcommand")
  /\ commands' = [c \in DOMAIN commands |->
                    IF c \in {e.id : e \in Range(Args[2].elems)} THEN [commands[c] EXCEPT !.parent = Args[1].id]
                    ELSE commands[c]]
  /\ Continue(Text(<<>>))
  /\ UNCHANGED <<code, found, globals, branches, libraries, entries, entered>>

Word(use) == LET spaces == {n \in DOMAIN use : use[n] = " "} IN IF spaces = {} THEN use ELSE SubSeq(use, 1, Min(spaces) - 1)

\* The words that call command c.
RECURSIVE Words(_)
Words(c) == (IF commands[c].parent = 0 THEN <<>> ELSE Words(commands[c].parent)) \o <<Word(commands[c].use)>>

\* The root runs whichever command is asked for.
Execute ==
  /\ Is("execute")
  /\ Enter({[Way("command", <<>>, commands[c].fn, "") EXCEPT !.path = Words(c)] :
              c \in {d \in DOMAIN commands : commands[d].fn # "" /\ Words(d)[1] = Word(commands[Args[1].id].use)}})
  /\ Continue(Text(<<>>))
  /\ UNCHANGED <<code, found, globals, branches, libraries, entries, commands>>

StartNext ==
  \/ Next /\ UNCHANGED <<entries, entered, commands>>
  \/ (Go \/ CallField \/ Subscribe \/ RegisterService \/ Command \/ AddCommand \/ Execute) /\ Blinded

StartSpec == StartInit /\ [][StartNext]_startVars

-----------------------------------------------------------------------------
\* Words with spaces between them.
Spaced(words) == FoldLeft(LAMBDA out, w : out \o <<" ">> \o w, Head(words), Tail(words))

\* What entry s is called stands for the name of w.  A command that is kept
\* in a variable is known without its parents.
Named(s, w) ==
  CASE w.kind \in {"job", "consumer", "rpc"} -> \E p \in s.names : Matches(p, w.name)
    [] w.kind = "command" -> \E p \in s.names, n \in DOMAIN w.path : Matches(p, Spaced(SubSeq(w.path, n, Len(w.path))))
    [] OTHER -> TRUE

\* Every way into the program that it opens is shown, by its name, with its
\* function or one that this calls; jobs with a worker (discoverEntryPoints); if its
\* name is made of strings that analysis sees.
EntryPointsFound ==
  ~blind => \A w \in entered : \E s \in Range(entries) :
    /\ s.kind = w.kind /\ s.fn \in Behind(w.fn) /\ Named(s, w)
    /\ w.kind = "job" => \E t \in Range(entries) : t.kind = "worker" /\ s.parent = <<t.fn>>

\* A worker is linked to each job that it runs: "with runs edges from
\* workers to their jobs" (addEntries).
JobsLinked ==
  \A w \in entered : w.kind = "job" =>
    \E e \in RunsEdges(entries) : e[1] \in Behind(w.worker) /\ e[2] \in Behind(w.fn)
=============================================================================
