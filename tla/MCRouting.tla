----------------------------- MODULE MCRouting -----------------------------
(***************************************************************************)
(* Small programs for Routing: all sequences of three library calls after  *)
(* a router is made, callbacks, mounts, helpers, routers kept in           *)
(* variables, and patterns made in every way that Values knows.            *)
(***************************************************************************)
EXTENDS Startup

Const(s) == [op |-> "const", str |-> s]
Fun(f) == [op |-> "func", fn |-> f]
Of(op, args) == [op |-> op, args |-> args]
CallOf(f, args) == [op |-> "call", fn |-> f, args |-> args]
ParamNo(n) == [op |-> "param", num |-> n, args |-> <<>>]
Free(v) == [op |-> "free", of |-> v, args |-> <<>>]
NewOf(fw) == [op |-> "new", fw |-> fw, args |-> <<>>]
OnOf(fw, name, recv, args) == [op |-> "on", fw |-> fw, name |-> name, recv |-> recv, args |-> args]
Load(x) == [op |-> "load", var |-> x, args |-> <<>>]
GoTo(n) == [op |-> "branch", to |-> n, args |-> <<>>]
Ref(f, ns) == [k \in DOMAIN ns |-> <<f, ns[k]>>]

PathA == Const(<<"/", "a">>)
PathB == Const(<<"/", "b">>)
Slash == Const(<<"/">>)
Empty == Const(<<>>)

\* What a function that sets up routes starts with: <<f, 1>> to <<f, 12>>.
Prelude(f) ==
  <<PathA, Slash, Fun("handler"), [op |-> "factory", fn |-> "auth", args |-> <<>>], Of("slice", Ref(f, <<4>>)),
    Fun("log"), Of("slice", Ref(f, <<6>>)), Of("slice", Ref(f, <<3>>)), Of("slice", Ref(f, <<4, 3>>)),
    Const(<<"POST">>), Of("slice", Ref(f, <<10>>)), Of("slice", <<>>)>>

\* The library calls a function may make on a router: name and args.
Calls ==
  [chi |-> [Use |-> <<5>>, With |-> <<7>>, GET |-> <<1, 3>>, Method |-> <<10, 2, 3>>],
   gin |-> [Use |-> <<5>>, Group |-> <<1, 7>>, GET |-> <<1, 9>>, Handle |-> <<10, 2, 8>>, Static |-> <<1>>],
   echo |-> [Use |-> <<5>>, Group |-> <<1, 7>>, GET |-> <<1, 3, 5>>, Add |-> <<10, 2, 3, 12>>],
   gorilla |-> [Use |-> <<5>>, PathPrefix |-> <<1>>, Handle |-> <<1, 3>>,
                Subrouter |-> <<>>, Methods |-> <<11>>, Handler |-> <<3>>]]
OfRoute == {"Subrouter", "Methods", "Handler"}
Makes == {"With", "Group", "PathPrefix", "Handle", "Subrouter", "Methods", "Handler"}
Registering == {"GET", "Method", "Handle", "Handler", "Static", "Add"}

\* A choice of calls: <<name, on>>, where on is one of given routers, or what
\* an earlier call made.
More(fw, given, choice) ==
  LET name(n) == choice[n - given][1]
      route(n) == fw = "gorilla" /\ n > given /\ name(n) # "Subrouter"
      made(n) == n <= given \/ (name(n) \in Makes /\ (fw = "gorilla" \/ name(n) # "Handle"))
      calls(n) == IF ~route(n) THEN DOMAIN Calls[fw] \ OfRoute
                  ELSE IF name(n) = "PathPrefix" THEN OfRoute ELSE {"Methods"}
  IN  UNION {{Append(choice, <<c, n>>) : c \in calls(n)} : n \in {k \in 1..(given + Len(choice)) : made(k)}}

RECURSIVE ChoicesFrom(_, _, _, _)
ChoicesFrom(fw, given, choice, n) ==
  IF n = 0 THEN {choice} ELSE UNION {ChoicesFrom(fw, given, c, n - 1) : c \in More(fw, given, choice)}

\* The choices of n calls that register something.
CallChoices(fw, given, n) ==
  {[fw |-> fw, calls |-> c] : c \in {d \in ChoicesFrom(fw, given, <<>>, n) : \E k \in 1..n : d[k][1] \in Registering}}

CallOn(f, fw, name, n) == OnOf(fw, name, <<f, n>>, Ref(f, Calls[fw][name]))

\* The calls chosen, in f, whose routers start at instruction 13.
ChosenCalls(f, choice) ==
  [k \in DOMAIN choice.calls |-> CallOn(f, choice.fw, choice.calls[k][1], 12 + choice.calls[k][2])]

Straight ==
  {[main |-> Append(Prelude("main"), NewOf(c.fw)) \o ChosenCalls("main", c)] :
     c \in UNION {CallChoices(fw, 1, IF fw = "gin" THEN 3 ELSE 4) : fw \in DOMAIN Frameworks}}

\* chi callbacks that capture the outer router, with what is called before
\* and after on the outer router or the one that Route returns.
Callbacks ==
  {[main |-> Prelude("main") \o <<NewOf("chi")>> \o before
               \o <<Fun("cb"), OnOf("chi", "Route", <<"main", 13>>, <<<<"main", 1>>, <<"main", 14 + Len(before)>>>>)>> \o after,
    cb |-> cb] :
     before \in {<<>>, <<OnOf("chi", "Use", <<"main", 13>>, Ref("main", <<5>>))>>},
     after \in {<<>>, <<OnOf("chi", "GET", <<"main", 13>>, Ref("main", <<1, 3>>))>>},
     cb \in {Prelude("cb") \o <<ParamNo(1), Free(<<"main", 13>>)>> \o ChosenCalls("cb", c) : c \in CallChoices("chi", 2, 2)}}
Groups ==
  {[main |-> Prelude("main") \o <<NewOf("chi"), Fun("cb"), OnOf("chi", "Group", <<"main", 13>>, Ref("main", <<14>>)),
                                  OnOf("chi", "GET", <<"main", r>>, Ref("main", <<1, 3>>))>>,
    cb |-> cb] :
     r \in {13, 15},
     cb \in {Append(Prelude("cb"), ParamNo(1)) \o ChosenCalls("cb", c) : c \in CallChoices("chi", 1, 3)}}
\* Without Use in the callback when its router is also what Route returned.
Returned(p) ==
  ~(p.main[Len(p.main)].name = "GET" /\ p.main[Len(p.main)].recv = <<"main", 15>>
    /\ \E n \in DOMAIN p.cb : p.cb[n].op = "on" /\ p.cb[n].name = "Use")

\* Routers made by a function, mounted once or twice; and helpers that are
\* given one or two routers; and routers in variables.
Mounts ==
  {[main |-> Prelude("main") \o <<NewOf("chi"), CallOf("sub", <<>>), PathB>> \o before
               \o <<OnOf("chi", "Mount", <<"main", 13>>, <<<<"main", p>>, <<"main", 14>>>>)>> \o after,
    sub |-> Append(Prelude("sub"), NewOf("chi")) \o ChosenCalls("sub", c) \o <<Of("ret", Ref("sub", <<13>>))>>] :
     p \in {1, 15}, c \in CallChoices("chi", 1, 2),
     before \in {<<>>, <<OnOf("chi", "Use", <<"main", 13>>, Ref("main", <<7>>))>>},
     after \in {<<>>, <<OnOf("chi", "Mount", <<"main", 13>>, Ref("main", <<15, 14>>))>>}}
Helpers ==
  {[main |-> Prelude("main") \o <<NewOf(c.fw), CallOn("main", c.fw, IF c.fw = "chi" THEN "With" ELSE "Group", 13),
                                   CallOf("sub", Ref("main", <<14>>)), CallOf("sub", Ref("main", <<13>>))>>,
    sub |-> Append(Prelude("sub"), ParamNo(1)) \o ChosenCalls("sub", c)] :
     c \in UNION {CallChoices(fw, 1, 3) : fw \in {"chi", "gin", "echo"}}}
Variables ==
  {[main |-> <<NewOf(c.fw), [op |-> "store", var |-> "srv", args |-> Ref("main", <<1>>)], CallOf("sub", <<>>)>>,
    sub |-> Append(Prelude("sub"), Load("srv")) \o ChosenCalls("sub", c)] : c \in CallChoices("chi", 1, 2) \cup CallChoices("gin", 1, 2)}

-----------------------------------------------------------------------------
\* Patterns.  Instruction 9 makes one, 10 may put the method before it, 11
\* registers it; the rest registers another one or goes back.
En == Const(<<"/", "en">>)
De == Const(<<"/", "de">>)
Get1 == Const(<<"GET", " ">>)
Index(n, at) == [op |-> "index", args |-> Ref("main", <<n>>), at |-> at]
M(op, ns) == Of(op, Ref("main", ns))
Makers ==
  {Index(7, 0), Index(7, 2), M("field", <<8>>), M("concat", <<1, 2>>), M("sprintf", <<6, 7>>), Load("prefix"),
   CallOf("helper", Ref("main", <<1>>)), CallOf("pick", <<>>), CallOf("Outside", <<>>), M("convert", <<2>>)}
Handled(n) == [op |-> "handle", args |-> Ref("main", <<n, 5>>)]
Slices == {<<1, 3>>, <<2, 3>>, <<1, 2, 3>>, <<1, 2, 3, 6>>}
Rests == {<<>>, <<GoTo(9)>>, <<CallOf("helper", Ref("main", <<3>>)), Handled(12)>>, <<Of("concat", Ref("main", <<9, 2>>)), Handled(12)>>,
          <<Handled(1)>>, <<CallOf("Codes", <<>>), Index(12, 0), Handled(13), GoTo(12)>>}
Helper(up) ==
  <<ParamNo(1), IF up THEN Const(<<"/", "b">>) ELSE CallOf("Outside", <<>>), Of("concat", Ref("helper", <<1, 2>>)),
    Of("ret", Ref("helper", <<3>>))>>
Pick == <<En, PathB, GoTo(5), Of("ret", Ref("pick", <<1>>)), Of("ret", Ref("pick", <<2>>))>>
InitBody == <<PathB, [op |-> "store", var |-> "prefix", args |-> Ref("init", <<1>>)]>>
Patterns ==
  {[init |-> InitBody,
    main |-> <<En, PathA, De, Get1, Fun("handler"), Const(<<"/", "x", "%s", "%s", "%%">>),
               Of("slice", Ref("main", s)), M("append", <<7, 7>>), m, M("concat", <<4, 9>>), Handled(h)>> \o r,
    helper |-> Helper(u), pick |-> Pick] :
     s \in Slices, m \in Makers, h \in {9, 10}, r \in Rests, u \in BOOLEAN}

\* Strings that analysis does not see among those it does: the empty result of
\* an error path, by itself and in a tuple.
Handler3(n) == [op |-> "handle", args |-> Ref("main", <<n, 3>>)]
Results1(b) == <<b, PathB, GoTo(5), Of("ret", Ref("pick", <<1>>)), Of("ret", Ref("pick", <<2>>))>>
Results2(b) == <<b, PathB, GoTo(5), Of("ret", Ref("pick", <<1, 2>>)), Of("ret", Ref("pick", <<2, 1>>))>>
Extract(n, m) == [op |-> "extract", args |-> Ref("main", <<n>>), num |-> m]
ErrorPaths ==
  {[main |-> <<En, PathA, Fun("handler"), CallOf("pick", <<>>), M("concat", <<4, 2>>), Handler3(h), Handler3(1)>>,
    pick |-> Results1(b)] : b \in {En, Empty}, h \in {4, 5}}
  \cup
  {[main |-> <<En, PathA, Fun("handler"), CallOf("pick", <<>>), Extract(4, 1), Extract(4, 2), M("concat", <<n, 2>>), Handler3(h)>>,
    pick |-> Results2(b)] : b \in {En, Empty}, n \in {5, 6}, h \in {5, 6, 7}}

\* A variable that main sets again, one that only main sets, and a list.
Stored1(x, n) == [op |-> "store", var |-> x, args |-> Ref("main", <<n>>)]
Settings ==
  {[init |-> InitBody \o <<Of("slice", Ref("init", <<1>>)), [op |-> "store", var |-> "list", args |-> Ref("init", <<3>>)]>>,
    main |-> <<En, PathA, Fun("handler"), Of("slice", Ref("main", <<2, 1>>)), GoTo(7), Stored1("prefix", 1), Stored1("own", 1),
               GoTo(10), Stored1("list", 4), Load("prefix"), Load("own"), Load("list"), Index(12, 0),
               M("concat", <<n, 2>>), Handler3(14)>>] : n \in {10, 11, 13}}

\* A variable that a closure captures, set by the function it is of, by the
\* closure or not at all, and read by both.
SetTo(f, n) == [op |-> "set", cell |-> <<"main", 4>>, args |-> Ref(f, <<n>>)]
Captured == [op |-> "get", cell |-> <<"main", 4>>, args |-> <<>>]
Cells ==
  {[main |-> <<En, PathA, Fun("handler"), [op |-> "cell", args |-> <<>>]>> \o s
               \o <<Captured, M("concat", <<7, 2>>), Handler3(8), CallOf("fill", Ref("main", <<1>>))>>,
    fill |-> <<ParamNo(1), Captured, Of("concat", Ref("fill", <<1, 2>>)), SetTo("fill", 3)>>] :
     s \in {<<SetTo("main", 1), SetTo("main", 2)>>, <<GoTo(7), SetTo("main", 1)>>,
            <<SetTo("main", 1), CallOf("fill", Ref("main", <<2>>))>>, <<CallOf("fill", Ref("main", <<2>>)), GoTo(6)>>}}

\* A pattern that grows in a loop, and handlers that are wrapped or made.
Loops ==
  {[main |-> <<En, PathA, Fun("handler"), [op |-> "wrap", fn |-> "log", args |-> Ref("main", <<3>>)], CallOf("make", <<>>),
               Of("phi", Ref("main", <<1, 7>>)), Of("concat", Ref("main", <<6, 2>>)),
               [op |-> "handle", args |-> Ref("main", <<n, h>>)], GoTo(6)>>,
    make |-> <<Fun("made"), Of("ret", Ref("make", <<1>>))>>] : n \in {6, 7}, h \in {3, 4, 5}}

\* path.Join of elements that need no cleaning, which is where it is not
\* just "/" between them.
Joins ==
  {[main |-> <<PathA, Const(<<"b">>), Fun("handler"), Of("slice", Ref("main", s)), M("join", <<4>>),
               [op |-> "handle", args |-> Ref("main", <<5, 3>>)]>>] : s \in {<<1, 2>>, <<1, 2, 2>>, <<1>>}}

-----------------------------------------------------------------------------
Lit(f) == [op |-> "closure", fn |-> f, args |-> <<>>]
Object(t) == [op |-> "object", type |-> t, args |-> <<>>]
Start(f, args) == [op |-> "go", fn |-> f, args |-> args]
Row(type, args) == [op |-> "row", type |-> type, args |-> args]
Nothing == <<>>

\* Handlers that are closures, method values or objects.
HandlerPrograms ==
  {[main |-> <<En, o, Of("convert", Ref("main", <<2>>)), CallOf("make", <<>>), [op |-> "handle", args |-> Ref("main", <<1, n>>)]>>,
    make |-> <<Lit(c), Of("ret", Ref("make", <<1>>))>>,
    lit |-> <<ParamNo(1), ParamNo(2), CallOf("serve", Ref("lit", a))>>, serve |-> Nothing, serveBound |-> <<CallOf("serve", <<>>)>>] :
     o \in {Fun("serve"), Lit("lit"), Object("Items")}, n \in {3, 4}, c \in {"lit", "serveBound"}, a \in {<<1, 2>>, <<1>>}}

\* Workers and their jobs.  The table of jobs is in a variable; a worker is
\* started by main or by a literal in it, or by a function of another
\* package, and runs a job itself or through a function that it calls or
\* starts.
Job(type, f) == [op |-> "callfield", type |-> type, args |-> Ref(f, <<2>>)]
Table1(type, first, second, start) ==
  <<first, IF type = "Task" THEN Const(<<"t">>) ELSE Load("prefix"), CallOf("name", <<>>),
    Row(type, Ref("main", IF type = "Task" THEN <<1, 2, 3>> ELSE <<1, 3>>)),
    second, Const(<<"b">>), Row(type, Ref("main", IF type = "Task" THEN <<5, 6, 6>> ELSE <<5, 2>>)),
    Of("slice", Ref("main", <<4, 7>>)), [op |-> "store", var |-> "jobs", args |-> Ref("main", <<8>>)], start, CallOf("work", <<>>)>>
WorkersOf(type) ==
  {[init |-> InitBody,
    main |-> Table1(type, first, second, start),
    name |-> <<Const(<<"a">>), Of("concat", Ref("name", <<1, 1>>)), Of("ret", Ref("name", <<2>>))>>,
    work |-> <<Load("jobs"), [op |-> "index", args |-> Ref("work", <<1>>), at |-> 0], through>>,
    tick |-> <<Load("jobs"), [op |-> "index", args |-> Ref("tick", <<1>>), at |-> 0], Job(type, "tick")>>,
    lit |-> <<CallOf("Outside", <<>>), CallOf("work", <<>>), CallOf("other", <<>>)>>,
    boot |-> <<Start("work", <<>>)>>, other |-> Nothing,
    purge |-> Nothing, purgeBound |-> <<CallOf("purge", <<>>)>>, reindex |-> <<Lit("job"), Of("ret", Ref("reindex", <<1>>))>>,
    job |-> <<CallOf("other", <<>>)>>] :
     first \in {Fun("purge"), Lit("purgeBound")}, second \in {Fun("other"), CallOf("reindex", <<>>)},
     start \in {Start("work", <<>>), Start("lit", <<>>), Start("Listen", <<>>), CallOf("boot", <<>>)},
     through \in {Job(type, "work"), CallOf("tick", <<>>), Start("tick", <<>>)}}
WorkerPrograms == WorkersOf("Task") \cup WorkersOf("Job")

\* Messages and services.
Subscriptions ==
  {[main |-> <<En, De, Of("slice", Ref("main", <<1, 2>>)), Index(3, 0), m, CallOf("make", <<>>), f,
               [op |-> "subscribe", args |-> Ref("main", <<n, h>>)],
               Object("Items"), Of("convert", Ref("main", <<9>>)),
               [op |-> "rpc", service |-> "Notes", methods |-> {"Get", "List"}, args |-> Ref("main", <<r>>)]>>,
    make |-> <<Lit("lit"), Of("ret", Ref("make", <<1>>))>>,
    helper |-> Helper(FALSE), lit |-> <<ParamNo(1), CallOf("serve", <<>>)>>, serve |-> Nothing, serveBound |-> <<CallOf("serve", <<>>)>>] :
     m \in {M("concat", <<1, 2>>), CallOf("helper", Ref("main", <<1>>))}, f \in {Fun("serve"), Lit("lit"), Lit("serveBound")},
     n \in {1, 4, 5}, h \in {6, 7}, r \in {9, 10}}

\* Commands that are made in place or by a function, one under another, and
\* a root that is kept in a variable.
CommandPrograms ==
  {[main |-> <<Const(<<"app">>), [op |-> "command", args |-> Ref("main", <<1>>)], [op |-> "store", var |-> "root", args |-> Ref("main", <<2>>)],
               Load("root"), Const(<<"run", " ", "[n]">>), f, [op |-> "command", args |-> Ref("main", <<5, 6>>)], CallOf("make", <<>>),
               Of("slice", Ref("main", c)), [op |-> "addcommand", args |-> Ref("main", <<r, 9>>)],
               Of("slice", Ref("main", <<8>>)), [op |-> "addcommand", args |-> Ref("main", <<7, 11>>)],
               [op |-> "execute", args |-> Ref("main", <<4>>)]>>,
    make |-> <<Const(<<"list">>), Fun("serve"), [op |-> "command", args |-> Ref("make", IF own THEN <<1, 2>> ELSE <<1>>)], Of("ret", Ref("make", <<3>>))>>,
    lit |-> <<ParamNo(1), ParamNo(2), CallOf("serve", Ref("lit", <<1, 2>>))>>, serve |-> Nothing, serveBound |-> <<CallOf("serve", <<>>)>>] :
     f \in {Fun("serve"), Lit("lit"), Lit("serveBound")}, c \in {<<7>>, <<7, 8>>}, r \in {2, 4}, own \in BOOLEAN}

EntryPrograms == HandlerPrograms \cup WorkerPrograms \cup Subscriptions \cup CommandPrograms

MCPrograms == EntryPrograms \cup Straight \cup Callbacks \cup {p \in Groups : Returned(p)} \cup Mounts \cup Helpers \cup Variables \cup Patterns
              \cup ErrorPaths \cup Settings \cup Cells \cup Loops \cup Joins
MCConfigured == [Codes |-> <<<<"/", "en">>, <<"/", "fr">>>>]
MCOutside == {<<"z">>}
\* Jobs are written before and after the code that starts their worker.
MCOrder ==
  <<"init", "purge", "purgeBound", "main", "lit", "boot", "work", "tick", "name", "other", "reindex", "job",
    "serve", "serveBound", "cb", "helper", "make", "pick", "fill", "sub">>
MCMethodSets == [Items |-> [ServeHTTP |-> "serve", Get |-> "serve", List |-> "lit"]]
MCStringFields == [Task |-> <<"Title", "Name">>, Job |-> <<"Label">>]
=============================================================================
