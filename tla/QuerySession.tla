---------------------------- MODULE QuerySession ----------------------------
(***************************************************************************)
(* What the calls a program makes leave behind in its interpreters: the    *)
(* registry of built-ins of each (BuiltInsDef), with the list that says    *)
(* what may be loaded and the answers `at` has stored; the query each      *)
(* interpreter holds; and the value time.now_ns keeps in the thread, which *)
(* all interpreters of the thread share.  A query is a task: it compiles,  *)
(* clears the built-ins, then makes its calls one by one.  A built-in the  *)
(* program registered is the program's own code, so while it runs the      *)
(* program may call other interpreters: tasks nest.                        *)
(***************************************************************************)
EXTENDS Integers, Sequences, FiniteSets

CONSTANTS
  Interps,    \* the interpreters of one thread
  Names,      \* what a call may name
  Library,    \* the names the standard library defines
  Refused,    \* names for which its tables throw ("uuid.nope")
  Rules,      \* the functions of the modules, the query itself among them
  Custom,     \* the names the program registers built-ins under
  Now,        \* time.now_ns, the built-in that keeps its answer
  Texts,      \* query texts
  Valid,      \* the texts that parse
  NoQuery,    \* no query was set
  Calls,      \* the names a text calls, in order
  Lists,      \* the lists a program gives to whitelist and blacklist
  MaxCalls,   \* bound on the calls of the program
  MaxNest     \* bound on the tasks nested in one another

ASSUME NamesAssumption ==
  /\ Library \cup Refused \cup Rules \cup Custom \subseteq Names
  /\ Library \cap Refused = {} /\ Rules \cap (Library \cup Refused \cup Custom) = {}
  /\ Now \in Library
  /\ \A L \in Lists : L \subseteq Names
ASSUME TextsAssumption ==
  /\ Valid \subseteq Texts
  /\ NoQuery \notin Texts
  /\ Calls \in [Texts -> Seq(Names)]
ASSUME BoundsAssumption == MaxCalls \in Nat /\ MaxNest \in Nat

VARIABLES
  mode,     \* m_lookup_behavior of each registry
  list,     \* m_list
  loaded,   \* m_builtins: what `at` or register_builtin stored for a name
  strict,   \* m_strict_errors
  query,    \* m_query of each interpreter
  memo,     \* `cached` of time.cc, 0 for nullptr
  clock,    \* the last reading of the system clock
  stack,    \* the tasks in progress, the innermost first
  reply,    \* what the last call answered
  calls,    \* how many calls the program has made
  crashed   \* a null pointer was dereferenced

registry == <<mode, list, loaded, strict>>
vars == <<registry, query, memo, clock, stack, reply, calls, crashed>>

-----------------------------------------------------------------------------
(* The registry                                                            *)

Lookup(n) ==
  CASE n \in Library -> "standard"
    [] n \in Refused -> "throws"
    [] OTHER -> "null"

Allowed(i, n) ==
  /\ mode[i] = "Whitelist" => n \in list[i]
  /\ mode[i] = "Blacklist" => n \notin list[i]

(* A name the library does not know is a null pointer; the placeholder that *)
(* replaces a forbidden built-in is made from its declaration.              *)
Decide(i, n) ==
  IF Allowed(i, n) \/ Lookup(n) = "throws" THEN Lookup(n)
  ELSE IF Lookup(n) = "null" THEN "crash" ELSE "forbidden"

At(i, n) == IF loaded[i][n] = "none" THEN Decide(i, n) ELSE loaded[i][n]

Stored == {"null", "standard", "forbidden", "custom"}

Load(i, S) ==
  loaded' = [loaded EXCEPT ![i] = [n \in Names |->
               IF n \in S /\ At(i, n) \in Stored THEN At(i, n) ELSE @[n]]]

(* Only built-ins that are loaded are told to forget what they keep.       *)
Forget(i) == memo' = IF loaded[i][Now] = "standard" THEN 0 ELSE memo

-----------------------------------------------------------------------------
(* Calls of the program                                                    *)

(* asked: the text the program gave; runs: the one that is evaluated.       *)
Task(i, goal, asked, runs, step) ==
  [who |-> i, goal |-> goal, asked |-> asked, runs |-> runs, step |-> step,
   todo |-> IF runs = NoQuery THEN <<>> ELSE Calls[runs],
   since |-> clock, seen |-> {}, failed |-> FALSE, nested |-> FALSE]

Top == Head(stack)
Busy == {stack[k].who : k \in DOMAIN stack}

(* The program runs when no query does, or inside a built-in of its own.   *)
Calling(i) ==
  /\ ~crashed
  /\ calls < MaxCalls
  /\ i \notin Busy
  /\ stack # <<>> => Top.step = "callback"
  /\ calls' = calls + 1

Answer(kind, goal, asked) ==
  reply' = [kind |-> kind, goal |-> goal, asked |-> asked]

(* A query started inside a built-in disturbs the one that called it.      *)
Push(task) ==
  /\ Len(stack) < MaxNest
  /\ stack' = <<task>> \o (IF stack = <<>> THEN <<>>
                           ELSE [stack EXCEPT ![1].nested = TRUE])

Init ==
  /\ mode = [i \in Interps |-> "AllowAll"]
  /\ list = [i \in Interps |-> {}]
  /\ loaded = [i \in Interps |-> [n \in Names |-> "none"]]
  /\ strict = [i \in Interps |-> FALSE]
  /\ query = [i \in Interps |-> NoQuery]
  /\ memo = 0 /\ clock = 0
  /\ stack = <<>>
  /\ reply = [kind |-> "none", goal |-> "none", asked |-> NoQuery]
  /\ calls = 0
  /\ crashed = FALSE

(* Mutant: the answers stored under the old list stay.                     *)
RelistKeepsLoaded(i, m, L) ==
  /\ Calling(i)
  /\ mode' = [mode EXCEPT ![i] = m]
  /\ list' = [list EXCEPT ![i] = L]
  /\ Answer("ok", "list", NoQuery)
  /\ UNCHANGED <<loaded, strict, query, memo, clock, stack, crashed>>

Relist(i, m, L) ==
  /\ Calling(i)
  /\ mode' = [mode EXCEPT ![i] = m]
  /\ list' = [list EXCEPT ![i] = L]
  /\ loaded' = [loaded EXCEPT ![i] = [n \in Names |-> "none"]]
  /\ Answer("ok", "list", NoQuery)
  /\ UNCHANGED <<strict, query, memo, clock, stack, crashed>>

Whitelist(i, L) == Relist(i, "Whitelist", L)
Blacklist(i, L) == Relist(i, "Blacklist", L)
AllowAll(i) == Relist(i, "AllowAll", list[i])

RegisterBuiltIn(i, n) ==
  /\ Calling(i)
  /\ loaded' = [loaded EXCEPT ![i][n] = "custom"]
  /\ Answer("ok", "register", NoQuery)
  /\ UNCHANGED <<mode, list, strict, query, memo, clock, stack, crashed>>

StrictErrors(i) ==
  /\ Calling(i)
  /\ strict' = [strict EXCEPT ![i] = ~@]
  /\ Answer("ok", "strict", NoQuery)
  /\ UNCHANGED <<mode, list, loaded, query, memo, clock, stack, crashed>>

IsBuiltIn(i, n) ==
  /\ Calling(i)
  /\ Load(i, {n})
  /\ crashed' = (At(i, n) = "crash")
  /\ Answer(CASE At(i, n) = "null" -> "no"
              [] At(i, n) = "throws" -> "exception"
              [] OTHER -> "yes", "is_builtin", NoQuery)
  /\ UNCHANGED <<mode, list, strict, query, memo, clock, stack>>

(* A text that does not parse leaves the old query.                        *)
Keep(i, t) == IF t \in Valid THEN t ELSE query[i]

SetQuery(i, t) ==
  /\ Calling(i)
  /\ query' = [query EXCEPT ![i] = Keep(i, t)]
  /\ Answer(IF t \in Valid THEN "ok" ELSE "errors", "set_query", t)
  /\ UNCHANGED <<registry, memo, clock, stack, crashed>>

QueryNode(i) ==
  /\ Calling(i)
  /\ Forget(i)
  /\ Push(Task(i, "query", NoQuery, query[i], "compile"))
  /\ UNCHANGED <<registry, query, clock, reply, crashed>>

(* query_node(expr) does not look at what set_query returned.              *)
QueryText(i, t) ==
  /\ Calling(i)
  /\ query' = [query EXCEPT ![i] = Keep(i, t)]
  /\ Forget(i)
  /\ Push(Task(i, "query", t, Keep(i, t), "compile"))
  /\ UNCHANGED <<registry, clock, reply, crashed>>

Build(i) ==
  /\ Calling(i)
  /\ Forget(i)
  /\ Push(Task(i, "build", NoQuery, query[i], "compile"))
  /\ UNCHANGED <<registry, query, clock, reply, crashed>>

(* A bundle is built from a text by some interpreter, or read from disk.   *)
QueryBundle(i, t) ==
  /\ Calling(i)
  /\ Push(Task(i, "bundle", NoQuery, t, "plan"))
  /\ UNCHANGED <<registry, query, memo, clock, reply, crashed>>

-----------------------------------------------------------------------------
(* The innermost task                                                      *)

At0(n) == At(Top.who, n)
Running(step) == ~crashed /\ stack # <<>> /\ Top.step = step

Return(kind) ==
  /\ stack' = Tail(stack)
  /\ Answer(kind, Top.goal, Top.asked)

Crash ==
  /\ crashed' = TRUE
  /\ UNCHANGED <<registry, query, memo, clock, stack, reply, calls>>

(* The compiler asks the registry about every name it takes for a built-in. *)
Asked == {n \in Names \ Rules : \E k \in DOMAIN Top.todo : Top.todo[k] = n}

CompileCrashes ==
  /\ Running("compile")
  /\ \E n \in Asked : At0(n) = "crash"
  /\ Crash

(* Nothing catches the exception before it reaches the program.            *)
CompileThrows ==
  /\ Running("compile")
  /\ \E n \in Asked : At0(n) = "throws"
  /\ \E S \in SUBSET Asked : Load(Top.who, S)
  /\ Return("exception")
  /\ UNCHANGED <<mode, list, strict, query, memo, clock, calls, crashed>>

Compile ==
  /\ Running("compile")
  /\ \A n \in Asked : At0(n) \notin {"crash", "throws"}
  /\ Load(Top.who, Asked)
  /\ IF Top.runs = NoQuery \/ \E n \in Asked : At0(n) = "null"
     THEN Return("errors")
     ELSE IF Top.goal = "build"
     THEN Return("bundle")
     ELSE stack' = [stack EXCEPT ![1].step = "plan"] /\ UNCHANGED reply
  /\ UNCHANGED <<mode, list, strict, query, memo, clock, calls, crashed>>

(* Mutant: the built-ins are not cleared again after compilation.          *)
RunPlanUncleared ==
  /\ Running("plan")
  /\ IF Top.runs = NoQuery
     THEN Return("errors")
     ELSE stack' = [stack EXCEPT ![1].step = "run"] /\ UNCHANGED reply
  /\ UNCHANGED <<registry, query, memo, clock, calls, crashed>>

RunPlan ==
  /\ Running("plan")
  /\ IF Top.runs = NoQuery
     THEN Return("errors") /\ UNCHANGED memo
     ELSE /\ Forget(Top.who)
          /\ stack' = [stack EXCEPT ![1].step = "run"]
          /\ UNCHANGED reply
  /\ UNCHANGED <<registry, query, clock, calls, crashed>>

CallsA(what) ==
  /\ Running("run")
  /\ Top.todo # <<>>
  /\ At0(Head(Top.todo)) = what

CallCrashes == CallsA("crash") /\ Crash

(* run_call: a name that is no built-in is looked for in the bundle.       *)
CallFunction ==
  /\ CallsA("null")
  /\ Load(Top.who, {Head(Top.todo)})
  /\ IF Head(Top.todo) \in Rules
     THEN stack' = [stack EXCEPT ![1].todo = Tail(@)] /\ UNCHANGED reply
     ELSE Return("error")
  /\ UNCHANGED <<mode, list, strict, query, memo, clock, calls, crashed>>

CallThrows ==
  /\ CallsA("throws")
  /\ Return("error")
  /\ UNCHANGED <<registry, query, memo, clock, calls, crashed>>

(* BuiltInsDef::call: a failure is an error when errors are strict, else    *)
(* undefined; a call it refuses (its arity, a deprecated name, an argument  *)
(* that is an error) always is one.  A negation goes on after an error.    *)
Took(outcome) ==
  /\ stack' = [stack EXCEPT ![1] =
       [Top EXCEPT !.step = "run", !.todo = Tail(Top.todo),
                   !.failed = \/ Top.failed \/ outcome = "refused"
                              \/ outcome = "failed" /\ strict[Top.who]]]
  /\ UNCHANGED reply

CallLibrary ==
  /\ CallsA("standard")
  /\ Head(Top.todo) # Now
  /\ Load(Top.who, {Head(Top.todo)})
  /\ \E outcome \in {"ok", "failed", "refused"} : Took(outcome)
  /\ UNCHANGED <<mode, list, strict, query, memo, clock, calls, crashed>>

(* Mutant: what was kept is not looked at.                                 *)
ReadingAgain == clock + 1

(* NowNS::call                                                             *)
Reading == IF memo = 0 THEN clock + 1 ELSE memo

CallNow ==
  /\ CallsA("standard")
  /\ Head(Top.todo) = Now
  /\ Load(Top.who, {Now})
  /\ memo' = Reading
  /\ clock' = IF memo = 0 THEN Reading ELSE clock
  /\ stack' = [stack EXCEPT ![1] =
       [Top EXCEPT !.todo = Tail(Top.todo), !.seen = Top.seen \cup {Reading}]]
  /\ UNCHANGED <<mode, list, strict, query, reply, calls, crashed>>

CallForbidden ==
  /\ CallsA("forbidden")
  /\ Load(Top.who, {Head(Top.todo)})
  /\ \E outcome \in {"failed", "refused"} : Took(outcome)
  /\ UNCHANGED <<mode, list, strict, query, memo, clock, calls, crashed>>

CallCustom ==
  /\ CallsA("custom")
  /\ stack' = [stack EXCEPT ![1].step = "callback"]
  /\ UNCHANGED <<registry, query, memo, clock, reply, calls, crashed>>

CustomReturns ==
  /\ Running("callback")
  /\ \E outcome \in {"ok", "failed"} : Took(outcome)
  /\ UNCHANGED <<registry, query, memo, clock, calls, crashed>>

CustomThrows ==
  /\ Running("callback")
  /\ Return("error")
  /\ UNCHANGED <<registry, query, memo, clock, calls, crashed>>

(* A plan may stop before its last call: a condition was not met.          *)
Finish ==
  /\ Running("run")
  /\ \E kind \in {"errors", "undefined", "results"} :
       /\ (kind = "errors") = Top.failed
       /\ kind = "results" => Top.todo = <<>>
       /\ Return(kind)
  /\ UNCHANGED <<registry, query, memo, clock, calls, crashed>>

(* The program makes no call, or there is none any more.                   *)
Idle ==
  /\ crashed \/ stack = <<>>
  /\ UNCHANGED vars

Next ==
  \/ \E i \in Interps :
       \/ \E L \in Lists : Whitelist(i, L) \/ Blacklist(i, L)
       \/ AllowAll(i)
       \/ \E n \in Custom : RegisterBuiltIn(i, n)
       \/ StrictErrors(i)
       \/ \E n \in Names : IsBuiltIn(i, n)
       \/ \E t \in Texts : SetQuery(i, t) \/ QueryText(i, t)
       \/ QueryNode(i)
       \/ Build(i)
       \/ \E t \in Valid \cup {NoQuery} : QueryBundle(i, t)
  \/ CompileCrashes \/ CompileThrows \/ Compile
  \/ RunPlan
  \/ CallCrashes \/ CallFunction \/ CallThrows
  \/ CallLibrary \/ CallNow \/ CallForbidden
  \/ CallCustom \/ CustomReturns \/ CustomThrows
  \/ Finish
  \/ Idle

Spec == Init /\ [][Next]_vars

-----------------------------------------------------------------------------
Kinds == {"none", "ok", "yes", "no", "bundle", "results", "undefined",
          "errors", "error", "exception"}
Goals == {"query", "build", "bundle"}
Tasks ==
  [who: Interps, goal: Goals, asked: Texts \cup {NoQuery},
   runs: Texts \cup {NoQuery}, step: {"compile", "plan", "run", "callback"},
   todo: Seq(Names), since: Nat, seen: SUBSET Nat,
   failed: BOOLEAN, nested: BOOLEAN]

(* The state has its types; the value kept is one the clock has shown.     *)
TypeOK ==
  /\ mode \in [Interps -> {"AllowAll", "Whitelist", "Blacklist"}]
  /\ list \in [Interps -> SUBSET Names]
  /\ loaded \in [Interps -> [Names -> Stored \cup {"none"}]]
  /\ strict \in [Interps -> BOOLEAN]
  /\ query \in [Interps -> Valid \cup {NoQuery}]
  /\ clock \in Nat /\ memo \in 0..clock
  /\ stack \in Seq(Tasks)
  /\ reply \in [kind: Kinds,
               goal: Goals \cup {"none", "list", "register", "strict",
                                "is_builtin", "set_query"},
               asked: Texts \cup {NoQuery}]
  /\ calls \in 0..MaxCalls
  /\ crashed \in BOOLEAN

(* What `at` has stored for a name (builtins.cc:212) is what the list in   *)
(* force decides for it, whatever was compiled or run under earlier lists: *)
(* no built-in a list forbids can be reached through the registry, and a   *)
(* built-in is not withheld after the list has been lifted.                *)
RegistryFollowsList ==
  \A i \in Interps, n \in Names :
    loaded[i][n] \notin {"none", "custom"} => loaded[i][n] = Decide(i, n)

(* Within a query time.now_ns always answers the same (time.cc:36), though *)
(* the value is kept outside the query, in the thread, and any interpreter *)
(* may drop it; unless the query itself started another one.               *)
SameWithinQuery ==
  \A k \in DOMAIN stack :
    ~stack[k].nested => Cardinality(stack[k].seen) <= 1

(* A query that is compiled and run at once (interpreter.cc:400) never     *)
(* sees a time kept from before it began, whichever interpreters ran in    *)
(* the thread before: compilation loads what the query calls, so that      *)
(* clearing at the start of the plan (virtual_machine.cc:521) reaches it.  *)
FreshQuery ==
  \A k \in DOMAIN stack :
    stack[k].goal = "query" => \A v \in stack[k].seen : v > stack[k].since

-----------------------------------------------------------------------------
(* What documents and tests say and the code does not do                   *)

(* is_builtin answers true or false for every name (rego.hh), whatever     *)
(* list is in force and whoever asks: the program, the compiler, run_call. *)
IsBuiltInAnswers == ~crashed

(* The output of a query whose text does not parse is not ok (main.cc).    *)
InvalidQueryFails ==
  reply.goal = "query" /\ reply.asked \in Texts \ Valid
    => reply.kind \notin {"results", "undefined"}
=============================================================================
