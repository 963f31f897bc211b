------------------------- MODULE QuerySessionProofs -------------------------
(***************************************************************************)
(* For any number of interpreters, calls and nested queries: types, the    *)
(* registry follows the list in force, and what queries see of the time.   *)
(* The invariant speaks of each task in progress (Fine); only the innermost *)
(* one may not have been disturbed, and each runs on its own interpreter.  *)
(***************************************************************************)
EXTENDS QuerySession, SequenceTheorems, FiniteSetTheorems, TLAPS

(* What is known of a task t when its registry has l stored for Now, the   *)
(* value kept is m and the clock shows c.                                  *)
Fine(t, l, m, c) ==
  /\ t.step \in {"compile", "plan"} => t.seen = {}
  /\ ~t.nested /\ t.seen # {} => m # 0 /\ t.seen = {m}
  /\ t.since <= c
  /\ t.step = "callback" => t.todo # <<>>
  /\ t.goal = "query" /\ t.step # "compile"
       => \A k \in DOMAIN t.todo : t.todo[k] = Now => l # "none"
  /\ t.goal = "query" /\ t.step \in {"run", "callback"} /\ l = "standard"
       => m = 0 \/ m > t.since
  /\ t.goal = "query" => \A v \in t.seen : v > t.since

OnePerInterp ==
  \A j, k \in DOMAIN stack : stack[j].who = stack[k].who => j = k

OthersNested == \A k \in DOMAIN stack : k # 1 => stack[k].nested

AllFine ==
  \A k \in DOMAIN stack :
    Fine(stack[k], loaded[stack[k].who][Now], memo, clock)

StackInv == OnePerInterp /\ OthersNested /\ AllFine

Inv == TypeOK /\ RegistryFollowsList /\ StackInv

-----------------------------------------------------------------------------
LEMMA AtKind ==
  ASSUME TypeOK, NEW i \in Interps, NEW n \in Names
  PROVE  /\ Decide(i, n) \in {"null", "standard", "forbidden", "throws", "crash"}
         /\ At(i, n) \in Stored \cup {"throws", "crash"}
BY DEF TypeOK, At, Decide, Lookup, Allowed, Stored

(* Loading stores only what the list decides, and only where nothing was.  *)
LEMMA LoadEffect ==
  ASSUME TypeOK, NEW i \in Interps, NEW S, Load(i, S)
  PROVE  /\ loaded' \in [Interps -> [Names -> Stored \cup {"none"}]]
         /\ \A j \in Interps : j # i => loaded'[j] = loaded[j]
         /\ \A n \in Names :
              /\ loaded[i][n] # "none" => loaded'[i][n] = loaded[i][n]
              /\ n \notin S => loaded'[i][n] = loaded[i][n]
              /\ loaded[i][n] = "none" /\ loaded'[i][n] # "none"
                   => loaded'[i][n] = Decide(i, n)
              /\ n \in S /\ At(i, n) \in Stored => loaded'[i][n] = At(i, n)
<1>1. loaded' = [loaded EXCEPT ![i] = [n \in Names |->
                   IF n \in S /\ At(i, n) \in Stored
                   THEN At(i, n) ELSE loaded[i][n]]]
  BY DEF Load, TypeOK
<1>2. loaded \in [Interps -> [Names -> Stored \cup {"none"}]]
  BY DEF TypeOK
<1>3. \A n \in Names :
        loaded'[i][n] = IF n \in S /\ At(i, n) \in Stored
                        THEN At(i, n) ELSE loaded[i][n]
  BY <1>1, <1>2
<1>4. loaded' \in [Interps -> [Names -> Stored \cup {"none"}]]
  BY <1>1, <1>2
<1>5. \A j \in Interps : j # i => loaded'[j] = loaded[j]
  BY <1>1, <1>2
<1>6. \A n \in Names : loaded[i][n] # "none" => At(i, n) = loaded[i][n]
  BY DEF At
<1>7. \A n \in Names : loaded[i][n] = "none" => At(i, n) = Decide(i, n)
  BY DEF At
<1> QED BY <1>3, <1>4, <1>5, <1>6, <1>7

LEMMA TopTask ==
  ASSUME stack \in Seq(Tasks), stack # <<>>
  PROVE  /\ 1 \in DOMAIN stack /\ Top = stack[1] /\ Top \in Tasks
         /\ Tail(stack) \in Seq(Tasks)
         /\ DOMAIN Tail(stack) = 1..(Len(stack) - 1)
         /\ \A k \in DOMAIN Tail(stack) :
              k + 1 \in DOMAIN stack /\ Tail(stack)[k] = stack[k + 1]
BY DEF Top

LEMMA TodoTail ==
  ASSUME NEW s \in Seq(Names), s # <<>>
  PROVE  /\ Head(s) \in Names /\ Head(s) = s[1] /\ 1 \in DOMAIN s
         /\ Tail(s) \in Seq(Names)
         /\ \A k \in DOMAIN Tail(s) : k + 1 \in DOMAIN s /\ Tail(s)[k] = s[k + 1]
OBVIOUS

-----------------------------------------------------------------------------
(* The stack is kept, loses its top, has its top changed, or gets a new one. *)

LEMMA WhoInInterps ==
  ASSUME stack \in Seq(Tasks), NEW k \in DOMAIN stack
  PROVE  stack[k] \in Tasks /\ stack[k].who \in Interps
<1>1. stack[k] \in Tasks
  OBVIOUS
<1> QED BY <1>1 DEF Tasks

(* A task that is not the top, or that only waits, stays as it was.        *)
LEMMA Kept ==
  ASSUME NEW t \in Tasks, NEW l, NEW m \in Nat, NEW c \in Nat, Fine(t, l, m, c),
         NEW m2 \in Nat, NEW c2 \in Nat, c <= c2,
         m2 = m \/ (t.nested /\ (m2 = 0 \/ m2 > c))
  PROVE  Fine(t, l, m2, c2)
BY DEF Fine, Tasks

LEMMA Steady ==
  ASSUME TypeOK, StackInv, UNCHANGED <<stack, memo, clock>>,
         \A j \in Busy : loaded'[j] = loaded[j]
  PROVE  StackInv'
<1>1. \A k \in DOMAIN stack : loaded'[stack[k].who] = loaded[stack[k].who]
  BY DEF Busy
<1> QED BY <1>1 DEF StackInv, OnePerInterp, OthersNested, AllFine, Fine

LEMMA Pops ==
  ASSUME TypeOK, StackInv, stack # <<>>, stack' = Tail(stack),
         UNCHANGED <<memo, clock>>,
         \A j \in Interps : j # Top.who => loaded'[j] = loaded[j]
  PROVE  StackInv'
<1>0. stack \in Seq(Tasks)
  BY DEF TypeOK
<1>1. /\ 1 \in DOMAIN stack /\ Top = stack[1]
      /\ \A k \in DOMAIN stack' :
           k \in Nat /\ k >= 1 /\ k + 1 \in DOMAIN stack /\ stack'[k] = stack[k + 1]
  BY <1>0, TopTask
<1>2. OnePerInterp /\ OthersNested /\ AllFine
  BY DEF StackInv
<1>3. OnePerInterp'
  BY <1>1, <1>2 DEF OnePerInterp
<1>4. OthersNested'
  BY <1>1, <1>2 DEF OthersNested
<1>5. AllFine'
  <2> SUFFICES ASSUME NEW k \in DOMAIN stack'
               PROVE  Fine(stack'[k], loaded'[stack'[k].who][Now], memo', clock')
    BY DEF AllFine
  <2>1. k + 1 \in DOMAIN stack /\ k + 1 # 1 /\ stack'[k] = stack[k + 1]
    BY <1>1
  <2>2. stack[k + 1].who # Top.who /\ stack[k + 1].who \in Interps
    <3>1. stack[k + 1].who # Top.who
      BY <1>1, <1>2, <2>1 DEF OnePerInterp
    <3> QED BY <1>0, <2>1, <3>1, WhoInInterps
  <2>3. loaded'[stack[k + 1].who] = loaded[stack[k + 1].who]
    BY <2>2
  <2> QED BY <1>2, <2>1, <2>3 DEF AllFine
<1> QED BY <1>3, <1>4, <1>5 DEF StackInv

LEMMA Changes ==
  ASSUME TypeOK, StackInv, stack # <<>>,
         NEW t \in Tasks, t.who = Top.who, stack' = [stack EXCEPT ![1] = t],
         memo' \in Nat, clock' \in Nat, clock <= clock',
         memo' = memo \/ memo' = 0 \/ memo' > clock,
         \A j \in Interps : j # Top.who => loaded'[j] = loaded[j],
         Fine(t, loaded'[t.who][Now], memo', clock')
  PROVE  StackInv' /\ stack' \in Seq(Tasks)
<1>0. stack \in Seq(Tasks) /\ memo \in Nat /\ clock \in Nat
  BY DEF TypeOK
<1>1. 1 \in DOMAIN stack /\ Top = stack[1]
  BY <1>0, TopTask
<1>2. OnePerInterp /\ OthersNested /\ AllFine
  BY DEF StackInv
<1>3. /\ stack' \in Seq(Tasks) /\ DOMAIN stack' = DOMAIN stack
      /\ stack'[1] = t
      /\ \A k \in DOMAIN stack : k # 1 => stack'[k] = stack[k]
  BY <1>0, <1>1
<1>4. OnePerInterp'
  BY <1>1, <1>2, <1>3 DEF OnePerInterp
<1>5. OthersNested'
  BY <1>2, <1>3 DEF OthersNested
<1>6. AllFine'
  <2> SUFFICES ASSUME NEW k \in DOMAIN stack
               PROVE  Fine(stack'[k], loaded'[stack'[k].who][Now], memo', clock')
    BY <1>3 DEF AllFine
  <2>1. CASE k = 1
    BY <2>1, <1>3
  <2>2. CASE k # 1
    <3>1. stack[k] \in Tasks /\ stack[k].nested
      BY <1>0, <1>2, <2>2 DEF OthersNested
    <3>2. stack[k].who # Top.who /\ stack[k].who \in Interps
      <4>1. stack[k].who # Top.who
        BY <1>1, <1>2, <2>2 DEF OnePerInterp
      <4> QED BY <1>0, <4>1, WhoInInterps
    <3>3. Fine(stack[k], loaded[stack[k].who][Now], memo, clock)
      BY <1>2 DEF AllFine
    <3>4. Fine(stack[k], loaded[stack[k].who][Now], memo', clock')
      BY <1>0, <3>1, <3>3, Kept
    <3> QED BY <1>3, <2>2, <3>2, <3>4
  <2> QED BY <2>1, <2>2
<1> QED BY <1>3, <1>4, <1>5, <1>6 DEF StackInv

LEMMA Pushes ==
  ASSUME TypeOK, StackInv, NEW t \in Tasks, t.who \notin Busy, Push(t),
         ~t.nested, memo' \in Nat, UNCHANGED <<loaded, clock>>,
         memo' = memo \/ memo' = 0,
         Fine(t, loaded[t.who][Now], memo', clock)
  PROVE  StackInv' /\ stack' \in Seq(Tasks)
<1> DEFINE rest == IF stack = <<>> THEN <<>> ELSE [stack EXCEPT ![1].nested = TRUE]
<1>0. stack \in Seq(Tasks) /\ memo \in Nat /\ clock \in Nat
  BY DEF TypeOK
<1>1. OnePerInterp /\ OthersNested /\ AllFine
  BY DEF StackInv
<1>2. /\ rest \in Seq(Tasks) /\ DOMAIN rest = DOMAIN stack
      /\ \A k \in DOMAIN stack : rest[k] = [stack[k] EXCEPT !.nested = TRUE]
  <2>1. CASE stack = <<>>
    BY <2>1
  <2>2. CASE stack # <<>>
    <3>1. 1 \in DOMAIN stack /\ stack[1] \in Tasks
      BY <1>0, <2>2, TopTask
    <3>2. rest = [stack EXCEPT ![1] = [stack[1] EXCEPT !.nested = TRUE]]
      BY <2>2
    <3>3. [stack[1] EXCEPT !.nested = TRUE] \in Tasks
      BY <3>1 DEF Tasks
    <3>4. rest \in Seq(Tasks) /\ DOMAIN rest = DOMAIN stack
      BY <1>0, <3>1, <3>2, <3>3
    <3>5. \A k \in DOMAIN stack : k # 1 => rest[k] = stack[k]
      BY <1>0, <3>2
    <3>6. rest[1] = [stack[1] EXCEPT !.nested = TRUE]
      BY <1>0, <3>1, <3>2
    <3>7. \A k \in DOMAIN stack : k # 1 => stack[k] = [stack[k] EXCEPT !.nested = TRUE]
      <4> SUFFICES ASSUME NEW k \in DOMAIN stack, k # 1
                   PROVE  stack[k] = [stack[k] EXCEPT !.nested = TRUE]
        OBVIOUS
      <4>1. stack[k] \in Tasks /\ stack[k].nested
        BY <1>0, <1>1, WhoInInterps DEF OthersNested
      <4>2. stack[k].nested = TRUE
        BY <4>1 DEF Tasks
      <4> QED BY <4>1, <4>2 DEF Tasks
    <3> QED BY <3>4, <3>5, <3>6, <3>7
  <2> QED BY <2>1, <2>2
<1>3. stack' = <<t>> \o rest
  BY DEF Push
<1> HIDE DEF rest
<1>4. /\ stack' \in Seq(Tasks) /\ Len(stack') = Len(rest) + 1
      /\ stack'[1] = t
      /\ \A k \in DOMAIN stack' : k # 1 => k - 1 \in DOMAIN rest /\ stack'[k] = rest[k - 1]
  BY <1>2, <1>3
<1>5. \A k \in DOMAIN stack' : k # 1 =>
        /\ k - 1 \in DOMAIN stack
        /\ stack'[k] = [stack[k - 1] EXCEPT !.nested = TRUE]
        /\ stack'[k].who = stack[k - 1].who
        /\ stack'[k].nested
        /\ stack'[k] \in Tasks
  <2> SUFFICES ASSUME NEW k \in DOMAIN stack', k # 1
               PROVE  /\ k - 1 \in DOMAIN stack
                      /\ stack'[k] = [stack[k - 1] EXCEPT !.nested = TRUE]
                      /\ stack'[k].who = stack[k - 1].who
                      /\ stack'[k].nested
                      /\ stack'[k] \in Tasks
    OBVIOUS
  <2>1. k - 1 \in DOMAIN stack /\ stack'[k] = [stack[k - 1] EXCEPT !.nested = TRUE]
    BY <1>2, <1>4
  <2>2. stack[k - 1] \in Tasks
    BY <1>0, <2>1, WhoInInterps
  <2> QED BY <1>4, <2>1, <2>2 DEF Tasks
<1>6. OnePerInterp'
  <2> SUFFICES ASSUME NEW j \in DOMAIN stack', NEW k \in DOMAIN stack',
                      stack'[j].who = stack'[k].who
               PROVE  j = k
    BY DEF OnePerInterp
  <2>0. j \in Nat /\ k \in Nat
    BY <1>4
  <2>1. \A n \in DOMAIN stack' : n # 1 => stack'[n].who # t.who
    BY <1>5 DEF Busy
  <2>2. CASE j # 1 /\ k # 1
    <3>1. stack[j - 1].who = stack[k - 1].who
      BY <1>5, <2>2
    <3>2. j - 1 = k - 1
      BY <1>1, <1>5, <2>2, <3>1 DEF OnePerInterp
    <3> QED BY <2>0, <3>2
  <2>3. CASE j = 1 \/ k = 1
    BY <1>4, <2>1, <2>3
  <2> QED BY <2>2, <2>3
<1>7. OthersNested'
  BY <1>5 DEF OthersNested
<1>8. AllFine'
  <2> SUFFICES ASSUME NEW k \in DOMAIN stack'
               PROVE  Fine(stack'[k], loaded'[stack'[k].who][Now], memo', clock')
    BY DEF AllFine
  <2>1. CASE k = 1
    BY <1>4, <2>1
  <2>2. CASE k # 1
    <3> DEFINE u == stack[k - 1]
    <3>0. k - 1 \in DOMAIN stack
      BY <1>5, <2>2
    <3>1. u \in Tasks /\ stack'[k] \in Tasks /\ stack'[k].nested
          /\ stack'[k] = [u EXCEPT !.nested = TRUE]
      BY <1>0, <1>5, <2>2, <3>0, WhoInInterps
    <3>2. Fine(u, loaded[u.who][Now], memo, clock)
      BY <1>1, <3>0 DEF AllFine
    <3>3. /\ stack'[k].who = u.who /\ stack'[k].step = u.step
          /\ stack'[k].seen = u.seen /\ stack'[k].since = u.since
          /\ stack'[k].goal = u.goal /\ stack'[k].todo = u.todo
      BY <3>1 DEF Tasks
    <3>4. Fine(stack'[k], loaded[u.who][Now], memo, clock)
      BY <3>1, <3>2, <3>3 DEF Fine
    <3>5. Fine(stack'[k], loaded[u.who][Now], memo', clock)
      <4>1. memo' = memo \/ (stack'[k].nested /\ (memo' = 0 \/ memo' > clock))
        BY <3>1
      <4>2. clock <= clock
        BY <1>0
      <4> HIDE DEF u
      <4> QED BY <1>0, <3>1, <3>4, <4>1, <4>2, Kept
    <3> QED BY <3>3, <3>5
  <2> QED BY <2>1, <2>2
<1> QED BY <1>4, <1>6, <1>7, <1>8 DEF StackInv

-----------------------------------------------------------------------------
(* What the actions have in common.                                        *)

LEMMA LoadFollows ==
  ASSUME TypeOK, RegistryFollowsList, NEW i \in Interps, NEW S, Load(i, S),
         UNCHANGED <<mode, list>>
  PROVE  RegistryFollowsList'
<1>1. \A j \in Interps, n \in Names : Decide(j, n)' = Decide(j, n)
  BY DEF Decide, Allowed, Lookup
<1>2. ASSUME NEW j \in Interps, NEW n \in Names,
             loaded'[j][n] \notin {"none", "custom"}
      PROVE  loaded'[j][n] = Decide(j, n)
  <2>1. CASE j # i
    BY <1>2, <2>1, LoadEffect DEF RegistryFollowsList
  <2>2. CASE j = i /\ loaded[i][n] = "none"
    BY <1>2, <2>2, LoadEffect
  <2>3. CASE j = i /\ loaded[i][n] # "none"
    BY <1>2, <2>3, LoadEffect DEF RegistryFollowsList
  <2> QED BY <2>1, <2>2, <2>3
<1> QED BY <1>1, <1>2 DEF RegistryFollowsList

LEMMA ListKept ==
  ASSUME RegistryFollowsList, UNCHANGED <<mode, list, loaded>>
  PROVE  RegistryFollowsList'
BY DEF RegistryFollowsList, Decide, Allowed, Lookup

LEMMA NewTask ==
  ASSUME TypeOK, NEW i \in Interps, NEW goal \in Goals,
         NEW asked \in Texts \cup {NoQuery}, NEW runs \in Texts \cup {NoQuery},
         NEW step \in {"compile", "plan"}, step = "plan" => goal # "query"
  PROVE  LET t == Task(i, goal, asked, runs, step) IN
         /\ t \in Tasks /\ t.who = i /\ ~t.nested
         /\ \A l, m : Fine(t, l, m, clock)
<1>1. (IF runs = NoQuery THEN <<>> ELSE Calls[runs]) \in Seq(Names)
  BY TextsAssumption
<1> DEFINE t == Task(i, goal, asked, runs, step)
<1>2. t \in Tasks
  BY <1>1 DEF Task, Tasks, TypeOK
<1>3. /\ t.who = i /\ t.nested = FALSE /\ t.seen = {} /\ t.since = clock
      /\ t.step = step /\ t.goal = goal
  BY DEF Task
<1>4. clock <= clock
  BY DEF TypeOK
<1> HIDE DEF t
<1>5. \A l, m : Fine(t, l, m, clock)
  BY <1>3, <1>4 DEF Fine
<1> QED BY <1>2, <1>3, <1>5 DEF t

LEMMA Returned ==
  ASSUME TypeOK, stack # <<>>, NEW kind \in Kinds, Return(kind)
  PROVE  /\ stack' = Tail(stack) /\ stack' \in Seq(Tasks)
         /\ reply' \in [kind: Kinds,
                       goal: Goals \cup {"none", "list", "register", "strict",
                                        "is_builtin", "set_query"},
                       asked: Texts \cup {NoQuery}]
<1>1. Top \in Tasks /\ Tail(stack) \in Seq(Tasks)
  BY TopTask DEF TypeOK
<1> QED BY <1>1 DEF Return, Answer, Tasks

(* A query has what it calls loaded, so a call does not change its Now.    *)
LEMMA QueryKeepsNow ==
  ASSUME TypeOK, StackInv, Running("run"), Top.todo # <<>>,
         Load(Top.who, {Head(Top.todo)}), Top.goal = "query"
  PROVE  loaded'[Top.who][Now] = loaded[Top.who][Now]
<1>1. stack # <<>> /\ stack \in Seq(Tasks) /\ Top.step = "run"
  BY DEF Running, TypeOK
<1>2. 1 \in DOMAIN stack /\ Top = stack[1] /\ Top \in Tasks
  BY <1>1, TopTask
<1>3. Top.todo \in Seq(Names) /\ Top.who \in Interps
  BY <1>2 DEF Tasks
<1>4. Fine(Top, loaded[Top.who][Now], memo, clock)
  BY <1>2 DEF StackInv, AllFine
<1>5. Head(Top.todo) = Now => loaded[Top.who][Now] # "none"
  <2>1. 1 \in DOMAIN Top.todo /\ Head(Top.todo) = Top.todo[1]
    BY <1>3, TodoTail
  <2> QED BY <1>1, <1>4, <2>1 DEF Fine
<1>6. Now \in Names
  BY NamesAssumption
<1> QED BY <1>3, <1>5, <1>6, LoadEffect

LEMMA Advances ==
  ASSUME NEW t \in Tasks, NEW u \in Tasks, NEW l, NEW k, NEW m, NEW c,
         Fine(t, l, m, c), t.step \in {"run", "callback"}, t.todo # <<>>,
         u.step = "run", u.todo = Tail(t.todo), u.goal = t.goal,
         u.seen = t.seen, u.since = t.since, u.nested = t.nested,
         t.goal = "query" => k = l
  PROVE  Fine(u, k, m, c)
<1>1. t.todo \in Seq(Names)
  BY DEF Tasks
<1>2. \A n \in DOMAIN u.todo : n + 1 \in DOMAIN t.todo /\ u.todo[n] = t.todo[n + 1]
  BY <1>1, TodoTail
<1> QED BY <1>2 DEF Fine

(* The top after the code has been asked of the registry.                  *)
LEMMA TopFine ==
  ASSUME TypeOK, StackInv, stack # <<>>
  PROVE  /\ stack \in Seq(Tasks) /\ 1 \in DOMAIN stack /\ Top = stack[1]
         /\ Top \in Tasks /\ Top.who \in Interps /\ Top.todo \in Seq(Names)
         /\ Fine(Top, loaded[Top.who][Now], memo, clock)
<1>1. stack \in Seq(Tasks)
  BY DEF TypeOK
<1>2. 1 \in DOMAIN stack /\ Top = stack[1] /\ Top \in Tasks
  BY <1>1, TopTask
<1> QED BY <1>1, <1>2 DEF StackInv, AllFine, Tasks

-----------------------------------------------------------------------------
(* Every action keeps the invariant: first the calls of the program.       *)

LEMMA InitInv == Init => Inv
<1> SUFFICES ASSUME Init PROVE Inv
  OBVIOUS
<1>1. TypeOK
  <2>1. stack \in Seq(Tasks) /\ calls \in 0..MaxCalls /\ memo \in 0..clock
    BY BoundsAssumption DEF Init
  <2>2. reply \in [kind: {"none"}, goal: {"none"}, asked: {NoQuery}]
    BY DEF Init
  <2> QED BY <2>1, <2>2 DEF Init, TypeOK, Stored, Kinds
<1>2. RegistryFollowsList
  BY DEF Init, RegistryFollowsList
<1>3. StackInv
  BY DEF Init, StackInv, OnePerInterp, OthersNested, AllFine
<1> QED BY <1>1, <1>2, <1>3 DEF Inv

LEMMA RelistInv ==
  ASSUME Inv, NEW i \in Interps, NEW m \in {"AllowAll", "Whitelist", "Blacklist"},
         NEW L \in SUBSET Names, Relist(i, m, L)
  PROVE  Inv'
<1>1. i \notin Busy /\ calls' \in 0..MaxCalls
  BY BoundsAssumption DEF Inv, TypeOK, Relist, Calling
<1>2. TypeOK'
  BY <1>1 DEF Inv, TypeOK, Relist, Answer, Stored, Kinds
<1>3. \A j \in Interps \ {i} :
        mode'[j] = mode[j] /\ list'[j] = list[j] /\ loaded'[j] = loaded[j]
  BY DEF Inv, TypeOK, Relist
<1>4. \A n \in Names : loaded'[i][n] = "none"
  BY DEF Inv, TypeOK, Relist
<1>5. RegistryFollowsList'
  BY <1>3, <1>4 DEF Inv, RegistryFollowsList, Decide, Allowed, Lookup
<1>6. Busy \subseteq Interps
  BY WhoInInterps DEF Inv, TypeOK, Busy
<1>7. \A j \in Busy : loaded'[j] = loaded[j]
  BY <1>1, <1>3, <1>6
<1>8. StackInv'
  BY <1>7, Steady DEF Inv, Relist
<1> QED BY <1>2, <1>5, <1>8 DEF Inv

LEMMA RegisterInv ==
  ASSUME Inv, NEW i \in Interps, NEW n \in Custom, RegisterBuiltIn(i, n)
  PROVE  Inv'
<1>0. n \in Names
  BY NamesAssumption
<1>1. i \notin Busy /\ calls' \in 0..MaxCalls
  BY BoundsAssumption DEF Inv, TypeOK, RegisterBuiltIn, Calling
<1>2. loaded' = [loaded EXCEPT ![i] = [loaded[i] EXCEPT ![n] = "custom"]]
  BY DEF RegisterBuiltIn
<1>3. loaded' \in [Interps -> [Names -> Stored \cup {"none"}]]
  <2>1. [loaded[i] EXCEPT ![n] = "custom"] \in [Names -> Stored \cup {"none"}]
    BY DEF Inv, TypeOK, Stored
  <2> QED BY <1>2, <2>1 DEF Inv, TypeOK
<1>4. TypeOK'
  BY <1>1, <1>3 DEF Inv, TypeOK, RegisterBuiltIn, Answer, Kinds
<1>5. /\ \A j \in Interps \ {i} : loaded'[j] = loaded[j]
      /\ \A o \in Names : loaded'[i][o] \in {loaded[i][o], "custom"}
  BY <1>0, <1>2 DEF Inv, TypeOK
<1>6. RegistryFollowsList'
  BY <1>5 DEF Inv, RegistryFollowsList, Decide, Allowed, Lookup, RegisterBuiltIn
<1>7. Busy \subseteq Interps
  BY WhoInInterps DEF Inv, TypeOK, Busy
<1>8. StackInv'
  BY <1>1, <1>5, <1>7, Steady DEF Inv, RegisterBuiltIn
<1> QED BY <1>4, <1>6, <1>8 DEF Inv

LEMMA StrictErrorsInv ==
  ASSUME Inv, NEW i \in Interps, StrictErrors(i)
  PROVE  Inv'
<1>1. calls' \in 0..MaxCalls
  BY BoundsAssumption DEF Inv, TypeOK, StrictErrors, Calling
<1>2. strict' \in [Interps -> BOOLEAN]
  BY DEF Inv, TypeOK, StrictErrors
<1>3. TypeOK'
  BY <1>1, <1>2 DEF Inv, TypeOK, StrictErrors, Answer, Kinds
<1>4. RegistryFollowsList'
  BY ListKept DEF Inv, StrictErrors
<1>5. StackInv'
  BY Steady DEF Inv, StrictErrors
<1> QED BY <1>3, <1>4, <1>5 DEF Inv

LEMMA IsBuiltInInv ==
  ASSUME Inv, NEW i \in Interps, NEW n \in Names, IsBuiltIn(i, n)
  PROVE  Inv'
<1>1. i \notin Busy /\ calls' \in 0..MaxCalls
  BY BoundsAssumption DEF Inv, TypeOK, IsBuiltIn, Calling
<1>2. /\ loaded' \in [Interps -> [Names -> Stored \cup {"none"}]]
      /\ \A j \in Interps : j # i => loaded'[j] = loaded[j]
  BY LoadEffect DEF Inv, IsBuiltIn
<1>3. reply' \in [kind: {"no", "exception", "yes"}, goal: {"is_builtin"},
                 asked: {NoQuery}]
  BY DEF IsBuiltIn, Answer
<1>4. TypeOK'
  BY <1>1, <1>2, <1>3 DEF Inv, TypeOK, IsBuiltIn, Kinds
<1>5. RegistryFollowsList'
  BY LoadFollows DEF Inv, IsBuiltIn
<1>6. Busy \subseteq Interps
  BY WhoInInterps DEF Inv, TypeOK, Busy
<1>7. StackInv'
  BY <1>1, <1>2, <1>6, Steady DEF Inv, IsBuiltIn
<1> QED BY <1>4, <1>5, <1>7 DEF Inv

LEMMA SetQueryInv ==
  ASSUME Inv, NEW i \in Interps, NEW t \in Texts, SetQuery(i, t)
  PROVE  Inv'
<1>1. calls' \in 0..MaxCalls
  BY BoundsAssumption DEF Inv, TypeOK, SetQuery, Calling
<1>2. query' \in [Interps -> Valid \cup {NoQuery}]
  BY DEF Inv, TypeOK, SetQuery, Keep
<1>3. TypeOK'
  BY <1>1, <1>2 DEF Inv, TypeOK, SetQuery, Answer, Kinds, registry
<1>4. RegistryFollowsList'
  BY ListKept DEF Inv, SetQuery, registry
<1>5. StackInv'
  BY Steady DEF Inv, SetQuery, registry
<1> QED BY <1>3, <1>4, <1>5 DEF Inv

(* The four calls that start a task.                                       *)
LEMMA StartInv ==
  ASSUME Inv, NEW i \in Interps, Calling(i), NEW goal \in Goals,
         NEW asked \in Texts \cup {NoQuery}, NEW runs \in Texts \cup {NoQuery},
         NEW step \in {"compile", "plan"}, step = "plan" => goal # "query",
         Push(Task(i, goal, asked, runs, step)),
         query' \in [Interps -> Valid \cup {NoQuery}],
         Forget(i) \/ UNCHANGED memo,
         UNCHANGED <<registry, clock, reply, crashed>>
  PROVE  Inv'
<1> DEFINE t == Task(i, goal, asked, runs, step)
<1>1. i \notin Busy /\ calls' \in 0..MaxCalls
  BY BoundsAssumption DEF Inv, TypeOK, Calling
<1>2. memo' \in 0..clock /\ (memo' = memo \/ memo' = 0)
  BY DEF Inv, TypeOK, Forget
<1>3. /\ t \in Tasks /\ t.who = i /\ ~t.nested
      /\ Fine(t, loaded[t.who][Now], memo', clock)
  BY NewTask DEF Inv
<1>4. Push(t)
  OBVIOUS
<1>5. memo' \in Nat /\ UNCHANGED <<loaded, clock>>
  BY <1>2 DEF Inv, TypeOK, registry
<1> HIDE DEF t
<1>6. StackInv' /\ stack' \in Seq(Tasks)
  BY <1>1, <1>2, <1>3, <1>4, <1>5, Pushes DEF Inv
<1>7. TypeOK'
  BY <1>1, <1>2, <1>6 DEF Inv, TypeOK, registry
<1>8. RegistryFollowsList'
  BY ListKept DEF Inv, registry
<1> QED BY <1>6, <1>7, <1>8 DEF Inv

LEMMA QueryInv ==
  ASSUME Inv, NEW i \in Interps,
         \/ QueryNode(i)
         \/ Build(i)
         \/ \E t \in Texts : QueryText(i, t)
         \/ \E t \in Valid \cup {NoQuery} : QueryBundle(i, t)
  PROVE  Inv'
<1>0. Valid \subseteq Texts /\ query \in [Interps -> Valid \cup {NoQuery}]
      /\ {"query", "build", "bundle"} = Goals
  BY TextsAssumption DEF Inv, TypeOK, Goals
<1>1. CASE QueryNode(i)
  BY <1>0, <1>1, StartInv DEF QueryNode
<1>2. CASE Build(i)
  BY <1>0, <1>2, StartInv DEF Build
<1>3. ASSUME NEW t \in Texts, QueryText(i, t) PROVE Inv'
  <2>1. Keep(i, t) \in Valid \cup {NoQuery}
    BY <1>0 DEF Keep
  <2> QED BY <1>0, <1>3, <2>1, StartInv DEF QueryText
<1>4. ASSUME NEW t \in Valid \cup {NoQuery}, QueryBundle(i, t) PROVE Inv'
  BY <1>0, <1>4, StartInv DEF QueryBundle
<1> QED BY <1>1, <1>2, <1>3, <1>4

-----------------------------------------------------------------------------
(* Then the steps of a query.                                              *)

LEMMA CrashInv ==
  ASSUME Inv, Crash
  PROVE  Inv'
<1>1. TypeOK'
  BY DEF Inv, TypeOK, Crash, registry
<1>2. RegistryFollowsList'
  BY ListKept DEF Inv, Crash, registry
<1>3. StackInv'
  BY Steady DEF Inv, Crash, registry
<1> QED BY <1>1, <1>2, <1>3 DEF Inv

(* A task that returns, after names were loaded or not.                    *)
LEMMA ReturnInv ==
  ASSUME Inv, stack # <<>>, NEW kind \in Kinds, Return(kind),
         (\E S : Load(Top.who, S)) \/ UNCHANGED loaded,
         UNCHANGED <<mode, list, strict, query, memo, clock, calls, crashed>>
  PROVE  Inv'
<1>0. Top.who \in Interps
  BY TopFine DEF Inv
<1>1. /\ loaded' \in [Interps -> [Names -> Stored \cup {"none"}]]
      /\ \A j \in Interps : j # Top.who => loaded'[j] = loaded[j]
  BY <1>0, LoadEffect DEF Inv, TypeOK
<1>2. stack' = Tail(stack)
  BY Returned DEF Inv
<1>3. TypeOK'
  BY <1>1, Returned DEF Inv, TypeOK
<1>4. RegistryFollowsList'
  BY <1>0, LoadFollows, ListKept DEF Inv
<1>5. StackInv'
  BY <1>1, <1>2, Pops DEF Inv
<1> QED BY <1>3, <1>4, <1>5 DEF Inv

(* A task that goes on as t.                                               *)
LEMMA ChangeInv ==
  ASSUME Inv, stack # <<>>, NEW t \in Tasks, t.who = Top.who,
         stack' = [stack EXCEPT ![1] = t],
         (\E S : Load(Top.who, S)) \/ UNCHANGED loaded,
         clock' \in Nat, clock <= clock', memo' \in 0..clock',
         memo' = memo \/ memo' = 0 \/ memo' > clock,
         Fine(t, loaded'[Top.who][Now], memo', clock'),
         UNCHANGED <<mode, list, strict, query, reply, calls, crashed>>
  PROVE  Inv'
<1>0. Top.who \in Interps
  BY TopFine DEF Inv
<1>1. /\ loaded' \in [Interps -> [Names -> Stored \cup {"none"}]]
      /\ \A j \in Interps : j # Top.who => loaded'[j] = loaded[j]
  BY <1>0, LoadEffect DEF Inv, TypeOK
<1>2. memo' \in Nat
  OBVIOUS
<1>3. StackInv' /\ stack' \in Seq(Tasks)
  BY <1>1, <1>2, Changes DEF Inv
<1>4. TypeOK'
  BY <1>1, <1>3 DEF Inv, TypeOK
<1>5. RegistryFollowsList'
  BY <1>0, LoadFollows, ListKept DEF Inv
<1> QED BY <1>3, <1>4, <1>5 DEF Inv

LEMMA CompileInv ==
  ASSUME Inv, CompileThrows \/ Compile
  PROVE  Inv'
<1>0. stack # <<>> /\ Top.step = "compile"
  BY DEF CompileThrows, Compile, Running
<1>1. CASE CompileThrows
  BY <1>0, <1>1, ReturnInv DEF CompileThrows, Kinds
<1>2. CASE Compile /\ \E kind \in Kinds : Return(kind)
  BY <1>0, <1>2, ReturnInv DEF Compile
<1>3. CASE Compile /\ ~\E kind \in Kinds : Return(kind)
  <2> DEFINE t == [Top EXCEPT !.step = "plan"]
  <2>1. stack' = [stack EXCEPT ![1].step = "plan"] /\ UNCHANGED reply
    BY <1>3 DEF Compile, Kinds
  <2>2. /\ stack \in Seq(Tasks) /\ 1 \in DOMAIN stack /\ Top = stack[1]
        /\ Top \in Tasks /\ Top.who \in Interps /\ Top.todo \in Seq(Names)
        /\ Fine(Top, loaded[Top.who][Now], memo, clock)
    BY <1>0, TopFine DEF Inv
  <2>3. stack' = [stack EXCEPT ![1] = t]
    BY <2>1, <2>2
  <2>4. t \in Tasks /\ t.who = Top.who
    BY <2>2 DEF Tasks
  <2>5. /\ t.step = "plan" /\ t.seen = Top.seen /\ t.since = Top.since
        /\ t.todo = Top.todo /\ t.nested = Top.nested /\ t.goal = Top.goal
    BY <2>2 DEF Tasks
  <2>6. ASSUME NEW k \in DOMAIN Top.todo, Top.todo[k] = Now
        PROVE  loaded'[Top.who][Now] # "none"
    <3>1. Now \in Names /\ Now \notin Rules
      BY NamesAssumption
    <3>2. Now \in Asked
      BY <2>6, <3>1 DEF Asked
    <3>3. At(Top.who, Now) \in Stored
      BY <1>3, <2>2, <3>1, <3>2, AtKind DEF Compile, Inv, At0
    <3>4. loaded'[Top.who][Now] = At(Top.who, Now)
      BY <1>3, <2>2, <3>1, <3>2, <3>3, LoadEffect DEF Compile, Inv
    <3> QED BY <3>3, <3>4 DEF Stored
  <2>7. memo' = memo /\ clock' = clock
    BY <1>3 DEF Compile
  <2> HIDE DEF t
  <2>8. Fine(t, loaded'[Top.who][Now], memo', clock')
    BY <1>0, <2>2, <2>5, <2>6, <2>7 DEF Fine
  <2>9. clock' \in Nat /\ clock <= clock' /\ memo' \in 0..clock'
    BY <2>7 DEF Inv, TypeOK
  <2> QED BY <1>0, <1>3, <2>1, <2>3, <2>4, <2>7, <2>8, <2>9, ChangeInv DEF Compile
<1> QED BY <1>1, <1>2, <1>3

LEMMA RunPlanInv ==
  ASSUME Inv, RunPlan
  PROVE  Inv'
<1>0. stack # <<>> /\ Top.step = "plan"
  BY DEF RunPlan, Running
<1>1. CASE Top.runs = NoQuery
  BY <1>0, <1>1, ReturnInv DEF RunPlan, Kinds, registry
<1>2. CASE Top.runs # NoQuery
  <2> DEFINE t == [Top EXCEPT !.step = "run"]
  <2>1. stack' = [stack EXCEPT ![1].step = "run"] /\ UNCHANGED <<reply, loaded, clock>>
        /\ Forget(Top.who)
    BY <1>2 DEF RunPlan, registry
  <2>2. /\ stack \in Seq(Tasks) /\ 1 \in DOMAIN stack /\ Top = stack[1]
        /\ Top \in Tasks /\ Top.who \in Interps /\ Top.todo \in Seq(Names)
        /\ Fine(Top, loaded[Top.who][Now], memo, clock)
    BY <1>0, TopFine DEF Inv
  <2>3. stack' = [stack EXCEPT ![1] = t]
    BY <2>1, <2>2
  <2>4. t \in Tasks /\ t.who = Top.who
    BY <2>2 DEF Tasks
  <2>5. /\ t.step = "run" /\ t.seen = Top.seen /\ t.since = Top.since
        /\ t.todo = Top.todo /\ t.nested = Top.nested /\ t.goal = Top.goal
    BY <2>2 DEF Tasks
  <2>6. memo' = memo \/ memo' = 0
    BY <2>1 DEF Forget
  <2> HIDE DEF t
  <2>7. Fine(t, loaded'[Top.who][Now], memo', clock')
    BY <1>0, <2>1, <2>2, <2>5 DEF Fine, Forget
  <2>8. clock' \in Nat /\ clock <= clock' /\ memo' \in 0..clock'
    BY <2>1, <2>6 DEF Inv, TypeOK
  <2> QED BY <1>0, <2>1, <2>3, <2>4, <2>6, <2>7, <2>8, ChangeInv DEF RunPlan, registry
<1> QED BY <1>1, <1>2

(* A call that is made, or a built-in of the program that returns.         *)
LEMMA AdvanceInv ==
  ASSUME Inv, stack # <<>>, Top.todo # <<>>, NEW failed \in BOOLEAN,
         \/ Running("run") /\ Load(Top.who, {Head(Top.todo)})
         \/ Running("run") /\ UNCHANGED loaded
         \/ Running("callback") /\ UNCHANGED loaded,
         stack' = [stack EXCEPT ![1] =
                     [Top EXCEPT !.step = "run", !.todo = Tail(Top.todo),
                                 !.failed = failed]],
         UNCHANGED <<mode, list, strict, query, memo, clock, reply, calls, crashed>>
  PROVE  Inv'
<1> DEFINE t == [Top EXCEPT !.step = "run", !.todo = Tail(Top.todo),
                            !.failed = failed]
<1>1. /\ stack \in Seq(Tasks) /\ 1 \in DOMAIN stack /\ Top = stack[1]
      /\ Top \in Tasks /\ Top.who \in Interps /\ Top.todo \in Seq(Names)
      /\ Fine(Top, loaded[Top.who][Now], memo, clock)
  BY TopFine DEF Inv
<1>2. Tail(Top.todo) \in Seq(Names)
  BY <1>1, TodoTail
<1>3. t \in Tasks /\ t.who = Top.who
  BY <1>1, <1>2 DEF Tasks
<1>4. /\ t.step = "run" /\ t.seen = Top.seen /\ t.since = Top.since
      /\ t.todo = Tail(Top.todo) /\ t.nested = Top.nested /\ t.goal = Top.goal
  BY <1>1 DEF Tasks
<1>5. Top.step \in {"run", "callback"}
  BY DEF Running
<1>6. Top.goal = "query" => loaded'[Top.who][Now] = loaded[Top.who][Now]
  BY QueryKeepsNow DEF Inv
<1>7. stack' = [stack EXCEPT ![1] = t]
  OBVIOUS
<1> HIDE DEF t
<1>8. Fine(t, loaded'[Top.who][Now], memo, clock)
  BY <1>1, <1>3, <1>4, <1>5, <1>6, Advances
<1>9. memo' = memo /\ clock' = clock /\ clock' \in Nat /\ clock <= clock'
      /\ memo' \in 0..clock'
  BY DEF Inv, TypeOK
<1>10. (\E S : Load(Top.who, S)) \/ UNCHANGED loaded
  OBVIOUS
<1>11. Fine(t, loaded'[Top.who][Now], memo', clock')
  BY <1>8, <1>9
<1> QED BY <1>3, <1>7, <1>9, <1>10, <1>11, ChangeInv

LEMMA TookChange ==
  ASSUME Inv, stack # <<>>, NEW outcome, Took(outcome)
  PROVE  /\ UNCHANGED reply
         /\ \E failed \in BOOLEAN :
              stack' = [stack EXCEPT ![1] =
                         [Top EXCEPT !.step = "run", !.todo = Tail(Top.todo),
                                     !.failed = failed]]
<1>1. /\ stack \in Seq(Tasks) /\ 1 \in DOMAIN stack /\ Top = stack[1]
      /\ Top \in Tasks /\ Top.who \in Interps
  BY TopFine DEF Inv
<1> DEFINE failed == \/ Top.failed \/ outcome = "refused"
                     \/ outcome = "failed" /\ strict[Top.who]
<1>2. failed \in BOOLEAN
  OBVIOUS
<1>3. stack' = [stack EXCEPT ![1] =
                 [Top EXCEPT !.step = "run", !.todo = Tail(Top.todo),
                             !.failed = failed]]
  BY <1>1 DEF Took
<1>4. UNCHANGED reply
  BY DEF Took
<1> QED BY <1>2, <1>3, <1>4

LEMMA CallFunctionInv ==
  ASSUME Inv, CallFunction
  PROVE  Inv'
<1>0. stack # <<>> /\ Top.todo # <<>> /\ Running("run")
  BY DEF CallFunction, CallsA, Running
<1>1. CASE Head(Top.todo) \in Rules
  <2>1. /\ stack \in Seq(Tasks) /\ 1 \in DOMAIN stack /\ Top = stack[1]
        /\ Top \in Tasks
    BY <1>0, TopFine DEF Inv
  <2>2. stack' = [stack EXCEPT ![1] = [Top EXCEPT !.todo = Tail(Top.todo)]]
    BY <1>1, <2>1 DEF CallFunction
  <2>3. [Top EXCEPT !.todo = Tail(Top.todo)]
          = [Top EXCEPT !.step = "run", !.todo = Tail(Top.todo),
                        !.failed = Top.failed]
    BY <1>0, <2>1 DEF Tasks, Running
  <2>4. Top.failed \in BOOLEAN
    BY <2>1 DEF Tasks
  <2> QED BY <1>0, <1>1, <2>2, <2>3, <2>4, AdvanceInv DEF CallFunction
<1>2. CASE Head(Top.todo) \notin Rules
  BY <1>0, <1>2, ReturnInv DEF CallFunction, Kinds
<1> QED BY <1>1, <1>2

LEMMA CallLibraryInv ==
  ASSUME Inv, CallLibrary \/ CallForbidden
  PROVE  Inv'
<1>1. stack # <<>> /\ Top.todo # <<>> /\ Running("run")
  BY DEF CallLibrary, CallForbidden, CallsA, Running
<1>2. PICK outcome : Took(outcome)
  BY DEF CallLibrary, CallForbidden
<1> QED BY <1>1, <1>2, TookChange, AdvanceInv DEF CallLibrary, CallForbidden

LEMMA CustomReturnsInv ==
  ASSUME Inv, CustomReturns
  PROVE  Inv'
<1>1. stack # <<>> /\ Running("callback")
  BY DEF CustomReturns, Running
<1>2. Top.todo # <<>>
  BY <1>1, TopFine DEF Inv, Fine, Running
<1>3. PICK outcome : Took(outcome)
  BY DEF CustomReturns
<1> QED BY <1>1, <1>2, <1>3, TookChange, AdvanceInv DEF CustomReturns, registry

LEMMA CallCustomInv ==
  ASSUME Inv, CallCustom
  PROVE  Inv'
<1> DEFINE t == [Top EXCEPT !.step = "callback"]
<1>0. stack # <<>> /\ Top.todo # <<>> /\ Top.step = "run"
  BY DEF CallCustom, CallsA, Running
<1>1. /\ stack \in Seq(Tasks) /\ 1 \in DOMAIN stack /\ Top = stack[1]
      /\ Top \in Tasks
      /\ Fine(Top, loaded[Top.who][Now], memo, clock)
  BY <1>0, TopFine DEF Inv
<1>2. stack' = [stack EXCEPT ![1] = t]
  BY <1>1 DEF CallCustom
<1>3. t \in Tasks /\ t.who = Top.who
  BY <1>1 DEF Tasks
<1>4. /\ t.step = "callback" /\ t.seen = Top.seen /\ t.since = Top.since
      /\ t.todo = Top.todo /\ t.nested = Top.nested /\ t.goal = Top.goal
  BY <1>1 DEF Tasks
<1> HIDE DEF t
<1>5. Fine(t, loaded[Top.who][Now], memo, clock)
  BY <1>0, <1>1, <1>4 DEF Fine
<1>6. memo' = memo /\ clock' = clock /\ clock' \in Nat /\ clock <= clock'
      /\ memo' \in 0..clock' /\ loaded' = loaded
  BY DEF Inv, TypeOK, CallCustom, registry
<1>7. Fine(t, loaded'[Top.who][Now], memo', clock')
  BY <1>5, <1>6
<1> QED BY <1>0, <1>2, <1>3, <1>6, <1>7, ChangeInv DEF CallCustom, registry

(* The one action that reads the clock.                                    *)
LEMMA CallNowInv ==
  ASSUME Inv, CallNow
  PROVE  Inv'
<1> DEFINE t == [Top EXCEPT !.todo = Tail(Top.todo), !.seen = Top.seen \cup {Reading}]
<1>0. stack # <<>> /\ Top.todo # <<>> /\ Top.step = "run" /\ Running("run")
  BY DEF CallNow, CallsA, Running
<1>1. /\ stack \in Seq(Tasks) /\ 1 \in DOMAIN stack /\ Top = stack[1]
      /\ Top \in Tasks /\ Top.who \in Interps /\ Top.todo \in Seq(Names)
      /\ Fine(Top, loaded[Top.who][Now], memo, clock)
  BY <1>0, TopFine DEF Inv
<1>2. memo \in 0..clock /\ clock \in Nat /\ memo \in Nat
  BY DEF Inv, TypeOK
<1>3. Tail(Top.todo) \in Seq(Names)
  BY <1>0, <1>1, TodoTail
<1>4. stack' = [stack EXCEPT ![1] = t]
  BY <1>1 DEF CallNow
<1>5. t \in Tasks /\ t.who = Top.who
  <2>1. Reading \in Nat
    BY <1>2 DEF Reading
  <2>2. Top.seen \in SUBSET Nat
    BY <1>1 DEF Tasks
  <2>3. Top.seen \cup {Reading} \in SUBSET Nat
    BY <2>1, <2>2
  <2> QED BY <1>1, <1>3, <2>3 DEF Tasks
<1>6. /\ t.step = "run" /\ t.seen = Top.seen \cup {Reading}
      /\ t.since = Top.since /\ t.todo = Tail(Top.todo)
      /\ t.nested = Top.nested /\ t.goal = Top.goal
  BY <1>0, <1>1 DEF Tasks
<1>7. memo' = Reading /\ clock' = (IF memo = 0 THEN Reading ELSE clock)
  BY DEF CallNow
<1>8. /\ clock' \in Nat /\ clock <= clock' /\ memo' \in 0..clock' /\ memo' # 0
      /\ memo' = memo \/ (memo = 0 /\ memo' > clock)
  BY <1>2, <1>7 DEF Reading
<1> HIDE DEF t
<1>9. Top.goal = "query" => /\ loaded'[Top.who][Now] = loaded[Top.who][Now]
                            /\ loaded[Top.who][Now] = "standard"
  <2> SUFFICES ASSUME Top.goal = "query"
               PROVE  /\ loaded'[Top.who][Now] = loaded[Top.who][Now]
                      /\ loaded[Top.who][Now] = "standard"
    OBVIOUS
  <2>1. loaded'[Top.who][Now] = loaded[Top.who][Now]
    BY <1>0, QueryKeepsNow DEF Inv, CallNow
  <2>2. 1 \in DOMAIN Top.todo /\ Top.todo[1] = Now
    BY <1>0, <1>1, TodoTail DEF CallNow
  <2>3. loaded[Top.who][Now] # "none"
    BY <1>0, <1>1, <2>2 DEF Fine
  <2> QED BY <2>1, <2>3 DEF CallNow, CallsA, At0, At
<1>10. Top.since \in Nat /\ Top.since <= clock
  BY <1>1 DEF Fine, Tasks
<1>11. Top.goal = "query" => Reading > Top.since
  BY <1>0, <1>1, <1>2, <1>9, <1>10 DEF Fine, Reading
<1>12. ~Top.nested /\ Top.seen # {} => Top.seen = {memo} /\ memo # 0
  BY <1>1 DEF Fine
<1>13. \A n \in DOMAIN t.todo :
         n + 1 \in DOMAIN Top.todo /\ t.todo[n] = Top.todo[n + 1]
  BY <1>0, <1>1, <1>6, TodoTail
<1>14. ~t.nested => t.seen = {memo'}
  BY <1>6, <1>7, <1>12 DEF Reading
<1>15. t.goal = "query" => \A v \in t.seen : v > t.since
  BY <1>1, <1>6, <1>11 DEF Fine
<1>16. Fine(t, loaded'[Top.who][Now], memo', clock')
  <2>1. t.since <= clock'
    BY <1>2, <1>6, <1>8, <1>10
  <2>2. t.goal = "query" =>
          \A k \in DOMAIN t.todo : t.todo[k] = Now => loaded'[Top.who][Now] # "none"
    BY <1>6, <1>9
  <2>3. t.goal = "query" => memo' > t.since
    BY <1>6, <1>7, <1>11
  <2>4. t.step = "run"
    BY <1>6
  <2> QED BY <1>8, <1>14, <1>15, <2>1, <2>2, <2>3, <2>4 DEF Fine
<1> QED BY <1>0, <1>4, <1>5, <1>8, <1>16, ChangeInv DEF CallNow

LEMMA EndInv ==
  ASSUME Inv, CallThrows \/ CustomThrows \/ Finish
  PROVE  Inv'
<1>1. stack # <<>>
  BY DEF CallThrows, CustomThrows, Finish, CallsA, Running
<1>2. \E kind \in Kinds : Return(kind)
  BY DEF CallThrows, CustomThrows, Finish, Kinds
<1> QED BY <1>1, <1>2, ReturnInv DEF CallThrows, CustomThrows, Finish, registry

LEMMA StepInv == Inv /\ [Next]_vars => Inv'
<1> SUFFICES ASSUME Inv, [Next]_vars PROVE Inv'
  OBVIOUS
<1>1. ASSUME NEW i \in Interps, NEW L \in Lists, Whitelist(i, L) \/ Blacklist(i, L)
      PROVE  Inv'
  BY <1>1, RelistInv, NamesAssumption DEF Whitelist, Blacklist
<1>2. ASSUME NEW i \in Interps, AllowAll(i) PROVE Inv'
  <2>1. list[i] \in SUBSET Names
    BY DEF Inv, TypeOK
  <2> QED BY <1>2, <2>1, RelistInv DEF AllowAll
<1>3. ASSUME NEW i \in Interps, NEW n \in Custom, RegisterBuiltIn(i, n) PROVE Inv'
  BY <1>3, RegisterInv
<1>4. ASSUME NEW i \in Interps, StrictErrors(i) PROVE Inv'
  BY <1>4, StrictErrorsInv
<1>5. ASSUME NEW i \in Interps, NEW n \in Names, IsBuiltIn(i, n) PROVE Inv'
  BY <1>5, IsBuiltInInv
<1>6. ASSUME NEW i \in Interps, NEW t \in Texts, SetQuery(i, t) PROVE Inv'
  BY <1>6, SetQueryInv
<1>7. ASSUME NEW i \in Interps, NEW t \in Texts, QueryText(i, t) PROVE Inv'
  BY <1>7, QueryInv
<1>8. ASSUME NEW i \in Interps, QueryNode(i) \/ Build(i) PROVE Inv'
  BY <1>8, QueryInv
<1>9. ASSUME NEW i \in Interps, NEW t \in Valid \cup {NoQuery}, QueryBundle(i, t)
      PROVE  Inv'
  BY <1>9, QueryInv
<1>10. CASE CompileCrashes \/ CallCrashes
  BY <1>10, CrashInv DEF CompileCrashes, CallCrashes
<1>11. CASE Idle \/ UNCHANGED vars
  <2>1. UNCHANGED vars
    BY <1>11 DEF Idle
  <2>2. TypeOK'
    BY <2>1 DEF Inv, TypeOK, vars, registry
  <2>3. RegistryFollowsList'
    BY <2>1, ListKept DEF Inv, vars, registry
  <2>4. StackInv'
    BY <2>1, Steady DEF Inv, vars, registry
  <2> QED BY <2>2, <2>3, <2>4 DEF Inv
<1> QED
  BY <1>1, <1>2, <1>3, <1>4, <1>5, <1>6, <1>7, <1>8, <1>9, <1>10, <1>11,
     CompileInv, RunPlanInv, CallFunctionInv, CallLibraryInv, CallNowInv,
     CallCustomInv, CustomReturnsInv, EndInv
  DEF Next

LEMMA Invariance == Spec => []Inv
  BY InitInv, StepInv, PTL DEF Spec

(* Every variable keeps its type.                                          *)
THEOREM TypeCorrect == Spec => []TypeOK
<1>1. Inv => TypeOK
  BY DEF Inv
<1> QED BY <1>1, Invariance, PTL

(* A registry never holds an answer that a former list gave                *)
(* (builtins.cc:212).                                                      *)
THEOREM ListsAreObeyed == Spec => []RegistryFollowsList
<1>1. Inv => RegistryFollowsList
  BY DEF Inv
<1> QED BY <1>1, Invariance, PTL

(* time.now_ns is one value in a query that starts no other (time.cc:36).  *)
THEOREM TimeIsOne == Spec => []SameWithinQuery
<1>1. ASSUME Inv PROVE SameWithinQuery
  <2> SUFFICES ASSUME NEW k \in DOMAIN stack, ~stack[k].nested
               PROVE  Cardinality(stack[k].seen) <= 1
    BY DEF SameWithinQuery
  <2>1. stack[k].seen = {} \/ stack[k].seen = {memo}
    BY <1>1 DEF Inv, StackInv, AllFine, Fine
  <2>2. Cardinality({}) = 0 /\ Cardinality({memo}) = 1
    BY FS_EmptySet, FS_Singleton
  <2> QED BY <2>1, <2>2
<1> QED BY <1>1, Invariance, PTL

(* and, where the query is compiled as it is asked, one from its own time   *)
(* (interpreter.cc:400, virtual_machine.cc:521).                           *)
THEOREM TimeIsFresh == Spec => []FreshQuery
<1>1. Inv => FreshQuery
  BY DEF Inv, StackInv, AllFine, Fine, FreshQuery
<1> QED BY <1>1, Invariance, PTL
=============================================================================
