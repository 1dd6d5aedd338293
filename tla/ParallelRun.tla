---------------------------- MODULE ParallelRun ----------------------------
(***************************************************************************)
(* parallel_for and parallel_reduce (utils/parallel.h, parallel.cc) on the *)
(* process-wide ThreadPool (utils/thread_pool.cc).  Several user threads   *)
(* make such calls; the body of a call may make a nested one.  A call cuts *)
(* its range into tasks, hands all but the first to the pool, runs the     *)
(* first itself and waits for the rest.  The number of threads may be set  *)
(* at any time, and any body may throw.                                    *)
(*                                                                         *)
(* Every thread has a stack of frames: the calls and the tasks it is in.   *)
(***************************************************************************)
EXTENDS Integers, Sequences, FiniteSets

CONSTANTS Users,           \* the user threads
          Program,         \* per user: the calls it makes
          NestedSize,      \* range of the parallel_for a nesting body makes
          DefaultThreads,  \* intraop_default_num_threads()
          SetTo,           \* values passed to set_num_threads
          MaxSets,         \* bound: calls of set_num_threads
          MaxThrows        \* bound: bodies that throw

CallType == [kind : {"for", "reduce"}, size : Nat, grain : Nat \ {0}, nests : BOOLEAN]

ASSUME ParallelAssumption ==
  /\ \A u \in Users : /\ Program[u] \in Seq(CallType)
                       /\ \A k \in DOMAIN Program[u] :
                            Program[u][k].kind = "reduce" => Program[u][k].size > 0
  /\ NestedSize \in Nat
  /\ DefaultThreads \in Nat \ {0}
  /\ SetTo \subseteq Nat \ {0}
  /\ MaxSets \in Nat /\ MaxThrows \in Nat

VARIABLES
  num_intraop_threads,  \* the atomic of that name
  pool,                 \* size of the pool, 0 before it exists
  tasks_,               \* ThreadPool::tasks_
  stop_,                \* ThreadPool::stop_
  ended,                \* workers that left WorkLoop
  stack,                \* per thread: its frames, innermost first
  in_parallel_region_,  \* per thread: the thread_local
  made,                 \* per user: calls made so far
  num_tasks,            \* per call: num_tasks
  chunk_size,           \* per call: chunk_size
  results,              \* per call: results.size() of parallel_reduce
  future,               \* per call and task: the state of its future
  visits,               \* history, per call: how often each index was visited
  thrown,               \* history: tasks whose body threw
  outcome,              \* history, per call: "none", "returned" or "threw"
  sets,                 \* calls of set_num_threads
  late                  \* history: a set took effect during a call

poolVars == <<num_intraop_threads, pool, tasks_, stop_, ended>>
callVars == <<num_tasks, chunk_size, results, future>>
vars == <<poolVars, stack, in_parallel_region_, made, callVars, visits, thrown,
          outcome, sets, late>>

NOT_SET == -1
CONSUMED == -2

MaxThreads == CHOOSE n \in SetTo \union {DefaultThreads} :
                 \A k \in SetTo \union {DefaultThreads} : k <= n
Workers == 1 .. (MaxThreads - 1)
Threads == Users \union Workers
TaskIds == 0 .. MaxThreads

ASSUME ThreadsAssumption ==
  /\ \E n \in SetTo \union {DefaultThreads} : \A k \in SetTo \union {DefaultThreads} : k <= n
  /\ \A u \in Users : u \notin Workers

\* A call is known by its user, its place in the program and, when it was made
\* by the body of task i of that call, i + 1.
CallIds == {c \in Users \X (UNION {DOMAIN Program[u] : u \in Users}) \X (0 .. MaxThreads) :
              /\ c[2] \in DOMAIN Program[c[1]]
              /\ c[3] > 0 => Program[c[1]][c[2]].nests}
Call(c) == IF c[3] = 0 THEN Program[c[1]][c[2]]
           ELSE [kind |-> "for", size |-> NestedSize, grain |-> 1, nests |-> FALSE]

Frame(at, c, i) == [at |-> at, call |-> c, id |-> i, eptr |-> FALSE]
Top(t) == stack[t][1]
At(t, at) == stack[t] # <<>> /\ Top(t).at = at
Replace(t, f) == stack' = [stack EXCEPT ![t] = <<f>> \o Tail(@)]
Push(t, f, g) == stack' = [stack EXCEPT ![t] = <<f, g>> \o Tail(@)]

\* The innermost frame is left; an exception goes to the frame below.
Pop(t, throws) ==
  LET rest == Tail(stack[t])
  IN  stack' = [stack EXCEPT ![t] =
        IF rest # <<>> /\ throws THEN <<[rest[1] EXCEPT !.eptr = TRUE]>> \o Tail(rest)
        ELSE rest]

Init == /\ num_intraop_threads = NOT_SET /\ pool = 0 /\ tasks_ = <<>>
        /\ stop_ = FALSE /\ ended = {}
        /\ stack = [t \in Threads |-> <<>>]
        /\ in_parallel_region_ = [t \in Threads |-> FALSE]
        /\ made = [u \in Users |-> 0]
        /\ num_tasks = [c \in CallIds |-> 0]
        /\ chunk_size = [c \in CallIds |-> 0]
        /\ results = [c \in CallIds |-> 0]
        /\ future = [c \in CallIds |-> [i \in TaskIds |-> "none"]]
        /\ visits = [c \in CallIds |-> [x \in 0 .. (Call(c).size - 1) |-> 0]]
        /\ thrown = {} /\ outcome = [c \in CallIds |-> "none"]
        /\ sets = 0 /\ late = FALSE

-----------------------------------------------------------------------------
(* The number of threads and the cutting of a range. *)

\* _get_intraop_pool once failed: every further use of the pool throws.
Broken == num_intraop_threads = CONSUMED /\ pool = 0

get_num_threads == CASE num_intraop_threads > 0 -> num_intraop_threads
                     [] num_intraop_threads = NOT_SET -> DefaultThreads
                     [] OTHER -> pool + 1

divup(a, b) == (a + b - 1) \div b

ChunkSize(size, grain) == IF divup(size, get_num_threads) < grain THEN grain
                          ELSE divup(size, get_num_threads)

\* Mutant of NumTasks: rounded down.
NumTasksDown(size, grain) == size \div ChunkSize(size, grain)

\* calc_num_tasks_and_chunk_size, where it is called: grain <= size.
NumTasks(size, grain) == divup(size, ChunkSize(size, grain))

\* Mutant of in_parallel_region: never.
never_in_parallel_region(t) == FALSE

in_parallel_region(t) ==
  in_parallel_region_[t] \/ (num_intraop_threads = CONSUMED /\ t \in Workers)

-----------------------------------------------------------------------------
(* A call of parallel_for or parallel_reduce. *)

Make(u) ==
  /\ stack[u] = <<>> /\ made[u] < Len(Program[u])
  /\ made' = [made EXCEPT ![u] = @ + 1]
  /\ stack' = [stack EXCEPT ![u] = <<Frame("start", <<u, made[u] + 1, 0>>, 0)>>]
  /\ UNCHANGED <<poolVars, in_parallel_region_, callVars, visits, thrown, outcome,
                 sets, late>>

\* The call of frame f returns or throws.
EndCall(t, throws) ==
  /\ Pop(t, throws)
  /\ outcome' = [outcome EXCEPT ![Top(t).call] = IF throws THEN "threw" ELSE "returned"]

\* An empty range; or in_parallel_region() or get_num_threads() throws.
ReturnAtOnce(t) ==
  /\ At(t, "start") /\ Call(Top(t).call).size = 0
  /\ EndCall(t, FALSE)
  /\ UNCHANGED <<poolVars, in_parallel_region_, made, callVars, visits, thrown, sets, late>>

Enforce(t) ==
  /\ \/ At(t, "start") /\ Call(Top(t).call).size >= Call(Top(t).call).grain
                       /\ ~in_parallel_region_[t]
     \/ At(t, "size")
     \/ At(t, "calc")
  /\ Broken
  /\ EndCall(t, TRUE)
  /\ UNCHANGED <<poolVars, in_parallel_region_, made, callVars, visits, thrown, sets, late>>

\* A small range, or a call inside a task: the body runs here and now.
Inline(c, t) == Call(c).size < Call(c).grain \/ in_parallel_region(t)

Start(t) ==
  /\ At(t, "start") /\ Call(Top(t).call).size > 0 /\ ~Inline(Top(t).call, t)
  /\ ~Broken
  /\ Replace(t, [Top(t) EXCEPT !.at = IF Call(Top(t).call).kind = "reduce"
                                      THEN "size" ELSE "calc"])
  /\ UNCHANGED <<poolVars, in_parallel_region_, made, callVars, visits, thrown,
                 outcome, sets, late>>

\* Mutant of Size: room for the tasks of the pool only.
SizeOneLess(t) ==
  LET c == Top(t).call
  IN /\ At(t, "size") /\ ~Broken
     /\ results' = [results EXCEPT ![c] = NumTasks(Call(c).size, Call(c).grain) - 1]
     /\ Replace(t, [Top(t) EXCEPT !.at = "calc"])
     /\ UNCHANGED <<poolVars, in_parallel_region_, made, num_tasks, chunk_size,
                    future, visits, thrown, outcome, sets, late>>

\* parallel_reduce sizes its vector of results.
Size(t) ==
  LET c == Top(t).call
  IN /\ At(t, "size") /\ ~Broken
     /\ results' = [results EXCEPT ![c] = NumTasks(Call(c).size, Call(c).grain)]
     /\ Replace(t, [Top(t) EXCEPT !.at = "calc"])
     /\ UNCHANGED <<poolVars, in_parallel_region_, made, num_tasks, chunk_size,
                    future, visits, thrown, outcome, sets, late>>

\* _parallel_run computes the tasks again.
Calc(t) ==
  LET c == Top(t).call
  IN /\ At(t, "calc") /\ ~Broken
     /\ num_tasks' = [num_tasks EXCEPT ![c] = NumTasks(Call(c).size, Call(c).grain)]
     /\ chunk_size' = [chunk_size EXCEPT ![c] = ChunkSize(Call(c).size, Call(c).grain)]
     /\ Replace(t, [Top(t) EXCEPT !.at = "submit", !.id = 1])
     /\ UNCHANGED <<poolVars, in_parallel_region_, made, results, future, visits,
                    thrown, outcome, sets, late>>

\* Mutant of PoolThreads: one thread too few.
PoolThreadsLess == IF num_intraop_threads = NOT_SET THEN DefaultThreads - 2
                   ELSE num_intraop_threads - 2

\* _get_intraop_pool: the first use creates the pool, which fails without a
\* thread; num_intraop_threads is CONSUMED either way.
PoolThreads == IF num_intraop_threads = NOT_SET THEN DefaultThreads - 1
               ELSE num_intraop_threads - 1

CreatePool(t) ==
  /\ At(t, "submit") /\ Top(t).id < num_tasks[Top(t).call]
  /\ pool = 0 /\ ~Broken
  /\ pool' = PoolThreads /\ num_intraop_threads' = CONSUMED
  /\ UNCHANGED <<tasks_, stop_, ended, stack, in_parallel_region_, made, callVars,
                 visits, thrown, outcome, sets, late>>

\* The pool cannot be created: the exception leaves _parallel_run.
PoolThrows(t) ==
  /\ At(t, "submit") /\ Top(t).id < num_tasks[Top(t).call] /\ Broken
  /\ EndCall(t, TRUE)
  /\ UNCHANGED <<poolVars, in_parallel_region_, made, callVars, visits, thrown, sets, late>>

Submit(t) ==
  LET f == Top(t)
  IN /\ At(t, "submit") /\ f.id < num_tasks[f.call] /\ pool > 0
     /\ ~stop_
     /\ tasks_' = Append(tasks_, [call |-> f.call, id |-> f.id])
     /\ future' = [future EXCEPT ![f.call][f.id] = "pending"]
     /\ Replace(t, [f EXCEPT !.id = @ + 1])
     /\ UNCHANGED <<num_intraop_threads, pool, stop_, ended, in_parallel_region_,
                    made, num_tasks, chunk_size, results, visits, thrown, outcome,
                    sets, late>>

\* task(0) on the calling thread, after the last Submit.
OwnTask(t) ==
  LET f == Top(t)
  IN /\ At(t, "submit") /\ f.id >= num_tasks[f.call]
     /\ Push(t, Frame("task", f.call, 0), [f EXCEPT !.at = "wait", !.id = 1])
     /\ UNCHANGED <<poolVars, in_parallel_region_, made, callVars, visits, thrown,
                    outcome, sets, late>>

\* Mutant of Get: the first error ends the waiting.
GetFirstError(t) ==
  LET f == Top(t)
  IN /\ At(t, "wait") /\ f.id < num_tasks[f.call]
     /\ future[f.call][f.id] \in {"value", "error"}
     /\ Replace(t, [f EXCEPT !.id = IF future[f.call][f.id] = "error"
                                    THEN num_tasks[f.call] ELSE @ + 1,
                             !.eptr = @ \/ future[f.call][f.id] = "error"])
     /\ UNCHANGED <<poolVars, in_parallel_region_, made, callVars, visits, thrown,
                    outcome, sets, late>>

\* future.get() of the next task.
Get(t) ==
  LET f == Top(t)
  IN /\ At(t, "wait") /\ f.id < num_tasks[f.call]
     /\ future[f.call][f.id] \in {"value", "error"}
     /\ Replace(t, [f EXCEPT !.id = @ + 1,
                             !.eptr = @ \/ future[f.call][f.id] = "error"])
     /\ UNCHANGED <<poolVars, in_parallel_region_, made, callVars, visits, thrown,
                    outcome, sets, late>>

\* All tasks have ended, or the body that ran inline has.
Finish(t) ==
  /\ At(t, "wait") \/ At(t, "inline")
  /\ Top(t).at = "wait" => Top(t).id >= num_tasks[Top(t).call]
  /\ EndCall(t, Top(t).eptr)
  /\ UNCHANGED <<poolVars, in_parallel_region_, made, callVars, visits, thrown, sets, late>>

-----------------------------------------------------------------------------
(* Bodies and tasks. *)

Range(c, i) == {x \in 0 .. (Call(c).size - 1) :
                  i * chunk_size[c] <= x /\ x < i * chunk_size[c] + chunk_size[c]}

\* The body visits its indices xs and then throws, makes its nested call or is
\* done; g is the frame the thread is left in.
Body(t, c, i, xs, g) ==
  /\ visits' = [visits EXCEPT ![c] = [x \in DOMAIN @ |-> IF x \in xs THEN @[x] + 1 ELSE @[x]]]
  /\ \/ /\ Cardinality(thrown) < MaxThrows
        /\ thrown' = thrown \union {<<c, i>>}
        /\ Replace(t, [g EXCEPT !.eptr = TRUE])
     \/ /\ thrown' = thrown
        /\ IF Call(c).nests THEN Push(t, Frame("start", <<c[1], c[2], i + 1>>, 0), g)
           ELSE Replace(t, g)

RunInline(t) ==
  LET f == Top(t)
  IN /\ At(t, "start") /\ Call(f.call).size > 0 /\ Inline(f.call, t)
     /\ Body(t, f.call, 0, DOMAIN visits[f.call], [f EXCEPT !.at = "inline"])
     /\ UNCHANGED <<poolVars, in_parallel_region_, made, callVars, outcome, sets, late>>

\* The task: ParallelRegionGuard and the body, unless its range is empty.
TaskBegin(t) ==
  LET f == Top(t)
  IN /\ At(t, "task")
     /\ IF f.id * chunk_size[f.call] < Call(f.call).size
        THEN /\ in_parallel_region_' = [in_parallel_region_ EXCEPT ![t] = TRUE]
             /\ Body(t, f.call, f.id, Range(f.call, f.id), [f EXCEPT !.at = "end"])
        ELSE Replace(t, [f EXCEPT !.at = "end"])
             /\ UNCHANGED <<in_parallel_region_, visits, thrown>>
     /\ UNCHANGED <<poolVars, made, callVars, outcome, sets, late>>

\* Mutant of TaskResult: an exception gets lost.
TaskResultLost(f) == "value"

TaskResult(f) == IF f.eptr THEN "error" ELSE "value"

\* ~ParallelRegionGuard; the packaged_task sets its future, the task of the
\* calling thread its exception_ptr.
TaskEnd(t) ==
  LET f == Top(t)
  IN /\ At(t, "end")
     /\ in_parallel_region_' = [in_parallel_region_ EXCEPT ![t] = FALSE]
     /\ Pop(t, f.eptr /\ f.id = 0)
     /\ future' = IF f.id = 0 THEN future
                  ELSE [future EXCEPT ![f.call][f.id] = TaskResult(f)]
     /\ UNCHANGED <<poolVars, made, num_tasks, chunk_size, results, visits, thrown,
                    outcome, sets, late>>

\* WorkLoop takes the oldest task.
Take(w) ==
  /\ w <= pool /\ stack[w] = <<>> /\ w \notin ended /\ tasks_ # <<>>
  /\ stack' = [stack EXCEPT ![w] = <<Frame("task", Head(tasks_).call, Head(tasks_).id)>>]
  /\ tasks_' = Tail(tasks_)
  /\ UNCHANGED <<num_intraop_threads, pool, stop_, ended, in_parallel_region_, made,
                 callVars, visits, thrown, outcome, sets, late>>

\* ~ThreadPool when the process ends, after the last call.
Stop ==
  /\ pool > 0 /\ ~stop_
  /\ \A u \in Users : stack[u] = <<>> /\ made[u] = Len(Program[u])
  /\ stop_' = TRUE
  /\ UNCHANGED <<num_intraop_threads, pool, tasks_, ended, stack, in_parallel_region_,
                 made, callVars, visits, thrown, outcome, sets, late>>

WorkLoopEnds(w) ==
  /\ w <= pool /\ stack[w] = <<>> /\ stop_ /\ tasks_ = <<>> /\ w \notin ended
  /\ ended' = ended \union {w}
  /\ UNCHANGED <<num_intraop_threads, pool, tasks_, stop_, stack, in_parallel_region_,
                 made, callVars, visits, thrown, outcome, sets, late>>

\* set_num_threads takes effect only before the pool exists and once; a later
\* call returns (YACL_ENFORCE on a string literal never fails) or throws, and
\* changes nothing.
set_num_threads(n) ==
  /\ sets < MaxSets /\ ~stop_
  /\ sets' = sets + 1
  /\ num_intraop_threads' = IF num_intraop_threads = NOT_SET THEN n
                            ELSE num_intraop_threads
  /\ late' = (late \/ (num_intraop_threads = NOT_SET /\ \E t \in Threads : stack[t] # <<>>))
  /\ UNCHANGED <<pool, tasks_, stop_, ended, stack, in_parallel_region_, made, callVars,
                 visits, thrown, outcome>>

ThreadStep(t) ==
  \/ ReturnAtOnce(t) \/ Enforce(t) \/ Start(t) \/ Size(t) \/ Calc(t)
  \/ CreatePool(t) \/ PoolThrows(t) \/ Submit(t) \/ OwnTask(t) \/ Get(t) \/ Finish(t)
  \/ RunInline(t) \/ TaskBegin(t) \/ TaskEnd(t)

Next == \/ \E u \in Users : Make(u)
        \/ \E t \in Threads : ThreadStep(t)
        \/ \E w \in Workers : Take(w) \/ WorkLoopEnds(w)
        \/ Stop
        \/ \E n \in SetTo : set_num_threads(n)

\* The scheduler runs every thread; set_num_threads need not be called.
Fairness == /\ \A u \in Users : WF_vars(Make(u) \/ ThreadStep(u))
            /\ \A w \in Workers : WF_vars(Take(w) \/ WorkLoopEnds(w) \/ ThreadStep(w))
            /\ WF_vars(Stop)

Spec == Init /\ [][Next]_vars /\ Fairness

-----------------------------------------------------------------------------
(* Properties. *)

FrameKinds == {"start", "size", "calc", "submit", "wait", "inline", "task", "end"}

\* Frames, tasks and counters stay in the ranges the code gives them; a call is
\* never cut into more tasks than there are threads to set.
TypeOK ==
  /\ num_intraop_threads \in {NOT_SET, CONSUMED} \union SetTo
  /\ pool \in 0 .. (MaxThreads - 1) /\ ended \subseteq 1 .. pool
  /\ \A k \in DOMAIN tasks_ : tasks_[k].call \in CallIds /\ tasks_[k].id \in TaskIds
  /\ \A t \in Threads : \A k \in DOMAIN stack[t] :
        stack[t][k].at \in FrameKinds /\ stack[t][k].call \in CallIds
  /\ \A c \in CallIds : num_tasks[c] \in 0 .. MaxThreads /\ results[c] \in 0 .. MaxThreads
  /\ \A c \in CallIds : \A i \in TaskIds : future[c][i] \in {"none", "pending", "value", "error"}
  /\ sets \in 0 .. MaxSets /\ Cardinality(thrown) <= MaxThrows

\* No index is given to the body twice, and a call that returns has given it
\* every index of its range (parallel.h:40, parallel.cc:119).
EachIndexOnce ==
  \A c \in CallIds : \A x \in DOMAIN visits[c] :
    visits[c][x] <= 1 /\ (outcome[c] = "returned" => visits[c][x] = 1)

\* When a call is over, also by an exception, none of its tasks is queued or
\* running: the body may refer to the caller's variables (parallel.cc:153,
\* "make sure all threads are finished").
OverMeansQuiet ==
  \A c \in CallIds : outcome[c] # "none" =>
    /\ \A k \in DOMAIN tasks_ : tasks_[k].call # c
    /\ \A t \in Threads : \A k \in DOMAIN stack[t] : stack[t][k].call # c

\* A call with a task whose body threw throws itself, through the futures of
\* the pool and through nested calls (parallel.cc:160).
ErrorsReported ==
  \A e \in thrown : outcome[e[1]] # "returned" /\ outcome[<<e[1][1], e[1][2], 0>>] # "returned"

\* The vector parallel_reduce sized beforehand has room for the result of every
\* task (parallel.h:144), unless set_num_threads took effect during a call.
ResultsFit ==
  \A t \in Threads : ~late /\ At(t, "end") /\ Call(Top(t).call).kind = "reduce"
                       => Top(t).id < results[Top(t).call]

\* Unless set_num_threads took effect during a call, a call throws only when a
\* body did: the pool can always be created when it is needed (parallel.cc:89).
OnlyBodiesThrow ==
  ~late => \A c \in CallIds : outcome[c] = "threw" =>
              \E e \in thrown : e[1][1] = c[1] /\ e[1][2] = c[2]

\* Every user gets through its program, nested calls included, and the pool's
\* threads end when it is destroyed (thread_pool.cc:63).
AllReturn == <>(/\ \A u \in Users : made[u] = Len(Program[u]) /\ stack[u] = <<>>
                /\ ended = 1 .. pool)

=============================================================================
