------------------------- MODULE ParallelRunProofs -------------------------
(***************************************************************************)
(* Theorems about ParallelRun.  The argument goes through the stacks: a    *)
(* user thread is in one of six places of its call (UserShape), a worker   *)
(* in one of three (WorkerShape), and every task that was handed to the    *)
(* pool and has not ended is in exactly one place, the queue or the bottom *)
(* of a worker's stack, while the frame of its call is still there to wait *)
(* for it (Flight, OnePlace).  On this rest what is carried from step to   *)
(* step about outcomes (Fresh, Quiet), exceptions (SourceInv, ErrInv), the *)
(* vector of results (ResultsInv) and visited indices (VisitInv).          *)
(***************************************************************************)
EXTENDS ParallelRun, TLAPS

-----------------------------------------------------------------------------
(* The inductive invariants. *)

OwnerKinds == {"start", "size", "calc", "submit", "wait", "inline"}
Frames == [at : FrameKinds, call : CallIds, id : Nat, eptr : BOOLEAN]
TaskType == [call : CallIds, id : 1 .. (MaxThreads - 1)]

Typed ==
  /\ num_intraop_threads \in {NOT_SET, CONSUMED} \union SetTo
  /\ pool \in 0 .. (MaxThreads - 1)
  /\ tasks_ \in Seq(TaskType)
  /\ stack \in [Threads -> Seq(Frames)]
  /\ in_parallel_region_ \in [Threads -> BOOLEAN]
  /\ made \in [Users -> Nat]
  /\ num_tasks \in [CallIds -> 0 .. MaxThreads]
  /\ future \in [CallIds -> [TaskIds -> {"none", "pending", "value", "error"}]]
  /\ outcome \in [CallIds -> {"none", "returned", "threw"}]

\* A frame of call c itself; of its task 0; of either, at a given place.
Own(f, c) == f.at \in OwnerKinds /\ f.call = c
Running(f, c) == f.at \in {"task", "end"} /\ f.call = c /\ f.id = 0
Is(f, at, c) == f.at = at /\ f.call = c

\* Where a user thread is in its m-th call c: outside; in c; in task 0 of c; in
\* the call k of a body that runs inline; in task 0 of k; in the call k of the
\* body of task 0.
UserShape(s, u, m) ==
  LET c == <<u, m, 0>>
      k == <<u, m, 1>>
  IN  \/ Len(s) = 0
      \/ Len(s) = 1 /\ Own(s[1], c)
      \/ Len(s) = 2 /\ Running(s[1], c) /\ Is(s[2], "wait", c)
      \/ Len(s) = 2 /\ Own(s[1], k) /\ Is(s[2], "inline", c)
      \/ Len(s) = 3 /\ Running(s[1], k) /\ Is(s[2], "wait", k) /\ Is(s[3], "inline", c)
      \/ Len(s) = 3 /\ s[1].at \in {"start", "inline"} /\ s[1].call = k
                    /\ Is(s[2], "end", c) /\ s[2].id = 0 /\ Is(s[3], "wait", c)

\* A worker: idle; in a task; in the call of the body of a task.
WorkerShape(s) ==
  \/ Len(s) = 0
  \/ Len(s) = 1 /\ s[1].at \in {"task", "end"} /\ s[1].id > 0
  \/ Len(s) = 2 /\ s[2].at = "end" /\ s[2].id > 0 /\ s[2].call[3] = 0
                /\ s[1].at \in {"start", "inline"}
                /\ s[1].call = <<s[2].call[1], s[2].call[2], s[2].id + 1>>

Shapes == /\ \A u \in Users : UserShape(stack[u], u, made[u])
          /\ \A w \in Workers : WorkerShape(stack[w])

\* While the body of a task makes a call, its thread is in a parallel region.
InRegion ==
  \A t \in Threads : Len(stack[t]) >= 2 /\ stack[t][2].at = "end" => in_parallel_region_[t]

\* What the code has established about its call when it reaches a frame.
FrameOK(f, tasks, workers) ==
  /\ f.at \in {"size", "calc", "submit", "wait"} => Call(f.call).size > 0
  /\ f.at \in {"submit", "wait"} => 1 <= f.id /\ tasks[f.call] > 0
  /\ f.at = "submit" /\ f.id > 1 => workers > 0
  /\ f.at \in {"start", "size", "calc", "submit", "task"} => ~ f.eptr
  /\ f.at \in {"task", "end"} => f.id < MaxThreads

FramesOK ==
  \A t \in Threads : \A n \in 1 .. Len(stack[t]) : FrameOK(stack[t][n], num_tasks, pool)

Layout == Typed /\ Shapes /\ InRegion /\ FramesOK

-----------------------------------------------------------------------------
(* The cutting of a range. *)

LEMMA MaxThreadsType ==
  /\ MaxThreads \in Nat \ {0}
  /\ \A n \in SetTo \union {DefaultThreads} : n <= MaxThreads
<1>. DEFINE S == SetTo \union {DefaultThreads}
<1>1. \E n \in S : \A k \in S : k <= n
  BY ThreadsAssumption
<1>2. MaxThreads \in S /\ \A k \in S : k <= MaxThreads
  BY <1>1 DEF MaxThreads
<1>. QED
  BY <1>2, ParallelAssumption

LEMMA DivUp ==
  ASSUME NEW a \in Nat, NEW b \in Nat \ {0}
  PROVE  /\ divup(a, b) \in Nat
         /\ a <= b * divup(a, b) /\ b * divup(a, b) < a + b
         /\ a > 0 => divup(a, b) > 0
  BY DEF divup

LEMMA DivUpLeast ==
  ASSUME NEW a \in Nat, NEW b \in Nat \ {0}, NEW n \in Nat, a <= b * n
  PROVE  divup(a, b) <= n
<1>1. divup(a, b) \in Nat /\ b * divup(a, b) < a + b
  BY DivUp
<1>2. b * divup(a, b) < b * n + b
  BY <1>1
<1>. DEFINE d == divup(a, b)
<1>. HIDE DEF d
<1>3. ASSUME d \in Nat, b * d < b * n + b PROVE d < n + 1
  BY <1>3
<1>. QED
  BY <1>1, <1>2, <1>3 DEF d

\* A range of at least one index is cut into at least one task, into no more
\* tasks than there are threads, and the tasks cover it.
LEMMA CutBounds ==
  ASSUME NEW size \in Nat \ {0}, NEW grain \in Nat \ {0}, get_num_threads \in Nat \ {0}
  PROVE  /\ ChunkSize(size, grain) \in Nat \ {0}
         /\ NumTasks(size, grain) \in 1 .. get_num_threads
         /\ size <= NumTasks(size, grain) * ChunkSize(size, grain)
<1>. DEFINE n == get_num_threads
            d == divup(size, n)
            c == ChunkSize(size, grain)
<1>1. d \in Nat \ {0} /\ size <= n * d
  BY DivUp
<1>2. c \in Nat \ {0} /\ d <= c
  BY <1>1 DEF ChunkSize
<1>. HIDE DEF n, d, c
<1>3. size <= c * n
  <2>1. n \in Nat \ {0}
    BY DEF n
  <2>2. n * d <= n * c
    BY <1>1, <1>2, <2>1
  <2>. QED
    BY <1>1, <1>2, <2>1, <2>2
<1>4. divup(size, c) <= n
  BY <1>2, <1>3, DivUpLeast DEF n
<1>5. divup(size, c) \in Nat \ {0} /\ size <= c * divup(size, c)
  <2>1. size \in Nat /\ size > 0 /\ c \in Nat \ {0}
    BY <1>2
  <2>2. /\ divup(size, c) \in Nat /\ size <= c * divup(size, c)
        /\ size > 0 => divup(size, c) > 0
    BY ONLY <2>1, DivUp
  <2>. QED
    BY <2>1, <2>2
<1>. QED
  BY <1>2, <1>4, <1>5 DEF c, n, NumTasks

-----------------------------------------------------------------------------
(* Calls, threads and stacks. *)

LEMMA ThreadKinds ==
  /\ Users \subseteq Threads /\ Workers \subseteq Threads
  /\ \A t \in Threads : t \in Users \/ t \in Workers
  /\ \A u \in Users, w \in Workers : u # w
  BY ThreadsAssumption DEF Threads

LEMMA CallType3 ==
  ASSUME NEW c \in CallIds
  PROVE  /\ c[1] \in Users /\ c[2] \in Nat /\ c[3] \in 0 .. MaxThreads
         /\ c = <<c[1], c[2], c[3]>>
         /\ c[2] \in 1 .. Len(Program[c[1]])
         /\ Program[c[1]][c[2]] \in CallType
         /\ c[3] > 0 => Program[c[1]][c[2]].nests
<1>. DEFINE P == UNION {DOMAIN Program[u] : u \in Users}
<1>1. c \in Users \X P \X (0 .. MaxThreads) /\ c[2] \in DOMAIN Program[c[1]]
      /\ (c[3] > 0 => Program[c[1]][c[2]].nests)
  BY DEF CallIds
<1>. HIDE DEF P
<1>2. c[1] \in Users /\ c[3] \in 0 .. MaxThreads /\ c = <<c[1], c[2], c[3]>>
  BY <1>1
<1>3. Program[c[1]] \in Seq(CallType)
  BY <1>2, ParallelAssumption
<1>. QED
  BY <1>1, <1>2, <1>3

LEMMA CallFacts ==
  ASSUME NEW c \in CallIds
  PROVE  /\ Call(c).kind \in {"for", "reduce"} /\ Call(c).size \in Nat
         /\ Call(c).grain \in Nat \ {0} /\ Call(c).nests \in BOOLEAN
         /\ Call(c).nests => c[3] = 0
         /\ Call(c).kind = "reduce" => c[3] = 0
<1>1. CASE c[3] = 0
  <2>1. Call(c) = Program[c[1]][c[2]] /\ Call(c) \in CallType
    BY <1>1, CallType3 DEF Call
  <2>2. Call(c).nests \in BOOLEAN
    BY <2>1 DEF CallType
  <2>. QED
    BY <1>1, <2>1, <2>2 DEF CallType
<1>2. CASE c[3] # 0
  <2>1. Call(c) = [kind |-> "for", size |-> NestedSize, grain |-> 1, nests |-> FALSE]
    BY <1>2 DEF Call
  <2>2. Call(c).nests = FALSE /\ Call(c).kind = "for" /\ Call(c).size \in Nat /\ Call(c).grain = 1
    BY <2>1, ParallelAssumption
  <2>3. Call(c).nests \in BOOLEAN /\ ~ Call(c).nests
    BY <2>2, Zenon
  <2>4. Call(c).grain \in Nat \ {0} /\ Call(c).kind \in {"for", "reduce"} /\ Call(c).kind # "reduce"
    BY <2>2
  <2>. QED
    BY <2>2, <2>3, <2>4
<1>. QED
  BY <1>1, <1>2

LEMMA CallMember ==
  ASSUME NEW u \in Users, NEW k \in 1 .. Len(Program[u]), NEW i \in 0 .. MaxThreads,
         i > 0 => Program[u][k].nests
  PROVE  <<u, k, i>> \in CallIds
<1>. DEFINE P == UNION {DOMAIN Program[v] : v \in Users}
<1>1. Program[u] \in Seq(CallType)
  BY ParallelAssumption
<1>2. k \in DOMAIN Program[u]
  BY <1>1
<1>3. k \in P
  BY <1>2
<1>. HIDE DEF P
<1>4. <<u, k, i>> \in Users \X P \X (0 .. MaxThreads)
  BY <1>3
<1>. QED
  BY <1>2, <1>4 DEF CallIds, P

\* The call the body of task i makes.
LEMMA NestedCall ==
  ASSUME NEW c \in CallIds, Call(c).nests, NEW i \in Nat, i < MaxThreads
  PROVE  /\ c[3] = 0
         /\ <<c[1], c[2], i + 1>> \in CallIds
  BY CallType3, CallFacts, CallMember, MaxThreadsType DEF Call

\* The call a nested one is made in.
LEMMA OuterCall ==
  ASSUME NEW c \in CallIds
  PROVE  <<c[1], c[2], 0>> \in CallIds
  BY CallType3, CallMember, MaxThreadsType

\* Replace, Push and Pop, on the stack s that becomes z.
Swapped(s, z, f) == Len(z) = Len(s) /\ z[1] = f /\ \A n \in 2 .. Len(s) : z[n] = s[n]
Pushed(s, z, f, g) == /\ Len(z) = Len(s) + 1 /\ z[1] = f /\ z[2] = g
                      /\ \A n \in 2 .. Len(s) : z[n + 1] = s[n]
Popped(s, z, b) == /\ Len(z) = Len(s) - 1
                   /\ Len(s) > 1 => /\ z[1].at = s[2].at /\ z[1].call = s[2].call
                                    /\ z[1].id = s[2].id /\ z[1].eptr = (s[2].eptr \/ b)
                   /\ \A n \in 2 .. Len(z) : z[n] = s[n + 1]
Others(t) == \A u \in Threads : u # t => stack'[u] = stack[u]
StackType == stack \in [Threads -> Seq(Frames)]

LEMMA ReplaceEffect ==
  ASSUME StackType, NEW t \in Threads, stack[t] # <<>>, NEW f \in Frames, Replace(t, f)
  PROVE  StackType' /\ Others(t) /\ Swapped(stack[t], stack'[t], f)
<1>. DEFINE s == stack[t]
            z == <<f>> \o Tail(s)
<1>1. s \in Seq(Frames) /\ s # <<>> /\ Len(s) \in Nat \ {0}
  BY DEF StackType
<1>2. Tail(s) \in Seq(Frames) /\ Len(Tail(s)) = Len(s) - 1
      /\ \A n \in 1 .. (Len(s) - 1) : Tail(s)[n] = s[n + 1]
  BY <1>1
<1>3. <<f>> \in Seq(Frames) /\ Len(<<f>>) = 1 /\ <<f>>[1] = f
  OBVIOUS
<1>4. z \in Seq(Frames) /\ Len(z) = Len(s) /\ z[1] = f
      /\ \A n \in 2 .. Len(s) : z[n] = Tail(s)[n - 1]
  BY <1>1, <1>2, <1>3
<1>5. \A n \in 2 .. Len(s) : n - 1 \in 1 .. (Len(s) - 1) /\ (n - 1) + 1 = n
  BY <1>1
<1>6. \A n \in 2 .. Len(s) : z[n] = s[n]
  BY <1>2, <1>4, <1>5
<1>7. stack' = [stack EXCEPT ![t] = z]
  BY DEF Replace
<1>. HIDE DEF z
<1>. QED
  BY <1>4, <1>6, <1>7 DEF StackType, Others, Swapped

LEMMA PushEffect ==
  ASSUME StackType, NEW t \in Threads, stack[t] # <<>>, NEW f \in Frames, NEW g \in Frames,
         Push(t, f, g)
  PROVE  StackType' /\ Others(t) /\ Pushed(stack[t], stack'[t], f, g)
<1>. DEFINE s == stack[t]
            z == <<f, g>> \o Tail(s)
<1>1. s \in Seq(Frames) /\ s # <<>> /\ Len(s) \in Nat \ {0}
  BY DEF StackType
<1>2. Tail(s) \in Seq(Frames) /\ Len(Tail(s)) = Len(s) - 1
      /\ \A n \in 1 .. (Len(s) - 1) : Tail(s)[n] = s[n + 1]
  BY <1>1
<1>3. <<f, g>> \in Seq(Frames) /\ Len(<<f, g>>) = 2 /\ <<f, g>>[1] = f /\ <<f, g>>[2] = g
  OBVIOUS
<1>4. z \in Seq(Frames) /\ Len(z) = Len(s) + 1 /\ z[1] = f /\ z[2] = g
      /\ \A n \in 3 .. (Len(s) + 1) : z[n] = Tail(s)[n - 2]
  BY <1>1, <1>2, <1>3
<1>5. \A n \in 2 .. Len(s) : /\ n + 1 \in 3 .. (Len(s) + 1) /\ (n + 1) - 2 = n - 1
                             /\ n - 1 \in 1 .. (Len(s) - 1) /\ (n - 1) + 1 = n
  BY <1>1
<1>6. \A n \in 2 .. Len(s) : z[n + 1] = s[n]
  BY <1>2, <1>4, <1>5
<1>7. stack' = [stack EXCEPT ![t] = z]
  BY DEF Push
<1>. HIDE DEF z
<1>. QED
  BY <1>4, <1>6, <1>7 DEF StackType, Others, Pushed

LEMMA PopEffect ==
  ASSUME StackType, NEW t \in Threads, stack[t] # <<>>, NEW b \in BOOLEAN, Pop(t, b)
  PROVE  StackType' /\ Others(t) /\ Popped(stack[t], stack'[t], b)
<1>. DEFINE s == stack[t]
            r == Tail(s)
            g == [r[1] EXCEPT !.eptr = TRUE]
            z == IF r # <<>> /\ b THEN <<g>> \o Tail(r) ELSE r
<1>1. s \in Seq(Frames) /\ s # <<>> /\ Len(s) \in Nat \ {0}
  BY DEF StackType
<1>2. r \in Seq(Frames) /\ Len(r) = Len(s) - 1
      /\ \A n \in 1 .. (Len(s) - 1) : r[n] = s[n + 1]
  BY <1>1
<1>. HIDE DEF r
<1>3. r # <<>> => r[1] \in Frames /\ r[1] = s[2] /\ Len(r) \in Nat \ {0}
  BY <1>1, <1>2
<1>4. r # <<>> => g \in Frames /\ g.at = r[1].at /\ g.call = r[1].call /\ g.id = r[1].id /\ g.eptr
  BY <1>3 DEF Frames
<1>. HIDE DEF g
<1>5. ASSUME r # <<>>
      PROVE  /\ <<g>> \o Tail(r) \in Seq(Frames) /\ Len(<<g>> \o Tail(r)) = Len(r)
             /\ (<<g>> \o Tail(r))[1] = g
             /\ \A n \in 2 .. Len(r) : (<<g>> \o Tail(r))[n] = r[n]
  <2>1. Tail(r) \in Seq(Frames) /\ Len(Tail(r)) = Len(r) - 1
        /\ \A n \in 1 .. (Len(r) - 1) : Tail(r)[n] = r[n + 1]
    BY <1>2, <1>3, <1>5
  <2>2. <<g>> \in Seq(Frames) /\ Len(<<g>>) = 1 /\ <<g>>[1] = g
    BY <1>4, <1>5
  <2>3. /\ <<g>> \o Tail(r) \in Seq(Frames) /\ Len(<<g>> \o Tail(r)) = Len(r)
        /\ (<<g>> \o Tail(r))[1] = g
        /\ \A n \in 2 .. Len(r) : (<<g>> \o Tail(r))[n] = Tail(r)[n - 1]
    BY <1>3, <1>5, <2>1, <2>2
  <2>4. \A n \in 2 .. Len(r) : n - 1 \in 1 .. (Len(r) - 1) /\ (n - 1) + 1 = n
    BY <1>3, <1>5
  <2>. QED
    BY <2>1, <2>3, <2>4
<1>6. z \in Seq(Frames) /\ Len(z) = Len(s) - 1 /\ \A n \in 2 .. Len(z) : z[n] = s[n + 1]
  BY <1>1, <1>2, <1>3, <1>5
<1>7. Len(s) > 1 => /\ z[1].at = s[2].at /\ z[1].call = s[2].call /\ z[1].id = s[2].id
  BY <1>1, <1>2, <1>3, <1>4, <1>5
<1>8. Len(s) > 1 => z[1].eptr = (s[2].eptr \/ b)
  <2>1. CASE Len(s) > 1 /\ b
    <3>1. z[1] = g
      BY <1>1, <1>2, <1>3, <1>5, <2>1
    <3>2. g.eptr = TRUE
      <4>1. r # <<>>
        BY <1>2, <2>1
      <4>. QED
        BY <4>1, <1>3 DEF g, Frames
    <3>. QED
      BY <2>1, <3>1, <3>2
  <2>2. CASE Len(s) > 1 /\ ~ b
    <3>1. z[1] = s[2] /\ s[2] \in Frames
      BY <1>1, <1>2, <1>3, <2>2
    <3>2. s[2].eptr \in BOOLEAN
      BY <3>1 DEF Frames
    <3>. QED
      BY <2>2, <3>1, <3>2
  <2>. QED
    BY <2>1, <2>2
<1>9. stack' = [stack EXCEPT ![t] = z]
  BY DEF Pop, r, g
<1>. HIDE DEF z
<1>. QED
  BY <1>6, <1>7, <1>8, <1>9 DEF StackType, Others, Popped

\* Below the top of a stack there are only frames that wait for the one above.
LEMMA StackFacts ==
  ASSUME Layout, NEW t \in Threads, stack[t] # <<>>
  PROVE  /\ stack[t] \in Seq(Frames) /\ Len(stack[t]) \in 1 .. 3
         /\ Top(t) = stack[t][1]
         /\ \A n \in 1 .. Len(stack[t]) : stack[t][n] \in Frames
         /\ \A n \in 2 .. Len(stack[t]) : stack[t][n].at \in {"wait", "end", "inline"}
         /\ Len(stack[t]) = 3 => stack[t][3].at \in {"wait", "inline"}
<1>1. stack[t] \in Seq(Frames)
  BY DEF Layout, Typed
<1>2. /\ Len(stack[t]) \in 1 .. 3
      /\ Len(stack[t]) >= 2 => stack[t][2].at \in {"wait", "end", "inline"}
      /\ Len(stack[t]) = 3 => stack[t][3].at \in {"wait", "inline"}
  <2>. DEFINE s == stack[t]
  <2>0. Len(s) \in Nat \ {0}
    BY <1>1
  <2>1. CASE t \in Users
    <3>1. UserShape(s, t, made[t])
      BY <2>1 DEF Layout, Shapes
    <3>. HIDE DEF s
    <3>. QED
      BY <2>0, <3>1 DEF UserShape, Is, s
  <2>2. CASE t \in Workers
    <3>1. WorkerShape(s)
      BY <2>2 DEF Layout, Shapes
    <3>. HIDE DEF s
    <3>. QED
      BY <2>0, <3>1 DEF WorkerShape, s
  <2>. QED
    BY <2>1, <2>2, ThreadKinds
<1>. QED
  BY <1>1, <1>2 DEF Top

\* The frames that stay keep what was established.
LEMMA FramesStill ==
  ASSUME NEW f, FrameOK(f, num_tasks, pool),
         num_tasks[f.call] > 0 => num_tasks'[f.call] > 0, pool > 0 => pool' > 0
  PROVE  FrameOK(f, num_tasks', pool')
  BY DEF FrameOK

Growing == /\ \A c \in CallIds : num_tasks[c] > 0 => num_tasks'[c] > 0
           /\ pool > 0 => pool' > 0

LEMMA LayoutSwap ==
  ASSUME Layout, Typed', Growing, made' = made,
         NEW t \in Threads, stack[t] # <<>>, NEW f \in Frames,
         Others(t), Swapped(stack[t], stack'[t], f),
         \A u \in Threads : in_parallel_region_[u] => in_parallel_region_'[u],
         f.call = Top(t).call,
         \/ /\ Top(t).at \in OwnerKinds /\ f.at \in OwnerKinds
            /\ \/ f.at \in {"start", "inline"} \/ Top(t).at \notin {"start", "inline"}
               \/ ~ in_parallel_region_[t]
         \/ Top(t).at = "task" /\ f.at = "end" /\ f.id = Top(t).id,
         FrameOK(f, num_tasks', pool')
  PROVE  Layout'
<1>. DEFINE s == stack[t]
            z == stack'[t]
<1>1. s \in Seq(Frames) /\ z \in Seq(Frames) /\ Len(s) \in 1 .. 3 /\ Top(t) = s[1]
      /\ Len(z) = Len(s) /\ z[1] = f /\ (Len(s) >= 2 => z[2] = s[2]) /\ (Len(s) >= 3 => z[3] = s[3])
  BY StackFacts DEF Swapped, Typed
<1>2. Len(s) >= 2 /\ s[2].at = "end" => in_parallel_region_[t]
  BY DEF Layout, InRegion
<1>3. Shapes'
  <2>1. ASSUME t \in Users PROVE UserShape(z, t, made[t])
    <3>. HIDE DEF s, z
    <3>1. UserShape(s, t, made[t])
      BY <2>1 DEF Layout, Shapes, s
    <3>. QED
      BY <1>1, <1>2, <3>1 DEF UserShape, Own, Running, Is, OwnerKinds
  <2>2. ASSUME t \in Workers PROVE WorkerShape(z)
    <3>. HIDE DEF s, z
    <3>1. WorkerShape(s)
      BY <2>2 DEF Layout, Shapes, s
    <3>. QED
      BY <1>1, <1>2, <3>1 DEF WorkerShape, OwnerKinds
  <2>. QED
    BY <2>1, <2>2, ThreadKinds DEF Layout, Shapes, Others
<1>4. InRegion'
  BY <1>1, <1>2 DEF Layout, InRegion, Others
<1>5. FramesOK'
  <2>. SUFFICES ASSUME NEW u \in Threads, NEW n \in 1 .. Len(stack'[u])
                PROVE  FrameOK(stack'[u][n], num_tasks', pool')
    BY DEF FramesOK
  <2>1. CASE u = t /\ n = 1
    BY <1>1, <2>1
  <2>2. CASE ~ (u = t /\ n = 1)
    <3>1. stack'[u][n] = stack[u][n] /\ n \in 1 .. Len(stack[u]) /\ stack[u] \in Seq(Frames)
      BY <1>1, <2>2 DEF Swapped, Others, Layout, Typed
    <3>2. FrameOK(stack[u][n], num_tasks, pool) /\ stack[u][n].call \in CallIds
      <4>1. stack[u][n] \in Frames
        BY <3>1
      <4>. QED
        BY <3>1, <4>1 DEF Layout, FramesOK, Frames
    <3>. QED
      BY <3>1, <3>2, FramesStill DEF Growing
  <2>. QED
    BY <2>1, <2>2
<1>. QED
  BY <1>3, <1>4, <1>5 DEF Layout

LEMMA LayoutPush ==
  ASSUME Layout, Typed', Growing, made' = made,
         NEW t \in Threads, stack[t] # <<>>, NEW f \in Frames, NEW g \in Frames,
         Others(t), Pushed(stack[t], stack'[t], f, g),
         \A u \in Threads : in_parallel_region_[u] => in_parallel_region_'[u],
         g.at = "end" => in_parallel_region_'[t],
         g.call = Top(t).call,
         \/ Top(t).at = "submit" /\ g.at = "wait" /\ Running(f, g.call)
         \/ /\ Call(g.call).nests
            /\ \/ Top(t).at = "start" /\ g.at = "inline" /\ Is(f, "start", <<g.call[1], g.call[2], 1>>)
               \/ /\ Top(t).at = "task" /\ g.at = "end" /\ g.id = Top(t).id
                  /\ Is(f, "start", <<g.call[1], g.call[2], g.id + 1>>),
         FrameOK(f, num_tasks', pool'), FrameOK(g, num_tasks', pool')
  PROVE  Layout'
<1>. DEFINE s == stack[t]
            z == stack'[t]
<1>1. s \in Seq(Frames) /\ z \in Seq(Frames) /\ Len(s) \in 1 .. 3 /\ Top(t) = s[1]
      /\ Len(z) = Len(s) + 1 /\ z[1] = f /\ z[2] = g
      /\ (Len(s) >= 2 => z[3] = s[2]) /\ (Len(s) >= 3 => z[4] = s[3])
  <2>1. s \in Seq(Frames) /\ z \in Seq(Frames) /\ Len(s) \in 1 .. 3 /\ Top(t) = s[1]
    BY StackFacts DEF Typed
  <2>2. /\ Len(s) >= 2 => 2 \in 2 .. Len(s) /\ 2 + 1 = 3
        /\ Len(s) >= 3 => 3 \in 2 .. Len(s) /\ 3 + 1 = 4
    BY <2>1
  <2>3. (Len(s) >= 2 => z[2 + 1] = s[2]) /\ (Len(s) >= 3 => z[3 + 1] = s[3])
    BY <2>2 DEF Pushed
  <2>. QED
    BY <2>1, <2>3 DEF Pushed
<1>2. Call(g.call).nests => g.call[3] = 0
  BY CallFacts DEF Frames
<1>3. Shapes'
  <2>1. ASSUME t \in Users PROVE UserShape(z, t, made[t])
    <3>. HIDE DEF s, z
    <3>1. UserShape(s, t, made[t])
      BY <2>1 DEF Layout, Shapes, s
    <3>2. CASE s[1].at = "submit" /\ g.at = "wait" /\ Running(f, g.call)
      <4>1. \/ Len(s) = 1 /\ s[1].call = <<t, made[t], 0>>
            \/ Len(s) = 2 /\ s[1].call = <<t, made[t], 1>> /\ Is(s[2], "inline", <<t, made[t], 0>>)
        BY <1>1, <3>1, <3>2 DEF UserShape, Own, Running, OwnerKinds
      <4>. QED
        <5>0. g.call = s[1].call
          BY <1>1
        <5>1. CASE Len(s) = 1 /\ s[1].call = <<t, made[t], 0>>
          <6>1. Len(z) = 2 /\ Running(z[1], <<t, made[t], 0>>) /\ Is(z[2], "wait", <<t, made[t], 0>>)
            BY <1>1, <3>2, <5>0, <5>1 DEF Is
          <6>. QED
            BY <6>1 DEF UserShape
        <5>2. CASE Len(s) = 2 /\ s[1].call = <<t, made[t], 1>> /\ Is(s[2], "inline", <<t, made[t], 0>>)
          <6>1. Len(z) = 3 /\ Running(z[1], <<t, made[t], 1>>) /\ Is(z[2], "wait", <<t, made[t], 1>>)
                /\ Is(z[3], "inline", <<t, made[t], 0>>)
            BY <1>1, <3>2, <5>0, <5>2 DEF Is
          <6>. QED
            BY <6>1 DEF UserShape
        <5>. QED
          BY <4>1, <5>1, <5>2
    <3>3. CASE g.call[3] = 0 /\ s[1].at = "start" /\ g.at = "inline"
               /\ Is(f, "start", <<g.call[1], g.call[2], 1>>)
      <4>1. Len(s) = 1 /\ s[1].call = <<t, made[t], 0>>
        BY <1>1, <3>1, <3>3 DEF UserShape, Own, Running
      <4>. QED
        BY <1>1, <3>3, <4>1 DEF UserShape, Is, Own, OwnerKinds
    <3>4. CASE /\ g.call[3] = 0 /\ s[1].at = "task" /\ g.at = "end" /\ g.id = s[1].id
               /\ Is(f, "start", <<g.call[1], g.call[2], g.id + 1>>)
      <4>1. Len(s) = 2 /\ s[1].call = <<t, made[t], 0>> /\ s[1].id = 0
            /\ Is(s[2], "wait", <<t, made[t], 0>>)
        BY <1>1, <3>1, <3>4 DEF UserShape, Own, Running, OwnerKinds
      <4>. QED
        BY <1>1, <3>4, <4>1 DEF UserShape, Is
    <3>. QED
      BY <1>1, <1>2, <3>2, <3>3, <3>4
  <2>2. ASSUME t \in Workers PROVE WorkerShape(z)
    <3>. HIDE DEF s, z
    <3>1. WorkerShape(s)
      BY <2>2 DEF Layout, Shapes, s
    <3>. QED
      <4>1. s[1].at = "start" => Len(s) = 2 /\ g.call[3] > 0
        <5>1. Len(s) = 2 => s[2] \in Frames
          <6>1. s \in Seq(Frames) /\ (Len(s) = 2 => 2 \in 1 .. Len(s))
            BY <1>1
          <6>2. \A q \in Seq(Frames) : \A k \in 1 .. Len(q) : q[k] \in Frames
            OBVIOUS
          <6>. QED
            BY <6>1, <6>2
        <5>2. Len(s) = 2 => s[2].id \in Nat
          BY <5>1 DEF Frames
        <5>. QED
          BY <1>1, <3>1, <5>2 DEF WorkerShape
      <4>. QED
        BY <1>1, <1>2, <3>1, <4>1 DEF WorkerShape, OwnerKinds, Is
  <2>. QED
    BY <2>1, <2>2, ThreadKinds DEF Layout, Shapes, Others
<1>4. InRegion'
  BY <1>1 DEF Layout, InRegion, Others
<1>5. FramesOK'
  <2>. SUFFICES ASSUME NEW u \in Threads, NEW n \in 1 .. Len(stack'[u])
                PROVE  FrameOK(stack'[u][n], num_tasks', pool')
    BY DEF FramesOK
  <2>1. CASE u = t /\ n \in {1, 2}
    BY <1>1, <2>1
  <2>2. CASE u = t /\ n \notin {1, 2}
    <3>0. n \in 1 .. (Len(s) + 1) /\ Len(s) \in Nat
      BY <1>1, <2>2
    <3>1. n - 1 \in 2 .. Len(s) /\ n = (n - 1) + 1
      BY <2>2, <3>0
    <3>2. stack'[u][n] = s[n - 1] /\ n - 1 \in 1 .. Len(s)
      <4>1. \A k \in 2 .. Len(s) : z[k + 1] = s[k]
        BY DEF Pushed
      <4>2. z[(n - 1) + 1] = s[n - 1]
        BY <3>1, <4>1
      <4>. QED
        BY <2>2, <3>0, <3>1, <4>2
    <3>3. FrameOK(s[n - 1], num_tasks, pool) /\ s[n - 1].call \in CallIds
      <4>1. s[n - 1] \in Frames
        BY <1>1, <3>2
      <4>. QED
        BY <3>2, <4>1 DEF Layout, FramesOK, Frames
    <3>. QED
      BY <3>2, <3>3, FramesStill DEF Growing
  <2>3. CASE u # t
    <3>1. stack'[u][n] = stack[u][n] /\ n \in 1 .. Len(stack[u]) /\ stack[u] \in Seq(Frames)
      BY <2>3 DEF Others, Layout, Typed
    <3>2. FrameOK(stack[u][n], num_tasks, pool) /\ stack[u][n].call \in CallIds
      <4>1. stack[u][n] \in Frames
        BY <3>1
      <4>. QED
        BY <3>1, <4>1 DEF Layout, FramesOK, Frames
    <3>. QED
      BY <3>1, <3>2, FramesStill DEF Growing
  <2>. QED
    BY <2>1, <2>2, <2>3
<1>. QED
  BY <1>3, <1>4, <1>5 DEF Layout

LEMMA LayoutPop ==
  ASSUME Layout, Typed', Growing, made' = made,
         NEW t \in Threads, stack[t] # <<>>, NEW b,
         Others(t), Popped(stack[t], stack'[t], b),
         \A u \in Threads : u # t => in_parallel_region_'[u] = in_parallel_region_[u]
  PROVE  Layout'
<1>. DEFINE s == stack[t]
            z == stack'[t]
<1>1. /\ s \in Seq(Frames) /\ z \in Seq(Frames) /\ Len(s) \in 1 .. 3
      /\ Len(z) = Len(s) - 1
      /\ Len(s) >= 2 => z[1].at = s[2].at /\ z[1].call = s[2].call /\ z[1].id = s[2].id
      /\ Len(s) >= 3 => z[2] = s[3]
      /\ Len(s) >= 2 => s[2].at \in {"wait", "end", "inline"}
      /\ Len(s) >= 3 => s[3].at \in {"wait", "inline"}
  BY StackFacts DEF Popped, Typed
<1>2. Shapes'
  <2>1. ASSUME t \in Users PROVE UserShape(z, t, made[t])
    <3>. HIDE DEF s, z
    <3>1. UserShape(s, t, made[t])
      BY <2>1 DEF Layout, Shapes, s
    <3>. QED
      BY <1>1, <3>1 DEF UserShape, Own, Running, Is, OwnerKinds
  <2>2. ASSUME t \in Workers PROVE WorkerShape(z)
    <3>. HIDE DEF s, z
    <3>1. WorkerShape(s)
      BY <2>2 DEF Layout, Shapes, s
    <3>. QED
      BY <1>1, <3>1 DEF WorkerShape
  <2>. QED
    BY <2>1, <2>2, ThreadKinds DEF Layout, Shapes, Others
<1>3. InRegion'
  BY <1>1 DEF Layout, InRegion, Others
<1>4. FramesOK'
  <2>. SUFFICES ASSUME NEW u \in Threads, NEW n \in 1 .. Len(stack'[u])
                PROVE  FrameOK(stack'[u][n], num_tasks', pool')
    BY DEF FramesOK
  <2>1. CASE u = t /\ n = 1
    <3>1. 2 \in 1 .. Len(s) /\ s[2] \in Frames
      BY <1>1, <2>1
    <3>2. FrameOK(s[2], num_tasks', pool')
      BY <3>1, FramesStill DEF Layout, FramesOK, Growing, Frames
    <3>. QED
      BY <1>1, <2>1, <3>1, <3>2 DEF FrameOK
  <2>2. CASE u = t /\ n # 1
    <3>1. n \in 2 .. Len(z) /\ n + 1 \in 1 .. Len(s)
      BY <1>1, <2>2
    <3>2. stack'[u][n] = s[n + 1]
      BY <2>2, <3>1 DEF Popped
    <3>3. FrameOK(s[n + 1], num_tasks, pool) /\ s[n + 1].call \in CallIds
      <4>1. s[n + 1] \in Frames
        BY <1>1, <3>1
      <4>. QED
        BY <3>1, <4>1 DEF Layout, FramesOK, Frames
    <3>. QED
      BY <3>2, <3>3, FramesStill DEF Growing
  <2>3. CASE u # t
    <3>1. stack'[u][n] = stack[u][n] /\ n \in 1 .. Len(stack[u]) /\ stack[u] \in Seq(Frames)
      BY <2>3 DEF Others, Layout, Typed
    <3>2. FrameOK(stack[u][n], num_tasks, pool) /\ stack[u][n].call \in CallIds
      <4>1. stack[u][n] \in Frames
        BY <3>1
      <4>. QED
        BY <3>1, <4>1 DEF Layout, FramesOK, Frames
    <3>. QED
      BY <3>1, <3>2, FramesStill DEF Growing
  <2>. QED
    BY <2>1, <2>2, <2>3
<1>. QED
  BY <1>2, <1>3, <1>4 DEF Layout

-----------------------------------------------------------------------------
(* What each step does to the stacks. *)

ThreadCount == get_num_threads \in 1 .. MaxThreads

LEMMA ThreadCountType ==
  ASSUME Typed
  PROVE  ThreadCount
<1>1. CASE num_intraop_threads \in SetTo
  BY <1>1, ParallelAssumption, MaxThreadsType DEF ThreadCount, get_num_threads
<1>2. CASE num_intraop_threads = NOT_SET
  BY <1>2, ParallelAssumption, MaxThreadsType DEF ThreadCount, get_num_threads, NOT_SET
<1>3. CASE num_intraop_threads = CONSUMED
  BY <1>3, MaxThreadsType DEF Typed, ThreadCount, get_num_threads, NOT_SET, CONSUMED
<1>. QED
  BY <1>1, <1>2, <1>3 DEF Typed

LEMMA TopFacts ==
  ASSUME Layout, NEW t \in Threads, stack[t] # <<>>
  PROVE  /\ StackType /\ Top(t) \in Frames /\ Top(t) = stack[t][1]
         /\ Top(t).at \in FrameKinds /\ Top(t).call \in CallIds /\ Top(t).id \in Nat
         /\ FrameOK(Top(t), num_tasks, pool)
<1>1. /\ stack[t] \in Seq(Frames) /\ Len(stack[t]) \in 1 .. 3 /\ Top(t) = stack[t][1]
      /\ \A n \in 1 .. Len(stack[t]) : stack[t][n] \in Frames
  BY StackFacts
<1>2. 1 \in 1 .. Len(stack[t])
  BY <1>1
<1>3. Top(t) \in Frames
  BY <1>1, <1>2
<1>. QED
  BY <1>1, <1>2, <1>3 DEF Layout, Typed, StackType, FramesOK, Frames

LEMMA FrameType ==
  ASSUME NEW at \in FrameKinds, NEW c \in CallIds, NEW i \in Nat
  PROVE  Frame(at, c, i) \in Frames
<1>1. FALSE \in BOOLEAN
  OBVIOUS
<1>. QED
  BY <1>1 DEF Frame, Frames

LEMMA MovedFrame ==
  ASSUME NEW f \in Frames, NEW at \in FrameKinds, NEW i \in Nat
  PROVE  /\ [f EXCEPT !.at = at] \in Frames
         /\ [f EXCEPT !.at = at].at = at /\ [f EXCEPT !.at = at].call = f.call
         /\ [f EXCEPT !.at = at].id = f.id /\ [f EXCEPT !.at = at].eptr = f.eptr
         /\ [f EXCEPT !.at = at, !.id = i] \in Frames
         /\ [f EXCEPT !.at = at, !.id = i].at = at /\ [f EXCEPT !.at = at, !.id = i].call = f.call
         /\ [f EXCEPT !.at = at, !.id = i].id = i /\ [f EXCEPT !.at = at, !.id = i].eptr = f.eptr
  BY DEF Frames

\* The call at the top of t is over, with an exception if b.
CallEnds(t, b) ==
  /\ stack[t] # <<>> /\ EndCall(t, b)
  /\ \/ Top(t).at = "start" /\ Call(Top(t).call).size = 0 /\ b = FALSE
     \/ Top(t).at \in {"start", "size", "calc"} /\ Broken /\ b = TRUE
     \/ Top(t).at = "submit" /\ Broken /\ b = TRUE
     \/ Top(t).at = "wait" /\ Top(t).id >= num_tasks[Top(t).call] /\ b = Top(t).eptr
     \/ Top(t).at = "inline" /\ b = Top(t).eptr
  /\ UNCHANGED <<poolVars, in_parallel_region_, made, callVars, visits, thrown, sets, late>>

LEMMA EndingSteps ==
  ASSUME Layout, NEW t \in Threads,
         ReturnAtOnce(t) \/ Enforce(t) \/ PoolThrows(t) \/ Finish(t)
  PROVE  \E b \in BOOLEAN : CallEnds(t, b)
<1>1. stack[t] # <<>>
  BY DEF ReturnAtOnce, Enforce, PoolThrows, Finish, At
<1>2. Top(t).eptr \in BOOLEAN
  <2>1. Top(t) \in Frames
    BY <1>1, TopFacts
  <2>. QED
    BY <2>1 DEF Frames
<1>3. ReturnAtOnce(t) => CallEnds(t, FALSE)
  BY <1>1 DEF ReturnAtOnce, CallEnds, At
<1>4. Enforce(t) => CallEnds(t, TRUE)
  BY <1>1 DEF Enforce, CallEnds, At
<1>5. PoolThrows(t) => CallEnds(t, TRUE)
  BY <1>1 DEF PoolThrows, CallEnds, At
<1>6. Finish(t) => CallEnds(t, Top(t).eptr)
  BY <1>1 DEF Finish, CallEnds, At
<1>. QED
  BY <1>2, <1>3, <1>4, <1>5, <1>6

LEMMA CallEndsEffect ==
  ASSUME Layout, NEW t \in Threads, NEW b \in BOOLEAN, CallEnds(t, b)
  PROVE  Layout' /\ Others(t) /\ Popped(stack[t], stack'[t], b)
<1>0. stack[t] # <<>> /\ Pop(t, b) /\ StackType /\ Top(t).call \in CallIds
  BY TopFacts DEF CallEnds, EndCall
<1>1. StackType' /\ Others(t) /\ Popped(stack[t], stack'[t], b)
  BY <1>0, PopEffect
<1>2. outcome' \in [CallIds -> {"none", "returned", "threw"}]
  BY <1>0 DEF CallEnds, EndCall, Layout, Typed
<1>3. Typed'
  BY <1>1, <1>2 DEF CallEnds, Layout, Typed, StackType, poolVars, callVars
<1>4. Growing /\ made' = made /\ in_parallel_region_' = in_parallel_region_
  BY DEF CallEnds, Growing, poolVars, callVars
<1>5. Layout'
  BY <1>0, <1>1, <1>3, <1>4, LayoutPop
<1>. QED
  BY <1>1, <1>5

LEMMA StartEffect ==
  ASSUME Layout, NEW t \in Threads, Start(t)
  PROVE  /\ Layout' /\ Others(t) /\ stack[t] # <<>>
         /\ \E f \in Frames : /\ Swapped(stack[t], stack'[t], f) /\ f.call = Top(t).call
                              /\ Top(t).at = "start" /\ f.at \in {"size", "calc"}
                              /\ f.eptr = Top(t).eptr
                              /\ f.at = "calc" => Call(f.call).kind # "reduce"
<1>. DEFINE at == IF Call(Top(t).call).kind = "reduce" THEN "size" ELSE "calc"
            f == [Top(t) EXCEPT !.at = at]
<1>0. stack[t] # <<>> /\ Top(t).at = "start" /\ Replace(t, f)
      /\ Call(Top(t).call).size > 0 /\ ~ in_parallel_region_[t]
  BY DEF Start, At, Inline, in_parallel_region
<1>1. /\ StackType /\ Top(t) \in Frames /\ FrameOK(Top(t), num_tasks, pool)
  BY <1>0, TopFacts
<1>2. at \in {"size", "calc"} /\ at \in FrameKinds /\ 0 \in Nat
  BY DEF FrameKinds
<1>. HIDE DEF at
<1>3. /\ f \in Frames /\ f.at = at /\ f.call = Top(t).call /\ f.id = Top(t).id
      /\ f.eptr = Top(t).eptr
  BY <1>1, <1>2, MovedFrame
<1>. HIDE DEF f
<1>4. StackType' /\ Others(t) /\ Swapped(stack[t], stack'[t], f)
  BY <1>0, <1>1, <1>3, ReplaceEffect
<1>5. Typed'
  BY <1>4 DEF Start, Layout, Typed, StackType, poolVars, callVars
<1>6. Growing /\ made' = made /\ in_parallel_region_' = in_parallel_region_
      /\ num_tasks' = num_tasks /\ pool' = pool
  BY DEF Start, Growing, poolVars, callVars
<1>7. FrameOK(f, num_tasks', pool')
  BY <1>0, <1>1, <1>2, <1>3, <1>6 DEF FrameOK
<1>8. Layout'
  BY <1>0, <1>2, <1>3, <1>4, <1>5, <1>6, <1>7, LayoutSwap DEF OwnerKinds
<1>. QED
  BY <1>0, <1>2, <1>3, <1>4, <1>8 DEF at

LEMMA SizeEffect ==
  ASSUME Layout, NEW t \in Threads, Size(t)
  PROVE  /\ Layout' /\ Others(t) /\ stack[t] # <<>>
         /\ \E f \in Frames : /\ Swapped(stack[t], stack'[t], f) /\ f.call = Top(t).call
                              /\ Top(t).at = "size" /\ f.at = "calc" /\ f.eptr = Top(t).eptr
<1>. DEFINE f == [Top(t) EXCEPT !.at = "calc"]
<1>0. stack[t] # <<>> /\ Top(t).at = "size" /\ Replace(t, f)
  BY DEF Size, At
<1>1. /\ StackType /\ Top(t) \in Frames /\ FrameOK(Top(t), num_tasks, pool)
  BY <1>0, TopFacts
<1>2. "calc" \in FrameKinds /\ 0 \in Nat
  BY DEF FrameKinds
<1>3. /\ f \in Frames /\ f.at = "calc" /\ f.call = Top(t).call /\ f.id = Top(t).id
      /\ f.eptr = Top(t).eptr
  BY <1>1, <1>2, MovedFrame
<1>. HIDE DEF f
<1>4. StackType' /\ Others(t) /\ Swapped(stack[t], stack'[t], f)
  BY <1>0, <1>1, <1>3, ReplaceEffect
<1>5. Typed'
  BY <1>4 DEF Size, Layout, Typed, StackType, poolVars
<1>6. Growing /\ made' = made /\ in_parallel_region_' = in_parallel_region_
      /\ num_tasks' = num_tasks /\ pool' = pool
  BY DEF Size, Growing, poolVars
<1>7. FrameOK(f, num_tasks', pool')
  BY <1>0, <1>1, <1>2, <1>3, <1>6 DEF FrameOK
<1>8. Layout'
  BY <1>0, <1>2, <1>3, <1>4, <1>5, <1>6, <1>7, LayoutSwap DEF OwnerKinds
<1>. QED
  BY <1>0, <1>2, <1>3, <1>4, <1>8

LEMMA CalcEffect ==
  ASSUME Layout, NEW t \in Threads, Calc(t)
  PROVE  /\ Layout' /\ Others(t) /\ stack[t] # <<>>
         /\ NumTasks(Call(Top(t).call).size, Call(Top(t).call).grain) \in 1 .. get_num_threads
         /\ ChunkSize(Call(Top(t).call).size, Call(Top(t).call).grain) \in Nat \ {0}
         /\ Call(Top(t).call).size <= NumTasks(Call(Top(t).call).size, Call(Top(t).call).grain)
                                        * ChunkSize(Call(Top(t).call).size, Call(Top(t).call).grain)
         /\ \E f \in Frames : /\ Swapped(stack[t], stack'[t], f) /\ f.call = Top(t).call
                              /\ Top(t).at = "calc" /\ f.at = "submit" /\ f.id = 1
                              /\ f.eptr = Top(t).eptr
<1>. DEFINE f == [Top(t) EXCEPT !.at = "submit", !.id = 1]
            c == Top(t).call
            n == NumTasks(Call(c).size, Call(c).grain)
<1>0. stack[t] # <<>> /\ Top(t).at = "calc" /\ Replace(t, f)
  BY DEF Calc, At
<1>1. /\ StackType /\ Top(t) \in Frames /\ FrameOK(Top(t), num_tasks, pool) /\ c \in CallIds
  BY <1>0, TopFacts
<1>2. "submit" \in FrameKinds /\ 1 \in Nat
  BY DEF FrameKinds
<1>3. /\ f \in Frames /\ f.at = "submit" /\ f.call = c /\ f.id = 1 /\ f.eptr = Top(t).eptr
  BY <1>1, <1>2 DEF Frames
<1>. HIDE DEF f
<1>4. StackType' /\ Others(t) /\ Swapped(stack[t], stack'[t], f)
  BY <1>0, <1>1, <1>3, ReplaceEffect
<1>5. Call(c).size \in Nat \ {0} /\ Call(c).grain \in Nat \ {0}
  BY <1>0, <1>1, CallFacts DEF FrameOK
<1>6. get_num_threads \in 1 .. MaxThreads
  BY ThreadCountType DEF Layout, ThreadCount
<1>7. /\ n \in 1 .. get_num_threads /\ ChunkSize(Call(c).size, Call(c).grain) \in Nat \ {0}
      /\ Call(c).size <= n * ChunkSize(Call(c).size, Call(c).grain)
  <2>1. get_num_threads \in Nat \ {0}
    BY <1>6, MaxThreadsType
  <2>. QED
    BY <1>5, <2>1, CutBounds
<1>8. n \in 0 .. MaxThreads /\ n > 0
  BY <1>6, <1>7, MaxThreadsType
<1>9. num_tasks' = [num_tasks EXCEPT ![c] = n]
  BY DEF Calc
<1>. HIDE DEF n, c
<1>10. Typed'
  BY <1>1, <1>4, <1>8, <1>9 DEF Calc, Layout, Typed, StackType, poolVars
<1>11. Growing /\ made' = made /\ in_parallel_region_' = in_parallel_region_ /\ pool' = pool
       /\ num_tasks'[c] = n
  BY <1>1, <1>8, <1>9 DEF Calc, Growing, poolVars, Layout, Typed
<1>12. FrameOK(f, num_tasks', pool')
  BY <1>0, <1>1, <1>3, <1>5, <1>8, <1>11 DEF FrameOK
<1>13. Layout'
  BY <1>0, <1>3, <1>4, <1>10, <1>11, <1>12, LayoutSwap DEF OwnerKinds, c
<1>. QED
  BY <1>0, <1>3, <1>4, <1>7, <1>13 DEF c, n

LEMMA SubmitEffect ==
  ASSUME Layout, NEW t \in Threads, Submit(t)
  PROVE  /\ Layout' /\ Others(t) /\ stack[t] # <<>>
         /\ Top(t).id \in 1 .. (MaxThreads - 1) /\ Top(t).id < num_tasks[Top(t).call]
         /\ tasks_' = Append(tasks_, [call |-> Top(t).call, id |-> Top(t).id])
         /\ \E f \in Frames : /\ Swapped(stack[t], stack'[t], f) /\ f.call = Top(t).call
                              /\ Top(t).at = "submit" /\ f.at = "submit"
                              /\ f.id = Top(t).id + 1 /\ f.eptr = Top(t).eptr
<1>. DEFINE i == Top(t).id
            c == Top(t).call
            f == [Top(t) EXCEPT !.id = @ + 1]
<1>0. /\ stack[t] # <<>> /\ Top(t).at = "submit" /\ Replace(t, f) /\ i < num_tasks[c] /\ pool > 0
      /\ tasks_' = Append(tasks_, [call |-> c, id |-> i])
      /\ future' = [future EXCEPT ![c][i] = "pending"]
  BY DEF Submit, At
<1>1. /\ StackType /\ Top(t) \in Frames /\ FrameOK(Top(t), num_tasks, pool) /\ c \in CallIds
      /\ i \in Nat
  BY <1>0, TopFacts
<1>2. num_tasks[c] \in 0 .. MaxThreads /\ 1 <= i /\ num_tasks[c] > 0 /\ Call(c).size > 0
      /\ ~ Top(t).eptr
  BY <1>0, <1>1 DEF Layout, Typed, FrameOK
<1>3. i \in 1 .. (MaxThreads - 1) /\ i \in TaskIds /\ i \in 0 .. (MaxThreads - 1)
  BY <1>0, <1>1, <1>2, MaxThreadsType DEF TaskIds
<1>4. /\ f \in Frames /\ f.at = "submit" /\ f.call = c /\ f.id = i + 1 /\ f.eptr = Top(t).eptr
  BY <1>0, <1>1 DEF Frames
<1>. HIDE DEF f, i, c
<1>5. StackType' /\ Others(t) /\ Swapped(stack[t], stack'[t], f)
  BY <1>0, <1>1, <1>4, ReplaceEffect
<1>6. tasks_' \in Seq(TaskType)
  <2>1. [call |-> c, id |-> i] \in TaskType
    BY <1>1, <1>3 DEF TaskType
  <2>. QED
    BY <1>0, <2>1 DEF Layout, Typed
<1>7. future' \in [CallIds -> [TaskIds -> {"none", "pending", "value", "error"}]]
  BY <1>0, <1>1, <1>3 DEF Layout, Typed
<1>8. Typed'
  BY <1>5, <1>6, <1>7 DEF Submit, Layout, Typed, StackType
<1>9. Growing /\ made' = made /\ in_parallel_region_' = in_parallel_region_
      /\ num_tasks' = num_tasks /\ pool' = pool
  BY DEF Submit, Growing
<1>10. FrameOK(f, num_tasks', pool')
  BY <1>0, <1>1, <1>2, <1>4, <1>9 DEF FrameOK
<1>11. Layout'
  BY <1>0, <1>4, <1>5, <1>8, <1>9, <1>10, LayoutSwap DEF OwnerKinds, c
<1>. QED
  BY <1>0, <1>3, <1>4, <1>5, <1>11 DEF c, i

LEMMA OwnTaskEffect ==
  ASSUME Layout, NEW t \in Threads, OwnTask(t)
  PROVE  /\ Layout' /\ Others(t) /\ stack[t] # <<>>
         /\ \E f, g \in Frames : /\ Pushed(stack[t], stack'[t], f, g)
                                 /\ Top(t).at = "submit" /\ Top(t).id >= num_tasks[Top(t).call]
                                 /\ f = Frame("task", Top(t).call, 0)
                                 /\ g.at = "wait" /\ g.call = Top(t).call /\ g.id = 1
                                 /\ g.eptr = Top(t).eptr
<1>. DEFINE c == Top(t).call
            f == Frame("task", c, 0)
            g == [Top(t) EXCEPT !.at = "wait", !.id = 1]
<1>0. stack[t] # <<>> /\ Top(t).at = "submit" /\ Push(t, f, g) /\ Top(t).id >= num_tasks[c]
  BY DEF OwnTask, At
<1>1. /\ StackType /\ Top(t) \in Frames /\ FrameOK(Top(t), num_tasks, pool) /\ c \in CallIds
  BY <1>0, TopFacts
<1>2. "wait" \in FrameKinds /\ "task" \in FrameKinds /\ 1 \in Nat /\ 0 \in Nat
  BY DEF FrameKinds
<1>3. /\ g \in Frames /\ g.at = "wait" /\ g.call = c /\ g.id = 1 /\ g.eptr = Top(t).eptr
  BY <1>1, <1>2 DEF Frames
<1>4. f \in Frames /\ f.at = "task" /\ f.call = c /\ f.id = 0 /\ f.eptr = FALSE
  BY <1>1, <1>2, FrameType DEF Frame
<1>. HIDE DEF f, g, c
<1>5. StackType' /\ Others(t) /\ Pushed(stack[t], stack'[t], f, g)
  BY <1>0, <1>1, <1>3, <1>4, PushEffect
<1>6. Typed'
  BY <1>5 DEF OwnTask, Layout, Typed, StackType, poolVars, callVars
<1>7. Growing /\ made' = made /\ in_parallel_region_' = in_parallel_region_
      /\ num_tasks' = num_tasks /\ pool' = pool
  BY DEF OwnTask, Growing, poolVars, callVars
<1>8. FrameOK(f, num_tasks', pool') /\ FrameOK(g, num_tasks', pool')
  BY <1>0, <1>1, <1>3, <1>4, <1>7, MaxThreadsType DEF FrameOK, c
<1>9. Layout'
  BY <1>0, <1>3, <1>4, <1>5, <1>6, <1>7, <1>8, LayoutPush DEF Running, c
<1>. QED
  BY <1>0, <1>3, <1>4, <1>5, <1>9 DEF c, f

LEMMA GetEffect ==
  ASSUME Layout, NEW t \in Threads, Get(t)
  PROVE  /\ Layout' /\ Others(t) /\ stack[t] # <<>>
         /\ \E f \in Frames : /\ Swapped(stack[t], stack'[t], f) /\ f.call = Top(t).call
                              /\ Top(t).at = "wait" /\ f.at = "wait" /\ f.id = Top(t).id + 1
                              /\ Top(t).id < num_tasks[Top(t).call]
                              /\ future[Top(t).call][Top(t).id] \in {"value", "error"}
                              /\ f.eptr = (Top(t).eptr \/ future[Top(t).call][Top(t).id] = "error")
<1>. DEFINE c == Top(t).call
            i == Top(t).id
            e == future[c][i] = "error"
            b == Top(t).eptr \/ e
            f == [Top(t) EXCEPT !.id = @ + 1, !.eptr = b]
<1>0. /\ stack[t] # <<>> /\ Top(t).at = "wait" /\ Replace(t, f) /\ i < num_tasks[c]
      /\ future[c][i] \in {"value", "error"}
  BY DEF Get, At
<1>1. /\ StackType /\ Top(t) \in Frames /\ FrameOK(Top(t), num_tasks, pool) /\ c \in CallIds
      /\ i \in Nat
  BY <1>0, TopFacts
<1>2. b \in BOOLEAN
  OBVIOUS
<1>. HIDE DEF b
<1>3. /\ f \in Frames /\ f.at = "wait" /\ f.call = c /\ f.id = i + 1
  <2>1. i + 1 \in Nat
    BY <1>1
  <2>2. f \in Frames
    BY <1>1, <1>2, <2>1 DEF Frames
  <2>. QED
    BY <1>0, <1>1, <2>2 DEF Frames
<1>4. f.eptr = b
  BY <1>1 DEF Frames
<1>. HIDE DEF f, c, i
<1>5. StackType' /\ Others(t) /\ Swapped(stack[t], stack'[t], f)
  BY <1>0, <1>1, <1>3, ReplaceEffect
<1>6. Typed'
  BY <1>5 DEF Get, Layout, Typed, StackType, poolVars, callVars
<1>7. Growing /\ made' = made /\ in_parallel_region_' = in_parallel_region_
      /\ num_tasks' = num_tasks /\ pool' = pool
  BY DEF Get, Growing, poolVars, callVars
<1>8. FrameOK(f, num_tasks', pool')
  BY <1>0, <1>1, <1>3, <1>7 DEF FrameOK, c
<1>9. Layout'
  BY <1>0, <1>3, <1>5, <1>6, <1>7, <1>8, LayoutSwap DEF OwnerKinds, c
<1>. QED
  BY <1>0, <1>3, <1>4, <1>5, <1>9 DEF c, i, b

\* The outcomes of a body: it threw or is done, and the thread goes on in g; or
\* it made its call.
BodyStays(t, c, i, f, g) ==
  /\ f \in Frames /\ Swapped(stack[t], stack'[t], f)
  /\ f.at = g.at /\ f.call = c /\ f.id = g.id
  /\ \/ f.eptr /\ thrown' = thrown \union {<<c, i>>}
     \/ f = g /\ thrown' = thrown /\ ~ Call(c).nests
BodyCalls(t, c, i, f, g) ==
  /\ f \in Frames /\ Pushed(stack[t], stack'[t], f, g)
  /\ f = Frame("start", <<c[1], c[2], i + 1>>, 0)
  /\ <<c[1], c[2], i + 1>> \in CallIds /\ c[3] = 0
  /\ Call(c).nests /\ thrown' = thrown

LEMMA BodyEffect ==
  ASSUME Layout, NEW t \in Threads, stack[t] # <<>>, NEW i \in Nat, i < MaxThreads,
         NEW g \in Frames, NEW xs, Body(t, g.call, i, xs, g)
  PROVE  /\ StackType' /\ Others(t)
         /\ \E f \in Frames : BodyStays(t, g.call, i, f, g) \/ BodyCalls(t, g.call, i, f, g)
<1>. DEFINE c == g.call
<1>0. StackType /\ c \in CallIds /\ Call(c).nests \in BOOLEAN
  BY TopFacts, CallFacts DEF Frames
<1>. HIDE DEF c
<1>1. \/ thrown' = thrown \union {<<c, i>>} /\ Replace(t, [g EXCEPT !.eptr = TRUE])
      \/ thrown' = thrown /\ ~ Call(c).nests /\ Replace(t, g)
      \/ thrown' = thrown /\ Call(c).nests /\ Push(t, Frame("start", <<c[1], c[2], i + 1>>, 0), g)
  BY DEF Body, c
<1>2. CASE thrown' = thrown \union {<<c, i>>} /\ Replace(t, [g EXCEPT !.eptr = TRUE])
  <2>. DEFINE f == [g EXCEPT !.eptr = TRUE]
  <2>0. TRUE \in BOOLEAN
    OBVIOUS
  <2>1. f \in Frames /\ f.at = g.at /\ f.call = g.call /\ f.id = g.id
    BY <2>0 DEF Frames
  <2>2. f.eptr = TRUE
    BY DEF Frames
  <2>. HIDE DEF f
  <2>3. StackType' /\ Others(t) /\ Swapped(stack[t], stack'[t], f)
    BY <1>0, <1>2, <2>1, ReplaceEffect DEF f
  <2>. QED
    BY <1>2, <2>1, <2>2, <2>3 DEF BodyStays, c
<1>3. CASE thrown' = thrown /\ ~ Call(c).nests /\ Replace(t, g)
  <2>1. StackType' /\ Others(t) /\ Swapped(stack[t], stack'[t], g)
    BY <1>0, <1>3, ReplaceEffect
  <2>. QED
    BY <1>3, <2>1 DEF BodyStays, c
<1>4. CASE thrown' = thrown /\ Call(c).nests
           /\ Push(t, Frame("start", <<c[1], c[2], i + 1>>, 0), g)
  <2>. DEFINE d == <<c[1], c[2], i + 1>>
              f == Frame("start", d, 0)
  <2>1. d \in CallIds /\ c[3] = 0
    BY <1>0, <1>4, NestedCall
  <2>2. "start" \in FrameKinds /\ 0 \in Nat
    BY DEF FrameKinds
  <2>. HIDE DEF d
  <2>3. f \in Frames
    BY <2>1, <2>2, FrameType
  <2>. HIDE DEF f
  <2>4. StackType' /\ Others(t) /\ Pushed(stack[t], stack'[t], f, g)
    BY <1>0, <1>4, <2>3, PushEffect DEF f, d
  <2>. QED
    BY <1>4, <2>1, <2>3, <2>4 DEF BodyCalls, c, f, d
<1>. QED
  BY <1>1, <1>2, <1>3, <1>4

LEMMA RunInlineEffect ==
  ASSUME Layout, NEW t \in Threads, RunInline(t)
  PROVE  /\ Layout' /\ Others(t) /\ stack[t] # <<>> /\ Top(t).at = "start"
         /\ \E f, g \in Frames :
              /\ g.at = "inline" /\ g.call = Top(t).call /\ g.eptr = Top(t).eptr
              /\ BodyStays(t, g.call, 0, f, g) \/ BodyCalls(t, g.call, 0, f, g)
<1>. DEFINE g == [Top(t) EXCEPT !.at = "inline"]
            c == Top(t).call
<1>0. /\ stack[t] # <<>> /\ Top(t).at = "start"
      /\ Body(t, c, 0, DOMAIN visits[c], g)
  BY DEF RunInline, At
<1>1. /\ StackType /\ Top(t) \in Frames /\ FrameOK(Top(t), num_tasks, pool) /\ c \in CallIds
  BY <1>0, TopFacts
<1>2. "inline" \in FrameKinds /\ 0 \in Nat /\ 0 < MaxThreads
  BY MaxThreadsType DEF FrameKinds
<1>3. /\ g \in Frames /\ g.at = "inline" /\ g.call = c /\ g.id = Top(t).id /\ g.eptr = Top(t).eptr
  BY <1>1, <1>2 DEF Frames
<1>. HIDE DEF g
<1>4. /\ StackType' /\ Others(t)
      /\ \E f \in Frames : BodyStays(t, c, 0, f, g) \/ BodyCalls(t, c, 0, f, g)
  BY <1>0, <1>2, <1>3, BodyEffect
<1>5. PICK f \in Frames : BodyStays(t, c, 0, f, g) \/ BodyCalls(t, c, 0, f, g)
  BY <1>4
<1>6. Typed'
  BY <1>4 DEF RunInline, Layout, Typed, StackType, poolVars, callVars
<1>7. Growing /\ made' = made /\ in_parallel_region_' = in_parallel_region_
      /\ num_tasks' = num_tasks /\ pool' = pool
  BY DEF RunInline, Growing, poolVars, callVars
<1>. HIDE DEF c
<1>8. CASE BodyStays(t, c, 0, f, g)
  <2>1. FrameOK(f, num_tasks', pool')
    BY <1>3, <1>8 DEF FrameOK, BodyStays
  <2>2. Layout'
    BY <1>0, <1>3, <1>4, <1>6, <1>7, <1>8, <2>1, LayoutSwap DEF OwnerKinds, BodyStays, c
  <2>. QED
    BY <1>0, <1>3, <1>4, <1>8, <2>2 DEF c
<1>9. CASE BodyCalls(t, c, 0, f, g)
  <2>0. /\ f.at = "start" /\ f.call = <<c[1], c[2], 1>> /\ f.eptr = FALSE
        /\ Pushed(stack[t], stack'[t], f, g) /\ Call(c).nests
    BY <1>9 DEF BodyCalls, Frame
  <2>1. FrameOK(f, num_tasks', pool') /\ FrameOK(g, num_tasks', pool')
    BY <1>3, <2>0 DEF FrameOK
  <2>2. Layout'
    BY <1>0, <1>3, <1>4, <1>6, <1>7, <2>0, <2>1, LayoutPush DEF Is, c
  <2>. QED
    BY <1>0, <1>3, <1>4, <1>9, <2>2 DEF c
<1>. QED
  BY <1>5, <1>8, <1>9

\* The range of the task is empty.
NoBody(t, f, g) == f = g /\ Swapped(stack[t], stack'[t], f) /\ UNCHANGED <<thrown, visits>>

LEMMA TaskBeginEffect ==
  ASSUME Layout, NEW t \in Threads, TaskBegin(t)
  PROVE  /\ Layout' /\ Others(t) /\ stack[t] # <<>> /\ Top(t).at = "task"
         /\ Top(t).id < MaxThreads
         /\ \E f, g \in Frames :
              /\ g.at = "end" /\ g.call = Top(t).call /\ g.id = Top(t).id /\ g.eptr = Top(t).eptr
              /\ \/ BodyStays(t, g.call, g.id, f, g) \/ BodyCalls(t, g.call, g.id, f, g)
                 \/ NoBody(t, f, g)
<1>. DEFINE g == [Top(t) EXCEPT !.at = "end"]
            c == Top(t).call
            i == Top(t).id
<1>0. /\ stack[t] # <<>> /\ Top(t).at = "task"
      /\ \/ /\ in_parallel_region_' = [in_parallel_region_ EXCEPT ![t] = TRUE]
            /\ Body(t, c, i, Range(c, i), g)
         \/ /\ Replace(t, g) /\ UNCHANGED <<in_parallel_region_, visits, thrown>>
      /\ UNCHANGED <<poolVars, made, callVars, outcome, sets, late>>
  BY DEF TaskBegin, At
<1>1. /\ StackType /\ Top(t) \in Frames /\ FrameOK(Top(t), num_tasks, pool) /\ c \in CallIds
      /\ i \in Nat /\ i < MaxThreads
  BY <1>0, TopFacts DEF FrameOK
<1>2. "end" \in FrameKinds /\ TRUE \in BOOLEAN
  BY DEF FrameKinds
<1>3. /\ g \in Frames /\ g.at = "end" /\ g.call = c /\ g.id = i /\ g.eptr = Top(t).eptr
  BY <1>1, <1>2 DEF Frames
<1>. HIDE DEF g, i, c
<1>4. Growing /\ made' = made /\ num_tasks' = num_tasks /\ pool' = pool
  BY <1>0 DEF Growing, poolVars, callVars
<1>5. CASE /\ in_parallel_region_' = [in_parallel_region_ EXCEPT ![t] = TRUE]
           /\ Body(t, c, i, Range(c, i), g)
  <2>1. /\ StackType' /\ Others(t)
        /\ \E f \in Frames : BodyStays(t, c, i, f, g) \/ BodyCalls(t, c, i, f, g)
    BY <1>0, <1>1, <1>3, <1>5, BodyEffect
  <2>2. PICK f \in Frames : BodyStays(t, c, i, f, g) \/ BodyCalls(t, c, i, f, g)
    BY <2>1
  <2>3. in_parallel_region_' \in [Threads -> BOOLEAN]
    BY <1>2, <1>5 DEF Layout, Typed
  <2>4. in_parallel_region_'[t] /\ \A u \in Threads : in_parallel_region_[u] => in_parallel_region_'[u]
    BY <1>5 DEF Layout, Typed
  <2>5. Typed'
    BY <1>0, <2>1, <2>3 DEF Layout, Typed, StackType, poolVars, callVars
  <2>6. CASE BodyStays(t, c, i, f, g)
    <3>1. FrameOK(f, num_tasks', pool')
      BY <1>1, <1>3, <2>6 DEF FrameOK, BodyStays
    <3>2. Layout'
      BY <1>0, <1>3, <1>4, <2>1, <2>4, <2>5, <2>6, <3>1, LayoutSwap DEF BodyStays, c, i
    <3>. QED
      BY <1>0, <1>1, <1>3, <2>1, <2>6, <3>2 DEF c, i
  <2>7. CASE BodyCalls(t, c, i, f, g)
    <3>0. /\ f.at = "start" /\ f.call = <<c[1], c[2], i + 1>> /\ f.eptr = FALSE
          /\ Pushed(stack[t], stack'[t], f, g) /\ Call(c).nests
      BY <2>7 DEF BodyCalls, Frame
    <3>1. FrameOK(f, num_tasks', pool') /\ FrameOK(g, num_tasks', pool')
      BY <1>1, <1>3, <3>0 DEF FrameOK
    <3>2. Layout'
      BY <1>0, <1>3, <1>4, <2>1, <2>4, <2>5, <3>0, <3>1, LayoutPush DEF Is, c, i
    <3>. QED
      BY <1>0, <1>1, <1>3, <2>1, <2>7, <3>2 DEF c, i
  <2>. QED
    BY <2>2, <2>6, <2>7
<1>6. CASE Replace(t, g) /\ UNCHANGED <<in_parallel_region_, visits, thrown>>
  <2>1. StackType' /\ Others(t) /\ Swapped(stack[t], stack'[t], g)
    BY <1>0, <1>1, <1>3, <1>6, ReplaceEffect
  <2>2. Typed'
    BY <1>0, <1>6, <2>1 DEF Layout, Typed, StackType, poolVars, callVars
  <2>3. FrameOK(g, num_tasks', pool')
    BY <1>1, <1>3 DEF FrameOK
  <2>4. Layout'
    BY <1>0, <1>3, <1>4, <1>6, <2>1, <2>2, <2>3, LayoutSwap DEF c, i
  <2>5. NoBody(t, g, g)
    BY <1>6, <2>1 DEF NoBody
  <2>. QED
    BY <1>0, <1>1, <1>3, <2>1, <2>4, <2>5 DEF c, i
<1>. QED
  BY <1>0, <1>5, <1>6

LEMMA TaskEndEffect ==
  ASSUME Layout, NEW t \in Threads, TaskEnd(t)
  PROVE  /\ Layout' /\ Others(t) /\ stack[t] # <<>> /\ Top(t).at = "end"
         /\ Top(t).id < MaxThreads
         /\ Popped(stack[t], stack'[t], Top(t).eptr /\ Top(t).id = 0)
<1>. DEFINE b == Top(t).eptr /\ Top(t).id = 0
            c == Top(t).call
            i == Top(t).id
            r == TaskResult(Top(t))
<1>0. /\ stack[t] # <<>> /\ Top(t).at = "end" /\ Pop(t, b)
      /\ future' = IF i = 0 THEN future ELSE [future EXCEPT ![c][i] = r]
      /\ in_parallel_region_' = [in_parallel_region_ EXCEPT ![t] = FALSE]
  BY DEF TaskEnd, At
<1>1. /\ StackType /\ Top(t) \in Frames /\ FrameOK(Top(t), num_tasks, pool) /\ c \in CallIds
      /\ i \in Nat /\ i < MaxThreads
  BY <1>0, TopFacts DEF FrameOK
<1>2. b \in BOOLEAN /\ FALSE \in BOOLEAN
  OBVIOUS
<1>3. r \in {"value", "error"} /\ i \in TaskIds
  BY <1>1, MaxThreadsType DEF TaskResult, TaskIds
<1>. HIDE DEF b, c, i, r
<1>4. StackType' /\ Others(t) /\ Popped(stack[t], stack'[t], b)
  BY <1>0, <1>1, <1>2, PopEffect
<1>5. future' \in [CallIds -> [TaskIds -> {"none", "pending", "value", "error"}]]
  BY <1>0, <1>1, <1>3 DEF Layout, Typed
<1>6. /\ in_parallel_region_' \in [Threads -> BOOLEAN]
      /\ \A u \in Threads : u # t => in_parallel_region_'[u] = in_parallel_region_[u]
  BY <1>0, <1>2 DEF Layout, Typed
<1>7. Typed'
  BY <1>4, <1>5, <1>6 DEF TaskEnd, Layout, Typed, StackType, poolVars
<1>8. Growing /\ made' = made
  BY DEF TaskEnd, Growing, poolVars
<1>9. Layout'
  BY <1>0, <1>4, <1>6, <1>7, <1>8, LayoutPop
<1>. QED
  BY <1>0, <1>1, <1>4, <1>9 DEF b, i

LEMMA MakeEffect ==
  ASSUME Layout, NEW u \in Users, Make(u)
  PROVE  /\ Layout' /\ Others(u) /\ stack[u] = <<>>
         /\ made' = [made EXCEPT ![u] = @ + 1]
         /\ <<u, made[u] + 1, 0>> \in CallIds
         /\ stack'[u] = <<Frame("start", <<u, made[u] + 1, 0>>, 0)>>
<1>. DEFINE c == <<u, made[u] + 1, 0>>
            f == Frame("start", c, 0)
<1>0. /\ stack[u] = <<>> /\ made[u] < Len(Program[u]) /\ made' = [made EXCEPT ![u] = @ + 1]
      /\ stack' = [stack EXCEPT ![u] = <<f>>]
  BY DEF Make
<1>1. u \in Threads /\ made[u] \in Nat /\ made' \in [Users -> Nat]
  BY <1>0, ThreadKinds DEF Layout, Typed
<1>2. c \in CallIds
  <2>1. Program[u] \in Seq(CallType)
    BY ParallelAssumption
  <2>2. made[u] + 1 \in 1 .. Len(Program[u]) /\ 0 \in 0 .. MaxThreads
    BY <1>0, <1>1, <2>1, MaxThreadsType
  <2>. QED
    BY <2>2, CallMember
<1>3. f \in Frames /\ f.at = "start" /\ f.call = c /\ f.eptr = FALSE
  <2>1. "start" \in FrameKinds /\ 0 \in Nat
    BY DEF FrameKinds
  <2>. HIDE DEF c
  <2>. QED
    BY <1>2, <2>1, FrameType DEF Frame
<1>. HIDE DEF f
<1>4. <<f>> \in Seq(Frames) /\ Len(<<f>>) = 1 /\ <<f>>[1] = f
  BY <1>3
<1>5. stack' \in [Threads -> Seq(Frames)] /\ Others(u) /\ stack'[u] = <<f>>
  BY <1>0, <1>1, <1>4 DEF Layout, Typed, Others
<1>6. Typed'
  BY <1>1, <1>5 DEF Make, Layout, Typed, poolVars, callVars
<1>7. Shapes'
  <2>1. UserShape(stack'[u], u, made'[u])
    <3>1. made'[u] = made[u] + 1
      BY <1>0, <1>1 DEF Layout, Typed
    <3>2. Len(stack'[u]) = 1 /\ stack'[u][1] = f
      BY <1>4, <1>5
    <3>. QED
      BY <1>3, <3>1, <3>2 DEF UserShape, Own, OwnerKinds
  <2>2. ASSUME NEW v \in Users, v # u PROVE stack'[v] = stack[v] /\ made'[v] = made[v]
    BY <1>0, <1>5, <2>2, ThreadKinds DEF Layout, Typed, Others
  <2>3. ASSUME NEW w \in Workers PROVE stack'[w] = stack[w]
    BY <1>5, ThreadKinds DEF Others
  <2>. QED
    BY <2>1, <2>2, <2>3 DEF Layout, Shapes
<1>8. InRegion'
  BY <1>4, <1>5 DEF Make, Layout, InRegion, Others
<1>9. FramesOK'
  <2>1. num_tasks' = num_tasks /\ pool' = pool
    BY DEF Make, poolVars, callVars
  <2>2. FrameOK(f, num_tasks, pool)
    BY <1>3 DEF FrameOK
  <2>3. ASSUME NEW t \in Threads, NEW n \in 1 .. Len(stack'[t])
        PROVE  FrameOK(stack'[t][n], num_tasks, pool)
    <3>1. CASE t = u
      BY <1>4, <1>5, <2>2, <3>1
    <3>2. CASE t # u
      BY <1>5, <3>2 DEF Others, Layout, FramesOK
    <3>. QED
      BY <3>1, <3>2
  <2>. QED
    BY <2>1, <2>3 DEF FramesOK
<1>. QED
  BY <1>0, <1>2, <1>5, <1>6, <1>7, <1>8, <1>9 DEF Layout, f

LEMMA TakeEffect ==
  ASSUME Layout, NEW w \in Workers, Take(w)
  PROVE  /\ Layout' /\ Others(w) /\ stack[w] = <<>> /\ tasks_ # <<>>
         /\ Head(tasks_) \in TaskType /\ tasks_' = Tail(tasks_)
         /\ stack'[w] = <<Frame("task", Head(tasks_).call, Head(tasks_).id)>>
<1>. DEFINE q == Head(tasks_)
            f == Frame("task", q.call, q.id)
<1>0. /\ stack[w] = <<>> /\ tasks_ # <<>> /\ tasks_' = Tail(tasks_)
      /\ stack' = [stack EXCEPT ![w] = <<f>>]
  BY DEF Take
<1>1. w \in Threads /\ w \notin Users
  BY ThreadKinds
<1>2. q \in TaskType /\ tasks_' \in Seq(TaskType)
  BY <1>0 DEF Layout, Typed
<1>3. q.call \in CallIds /\ q.id \in Nat /\ q.id > 0 /\ q.id < MaxThreads
  BY <1>2, MaxThreadsType DEF TaskType
<1>4. f \in Frames /\ f.at = "task" /\ f.call = q.call /\ f.id = q.id /\ f.eptr = FALSE
  <2>1. "task" \in FrameKinds
    BY DEF FrameKinds
  <2>. QED
    BY <1>3, <2>1, FrameType DEF Frame
<1>. HIDE DEF f, q
<1>5. <<f>> \in Seq(Frames) /\ Len(<<f>>) = 1 /\ <<f>>[1] = f
  BY <1>4
<1>6. stack' \in [Threads -> Seq(Frames)] /\ Others(w) /\ stack'[w] = <<f>>
  BY <1>0, <1>1, <1>5 DEF Layout, Typed, Others
<1>7. Typed'
  BY <1>2, <1>6 DEF Take, Layout, Typed, callVars
<1>8. Shapes'
  <2>1. WorkerShape(stack'[w])
    BY <1>3, <1>4, <1>5, <1>6 DEF WorkerShape
  <2>2. ASSUME NEW v \in Threads, v # w PROVE stack'[v] = stack[v]
    BY <1>6, <2>2 DEF Others
  <2>3. made' = made
    BY DEF Take
  <2>. QED
    BY <1>1, <2>1, <2>2, <2>3, ThreadKinds DEF Layout, Shapes
<1>9. InRegion'
  BY <1>5, <1>6 DEF Take, Layout, InRegion, Others
<1>10. FramesOK'
  <2>1. num_tasks' = num_tasks /\ pool' = pool
    BY DEF Take, callVars
  <2>2. FrameOK(f, num_tasks, pool)
    BY <1>3, <1>4 DEF FrameOK
  <2>3. ASSUME NEW t \in Threads, NEW n \in 1 .. Len(stack'[t])
        PROVE  FrameOK(stack'[t][n], num_tasks, pool)
    <3>1. CASE t = w
      BY <1>5, <1>6, <2>2, <3>1
    <3>2. CASE t # w
      BY <1>6, <3>2 DEF Others, Layout, FramesOK
    <3>. QED
      BY <3>1, <3>2
  <2>. QED
    BY <2>1, <2>3 DEF FramesOK
<1>. QED
  BY <1>0, <1>2, <1>6, <1>7, <1>8, <1>9, <1>10 DEF Layout, f, q

\* A step that leaves the stacks alone.
LEMMA LayoutStill ==
  ASSUME Layout, Typed', Growing, UNCHANGED <<stack, made, in_parallel_region_>>
  PROVE  Layout'
<1>1. FramesOK'
  <2>. SUFFICES ASSUME NEW t \in Threads, NEW n \in 1 .. Len(stack[t])
                PROVE  FrameOK(stack[t][n], num_tasks', pool')
    BY DEF FramesOK
  <2>1. stack[t] \in Seq(Frames)
    BY DEF Layout, Typed
  <2>2. stack[t][n] \in Frames
    BY <2>1
  <2>. QED
    BY <2>2, FramesStill DEF Growing, Layout, FramesOK, Frames
<1>. QED
  BY <1>1 DEF Layout, Shapes, InRegion

\* The steps that change only the pool or the number of threads.
PoolStep == \/ \E t \in Threads : CreatePool(t)
            \/ \E w \in Workers : WorkLoopEnds(w)
            \/ Stop
            \/ \E n \in SetTo : set_num_threads(n)

LEMMA PoolStepEffect ==
  ASSUME Layout, PoolStep
  PROVE  /\ Layout' /\ Growing
         /\ UNCHANGED <<tasks_, stack, in_parallel_region_, made, callVars, visits, thrown, outcome>>
<1>1. ASSUME NEW t \in Threads, CreatePool(t) PROVE Typed' /\ Growing
  <2>1. num_intraop_threads # CONSUMED /\ pool = 0 /\ pool' = PoolThreads
        /\ num_intraop_threads' = CONSUMED
    BY <1>1 DEF CreatePool, Broken
  <2>2. PoolThreads \in 0 .. (MaxThreads - 1)
    <3>1. num_intraop_threads \in {NOT_SET} \union SetTo
      BY <2>1 DEF Layout, Typed
    <3>. QED
      <4>1. \A n \in SetTo \union {DefaultThreads} : n \in Nat \ {0} /\ n - 1 \in 0 .. (MaxThreads - 1)
        BY MaxThreadsType, ParallelAssumption
      <4>. QED
        BY <3>1, <4>1 DEF PoolThreads, NOT_SET
  <2>3. Typed'
    BY <1>1, <2>1, <2>2 DEF CreatePool, Layout, Typed, callVars
  <2>. QED
    BY <1>1, <2>1, <2>3 DEF CreatePool, Growing, callVars
<1>2. ASSUME NEW w \in Workers, WorkLoopEnds(w) PROVE Typed' /\ Growing
  BY <1>2 DEF WorkLoopEnds, Layout, Typed, Growing, callVars
<1>3. ASSUME Stop PROVE Typed' /\ Growing
  BY <1>3 DEF Stop, Layout, Typed, Growing, callVars
<1>4. ASSUME NEW n \in SetTo, set_num_threads(n) PROVE Typed' /\ Growing
  BY <1>4 DEF set_num_threads, Layout, Typed, Growing, callVars
<1>5. UNCHANGED <<tasks_, stack, in_parallel_region_, made, callVars, visits, thrown, outcome>>
  BY DEF PoolStep, CreatePool, WorkLoopEnds, Stop, set_num_threads
<1>6. Typed' /\ Growing
  BY <1>1, <1>2, <1>3, <1>4 DEF PoolStep
<1>. QED
  BY <1>5, <1>6, LayoutStill

\* Every step is of one of these kinds.
LEMMA StepKinds ==
  ASSUME Layout, Next
  PROVE  \/ \E u \in Users : Make(u)
         \/ \E t \in Threads : \/ Start(t) \/ Size(t) \/ Calc(t) \/ Submit(t) \/ OwnTask(t)
                               \/ Get(t) \/ RunInline(t) \/ TaskBegin(t) \/ TaskEnd(t)
                               \/ \E b \in BOOLEAN : CallEnds(t, b)
         \/ \E w \in Workers : Take(w)
         \/ PoolStep
  BY EndingSteps DEF Next, ThreadStep, PoolStep

LEMMA LayoutNext ==
  ASSUME Layout, Next
  PROVE  Layout'
  BY StepKinds, MakeEffect, StartEffect, SizeEffect, CalcEffect, SubmitEffect, OwnTaskEffect,
     GetEffect, RunInlineEffect, TaskBeginEffect, TaskEndEffect, CallEndsEffect, TakeEffect,
     PoolStepEffect

LEMMA LayoutInit ==
  ASSUME Init
  PROVE  Layout
<1>1. Typed
  <2>1. FALSE \in BOOLEAN
    OBVIOUS
  <2>2. in_parallel_region_ \in [Threads -> BOOLEAN]
    BY <2>1 DEF Init
  <2>. QED
    BY <2>2, MaxThreadsType DEF Init, Typed
<1>2. \A t \in Threads : stack[t] = <<>> /\ Len(stack[t]) = 0
  BY DEF Init
<1>3. Shapes
  BY <1>2, ThreadKinds DEF Shapes, UserShape, WorkerShape
<1>. QED
  BY <1>1, <1>2, <1>3 DEF Layout, InRegion, FramesOK

-----------------------------------------------------------------------------
(* Tasks in flight. *)

\* The frame of call d on the stack of its user.
OwnerOf(d) == stack[d[1]][Len(stack[d[1]]) - d[3]]

\* The call d still has to wait for its task i.
Live(d, i) ==
  /\ d[3] \in {0, 1} /\ d[3] < Len(stack[d[1]]) /\ OwnerOf(d).call = d
  /\ \/ OwnerOf(d).at = "submit" /\ i < OwnerOf(d).id
     \/ OwnerOf(d).at = "wait" /\ OwnerOf(d).id <= i
  /\ 0 < i /\ i < num_tasks[d]

InFlight(d, i) == Live(d, i) /\ future[d][i] = "pending"

Busy(w) == Len(stack[w]) > 0
Bottom(w) == stack[w][Len(stack[w])]
Same(a, b) == a.call = b.call /\ a.id = b.id

\* Task i of call d is in the queue, or run by worker w.
Queued(d, i) == \E j \in 1 .. Len(tasks_) : tasks_[j].call = d /\ tasks_[j].id = i
RunBy(w, d, i) == Busy(w) /\ Bottom(w).call = d /\ Bottom(w).id = i

\* A task that is queued or run by a worker is waited for.
Flight ==
  \A d \in CallIds, i \in Nat :
    Queued(d, i) \/ (\E w \in Workers : RunBy(w, d, i)) => InFlight(d, i)

\* It is in one place.
OnePlace ==
  /\ \A j, k \in 1 .. Len(tasks_) : Same(tasks_[j], tasks_[k]) => j = k
  /\ \A d \in CallIds, i \in Nat : \A w \in Workers : RunBy(w, d, i) =>
       /\ ~ Queued(d, i)
       /\ \A v \in Workers : RunBy(v, d, i) => v = w

LEMMA LiveSwap ==
  ASSUME Layout, NEW d \in CallIds, NEW i, Live(d, i), num_tasks'[d] = num_tasks[d],
         NEW t \in Threads, NEW f, Others(t), Swapped(stack[t], stack'[t], f),
         t = d[1] /\ Len(stack[t]) - d[3] = 1 =>
           /\ f.call = d
           /\ (f.at = "submit" /\ i < f.id) \/ (f.at = "wait" /\ f.id <= i)
  PROVE  Live(d, i)'
<1>1. d[1] \in Threads /\ stack[d[1]] \in Seq(Frames) /\ Len(stack[d[1]]) \in Nat
      /\ d[3] \in Nat /\ d[3] < Len(stack[d[1]])
  BY CallType3, ThreadKinds DEF Layout, Typed, Live
<1>2. CASE t # d[1]
  BY <1>1, <1>2 DEF Live, OwnerOf, Others
<1>3. CASE t = d[1]
  <2>. DEFINE n == Len(stack[t]) - d[3]
  <2>1. n \in 1 .. Len(stack[t]) /\ Len(stack'[t]) = Len(stack[t])
    BY <1>1, <1>3 DEF Swapped
  <2>2. n = 1 => stack'[t][n] = f
    BY DEF Swapped
  <2>3. n # 1 => stack'[t][n] = stack[t][n]
    BY <2>1 DEF Swapped
  <2>. QED
    BY <1>3, <2>1, <2>2, <2>3 DEF Live, OwnerOf
<1>. QED
  BY <1>2, <1>3

LEMMA LivePush ==
  ASSUME Layout, NEW d \in CallIds, NEW i, Live(d, i), num_tasks'[d] = num_tasks[d],
         NEW t \in Threads, NEW f, NEW g, Others(t), Pushed(stack[t], stack'[t], f, g),
         t = d[1] /\ Len(stack[t]) - d[3] = 1 =>
           /\ g.call = d
           /\ (g.at = "submit" /\ i < g.id) \/ (g.at = "wait" /\ g.id <= i)
  PROVE  Live(d, i)'
<1>1. d[1] \in Threads /\ stack[d[1]] \in Seq(Frames) /\ Len(stack[d[1]]) \in Nat
      /\ d[3] \in Nat /\ d[3] < Len(stack[d[1]])
  BY CallType3, ThreadKinds DEF Layout, Typed, Live
<1>2. CASE t # d[1]
  BY <1>1, <1>2 DEF Live, OwnerOf, Others
<1>3. CASE t = d[1]
  <2>. DEFINE n == Len(stack[t]) - d[3]
  <2>1. n \in 1 .. Len(stack[t]) /\ Len(stack'[t]) = Len(stack[t]) + 1
        /\ Len(stack'[t]) - d[3] = n + 1 /\ d[3] < Len(stack'[t])
    <3>1. Len(stack[t]) \in Nat /\ d[3] \in Nat /\ d[3] < Len(stack[t])
      BY <1>1, <1>3
    <3>2. Len(stack'[t]) = Len(stack[t]) + 1
      BY DEF Pushed
    <3>. QED
      BY <3>1, <3>2
  <2>2. n = 1 => stack'[t][n + 1] = g
    BY DEF Pushed
  <2>3. n # 1 => stack'[t][n + 1] = stack[t][n]
    BY <2>1 DEF Pushed
  <2>4. OwnerOf(d)' = stack'[t][n + 1] /\ OwnerOf(d) = stack[t][n]
    BY <1>3, <2>1 DEF OwnerOf
  <2>. HIDE DEF n
  <2>5. CASE n = 1
    BY <1>1, <1>3, <2>1, <2>2, <2>4, <2>5 DEF Live, n
  <2>6. CASE n # 1
    BY <1>1, <1>3, <2>1, <2>3, <2>4, <2>6 DEF Live
  <2>. QED
    BY <2>5, <2>6
<1>. QED
  BY <1>2, <1>3

LEMMA LivePop ==
  ASSUME Layout, NEW d \in CallIds, NEW i, Live(d, i), num_tasks'[d] = num_tasks[d],
         NEW t \in Threads, NEW b, Others(t), Popped(stack[t], stack'[t], b),
         t = d[1] => Len(stack[t]) - d[3] # 1
  PROVE  Live(d, i)'
<1>1. d[1] \in Threads /\ stack[d[1]] \in Seq(Frames) /\ Len(stack[d[1]]) \in Nat
      /\ d[3] \in Nat /\ d[3] < Len(stack[d[1]])
  BY CallType3, ThreadKinds DEF Layout, Typed, Live
<1>2. CASE t # d[1]
  BY <1>1, <1>2 DEF Live, OwnerOf, Others
<1>3. CASE t = d[1]
  <2>. DEFINE n == Len(stack[t]) - d[3]
  <2>1. n \in 2 .. Len(stack[t]) /\ Len(stack'[t]) = Len(stack[t]) - 1
        /\ Len(stack'[t]) - d[3] = n - 1 /\ d[3] < Len(stack'[t])
    <3>1. Len(stack[t]) \in Nat /\ d[3] \in Nat /\ d[3] < Len(stack[t]) /\ n # 1
      BY <1>1, <1>3
    <3>2. Len(stack'[t]) = Len(stack[t]) - 1
      BY DEF Popped
    <3>3. \A l, k \in Nat : k < l /\ l - k # 1
                           => l - k \in 2 .. l /\ (l - 1) - k = (l - k) - 1 /\ k < l - 1
      OBVIOUS
    <3>. QED
      BY <3>1, <3>2, <3>3
  <2>2. /\ stack'[t][n - 1].at = stack[t][n].at /\ stack'[t][n - 1].call = stack[t][n].call
        /\ stack'[t][n - 1].id = stack[t][n].id
    <3>1. CASE n = 2
      <4>1. Len(stack[t]) > 1 /\ n - 1 = 1
        BY <2>1, <3>1
      <4>. QED
        BY <3>1, <4>1 DEF Popped
    <3>2. CASE n # 2
      <4>1. n - 1 \in 2 .. Len(stack'[t]) /\ (n - 1) + 1 = n
        BY <2>1, <3>2
      <4>. QED
        BY <4>1 DEF Popped
    <3>. QED
      BY <3>1, <3>2
  <2>3. OwnerOf(d)' = stack'[t][n - 1] /\ OwnerOf(d) = stack[t][n]
    BY <1>3, <2>1 DEF OwnerOf
  <2>. QED
    BY <1>3, <2>1, <2>2, <2>3 DEF Live
<1>. QED
  BY <1>2, <1>3

\* The frame of a call that waits for a task: alone on the user's stack, above the
\* body that runs inline, or below the frame of task 0.
LEMMA OwnerPlace ==
  ASSUME Layout, NEW d \in CallIds, NEW i \in Nat, Live(d, i)
  PROVE  LET s == stack[d[1]]
             n == Len(s) - d[3]
         IN  /\ d[1] \in Users /\ s # <<>> /\ n \in 1 .. Len(s)
             /\ n = 1 => /\ Top(d[1]) = OwnerOf(d) /\ Top(d[1]).call = d
                         /\ Top(d[1]).at \in {"submit", "wait"}
                         /\ Top(d[1]).at = "submit" => pool > 0
                         /\ Top(d[1]).at = "wait" => Top(d[1]).id < num_tasks[d]
             /\ n # 1 => Top(d[1]).at \in {"task", "end", "start", "inline"}
<1>. DEFINE u == d[1]
            s == stack[u]
            n == Len(s) - d[3]
<1>1. u \in Users /\ u \in Threads /\ s \in Seq(Frames) /\ Len(s) \in Nat /\ d[3] \in {0, 1}
      /\ d[3] < Len(s) /\ d = <<u, d[2], d[3]>> /\ num_tasks[d] \in Nat
  BY CallType3, ThreadKinds DEF Layout, Typed, Live
<1>2. s # <<>> /\ n \in 1 .. Len(s)
  BY <1>1
<1>3. Top(u) = s[1] /\ FrameOK(Top(u), num_tasks, pool) /\ Top(u).id \in Nat
  BY <1>1, <1>2, TopFacts
<1>4. s[n].call = d /\ s[n].at \in {"submit", "wait"}
  BY DEF Live, OwnerOf
<1>5. n = 1 => /\ Top(u) = OwnerOf(d) /\ Top(u).call = d /\ Top(u).at \in {"submit", "wait"}
  BY <1>3, <1>4 DEF OwnerOf
<1>6. n = 1 => /\ Top(u).at = "submit" => pool > 0
               /\ Top(u).at = "wait" => Top(u).id < num_tasks[d]
  BY <1>1, <1>3, <1>5 DEF Live, FrameOK
<1>7. n # 1 => Top(u).at \in {"task", "end", "start", "inline"}
  <2>1. UserShape(s, u, made[u])
    BY <1>1 DEF Layout, Shapes
  <2>. HIDE DEF s
  <2>. QED
    BY <1>1, <1>2, <1>3, <1>4, <2>1 DEF UserShape, Running, Is, Own
<1>. QED
  BY <1>1, <1>2, <1>5, <1>6, <1>7

\* The calls on the stack of a user are its own; a worker is in no call of its own.
LEMMA TopCall ==
  ASSUME Layout, NEW t \in Threads, stack[t] # <<>>
  PROVE  /\ t \in Users => /\ Top(t).call[1] = t /\ Top(t).call[2] = made[t]
                           /\ Top(t).call[3] \in {0, 1}
                           /\ Top(t).at \in OwnerKinds => Len(stack[t]) - Top(t).call[3] = 1
                                                          \/ Top(t).at \in {"start", "inline"}
         /\ t \in Workers => /\ Top(t).at \in {"task", "end", "start", "inline"}
                             /\ Top(t).at \in {"task", "end"} <=> Len(stack[t]) = 1
<1>. DEFINE s == stack[t]
<1>1. s \in Seq(Frames) /\ Len(s) \in 1 .. 3 /\ Top(t) = s[1]
  BY StackFacts
<1>2. ASSUME t \in Users PROVE UserShape(s, t, made[t])
  BY <1>2 DEF Layout, Shapes
<1>3. ASSUME t \in Workers PROVE WorkerShape(s)
  BY <1>3 DEF Layout, Shapes
<1>. HIDE DEF s
<1>4. t \in Users => /\ Top(t).call[1] = t /\ Top(t).call[2] = made[t] /\ Top(t).call[3] \in {0, 1}
                     /\ Top(t).at \in OwnerKinds => Len(s) - Top(t).call[3] = 1
                                                    \/ Top(t).at \in {"start", "inline"}
  <2>. SUFFICES ASSUME t \in Users
                PROVE  /\ Top(t).call[1] = t /\ Top(t).call[2] = made[t] /\ Top(t).call[3] \in {0, 1}
                       /\ Top(t).at \in OwnerKinds => Len(s) - Top(t).call[3] = 1
                                                      \/ Top(t).at \in {"start", "inline"}
    OBVIOUS
  <2>1. \/ s[1].call = <<t, made[t], 0>> /\ Len(s) = 1
        \/ s[1].call = <<t, made[t], 0>> /\ s[1].at \in {"task", "end"}
        \/ s[1].call = <<t, made[t], 1>> /\ Len(s) = 2
        \/ s[1].call = <<t, made[t], 1>> /\ s[1].at \in {"task", "end", "start", "inline"}
    BY <1>1, <1>2 DEF UserShape, Own, Running
  <2>2. <<t, made[t], 0>>[1] = t /\ <<t, made[t], 0>>[2] = made[t] /\ <<t, made[t], 0>>[3] = 0
        /\ <<t, made[t], 1>>[1] = t /\ <<t, made[t], 1>>[2] = made[t] /\ <<t, made[t], 1>>[3] = 1
    OBVIOUS
  <2>3. CASE s[1].call = <<t, made[t], 0>> /\ Len(s) = 1
    BY <1>1, <2>2, <2>3
  <2>4. CASE s[1].call = <<t, made[t], 1>> /\ Len(s) = 2
    BY <1>1, <2>2, <2>4
  <2>5. CASE /\ s[1].call \in {<<t, made[t], 0>>, <<t, made[t], 1>>}
             /\ s[1].at \in {"task", "end", "start", "inline"}
    BY <1>1, <2>2, <2>5 DEF OwnerKinds
  <2>. QED
    BY <2>1, <2>3, <2>4, <2>5
<1>5. t \in Workers => /\ Top(t).at \in {"task", "end", "start", "inline"}
                       /\ Top(t).at \in {"task", "end"} <=> Len(s) = 1
  BY <1>1, <1>3 DEF WorkerShape
<1>. QED
  BY <1>4, <1>5 DEF s

\* The call d takes the result of its task i.
Fetched(d, i) == \E t \in Threads : Get(t) /\ Top(t).call = d /\ Top(t).id = i

\* A call goes on waiting for a task until it takes its result.
LEMMA LiveNext ==
  ASSUME Layout, NEW d \in CallIds, NEW i \in Nat, Live(d, i), Next, ~ Fetched(d, i)
  PROVE  Live(d, i)'
<1>. DEFINE u == d[1]
            n == Len(stack[u]) - d[3]
<1>0. /\ u \in Users /\ u \in Threads /\ stack[u] # <<>>
      /\ n = 1 => /\ Top(u) = OwnerOf(d) /\ Top(u).call = d /\ Top(u).at \in {"submit", "wait"}
                  /\ Top(u).at = "submit" => pool > 0
                  /\ Top(u).at = "wait" => Top(u).id < num_tasks[d]
      /\ n # 1 => Top(u).at \in {"task", "end", "start", "inline"}
  BY OwnerPlace, ThreadKinds
<1>1. /\ n = 1 /\ Top(u).at = "submit" => i < Top(u).id
      /\ n = 1 /\ Top(u).at = "wait" => Top(u).id <= i
      /\ 0 < i
  BY <1>0 DEF Live
<1>2. Top(u).id \in Nat
  BY <1>0, TopFacts
<1>. HIDE DEF n, u
<1>3. ASSUME NEW v \in Users, Make(v) PROVE Live(d, i)'
  <2>1. Others(v) /\ stack[v] = <<>> /\ num_tasks' = num_tasks
    BY <1>3, MakeEffect DEF Make, callVars
  <2>2. stack'[u] = stack[u]
    BY <1>0, <2>1 DEF Others
  <2>. QED
    BY <2>1, <2>2 DEF Live, OwnerOf, u
<1>4. ASSUME NEW t \in Threads, Start(t) \/ Size(t) PROVE Live(d, i)'
  <2>1. /\ Others(t) /\ num_tasks' = num_tasks /\ Top(t).at \in {"start", "size"}
        /\ \E f \in Frames : Swapped(stack[t], stack'[t], f)
    BY <1>4, StartEffect, SizeEffect DEF Start, Size, callVars
  <2>. QED
    BY <1>0, <2>1, LiveSwap DEF u, n
<1>5. ASSUME NEW t \in Threads, Calc(t) PROVE Live(d, i)'
  <2>1. /\ Others(t) /\ stack[t] # <<>> /\ Top(t).at = "calc"
        /\ \E f \in Frames : Swapped(stack[t], stack'[t], f)
    BY <1>5, CalcEffect
  <2>2. t # u
    BY <1>0, <2>1
  <2>3. Top(t).call # d
    BY <2>1, <2>2, TopCall, ThreadKinds DEF u
  <2>4. num_tasks'[d] = num_tasks[d]
    BY <1>5, <2>3 DEF Calc, Layout, Typed
  <2>. QED
    BY <2>1, <2>2, <2>4, LiveSwap DEF u
<1>6. ASSUME NEW t \in Threads, Submit(t) PROVE Live(d, i)'
  <2>1. /\ Others(t) /\ Top(t).at = "submit" /\ num_tasks' = num_tasks
    BY <1>6, SubmitEffect DEF Submit
  <2>2. PICK f \in Frames : /\ Swapped(stack[t], stack'[t], f) /\ f.call = Top(t).call
                            /\ f.at = "submit" /\ f.id = Top(t).id + 1
    BY <1>6, SubmitEffect
  <2>3. t = u /\ n = 1 => f.call = d /\ f.at = "submit" /\ i < f.id
    BY <1>0, <1>1, <1>2, <2>1, <2>2
  <2>. QED
    BY <2>1, <2>2, <2>3, LiveSwap DEF u, n
<1>7. ASSUME NEW t \in Threads, OwnTask(t) PROVE Live(d, i)'
  <2>1. /\ Others(t) /\ Top(t).at = "submit" /\ num_tasks' = num_tasks
    BY <1>7, OwnTaskEffect DEF OwnTask, callVars
  <2>2. PICK f \in Frames, g \in Frames :
          /\ Pushed(stack[t], stack'[t], f, g) /\ g.call = Top(t).call
          /\ g.at = "wait" /\ g.id = 1
    BY <1>7, OwnTaskEffect
  <2>3. t = u /\ n = 1 => g.call = d /\ g.at = "wait" /\ g.id <= i
    BY <1>0, <1>1, <2>1, <2>2
  <2>. QED
    BY <2>1, <2>2, <2>3, LivePush DEF u, n
<1>8. ASSUME NEW t \in Threads, Get(t) PROVE Live(d, i)'
  <2>1. /\ Others(t) /\ Top(t).at = "wait" /\ num_tasks' = num_tasks
    BY <1>8, GetEffect DEF Get, callVars
  <2>2. PICK f \in Frames : /\ Swapped(stack[t], stack'[t], f) /\ f.call = Top(t).call
                            /\ f.at = "wait" /\ f.id = Top(t).id + 1
    BY <1>8, GetEffect
  <2>3. Top(t).call = d => Top(t).id # i
    BY <1>8 DEF Fetched
  <2>4. t = u /\ n = 1 => f.call = d /\ f.at = "wait" /\ f.id <= i
    BY <1>0, <1>1, <1>2, <2>1, <2>2, <2>3
  <2>. QED
    BY <2>1, <2>2, <2>4, LiveSwap DEF u, n
<1>9. ASSUME NEW t \in Threads, RunInline(t) \/ TaskBegin(t) PROVE Live(d, i)'
  <2>1. /\ Others(t) /\ Top(t).at \in {"start", "task"} /\ num_tasks' = num_tasks
    BY <1>9, RunInlineEffect, TaskBeginEffect DEF RunInline, TaskBegin, callVars
  <2>2. \E f, g \in Frames : \/ Swapped(stack[t], stack'[t], f)
                             \/ Pushed(stack[t], stack'[t], f, g)
    BY <1>9, RunInlineEffect, TaskBeginEffect DEF BodyStays, BodyCalls, NoBody
  <2>3. ~ (t = u /\ n = 1)
    BY <1>0, <2>1
  <2>. QED
    BY <2>1, <2>2, <2>3, LiveSwap, LivePush DEF u, n
<1>10. ASSUME NEW t \in Threads, TaskEnd(t) PROVE Live(d, i)'
  <2>1. /\ Others(t) /\ Top(t).at = "end" /\ num_tasks' = num_tasks
        /\ Popped(stack[t], stack'[t], Top(t).eptr /\ Top(t).id = 0)
    BY <1>10, TaskEndEffect DEF TaskEnd
  <2>2. ~ (t = u /\ n = 1)
    BY <1>0, <2>1
  <2>. QED
    BY <2>1, <2>2, LivePop DEF u, n
<1>11. ASSUME NEW t \in Threads, NEW b \in BOOLEAN, CallEnds(t, b) PROVE Live(d, i)'
  <2>1. /\ Others(t) /\ Popped(stack[t], stack'[t], b) /\ num_tasks' = num_tasks
    BY <1>11, CallEndsEffect DEF CallEnds, callVars
  <2>2. ~ (t = u /\ n = 1)
    <3>. SUFFICES ASSUME t = u, n = 1 PROVE FALSE
      OBVIOUS
    <3>1. num_tasks[d] \in Nat
      BY MaxThreadsType DEF Layout, Typed
    <3>. QED
      BY <1>0, <1>2, <1>11, <3>1 DEF CallEnds, Broken
  <2>. QED
    BY <2>1, <2>2, LivePop DEF u, n
<1>12. ASSUME NEW w \in Workers, Take(w) PROVE Live(d, i)'
  <2>1. Others(w) /\ num_tasks' = num_tasks /\ w # u
    BY <1>0, <1>12, TakeEffect, ThreadKinds DEF Take, callVars
  <2>2. stack'[u] = stack[u]
    BY <1>0, <2>1 DEF Others
  <2>. QED
    BY <2>1, <2>2 DEF Live, OwnerOf, u
<1>13. ASSUME PoolStep PROVE Live(d, i)'
  BY <1>13, PoolStepEffect DEF Live, OwnerOf, callVars
<1>. QED
  BY StepKinds, <1>3, <1>4, <1>5, <1>6, <1>7, <1>8, <1>9, <1>10, <1>11, <1>12, <1>13

\* The task of every worker stays.
SameBottoms == \A w \in Workers : /\ Busy(w)' <=> Busy(w)
                                  /\ Busy(w) => Same(Bottom(w)', Bottom(w))

LEMMA BottomFacts ==
  ASSUME Layout, NEW w \in Workers, Busy(w)
  PROVE  /\ w \in Threads /\ stack[w] # <<>> /\ Len(stack[w]) \in {1, 2}
         /\ Bottom(w) \in Frames /\ Bottom(w).call \in CallIds /\ Bottom(w).id \in Nat
         /\ Bottom(w).at \in {"task", "end"} /\ Bottom(w).id > 0
         /\ Len(stack[w]) = 1 <=> Top(w).at \in {"task", "end"}
         /\ Len(stack[w]) = 1 => Top(w) = Bottom(w)
<1>. DEFINE s == stack[w]
<1>1. w \in Threads /\ s \in Seq(Frames) /\ Len(s) \in Nat /\ Len(s) > 0 /\ WorkerShape(s)
  BY ThreadKinds DEF Layout, Typed, Shapes, Busy
<1>2. s # <<>> /\ Len(s) \in {1, 2} /\ s[Len(s)].at \in {"task", "end"} /\ s[Len(s)].id > 0
  <2>. HIDE DEF s
  <2>. QED
    BY <1>1 DEF WorkerShape
<1>3. Bottom(w) \in Frames
  BY <1>1 DEF Bottom
<1>4. Len(s) = 1 <=> Top(w).at \in {"task", "end"}
  BY <1>1, <1>2, TopCall
<1>. QED
  BY <1>1, <1>2, <1>3, <1>4 DEF Bottom, Frames, Top

LEMMA BottomSwap ==
  ASSUME Layout, NEW t \in Threads, stack[t] # <<>>, NEW f,
         Others(t), Swapped(stack[t], stack'[t], f), f.call = Top(t).call,
         Top(t).at \in {"task", "end"} => f.id = Top(t).id
  PROVE  SameBottoms
<1>. SUFFICES ASSUME NEW w \in Workers
              PROVE  /\ Busy(w)' <=> Busy(w)
                     /\ Busy(w) => Same(Bottom(w)', Bottom(w))
  BY DEF SameBottoms
<1>1. CASE w # t
  BY <1>1, ThreadKinds DEF Others, Busy, Bottom, Same
<1>2. CASE w = t
  <2>1. Len(stack'[w]) = Len(stack[w]) /\ stack'[w][1] = f
        /\ (2 \in 2 .. Len(stack[w]) => stack'[w][2] = stack[w][2])
    BY <1>2 DEF Swapped
  <2>2. ASSUME Busy(w) PROVE Same(Bottom(w)', Bottom(w))
    <3>1. CASE Len(stack[w]) = 1
      BY <1>2, <2>1, <2>2, <3>1, BottomFacts DEF Bottom, Same
    <3>2. CASE Len(stack[w]) = 2
      BY <2>1, <3>2 DEF Bottom, Same
    <3>. QED
      BY <2>2, <3>1, <3>2, BottomFacts
  <2>. QED
    BY <2>1, <2>2 DEF Busy
<1>. QED
  BY <1>1, <1>2

LEMMA BottomPush ==
  ASSUME Layout, NEW t \in Threads, stack[t] # <<>>, NEW f, NEW g,
         Others(t), Pushed(stack[t], stack'[t], f, g), g.call = Top(t).call,
         Top(t).at \in {"task", "end"} => g.id = Top(t).id
  PROVE  SameBottoms
<1>. SUFFICES ASSUME NEW w \in Workers
              PROVE  /\ Busy(w)' <=> Busy(w)
                     /\ Busy(w) => Same(Bottom(w)', Bottom(w))
  BY DEF SameBottoms
<1>1. CASE w # t
  BY <1>1, ThreadKinds DEF Others, Busy, Bottom, Same
<1>2. CASE w = t
  <2>0. stack[w] \in Seq(Frames) /\ Len(stack[w]) \in Nat \ {0}
    BY <1>2 DEF Layout, Typed
  <2>1. Len(stack'[w]) = Len(stack[w]) + 1 /\ stack'[w][2] = g
        /\ (2 \in 2 .. Len(stack[w]) => stack'[w][2 + 1] = stack[w][2])
    BY <1>2 DEF Pushed
  <2>2. ASSUME Busy(w) PROVE Same(Bottom(w)', Bottom(w))
    <3>1. CASE Len(stack[w]) = 1
      BY <1>2, <2>1, <2>2, <3>1, BottomFacts DEF Bottom, Same
    <3>2. CASE Len(stack[w]) = 2
      BY <2>1, <3>2 DEF Bottom, Same
    <3>. QED
      BY <2>2, <3>1, <3>2, BottomFacts
  <2>. QED
    BY <2>0, <2>1, <2>2 DEF Busy
<1>. QED
  BY <1>1, <1>2

LEMMA BottomPop ==
  ASSUME Layout, NEW t \in Threads, stack[t] # <<>>, NEW b,
         Others(t), Popped(stack[t], stack'[t], b),
         t \in Workers => Top(t).at \notin {"task", "end"}
  PROVE  SameBottoms
<1>. SUFFICES ASSUME NEW w \in Workers
              PROVE  /\ Busy(w)' <=> Busy(w)
                     /\ Busy(w) => Same(Bottom(w)', Bottom(w))
  BY DEF SameBottoms
<1>1. CASE w # t
  BY <1>1, ThreadKinds DEF Others, Busy, Bottom, Same
<1>2. CASE w = t
  <2>0. Busy(w)
    BY <1>2 DEF Layout, Typed, Busy
  <2>1. Len(stack[w]) = 2
    BY <1>2, <2>0, BottomFacts
  <2>2. Len(stack'[w]) = 1
    BY <1>2, <2>1 DEF Popped
  <2>3. stack'[w][1].call = stack[w][2].call /\ stack'[w][1].id = stack[w][2].id
    BY <1>2, <2>1 DEF Popped
  <2>. QED
    BY <2>0, <2>1, <2>2, <2>3 DEF Busy, Bottom, Same
<1>. QED
  BY <1>1, <1>2

LEMMA InFlightNext ==
  ASSUME Layout, NEW d \in CallIds, NEW i \in Nat, InFlight(d, i), Next,
         future'[d][i] = future[d][i]
  PROVE  InFlight(d, i)'
<1>1. ~ Fetched(d, i)
  BY DEF InFlight, Fetched, Get
<1>. QED
  BY <1>1, LiveNext DEF InFlight

LEMMA QueueFacts ==
  ASSUME Typed, NEW j \in 1 .. Len(tasks_)
  PROVE  /\ tasks_[j] \in TaskType /\ tasks_[j].call \in CallIds
         /\ tasks_[j].id \in Nat /\ tasks_[j].id > 0 /\ tasks_[j].id < MaxThreads
<1>1. tasks_[j] \in TaskType
  BY DEF Typed
<1>. QED
  BY <1>1, MaxThreadsType DEF TaskType

LEMMA RunBySame ==
  ASSUME SameBottoms, NEW w \in Workers, NEW d, NEW i
  PROVE  RunBy(w, d, i)' <=> RunBy(w, d, i)
  BY DEF SameBottoms, RunBy, Same

LEMMA FlightStill ==
  ASSUME Layout, Flight, OnePlace, Next, SameBottoms, UNCHANGED <<tasks_, future>>
  PROVE  Flight' /\ OnePlace'
<1>1. ASSUME NEW d \in CallIds, NEW i \in Nat PROVE Queued(d, i)' <=> Queued(d, i)
  BY DEF Queued
<1>2. ASSUME NEW d \in CallIds, NEW i \in Nat, InFlight(d, i) PROVE InFlight(d, i)'
  BY <1>2, InFlightNext
<1>3. Flight'
  BY <1>1, <1>2, RunBySame DEF Flight
<1>4. OnePlace'
  BY <1>1, RunBySame DEF OnePlace
<1>. QED
  BY <1>3, <1>4

LEMMA SubmitFlight ==
  ASSUME Layout, Flight, OnePlace, NEW t \in Threads, Submit(t), Next
  PROVE  Flight' /\ OnePlace'
<1>0. /\ Others(t) /\ stack[t] # <<>> /\ Top(t).at = "submit" /\ Layout'
      /\ Top(t).call \in CallIds /\ Top(t).id \in Nat
  BY SubmitEffect, TopFacts
<1>1. PICK c \in CallIds, m \in Nat : c = Top(t).call /\ m = Top(t).id
  BY <1>0
<1>. DEFINE q == [call |-> c, id |-> m]
            L == Len(tasks_)
<1>2. m \in 1 .. (MaxThreads - 1) /\ m < num_tasks[c] /\ tasks_' = Append(tasks_, q)
  BY <1>1, SubmitEffect
<1>3. PICK f \in Frames : /\ Swapped(stack[t], stack'[t], f) /\ f.call = c
                          /\ f.at = "submit" /\ f.id = m + 1
  BY <1>1, SubmitEffect
<1>4. /\ m \in TaskIds /\ 0 < m
      /\ num_tasks' = num_tasks /\ future' = [future EXCEPT ![c][m] = "pending"]
  BY <1>1, <1>2, MaxThreadsType DEF Submit, TaskIds
<1>5. /\ t \in Users /\ c[1] = t /\ c[3] \in {0, 1} /\ Len(stack[t]) - c[3] = 1
      /\ Top(t) = stack[t][1]
  BY <1>0, <1>1, TopCall, ThreadKinds DEF OwnerKinds, Top
<1>6. L \in Nat /\ Len(tasks_') = L + 1 /\ tasks_'[L + 1] = q
      /\ \A j \in 1 .. L : tasks_'[j] = tasks_[j]
  BY <1>2 DEF Layout, Typed
<1>7. q.call = c /\ q.id = m
  OBVIOUS
<1>8. SameBottoms
  <2>1. Top(t).at \notin {"task", "end"}
    BY <1>0
  <2>. QED
    BY <1>0, <1>1, <1>3, <2>1, BottomSwap
<1>. HIDE DEF q, L
<1>9. ~ InFlight(c, m)
  BY <1>0, <1>1, <1>5 DEF InFlight, Live, OwnerOf
<1>10. InFlight(c, m)'
  <2>1. Len(stack'[t]) = Len(stack[t]) /\ stack'[t][1] = f /\ Len(stack[t]) \in Nat
    BY <1>3 DEF Swapped, Layout, Typed
  <2>2. OwnerOf(c)' = f /\ c[3] < Len(stack'[c[1]])
    BY <1>5, <2>1 DEF OwnerOf
  <2>3. Live(c, m)'
    BY <1>2, <1>3, <1>4, <1>5, <2>2 DEF Live
  <2>4. future'[c][m] = "pending"
    BY <1>4 DEF Layout, Typed
  <2>. QED
    BY <2>3, <2>4 DEF InFlight
<1>11. ASSUME NEW d \in CallIds, NEW i \in Nat, InFlight(d, i)
       PROVE  InFlight(d, i)' /\ ~ (d = c /\ i = m)
  <2>1. ~ (d = c /\ i = m)
    BY <1>9, <1>11
  <2>2. future'[d][i] = future[d][i]
    <3>1. i \in TaskIds
      <4>1. num_tasks[d] \in 0 .. MaxThreads /\ i < num_tasks[d]
        BY <1>11 DEF Layout, Typed, InFlight, Live
      <4>. QED
        BY <4>1, MaxThreadsType DEF TaskIds
    <3>. QED
      BY <1>4, <2>1, <3>1 DEF Layout, Typed
  <2>. QED
    BY <1>11, <2>1, <2>2, InFlightNext
<1>12. ASSUME NEW d, NEW i PROVE Queued(d, i)' <=> Queued(d, i) \/ (d = c /\ i = m)
  <2>1. \A j \in 1 .. (L + 1) : j \in 1 .. L \/ j = L + 1
    BY <1>6
  <2>2. L + 1 \in 1 .. (L + 1) /\ \A j \in 1 .. L : j \in 1 .. (L + 1)
    BY <1>6
  <2>. QED
    BY <1>6, <1>7, <2>1, <2>2 DEF Queued, L
<1>13. Flight'
  BY <1>8, <1>10, <1>11, <1>12, RunBySame DEF Flight
<1>14. OnePlace'
  <2>1. \A j, k \in 1 .. Len(tasks_') : Same(tasks_'[j], tasks_'[k]) => j = k
    <3>1. \A j \in 1 .. L : ~ Same(tasks_[j], q)
      BY <1>1, <1>7, <1>9 DEF Flight, Queued, Same, L
    <3>2. \A j \in 1 .. (L + 1) : j \in 1 .. L \/ j = L + 1
      BY <1>6
    <3>. QED
      BY <1>6, <3>1, <3>2 DEF OnePlace, Same, L
  <2>2. ASSUME NEW d \in CallIds, NEW i \in Nat, NEW w \in Workers, RunBy(w, d, i)'
        PROVE  ~ Queued(d, i)' /\ \A v \in Workers : RunBy(v, d, i)' => v = w
    <3>1. RunBy(w, d, i)
      BY <1>8, <2>2, RunBySame
    <3>2. ~ Queued(d, i) /\ InFlight(d, i)
      BY <3>1 DEF OnePlace, Flight
    <3>3. ~ Queued(d, i)'
      BY <1>9, <1>12, <3>2
    <3>. QED
      BY <1>8, <3>1, <3>3, RunBySame DEF OnePlace
  <2>. QED
    BY <2>1, <2>2 DEF OnePlace
<1>. QED
  BY <1>13, <1>14

LEMMA TakeFlight ==
  ASSUME Layout, Flight, OnePlace, NEW w \in Workers, Take(w), Next
  PROVE  Flight' /\ OnePlace'
<1>. DEFINE q == Head(tasks_)
            L == Len(tasks_)
<1>0. /\ Others(w) /\ stack[w] = <<>> /\ tasks_ # <<>> /\ q \in TaskType
      /\ tasks_' = Tail(tasks_) /\ stack'[w] = <<Frame("task", q.call, q.id)>>
      /\ future' = future
  BY TakeEffect DEF Take, callVars
<1>1. PICK c \in CallIds, m \in Nat : c = q.call /\ m = q.id
  BY <1>0, MaxThreadsType DEF TaskType
<1>2. /\ L \in Nat \ {0} /\ Len(tasks_') = L - 1 /\ q = tasks_[1]
      /\ \A j \in 1 .. (L - 1) : tasks_'[j] = tasks_[j + 1]
  BY <1>0 DEF Layout, Typed
<1>3. /\ \A j \in 1 .. L : j = 1 \/ (j - 1 \in 1 .. (L - 1) /\ (j - 1) + 1 = j)
      /\ \A j \in 1 .. (L - 1) : j + 1 \in 1 .. L /\ j + 1 # 1
      /\ \A j, k \in 1 .. (L - 1) : j + 1 = k + 1 => j = k
      /\ 1 \in 1 .. L
  BY <1>2
<1>4. Len(stack[w]) = 0 /\ Len(stack'[w]) = 1
      /\ stack'[w][1].call = c /\ stack'[w][1].id = m
  BY <1>0, <1>1 DEF Frame
<1>. HIDE DEF q, L
<1>5. ASSUME NEW d, NEW i PROVE Queued(d, i) <=> Queued(d, i)' \/ (d = c /\ i = m)
  <2>1. Queued(d, i) => Queued(d, i)' \/ (d = c /\ i = m)
    <3>. SUFFICES ASSUME NEW j \in 1 .. L, tasks_[j].call = d, tasks_[j].id = i
                  PROVE  Queued(d, i)' \/ (d = c /\ i = m)
      BY DEF Queued, L
    <3>1. CASE j = 1
      BY <1>1, <1>2, <3>1
    <3>2. CASE j # 1
      <4>1. j - 1 \in 1 .. (L - 1) /\ (j - 1) + 1 = j
        BY <1>3, <3>2
      <4>2. tasks_'[j - 1] = tasks_[j] /\ j - 1 \in 1 .. Len(tasks_')
        BY <1>2, <4>1
      <4>. QED
        BY <4>2 DEF Queued
    <3>. QED
      BY <3>1, <3>2
  <2>2. Queued(d, i)' => Queued(d, i)
    BY <1>2, <1>3 DEF Queued, L
  <2>3. Queued(c, m)
    BY <1>1, <1>2, <1>3 DEF Queued, L
  <2>. QED
    BY <2>1, <2>2, <2>3
<1>6. ~ Queued(c, m)'
  <2>. SUFFICES ASSUME NEW j \in 1 .. (L - 1), tasks_'[j].call = c, tasks_'[j].id = m
                PROVE  FALSE
    BY <1>2 DEF Queued
  <2>1. j + 1 \in 1 .. L /\ j + 1 # 1 /\ Same(tasks_[j + 1], tasks_[1])
    BY <1>1, <1>2, <1>3 DEF Same
  <2>. QED
    BY <1>3, <2>1 DEF OnePlace, L
<1>7. ASSUME NEW v \in Workers, NEW d, NEW i
      PROVE  RunBy(v, d, i)' <=> RunBy(v, d, i) \/ (v = w /\ d = c /\ i = m)
  <2>1. CASE v = w
    BY <1>4, <2>1 DEF RunBy, Busy, Bottom
  <2>2. CASE v # w
    BY <1>0, <2>2, ThreadKinds DEF RunBy, Busy, Bottom, Others
  <2>. QED
    BY <2>1, <2>2
<1>8. ASSUME NEW d \in CallIds, NEW i \in Nat, InFlight(d, i) PROVE InFlight(d, i)'
  BY <1>0, <1>8, InFlightNext
<1>9. Queued(c, m) /\ InFlight(c, m) /\ \A v \in Workers : ~ RunBy(v, c, m)
  BY <1>5 DEF Flight, OnePlace
<1>10. Flight'
  BY <1>5, <1>7, <1>8, <1>9 DEF Flight
<1>11. OnePlace'
  <2>1. \A j, k \in 1 .. Len(tasks_') : Same(tasks_'[j], tasks_'[k]) => j = k
    <3>1. ASSUME NEW j \in 1 .. (L - 1), NEW k \in 1 .. (L - 1), Same(tasks_'[j], tasks_'[k])
          PROVE  j = k
      <4>1. Same(tasks_[j + 1], tasks_[k + 1]) /\ j + 1 \in 1 .. L /\ k + 1 \in 1 .. L
        BY <1>2, <1>3, <3>1
      <4>2. j + 1 = k + 1
        BY <4>1 DEF OnePlace, L
      <4>. QED
        BY <1>3, <4>2
    <3>. QED
      BY <1>2, <3>1
  <2>2. ASSUME NEW d \in CallIds, NEW i \in Nat, NEW v \in Workers, RunBy(v, d, i)'
        PROVE  ~ Queued(d, i)' /\ \A x \in Workers : RunBy(x, d, i)' => x = v
    BY <1>5, <1>6, <1>7, <1>9, <2>2 DEF OnePlace
  <2>. QED
    BY <2>1, <2>2 DEF OnePlace
<1>. QED
  BY <1>10, <1>11

LEMMA TaskEndFlight ==
  ASSUME Layout, Flight, OnePlace, NEW t \in Threads, TaskEnd(t), Next
  PROVE  Flight' /\ OnePlace'
<1>0. /\ Others(t) /\ stack[t] # <<>> /\ Top(t).at = "end"
      /\ Popped(stack[t], stack'[t], Top(t).eptr /\ Top(t).id = 0)
      /\ Top(t).call \in CallIds /\ Top(t).id \in Nat /\ tasks_' = tasks_
  BY TaskEndEffect, TopFacts DEF TaskEnd, poolVars
<1>1. PICK c \in CallIds, m \in Nat : c = Top(t).call /\ m = Top(t).id
  BY <1>0
<1>2. future' = IF m = 0 THEN future ELSE [future EXCEPT ![c][m] = TaskResult(Top(t))]
  BY <1>1 DEF TaskEnd
<1>3. CASE t \in Users
  <2>1. m = 0
    <3>1. UserShape(stack[t], t, made[t]) /\ Top(t) = stack[t][1] /\ Len(stack[t]) \in 1 .. 3
      BY <1>0, <1>3, StackFacts DEF Layout, Shapes
    <3>. QED
      BY <1>0, <1>1, <3>1 DEF UserShape, Own, Running, OwnerKinds
  <2>2. SameBottoms
    BY <1>0, <1>3, BottomPop, ThreadKinds
  <2>. QED
    BY <1>0, <1>2, <2>1, <2>2, FlightStill
<1>4. CASE t \in Workers
  <2>1. Busy(t) /\ Len(stack[t]) = 1 /\ RunBy(t, c, m)
    <3>1. Busy(t)
      BY <1>0 DEF Layout, Typed, Busy
    <3>. QED
      BY <1>0, <1>1, <1>4, <3>1, BottomFacts DEF RunBy
  <2>2. Len(stack'[t]) = 0
    BY <2>1 DEF Popped, TaskEnd, Pop, Layout, Typed
  <2>3. ASSUME NEW v \in Workers, NEW d, NEW i
        PROVE  RunBy(v, d, i)' <=> RunBy(v, d, i) /\ v # t
    <3>1. CASE v = t
      BY <2>2, <3>1 DEF RunBy, Busy
    <3>2. CASE v # t
      BY <1>0, <3>2, ThreadKinds DEF RunBy, Busy, Bottom, Others
    <3>. QED
      BY <3>1, <3>2
  <2>4. ASSUME NEW d, NEW i PROVE Queued(d, i)' <=> Queued(d, i)
    BY <1>0 DEF Queued
  <2>5. ASSUME NEW d \in CallIds, NEW i \in Nat, InFlight(d, i), ~ (d = c /\ i = m)
        PROVE  InFlight(d, i)'
    <3>1. i \in TaskIds
      <4>1. num_tasks[d] \in 0 .. MaxThreads /\ i < num_tasks[d]
        BY <2>5 DEF Layout, Typed, InFlight, Live
      <4>. QED
        BY <4>1, MaxThreadsType DEF TaskIds
    <3>2. future'[d][i] = future[d][i]
      BY <1>2, <2>5, <3>1 DEF Layout, Typed
    <3>. QED
      BY <2>5, <3>2, InFlightNext
  <2>6. ~ Queued(c, m) /\ \A v \in Workers : RunBy(v, c, m) => v = t
    BY <1>4, <2>1 DEF OnePlace
  <2>7. Flight'
    BY <2>3, <2>4, <2>5, <2>6 DEF Flight
  <2>8. OnePlace'
    BY <1>0, <2>3, <2>4 DEF OnePlace
  <2>. QED
    BY <2>7, <2>8
<1>. QED
  BY <1>3, <1>4, ThreadKinds

LEMMA FlightNext ==
  ASSUME Layout, Flight, OnePlace, Next
  PROVE  Flight' /\ OnePlace'
<1>1. ASSUME NEW u \in Users, Make(u) PROVE Flight' /\ OnePlace'
  <2>1. Others(u) /\ UNCHANGED <<tasks_, future>>
    BY <1>1, MakeEffect DEF Make, poolVars, callVars
  <2>2. SameBottoms
    BY <2>1, ThreadKinds DEF SameBottoms, Others, Busy, Bottom, Same
  <2>. QED
    BY <2>1, <2>2, FlightStill
<1>2. ASSUME NEW t \in Threads, Start(t) \/ Size(t) \/ Calc(t) \/ Get(t)
      PROVE  Flight' /\ OnePlace'
  <2>1. /\ Others(t) /\ stack[t] # <<>> /\ Top(t).at \in {"start", "size", "calc", "wait"}
        /\ \E f \in Frames : Swapped(stack[t], stack'[t], f) /\ f.call = Top(t).call
    BY <1>2, StartEffect, SizeEffect, CalcEffect, GetEffect
  <2>2. UNCHANGED <<tasks_, future>>
    BY <1>2 DEF Start, Size, Calc, Get, poolVars, callVars
  <2>3. SameBottoms
    BY <2>1, BottomSwap
  <2>. QED
    BY <2>2, <2>3, FlightStill
<1>3. ASSUME NEW t \in Threads, OwnTask(t) PROVE Flight' /\ OnePlace'
  <2>1. /\ Others(t) /\ stack[t] # <<>> /\ Top(t).at = "submit"
        /\ \E f, g \in Frames : Pushed(stack[t], stack'[t], f, g) /\ g.call = Top(t).call
    BY <1>3, OwnTaskEffect
  <2>2. UNCHANGED <<tasks_, future>>
    BY <1>3 DEF OwnTask, poolVars, callVars
  <2>3. SameBottoms
    BY <2>1, BottomPush
  <2>. QED
    BY <2>2, <2>3, FlightStill
<1>4. ASSUME NEW t \in Threads, RunInline(t) \/ TaskBegin(t) PROVE Flight' /\ OnePlace'
  <2>1. /\ Others(t) /\ stack[t] # <<>> /\ Top(t).at \in {"start", "task"}
    BY <1>4, RunInlineEffect, TaskBeginEffect
  <2>2. \E f, g \in Frames : /\ g.call = Top(t).call
                             /\ Top(t).at = "task" => g.id = Top(t).id
                             /\ \/ /\ Swapped(stack[t], stack'[t], f)
                                   /\ f.call = g.call /\ f.id = g.id
                                \/ Pushed(stack[t], stack'[t], f, g)
    <3>1. CASE RunInline(t)
      <4>1. PICK f \in Frames, g \in Frames :
               /\ g.call = Top(t).call
               /\ BodyStays(t, g.call, 0, f, g) \/ BodyCalls(t, g.call, 0, f, g)
        BY <3>1, RunInlineEffect
      <4>2. Top(t).at = "start"
        BY <3>1, RunInlineEffect
      <4>3. \/ Swapped(stack[t], stack'[t], f) /\ f.call = g.call /\ f.id = g.id
            \/ Pushed(stack[t], stack'[t], f, g)
        BY <4>1 DEF BodyStays, BodyCalls
      <4>. QED
        BY <4>1, <4>2, <4>3
    <3>2. CASE TaskBegin(t)
      BY <2>1, <3>2, TaskBeginEffect DEF BodyStays, BodyCalls, NoBody
    <3>. QED
      BY <1>4, <3>1, <3>2
  <2>3. UNCHANGED <<tasks_, future>>
    BY <1>4 DEF RunInline, TaskBegin, poolVars, callVars
  <2>4. SameBottoms
    BY <2>1, <2>2, BottomSwap, BottomPush
  <2>. QED
    BY <2>3, <2>4, FlightStill
<1>5. ASSUME NEW t \in Threads, NEW b \in BOOLEAN, CallEnds(t, b) PROVE Flight' /\ OnePlace'
  <2>1. /\ Others(t) /\ stack[t] # <<>> /\ Popped(stack[t], stack'[t], b)
        /\ Top(t).at \notin {"task", "end"}
    BY <1>5, CallEndsEffect DEF CallEnds
  <2>2. UNCHANGED <<tasks_, future>>
    BY <1>5 DEF CallEnds, poolVars, callVars
  <2>3. SameBottoms
    BY <2>1, BottomPop
  <2>. QED
    BY <2>2, <2>3, FlightStill
<1>6. ASSUME PoolStep PROVE Flight' /\ OnePlace'
  <2>1. UNCHANGED <<tasks_, stack, future>>
    BY <1>6, PoolStepEffect DEF callVars
  <2>2. SameBottoms
    BY <2>1 DEF SameBottoms, Busy, Bottom, Same
  <2>. QED
    BY <2>1, <2>2, FlightStill
<1>. QED
  BY StepKinds, <1>1, <1>2, <1>3, <1>4, <1>5, <1>6, SubmitFlight, TakeFlight, TaskEndFlight

-----------------------------------------------------------------------------
(* OverMeansQuiet. *)

On(t, d) == \E n \in 1 .. Len(stack[t]) : stack[t][n].call = d
Present(d) == (\E i \in Nat : Queued(d, i)) \/ (\E t \in Threads : On(t, d))

\* Task i of call c has not begun: it is queued, or the thread t has it before it.
Before(t, c, i) ==
  /\ stack[t] # <<>> /\ Top(t).call = c
  /\ \/ Top(t).at = "task" /\ Top(t).id = i
     \/ Top(t).at \in {"start", "size", "calc"}
     \/ Top(t).at = "submit" /\ (i = 0 \/ i >= Top(t).id)
Unbegun(c, i) == Queued(c, i) \/ \E t \in Threads : Before(t, c, i)

\* Call d has not been made, by its user or by the body of a task.
NotMade(d) ==
  \/ d[2] > made[d[1]]
  \/ \E c \in CallIds, i \in Nat : c[3] = 0 /\ Unbegun(c, i) /\ d = <<c[1], c[2], i + 1>>

\* A call that was not made is not over; one that is over is nowhere.
Fresh == \A d \in CallIds : NotMade(d) => outcome[d] = "none"
Quiet == \A d \in CallIds : outcome[d] # "none" => ~ Present(d)

LEMMA UserCalls ==
  ASSUME Layout, NEW u \in Users
  PROVE  /\ \A n \in 1 .. Len(stack[u]) : /\ stack[u][n].call[1] = u /\ stack[u][n].call[2] = made[u]
                                          /\ stack[u][n].call[3] \in {0, 1}
         /\ stack[u] # <<>> /\ Top(u).at \in OwnerKinds =>
              \A n \in 2 .. Len(stack[u]) : stack[u][n].call # Top(u).call
         /\ stack[u] # <<>> /\ Top(u).at \in OwnerKinds /\ Top(u).call[3] = 0 => Len(stack[u]) = 1
<1>. DEFINE s == stack[u]
            c == <<u, made[u], 0>>
            k == <<u, made[u], 1>>
<1>1. s \in Seq(Frames) /\ UserShape(s, u, made[u]) /\ Len(s) \in Nat
  BY ThreadKinds DEF Layout, Typed, Shapes
<1>2. c[1] = u /\ c[2] = made[u] /\ c[3] = 0 /\ k[1] = u /\ k[2] = made[u] /\ k[3] = 1
  OBVIOUS
<1>3. \/ Len(s) = 0
      \/ Len(s) = 1 /\ s[1].call = c
      \/ Len(s) = 2 /\ s[1].call = c /\ s[2].call = c /\ s[1].at \in {"task", "end"}
      \/ Len(s) = 2 /\ s[1].call = k /\ s[2].call = c
      \/ Len(s) = 3 /\ s[1].call = k /\ s[2].call = k /\ s[3].call = c /\ s[1].at \in {"task", "end"}
      \/ Len(s) = 3 /\ s[1].call = k /\ s[2].call = c /\ s[3].call = c
  BY <1>1 DEF UserShape, Own, Running, Is
<1>. HIDE DEF s, c, k
<1>4. \A n \in 1 .. Len(s) : s[n].call \in {c, k}
  BY <1>1, <1>3
<1>5. Len(s) > 0 /\ s[1].at \in OwnerKinds => \A n \in 2 .. Len(s) : s[n].call # s[1].call
  <2>. SUFFICES ASSUME Len(s) > 0, s[1].at \in OwnerKinds, NEW n \in 2 .. Len(s)
                PROVE  s[n].call # s[1].call
    OBVIOUS
  <2>1. s[1].call = k /\ s[n].call = c
    BY <1>1, <1>3 DEF OwnerKinds
  <2>. QED
    BY <1>2, <2>1
<1>6. Len(s) > 0 /\ s[1].at \in OwnerKinds /\ s[1].call[3] = 0 => Len(s) = 1
  BY <1>2, <1>3 DEF OwnerKinds
<1>7. s # <<>> => Len(s) > 0 /\ Top(u) = s[1]
  BY <1>1 DEF Top, s
<1>8. \A n \in 1 .. Len(s) : s[n].call[1] = u /\ s[n].call[2] = made[u] /\ s[n].call[3] \in {0, 1}
  BY <1>2, <1>4
<1>. QED
  BY <1>5, <1>6, <1>7, <1>8 DEF s

LEMMA WorkerCalls ==
  ASSUME Layout, NEW w \in Workers, Busy(w)
  PROVE  \/ Len(stack[w]) = 1 /\ Top(w) = Bottom(w) /\ Top(w).at \in {"task", "end"}
         \/ /\ Len(stack[w]) = 2 /\ Top(w).at \in {"start", "inline"}
            /\ stack[w][2] = Bottom(w) /\ Bottom(w).call[3] = 0 /\ Bottom(w).at = "end"
            /\ Top(w).call = <<Bottom(w).call[1], Bottom(w).call[2], Bottom(w).id + 1>>
<1>1. WorkerShape(stack[w]) /\ Len(stack[w]) > 0
  BY DEF Layout, Shapes, Busy
<1>. QED
  BY <1>1 DEF WorkerShape, Bottom, Top

\* The call at the top of t has submitted no task, or waited for all.
Idle(t) ==
  /\ stack[t] # <<>> /\ Top(t).at \in OwnerKinds
  /\ Top(t).at = "submit" => pool = 0
  /\ Top(t).at = "wait" => Top(t).id >= num_tasks[Top(t).call]

LEMMA EndsIdle ==
  ASSUME NEW t \in Threads, NEW b \in BOOLEAN, CallEnds(t, b)
  PROVE  Idle(t)
  BY DEF CallEnds, Idle, OwnerKinds, Broken

\* Such a call has no task, and no other frame.
LEMMA Alone ==
  ASSUME Layout, Flight, OnePlace, NEW t \in Threads, Idle(t),
         NEW d \in CallIds, d = Top(t).call
  PROVE  /\ \A i \in Nat : ~ InFlight(d, i)
         /\ \A u \in Threads : u # t => ~ On(u, d)
         /\ \A n \in 2 .. Len(stack[t]) : stack[t][n].call # d
<1>0. /\ stack[t] # <<>> /\ Top(t).at \in OwnerKinds /\ Top(t).id \in Nat
      /\ Top(t).at = "submit" => pool = 0
      /\ Top(t).at = "wait" => Top(t).id >= num_tasks[d]
  BY TopFacts DEF Idle
<1>1. t \in Workers => /\ Busy(t) /\ d[3] > 1 /\ RunBy(t, <<d[1], d[2], 0>>, d[3] - 1)
                       /\ Len(stack[t]) = 2 /\ stack[t][2].call # d
  <2>. SUFFICES ASSUME t \in Workers PROVE /\ Busy(t) /\ d[3] > 1
                                           /\ RunBy(t, <<d[1], d[2], 0>>, d[3] - 1)
                                           /\ Len(stack[t]) = 2 /\ stack[t][2].call # d
    OBVIOUS
  <2>1. Busy(t)
    BY <1>0 DEF Layout, Typed, Busy
  <2>2. /\ Len(stack[t]) = 2 /\ stack[t][2] = Bottom(t) /\ Bottom(t).call[3] = 0
        /\ d = <<Bottom(t).call[1], Bottom(t).call[2], Bottom(t).id + 1>>
    BY <1>0, <2>1, WorkerCalls DEF OwnerKinds
  <2>3. Bottom(t).id \in Nat /\ Bottom(t).id > 0 /\ Bottom(t).call \in CallIds
    BY <2>1, BottomFacts
  <2>4. Bottom(t).call = <<Bottom(t).call[1], Bottom(t).call[2], 0>>
    BY <2>2, <2>3, CallType3
  <2>5. d[1] = Bottom(t).call[1] /\ d[2] = Bottom(t).call[2] /\ d[3] = Bottom(t).id + 1
    BY <2>2
  <2>. QED
    BY <2>1, <2>2, <2>3, <2>4, <2>5 DEF RunBy
<1>2. t \in Users => d[1] = t /\ d[3] \in {0, 1}
  BY <1>0, TopCall
<1>3. \A n \in 2 .. Len(stack[t]) : stack[t][n].call # d
  <2>1. CASE t \in Users
    BY <1>0, <2>1, UserCalls
  <2>2. CASE t \in Workers
    BY <1>1, <2>2
  <2>. QED
    BY <2>1, <2>2, ThreadKinds
<1>4. ASSUME NEW i \in Nat, InFlight(d, i) PROVE FALSE
  <2>1. Live(d, i) /\ d[3] \in {0, 1}
    BY <1>4 DEF InFlight, Live
  <2>2. t \in Users /\ t = d[1]
    BY <1>1, <1>2, <2>1, ThreadKinds
  <2>. DEFINE n == Len(stack[t]) - d[3]
  <2>3. /\ n \in 1 .. Len(stack[t]) /\ num_tasks[d] \in Nat
        /\ n = 1 => /\ Top(t).at \in {"submit", "wait"}
                    /\ Top(t).at = "submit" => pool > 0
                    /\ Top(t).at = "wait" => Top(t).id < num_tasks[d]
    <3>1. num_tasks[d] \in Nat
      BY MaxThreadsType DEF Layout, Typed
    <3>2. LET k == Len(stack[d[1]]) - d[3]
          IN  /\ k \in 1 .. Len(stack[d[1]])
              /\ k = 1 => /\ Top(d[1]).at \in {"submit", "wait"}
                          /\ Top(d[1]).at = "submit" => pool > 0
                          /\ Top(d[1]).at = "wait" => Top(d[1]).id < num_tasks[d]
      BY <2>1, OwnerPlace
    <3>. QED
      BY <2>2, <3>1, <3>2
  <2>4. stack[t][n].call = d
    BY <2>1, <2>2 DEF Live, OwnerOf
  <2>5. n = 1
    BY <1>3, <2>3, <2>4
  <2>. QED
    BY <1>0, <2>3, <2>5
<1>5. ASSUME NEW u \in Threads, u # t, On(u, d) PROVE FALSE
  <2>1. CASE u \in Users
    <3>1. d[1] = u /\ d[3] \in {0, 1}
      BY <1>5, <2>1, UserCalls DEF On
    <3>. QED
      BY <1>1, <1>2, <1>5, <3>1, ThreadKinds
  <2>2. CASE u \in Workers
    <3>1. Busy(u)
      BY <1>5, <2>2, ThreadKinds DEF On, Busy, Layout, Typed
    <3>2. Bottom(u).call \in CallIds /\ Bottom(u).id \in Nat /\ Bottom(u).id > 0
          /\ stack[u] # <<>> /\ Top(u) = stack[u][1]
      BY <2>2, <3>1, BottomFacts DEF Top
    <3>3. Bottom(u).call # d
      <4>1. RunBy(u, Bottom(u).call, Bottom(u).id)
        BY <3>1 DEF RunBy
      <4>. QED
        BY <1>4, <2>2, <3>2, <4>1 DEF Flight
    <3>4. /\ Len(stack[u]) = 2 /\ Bottom(u).call[3] = 0
          /\ d = <<Bottom(u).call[1], Bottom(u).call[2], Bottom(u).id + 1>>
      BY <1>5, <2>2, <3>1, <3>2, <3>3, WorkerCalls DEF On
    <3>5. d[1] = Bottom(u).call[1] /\ d[2] = Bottom(u).call[2] /\ d[3] = Bottom(u).id + 1
      BY <3>4
    <3>6. t \in Workers
      BY <1>2, <3>2, <3>5, ThreadKinds
    <3>7. RunBy(u, <<d[1], d[2], 0>>, d[3] - 1)
      <4>1. Bottom(u).call = <<Bottom(u).call[1], Bottom(u).call[2], 0>>
        BY <3>2, <3>4, CallType3
      <4>. QED
        BY <3>1, <3>2, <3>5, <4>1 DEF RunBy
    <3>8. <<d[1], d[2], 0>> \in CallIds /\ d[3] - 1 \in Nat
      BY <1>1, <3>6, OuterCall, CallType3, MaxThreadsType
    <3>. QED
      BY <1>1, <1>5, <2>2, <3>6, <3>7, <3>8 DEF OnePlace
  <2>. QED
    BY <2>1, <2>2, ThreadKinds
<1>. QED
  BY <1>3, <1>4, <1>5

\* Which steps bring a thread before a task.
LEMMA BeforeNext ==
  ASSUME Layout, Next, NEW c \in CallIds, NEW i \in Nat, NEW v \in Threads, Before(v, c, i)'
  PROVE  Unbegun(c, i) \/ NotMade(c)
<1>0. stack'[v] # <<>> /\ stack'[v][1].call = c
      /\ \/ stack'[v][1].at = "task" /\ stack'[v][1].id = i
         \/ stack'[v][1].at \in {"start", "size", "calc"}
         \/ stack'[v][1].at = "submit" /\ (i = 0 \/ i >= stack'[v][1].id)
  BY DEF Before, Top
<1>1. stack'[v] = stack[v] => Before(v, c, i)
  BY <1>0 DEF Before, Top
<1>2. ASSUME NEW u \in Users, Make(u)
      PROVE  Before(v, c, i) \/ NotMade(c)
  <2>1. Others(u) /\ stack'[u] = <<Frame("start", <<u, made[u] + 1, 0>>, 0)>> /\ made[u] \in Nat
    BY <1>2, MakeEffect DEF Layout, Typed
  <2>2. CASE v = u
    <3>1. c = <<u, made[u] + 1, 0>>
      BY <1>0, <2>1, <2>2 DEF Frame
    <3>. QED
      BY <2>1, <3>1 DEF NotMade
  <2>. QED
    BY <1>1, <2>1, <2>2 DEF Others
<1>3. ASSUME NEW t \in Threads, Start(t) \/ Size(t) \/ Calc(t)
      PROVE  Before(v, c, i)
  <2>1. /\ Others(t) /\ stack[t] # <<>> /\ Top(t).at \in {"start", "size", "calc"}
        /\ \E f \in Frames : Swapped(stack[t], stack'[t], f) /\ f.call = Top(t).call
    BY <1>3, StartEffect, SizeEffect, CalcEffect
  <2>. QED
    BY <1>0, <1>1, <2>1 DEF Others, Swapped, Before
<1>4. ASSUME NEW t \in Threads, Submit(t) PROVE Before(v, c, i)
  <2>1. /\ Others(t) /\ stack[t] # <<>> /\ Top(t).at = "submit" /\ Top(t).id \in Nat
        /\ \E f \in Frames : /\ Swapped(stack[t], stack'[t], f) /\ f.call = Top(t).call
                             /\ f.at = "submit" /\ f.id = Top(t).id + 1
    BY <1>4, SubmitEffect, TopFacts
  <2>. QED
    BY <1>0, <1>1, <2>1 DEF Others, Swapped, Before
<1>5. ASSUME NEW t \in Threads, OwnTask(t) PROVE Before(v, c, i)
  <2>1. /\ Others(t) /\ stack[t] # <<>> /\ Top(t).at = "submit"
        /\ \E f, g \in Frames : /\ Pushed(stack[t], stack'[t], f, g)
                                /\ f = Frame("task", Top(t).call, 0)
    BY <1>5, OwnTaskEffect
  <2>. QED
    BY <1>0, <1>1, <2>1 DEF Others, Pushed, Before, Frame
<1>6. ASSUME NEW t \in Threads, Get(t) PROVE Before(v, c, i)
  <2>1. /\ Others(t) /\ \E f \in Frames : Swapped(stack[t], stack'[t], f) /\ f.at = "wait"
    BY <1>6, GetEffect
  <2>. QED
    BY <1>0, <1>1, <2>1 DEF Others, Swapped
<1>7. ASSUME NEW t \in Threads, RunInline(t) \/ TaskBegin(t) PROVE Before(v, c, i) \/ NotMade(c)
  <2>1. Others(t) /\ stack[t] # <<>> /\ Top(t).call \in CallIds
    BY <1>7, RunInlineEffect, TaskBeginEffect, TopFacts
  <2>2. \E f, g \in Frames, k \in Nat :
           /\ g.at \in {"inline", "end"} /\ g.call = Top(t).call
           /\ Before(t, g.call, k)
           /\ \/ Swapped(stack[t], stack'[t], f) /\ f.at = g.at
              \/ BodyCalls(t, g.call, k, f, g)
    BY <1>7, <2>1, RunInlineEffect, TaskBeginEffect, TopFacts DEF BodyStays, NoBody, Before
  <2>3. PICK f \in Frames, g \in Frames, k \in Nat :
           /\ g.at \in {"inline", "end"} /\ g.call = Top(t).call
           /\ Before(t, g.call, k)
           /\ \/ Swapped(stack[t], stack'[t], f) /\ f.at = g.at
              \/ BodyCalls(t, g.call, k, f, g)
    BY <2>2
  <2>4. CASE Swapped(stack[t], stack'[t], f) /\ f.at = g.at
    BY <1>0, <1>1, <2>1, <2>3, <2>4 DEF Others, Swapped
  <2>5. CASE v = t /\ BodyCalls(t, g.call, k, f, g)
    <3>1. c = <<g.call[1], g.call[2], k + 1>> /\ g.call[3] = 0
      BY <1>0, <2>5 DEF BodyCalls, Pushed, Frame
    <3>. QED
      BY <2>1, <2>3, <3>1 DEF NotMade, Unbegun
  <2>. QED
    BY <1>1, <2>1, <2>3, <2>4, <2>5 DEF Others
<1>8. ASSUME NEW t \in Threads, NEW b, stack[t] # <<>>, Others(t), Popped(stack[t], stack'[t], b)
      PROVE  Before(v, c, i)
  <2>1. CASE v = t
    <3>1. stack[t] \in Seq(Frames) /\ Len(stack[t]) \in 1 .. 3
          /\ \A n \in 2 .. Len(stack[t]) : stack[t][n].at \in {"wait", "end", "inline"}
      BY <1>8, StackFacts
    <3>2. Len(stack'[t]) = Len(stack[t]) - 1
      BY <1>8 DEF Popped
    <3>3. Len(stack[t]) > 1
      <4>1. stack'[t] \in Seq(Frames)
        BY LayoutNext DEF Layout, Typed
      <4>. QED
        BY <1>0, <2>1, <3>1, <3>2, <4>1
    <3>4. stack'[t][1].at \in {"wait", "end", "inline"}
      BY <1>8, <3>1, <3>3 DEF Popped
    <3>. QED
      BY <1>0, <2>1, <3>4
  <2>2. CASE v # t
    BY <1>1, <1>8, <2>2 DEF Others
  <2>. QED
    BY <2>1, <2>2
<1>9. ASSUME NEW t \in Threads, TaskEnd(t) PROVE Before(v, c, i)
  BY <1>8, <1>9, TaskEndEffect
<1>10. ASSUME NEW t \in Threads, NEW b \in BOOLEAN, CallEnds(t, b) PROVE Before(v, c, i)
  BY <1>8, <1>10, CallEndsEffect DEF CallEnds
<1>11. ASSUME NEW w \in Workers, Take(w) PROVE Unbegun(c, i)
  <2>1. /\ Others(w) /\ tasks_ # <<>>
        /\ stack'[w] = <<Frame("task", Head(tasks_).call, Head(tasks_).id)>>
    BY <1>11, TakeEffect
  <2>2. Len(tasks_) \in Nat \ {0} /\ Head(tasks_) = tasks_[1] /\ 1 \in 1 .. Len(tasks_)
    BY <2>1 DEF Layout, Typed
  <2>3. CASE v = w
    BY <1>0, <2>1, <2>2, <2>3 DEF Unbegun, Queued, Frame
  <2>4. CASE v # w
    BY <1>1, <2>1, <2>4 DEF Unbegun, Others
  <2>. QED
    BY <2>3, <2>4
<1>12. ASSUME PoolStep PROVE Before(v, c, i)
  BY <1>1, <1>12, PoolStepEffect
<1>. QED
  BY StepKinds, <1>2, <1>3, <1>4, <1>5, <1>6, <1>7, <1>9, <1>10, <1>11, <1>12 DEF Unbegun

\* Only Submit puts a task into the queue.
LEMMA QueuedNext ==
  ASSUME Layout, Next, NEW c \in CallIds, NEW i \in Nat, Queued(c, i)'
  PROVE  Unbegun(c, i)
<1>1. tasks_' = tasks_ => Queued(c, i)
  BY DEF Queued
<1>2. ASSUME NEW u \in Users, Make(u) PROVE tasks_' = tasks_
  BY <1>2 DEF Make, poolVars
<1>3. ASSUME NEW t \in Threads, Start(t) \/ Size(t) \/ Calc(t) \/ OwnTask(t) \/ Get(t)
      PROVE  tasks_' = tasks_
  BY <1>3 DEF Start, Size, Calc, OwnTask, Get, poolVars
<1>4. ASSUME NEW t \in Threads, RunInline(t) \/ TaskBegin(t) \/ TaskEnd(t)
      PROVE  tasks_' = tasks_
  BY <1>4 DEF RunInline, TaskBegin, TaskEnd, poolVars
<1>5. ASSUME NEW t \in Threads, NEW b \in BOOLEAN, CallEnds(t, b) PROVE tasks_' = tasks_
  BY <1>5 DEF CallEnds, poolVars
<1>6. PoolStep => tasks_' = tasks_
  BY PoolStepEffect
<1>7. ASSUME NEW t \in Threads, Submit(t) PROVE Unbegun(c, i)
  <2>1. /\ stack[t] # <<>> /\ Top(t).at = "submit" /\ Top(t).id \in Nat
        /\ tasks_' = Append(tasks_, [call |-> Top(t).call, id |-> Top(t).id])
    BY <1>7, SubmitEffect
  <2>2. PICK j \in 1 .. Len(tasks_') : tasks_'[j].call = c /\ tasks_'[j].id = i
    BY DEF Queued
  <2>3. tasks_ \in Seq(TaskType) /\ Len(tasks_) \in Nat
    BY DEF Layout, Typed
  <2>4. CASE j \in 1 .. Len(tasks_)
    <3>1. tasks_'[j] = tasks_[j]
      BY <2>1, <2>3, <2>4
    <3>. QED
      BY <2>2, <2>4, <3>1 DEF Unbegun, Queued
  <2>5. CASE j \notin 1 .. Len(tasks_)
    <3>1. tasks_'[j] = [call |-> Top(t).call, id |-> Top(t).id]
      BY <2>1, <2>2, <2>3, <2>5
    <3>2. Top(t).call = c /\ Top(t).id = i
      BY <2>2, <3>1
    <3>. QED
      BY <2>1, <3>2 DEF Unbegun, Before
  <2>. QED
    BY <2>4, <2>5
<1>8. ASSUME NEW w \in Workers, Take(w) PROVE Queued(c, i)
  <2>1. tasks_ # <<>> /\ tasks_' = Tail(tasks_) /\ tasks_ \in Seq(TaskType)
    BY <1>8, TakeEffect DEF Layout, Typed
  <2>2. PICK j \in 1 .. Len(tasks_') : tasks_'[j].call = c /\ tasks_'[j].id = i
    BY DEF Queued
  <2>3. j + 1 \in 1 .. Len(tasks_) /\ tasks_'[j] = tasks_[j + 1]
    BY <2>1, <2>2
  <2>. QED
    BY <2>2, <2>3 DEF Queued
<1>. QED
  BY StepKinds, <1>1, <1>2, <1>3, <1>4, <1>5, <1>6, <1>7, <1>8 DEF Unbegun

LEMMA MadeNext ==
  ASSUME Layout, Next
  PROVE  \/ made' = made
         \/ \E u \in Users : Make(u) /\ made' = [made EXCEPT ![u] = @ + 1]
<1>3. ASSUME NEW t \in Threads, Start(t) \/ Size(t) \/ Calc(t) \/ Submit(t) \/ OwnTask(t) \/ Get(t)
      PROVE  made' = made
  BY <1>3 DEF Start, Size, Calc, Submit, OwnTask, Get
<1>4. ASSUME NEW t \in Threads, RunInline(t) \/ TaskBegin(t) \/ TaskEnd(t)
      PROVE  made' = made
  BY <1>4 DEF RunInline, TaskBegin, TaskEnd
<1>5. ASSUME NEW t \in Threads, NEW b \in BOOLEAN, CallEnds(t, b) PROVE made' = made
  BY <1>5 DEF CallEnds
<1>6. PoolStep => made' = made
  BY PoolStepEffect
<1>7. ASSUME NEW w \in Workers, Take(w) PROVE made' = made
  BY <1>7 DEF Take
<1>. QED
  BY StepKinds, MakeEffect, <1>3, <1>4, <1>5, <1>6, <1>7

\* A call that was made stays made.
LEMMA NotMadeNext ==
  ASSUME Layout, Next, NEW d \in CallIds, NotMade(d)'
  PROVE  NotMade(d)
<1>0. d[1] \in Users /\ d[2] \in Nat /\ made \in [Users -> Nat]
  BY CallType3 DEF Layout, Typed
<1>1. made'[d[1]] >= made[d[1]]
  BY <1>0, MadeNext
<1>2. CASE d[2] > made'[d[1]]
  <2>1. made'[d[1]] \in Nat
    BY <1>0, LayoutNext DEF Layout, Typed
  <2>. QED
    BY <1>0, <1>1, <1>2, <2>1 DEF NotMade
<1>3. CASE ~ (d[2] > made'[d[1]])
  <2>1. PICK c \in CallIds, i \in Nat : c[3] = 0 /\ Unbegun(c, i)' /\ d = <<c[1], c[2], i + 1>>
    BY <1>3 DEF NotMade
  <2>2. Unbegun(c, i) \/ NotMade(c)
    BY <2>1, QueuedNext, BeforeNext DEF Unbegun
  <2>3. CASE Unbegun(c, i)
    BY <2>1, <2>3 DEF NotMade
  <2>4. CASE NotMade(c)
    <3>1. c[2] > made[c[1]]
      BY <2>1, <2>4 DEF NotMade
    <3>. QED
      BY <2>1, <3>1 DEF NotMade
  <2>. QED
    BY <2>2, <2>3, <2>4
<1>. QED
  BY <1>2, <1>3

\* A task that a worker runs is before it or nowhere.
LEMMA NoneBefore ==
  ASSUME Layout, Flight, OnePlace, NEW c \in CallIds, NEW i \in Nat,
         NEW w \in Workers, RunBy(w, c, i)
  PROVE  ~ Queued(c, i) /\ \A v \in Threads : Before(v, c, i) => v = w
<1>1. InFlight(c, i) /\ ~ Queued(c, i) /\ \A v \in Workers : RunBy(v, c, i) => v = w
  BY DEF Flight, OnePlace
<1>2. Live(c, i) /\ c[3] \in {0, 1} /\ i > 0
  BY <1>1 DEF InFlight, Live
<1>3. ASSUME NEW v \in Workers, Before(v, c, i) PROVE v = w
  <2>1. Busy(v) /\ stack[v] # <<>> /\ Top(v).call = c
    BY <1>3, ThreadKinds DEF Before, Busy, Layout, Typed
  <2>2. Top(v).at \notin {"task", "end"} => Top(v).call[3] > 1
    <3>1. Bottom(v).id \in Nat /\ Bottom(v).id > 0
      BY <2>1, BottomFacts
    <3>. QED
      BY <2>1, <3>1, WorkerCalls
  <2>3. Top(v).at = "task" /\ Top(v).id = i
    <3>1. Top(v).at \in {"task", "end"}
      BY <1>2, <2>1, <2>2
    <3>. QED
      BY <1>3, <3>1 DEF Before
  <2>4. Top(v) = Bottom(v)
    BY <2>1, <2>3, WorkerCalls
  <2>5. RunBy(v, c, i)
    BY <2>1, <2>3, <2>4 DEF RunBy
  <2>. QED
    BY <1>1, <2>5
<1>4. ASSUME NEW u \in Users, Before(u, c, i) PROVE FALSE
  <2>1. stack[u] # <<>> /\ Top(u).call = c /\ u \in Threads
    BY <1>4, ThreadKinds DEF Before
  <2>2. u = c[1] /\ Top(u).at # "task"
    <3>1. c[1] = u
      BY <2>1, TopCall
    <3>2. Top(u).at = "task" => Top(u).id = 0
      <4>1. UserShape(stack[u], u, made[u]) /\ Len(stack[u]) > 0
        BY <2>1 DEF Layout, Shapes, Typed
      <4>. QED
        BY <4>1 DEF UserShape, Own, OwnerKinds, Running, Is, Top
    <3>. QED
      BY <1>2, <1>4, <3>1, <3>2 DEF Before
  <2>3. Top(u).at \in OwnerKinds /\ Top(u) = stack[u][1] /\ Top(u).id \in Nat
    BY <1>4, <2>1, <2>2, TopFacts DEF Before, OwnerKinds
  <2>. DEFINE n == Len(stack[u]) - c[3]
  <2>4. n \in 1 .. Len(stack[u]) /\ stack[u][n].call = c
    <3>1. n \in 1 .. Len(stack[u])
      BY <1>2, <2>2, OwnerPlace
    <3>. QED
      BY <1>2, <2>2, <3>1 DEF Live, OwnerOf
  <2>5. n = 1
    <3>1. \A k \in 2 .. Len(stack[u]) : stack[u][k].call # c
      BY <2>1, <2>3, UserCalls
    <3>. QED
      BY <2>4, <3>1
  <2>6. Top(u) = OwnerOf(c)
    BY <2>2, <2>3, <2>5 DEF OwnerOf
  <2>. QED
    BY <1>2, <1>4, <2>2, <2>3, <2>6 DEF Live, Before
<1>. QED
  BY <1>1, <1>3, <1>4, ThreadKinds

\* The worker that makes a nested call runs the task it belongs to.
LEMMA NestedBy ==
  ASSUME Layout, NEW w \in Workers, stack[w] # <<>>, Top(w).at \notin {"task", "end"},
         NEW d \in CallIds, d = Top(w).call
  PROVE  /\ <<d[1], d[2], 0>> \in CallIds /\ d[3] - 1 \in Nat /\ d[3] > 1
         /\ RunBy(w, <<d[1], d[2], 0>>, d[3] - 1)
<1>1. Busy(w)
  BY ThreadKinds DEF Layout, Typed, Busy
<1>2. /\ Bottom(w).call[3] = 0
      /\ d = <<Bottom(w).call[1], Bottom(w).call[2], Bottom(w).id + 1>>
  BY <1>1, WorkerCalls
<1>3. Bottom(w).id \in Nat /\ Bottom(w).id > 0 /\ Bottom(w).call \in CallIds
  BY <1>1, BottomFacts
<1>4. Bottom(w).call = <<Bottom(w).call[1], Bottom(w).call[2], 0>>
  BY <1>2, <1>3, CallType3
<1>5. d[1] = Bottom(w).call[1] /\ d[2] = Bottom(w).call[2] /\ d[3] = Bottom(w).id + 1
  BY <1>2
<1>. QED
  BY <1>1, <1>3, <1>4, <1>5 DEF RunBy

\* Task 0 is before its user or nowhere.
LEMMA FirstBefore ==
  ASSUME Layout, NEW c \in CallIds, c[3] \in {0, 1}
  PROVE  ~ Queued(c, 0) /\ \A v \in Threads : Before(v, c, 0) => v \in Users /\ v = c[1]
<1>1. ~ Queued(c, 0)
  BY QueueFacts DEF Queued, Layout
<1>2. ASSUME NEW v \in Threads, Before(v, c, 0) PROVE v \in Users /\ v = c[1]
  <2>1. stack[v] # <<>> /\ Top(v).call = c
    BY <1>2 DEF Before
  <2>2. ASSUME v \in Workers PROVE FALSE
    <3>1. Busy(v)
      BY <2>1 DEF Busy, Layout, Typed
    <3>2. Top(v).at \in {"task", "end"}
      <4>1. Top(v).at \notin {"task", "end"} => c[3] > 1
        BY <2>1, <2>2, NestedBy
      <4>. QED
        BY <4>1
    <3>3. Top(v).id > 0
      BY <2>2, <3>1, <3>2, BottomFacts
    <3>4. Top(v).at = "task" /\ Top(v).id = 0
      BY <1>2, <3>2 DEF Before
    <3>. QED
      BY <3>3, <3>4
  <2>. QED
    BY <2>1, <2>2, TopCall, ThreadKinds
<1>. QED
  BY <1>1, <1>2

\* The call a thread is in has been made.
LEMMA TopMade ==
  ASSUME Layout, Flight, OnePlace, NEW t \in Threads, stack[t] # <<>>,
         NEW d \in CallIds, d = Top(t).call
  PROVE  ~ NotMade(d)
<1>0. d[1] \in Users /\ d[2] \in Nat /\ made \in [Users -> Nat] /\ d[3] \in Nat
  BY CallType3, MaxThreadsType DEF Layout, Typed
<1>1. CASE t \in Users
  <2>1. d[1] = t /\ d[2] = made[t] /\ d[3] \in {0, 1}
    BY <1>1, TopCall
  <2>2. ASSUME NEW c \in CallIds, NEW i \in Nat, c[3] = 0, Unbegun(c, i), d = <<c[1], c[2], i + 1>>
        PROVE  FALSE
    <3>1. i = 0 /\ d[3] = 1 /\ c[1] = t /\ c # d
      BY <2>1, <2>2
    <3>2. Before(t, c, 0)
      BY <2>2, <3>1, FirstBefore DEF Unbegun
    <3>. QED
      BY <3>1, <3>2 DEF Before
  <2>. QED
    BY <1>0, <2>1, <2>2 DEF NotMade
<1>2. CASE t \in Workers /\ Top(t).at \notin {"task", "end"}
  <2>. DEFINE c == <<d[1], d[2], 0>>
              i == d[3] - 1
  <2>0. d[3] > 1 /\ c[3] = 0
    BY <1>2, NestedBy
  <2>1. c \in CallIds /\ i \in Nat /\ RunBy(t, c, i) /\ Top(t).at # "task"
    BY <1>2, NestedBy
  <2>2. ~ Unbegun(c, i)
    <3>1. ~ Queued(c, i) /\ \A v \in Threads : Before(v, c, i) => v = t
      BY <1>2, <2>1, NoneBefore
    <3>2. ~ Before(t, c, i)
      BY <2>0 DEF Before
    <3>. QED
      BY <3>1, <3>2 DEF Unbegun
  <2>3. d[2] = made[d[1]]
    <3>1. Live(c, i)
      BY <1>2, <2>1 DEF Flight, InFlight
    <3>2. /\ d[1] \in Users /\ Len(stack[d[1]]) - 0 \in 1 .. Len(stack[d[1]])
      BY <2>1, <3>1, OwnerPlace
    <3>3. stack[d[1]][Len(stack[d[1]]) - 0].call = c
      BY <3>1 DEF Live, OwnerOf
    <3>4. c[2] = made[d[1]]
      BY <3>2, <3>3, UserCalls
    <3>. QED
      BY <3>4
  <2>4. ASSUME NEW e \in CallIds, NEW j \in Nat, e[3] = 0, Unbegun(e, j), d = <<e[1], e[2], j + 1>>
        PROVE  FALSE
    <3>1. e = <<e[1], e[2], e[3]>>
      BY <2>4, CallType3
    <3>2. e = c /\ j = i
      BY <2>4, <3>1
    <3>. QED
      BY <2>2, <2>4, <3>2
  <2>. QED
    BY <1>0, <2>3, <2>4 DEF NotMade
<1>3. CASE t \in Workers /\ Top(t).at \in {"task", "end"}
  <2>1. Busy(t)
    BY <1>3, ThreadKinds DEF Layout, Typed, Busy
  <2>2. PICK i \in Nat : RunBy(t, d, i)
    BY <1>3, <2>1, BottomFacts DEF RunBy
  <2>3. Live(d, i)
    BY <1>3, <2>2 DEF Flight, InFlight
  <2>. DEFINE u == d[1]
              n == Len(stack[u]) - d[3]
  <2>4. u \in Users /\ n \in 1 .. Len(stack[u]) /\ stack[u][n].call = d /\ d[3] \in {0, 1}
    BY <2>3, OwnerPlace DEF Live, OwnerOf
  <2>5. d[2] = made[u]
    BY <2>4, UserCalls
  <2>6. d[3] = 1 => Top(u).call = d
    <3>. SUFFICES ASSUME d[3] = 1 PROVE Top(u).call = d
      OBVIOUS
    <3>1. UserShape(stack[u], u, made[u]) /\ Top(u) = stack[u][1]
      BY <2>4 DEF Layout, Shapes, Top
    <3>2. d = <<u, made[u], 1>>
      BY <2>5, CallType3
    <3>3. <<u, made[u], 0>> # <<u, made[u], 1>>
      OBVIOUS
    <3>. HIDE DEF u
    <3>. QED
      BY <2>4, <3>1, <3>2, <3>3 DEF UserShape, Own, Running, Is
  <2>7. ASSUME NEW e \in CallIds, NEW j \in Nat, e[3] = 0, Unbegun(e, j), d = <<e[1], e[2], j + 1>>
        PROVE  FALSE
    <3>1. d[3] = 1 /\ j = 0 /\ e[1] = u /\ e # d
      BY <2>4, <2>7
    <3>2. Before(u, e, 0)
      BY <2>7, <3>1, FirstBefore DEF Unbegun
    <3>. QED
      BY <2>6, <3>1, <3>2 DEF Before
  <2>. QED
    BY <1>0, <2>5, <2>7 DEF NotMade
<1>. QED
  BY <1>1, <1>2, <1>3, ThreadKinds

\* Outcomes are written only by the step that ends their call.
LEMMA OutcomeNext ==
  ASSUME Layout, Next
  PROVE  \/ outcome' = outcome
         \/ \E t \in Threads, b \in BOOLEAN : CallEnds(t, b)
<1>1. ASSUME NEW u \in Users, Make(u) PROVE outcome' = outcome
  BY <1>1 DEF Make
<1>2. ASSUME NEW t \in Threads, Start(t) \/ Size(t) \/ Calc(t) \/ Submit(t) \/ OwnTask(t) \/ Get(t)
      PROVE  outcome' = outcome
  BY <1>2 DEF Start, Size, Calc, Submit, OwnTask, Get
<1>3. ASSUME NEW t \in Threads, RunInline(t) \/ TaskBegin(t) \/ TaskEnd(t)
      PROVE  outcome' = outcome
  BY <1>3 DEF RunInline, TaskBegin, TaskEnd
<1>4. PoolStep => outcome' = outcome
  BY PoolStepEffect
<1>5. ASSUME NEW w \in Workers, Take(w) PROVE outcome' = outcome
  BY <1>5 DEF Take
<1>. QED
  BY StepKinds, <1>1, <1>2, <1>3, <1>4, <1>5

LEMMA FreshNext ==
  ASSUME Layout, Flight, OnePlace, Fresh, Next
  PROVE  Fresh'
<1>. SUFFICES ASSUME NEW d \in CallIds, NotMade(d)' PROVE outcome'[d] = "none"
  BY DEF Fresh
<1>1. NotMade(d) /\ outcome[d] = "none"
  BY NotMadeNext DEF Fresh
<1>2. ASSUME NEW t \in Threads, NEW b \in BOOLEAN, CallEnds(t, b) PROVE outcome'[d] = "none"
  <2>1. Top(t).call \in CallIds /\ Top(t).at \in OwnerKinds /\ stack[t] # <<>>
    BY <1>2, TopFacts DEF CallEnds, OwnerKinds
  <2>2. Top(t).call # d
    BY <1>1, <2>1, TopMade
  <2>3. outcome'[d] = outcome[d]
    BY <1>2, <2>1, <2>2 DEF CallEnds, EndCall, Layout, Typed
  <2>. QED
    BY <1>1, <2>3
<1>. QED
  BY <1>1, <1>2, OutcomeNext

\* A frame of call d is new only when d has not been made.
LEMMA OnNext ==
  ASSUME Layout, Next, NEW d \in CallIds, NEW v \in Threads, On(v, d)'
  PROVE  Present(d) \/ NotMade(d)
<1>1. stack'[v] = stack[v] => Present(d)
  BY DEF On, Present
<1>2. PICK n \in 1 .. Len(stack'[v]) : stack'[v][n].call = d
  BY DEF On
<1>3. /\ stack[v] \in Seq(Frames) /\ Len(stack[v]) \in Nat /\ n \in Nat \ {0}
      /\ stack'[v] \in Seq(Frames) /\ Len(stack'[v]) \in Nat /\ n <= Len(stack'[v])
      /\ stack[v] # <<>> => Len(stack[v]) > 0
  BY <1>2, LayoutNext DEF Layout, Typed
<1>4. ASSUME NEW u \in Users, Make(u) PROVE Present(d) \/ NotMade(d)
  <2>1. Others(u) /\ stack'[u] = <<Frame("start", <<u, made[u] + 1, 0>>, 0)>> /\ made[u] \in Nat
    BY <1>4, MakeEffect DEF Layout, Typed
  <2>2. CASE v = u
    <3>1. d = <<u, made[u] + 1, 0>>
      BY <1>2, <2>1, <2>2 DEF Frame
    <3>. QED
      BY <2>1, <3>1 DEF NotMade
  <2>. QED
    BY <1>1, <2>1, <2>2 DEF Others
<1>5. ASSUME NEW t \in Threads, NEW f, stack[t] # <<>>, Others(t),
             Swapped(stack[t], stack'[t], f), f.call = Top(t).call
      PROVE  Present(d)
  <2>1. CASE v = t
    <3>1. n \in 1 .. Len(stack[v]) /\ stack[v][n].call = d
      BY <1>2, <1>3, <1>5, <2>1 DEF Swapped, Top
    <3>. QED
      BY <3>1 DEF Present, On
  <2>. QED
    BY <1>1, <1>5, <2>1 DEF Others
<1>6. ASSUME NEW t \in Threads, NEW f, NEW g, stack[t] # <<>>, Others(t),
             Pushed(stack[t], stack'[t], f, g), g.call = Top(t).call
      PROVE  Present(d) \/ (v = t /\ d = f.call)
  <2>1. CASE v = t
    <3>1. CASE n = 1
      BY <1>2, <1>6, <2>1, <3>1 DEF Pushed
    <3>2. CASE n = 2
      <4>1. 1 \in 1 .. Len(stack[v]) /\ stack[v][1].call = d
        BY <1>2, <1>3, <1>6, <2>1, <3>2 DEF Pushed, Top
      <4>. QED
        BY <4>1 DEF Present, On
    <3>3. CASE n > 2
      <4>1. n - 1 \in 2 .. Len(stack[v]) /\ (n - 1) + 1 = n
        BY <1>2, <1>3, <1>6, <2>1, <3>3 DEF Pushed
      <4>2. stack'[v][n] = stack[v][n - 1]
        BY <1>6, <2>1, <4>1 DEF Pushed
      <4>. QED
        BY <1>2, <4>1, <4>2 DEF Present, On
    <3>. QED
      BY <1>3, <3>1, <3>2, <3>3
  <2>. QED
    BY <1>1, <1>6, <2>1 DEF Others
<1>7. ASSUME NEW t \in Threads, NEW b, stack[t] # <<>>, Others(t), Popped(stack[t], stack'[t], b)
      PROVE  Present(d)
  <2>1. CASE v = t
    <3>1. n + 1 \in 1 .. Len(stack[v]) /\ Len(stack[v]) > 1
      BY <1>2, <1>3, <1>7, <2>1 DEF Popped
    <3>2. n = 1 => stack[v][n + 1].call = d
      BY <1>2, <1>7, <2>1, <3>1 DEF Popped
    <3>3. n # 1 => stack[v][n + 1].call = d
      <4>1. n # 1 => n \in 2 .. Len(stack'[v])
        BY <1>3
      <4>. QED
        BY <1>2, <1>7, <2>1, <4>1 DEF Popped
    <3>. QED
      BY <3>1, <3>2, <3>3 DEF Present, On
  <2>. QED
    BY <1>1, <1>7, <2>1 DEF Others
<1>8. ASSUME NEW t \in Threads, Start(t) \/ Size(t) \/ Calc(t) \/ Submit(t) \/ Get(t)
      PROVE  Present(d)
  <2>1. CASE Start(t) \/ Size(t)
    BY <1>5, <2>1, StartEffect, SizeEffect
  <2>2. CASE Calc(t)
    BY <1>5, <2>2, CalcEffect
  <2>3. CASE Submit(t) \/ Get(t)
    BY <1>5, <2>3, SubmitEffect, GetEffect
  <2>. QED
    BY <1>8, <2>1, <2>2, <2>3
<1>9. ASSUME NEW t \in Threads, OwnTask(t) PROVE Present(d)
  <2>1. /\ Others(t) /\ stack[t] # <<>>
        /\ \E f, g \in Frames : /\ Pushed(stack[t], stack'[t], f, g) /\ f.call = Top(t).call
                                /\ g.call = Top(t).call
    BY <1>9, OwnTaskEffect DEF Frame
  <2>2. Present(d) \/ (v = t /\ d = Top(t).call)
    BY <1>6, <2>1
  <2>3. v = t /\ d = Top(t).call => On(v, d)
    BY <1>3, <2>1 DEF On, Top
  <2>. QED
    BY <2>2, <2>3 DEF Present
<1>10. ASSUME NEW t \in Threads, NEW i \in Nat, NEW f, NEW g, stack[t] # <<>>, Others(t),
              g.call = Top(t).call, Top(t).call \in CallIds,
              (Top(t).at = "task" /\ Top(t).id = i) \/ Top(t).at = "start",
              BodyStays(t, g.call, i, f, g) \/ BodyCalls(t, g.call, i, f, g)
       PROVE  Present(d) \/ NotMade(d)
  <2>1. CASE BodyStays(t, g.call, i, f, g)
    BY <1>5, <1>10, <2>1 DEF BodyStays
  <2>2. CASE BodyCalls(t, g.call, i, f, g)
    <3>1. /\ Pushed(stack[t], stack'[t], f, g) /\ f.call = <<g.call[1], g.call[2], i + 1>>
          /\ g.call[3] = 0
      BY <2>2 DEF BodyCalls, Frame
    <3>2. Present(d) \/ d = <<g.call[1], g.call[2], i + 1>>
      BY <1>6, <1>10, <3>1
    <3>3. Unbegun(g.call, i)
      BY <1>10 DEF Unbegun, Before
    <3>. QED
      BY <1>10, <3>1, <3>2, <3>3 DEF NotMade
  <2>. QED
    BY <1>10, <2>1, <2>2
<1>11. ASSUME NEW t \in Threads, RunInline(t) PROVE Present(d) \/ NotMade(d)
  <2>1. /\ Others(t) /\ stack[t] # <<>> /\ Top(t).at = "start" /\ Top(t).call \in CallIds /\ 0 \in Nat
        /\ \E f, g \in Frames :
              /\ g.call = Top(t).call
              /\ BodyStays(t, g.call, 0, f, g) \/ BodyCalls(t, g.call, 0, f, g)
    BY <1>11, RunInlineEffect, TopFacts
  <2>. QED
    BY <1>10, <2>1
<1>12. ASSUME NEW t \in Threads, TaskBegin(t) PROVE Present(d) \/ NotMade(d)
  <2>1. /\ Others(t) /\ stack[t] # <<>> /\ Top(t).at = "task" /\ Top(t).call \in CallIds
        /\ Top(t).id \in Nat
        /\ \E f, g \in Frames :
              /\ g.call = Top(t).call
              /\ \/ BodyStays(t, g.call, Top(t).id, f, g) \/ BodyCalls(t, g.call, Top(t).id, f, g)
                 \/ Swapped(stack[t], stack'[t], f) /\ f.call = Top(t).call
    BY <1>12, TaskBeginEffect, TopFacts DEF NoBody
  <2>. QED
    BY <1>5, <1>10, <2>1
<1>13. ASSUME NEW t \in Threads, TaskEnd(t) PROVE Present(d)
  BY <1>7, <1>13, TaskEndEffect
<1>14. ASSUME NEW t \in Threads, NEW b \in BOOLEAN, CallEnds(t, b) PROVE Present(d)
  BY <1>7, <1>14, CallEndsEffect DEF CallEnds
<1>15. ASSUME NEW w \in Workers, Take(w) PROVE Present(d)
  <2>1. /\ Others(w) /\ tasks_ # <<>> /\ Head(tasks_) \in TaskType
        /\ stack'[w] = <<Frame("task", Head(tasks_).call, Head(tasks_).id)>>
    BY <1>15, TakeEffect
  <2>2. 1 \in 1 .. Len(tasks_) /\ Head(tasks_) = tasks_[1] /\ tasks_[1].id \in Nat
    BY <2>1, MaxThreadsType DEF Layout, Typed, TaskType
  <2>3. CASE v = w
    <3>1. tasks_[1].call = d
      BY <1>2, <2>1, <2>2, <2>3 DEF Frame
    <3>. QED
      BY <2>2, <3>1 DEF Present, Queued
  <2>. QED
    BY <1>1, <2>1, <2>3 DEF Others
<1>16. PoolStep => Present(d)
  BY <1>1, PoolStepEffect
<1>. QED
  BY StepKinds, <1>4, <1>8, <1>9, <1>11, <1>12, <1>13, <1>14, <1>15, <1>16

\* A call that ends is nowhere.
LEMMA GoneAfter ==
  ASSUME Layout, Flight, OnePlace, NEW t \in Threads, NEW b \in BOOLEAN, CallEnds(t, b),
         NEW d \in CallIds, d = Top(t).call
  PROVE  ~ Present(d)'
<1>5. /\ \A i \in Nat : ~ InFlight(d, i)
      /\ \A u \in Threads : u # t => ~ On(u, d)
      /\ \A n \in 2 .. Len(stack[t]) : stack[t][n].call # d
  BY Alone, EndsIdle
<1>6. ASSUME NEW i \in Nat, Queued(d, i)' PROVE FALSE
  <2>1. Queued(d, i)
    BY <1>6 DEF CallEnds, poolVars, Queued
  <2>. QED
    BY <1>5, <2>1 DEF Flight
<1>7. ASSUME NEW v \in Threads, On(v, d)' PROVE FALSE
  <2>1. Others(t) /\ Popped(stack[t], stack'[t], b) /\ stack[t] # <<>>
    BY CallEndsEffect DEF CallEnds
  <2>2. CASE v = t
    <3>1. PICK n \in 1 .. Len(stack'[t]) : stack'[t][n].call = d
      BY <1>7, <2>2 DEF On
    <3>2. Len(stack[t]) \in Nat /\ Len(stack'[t]) = Len(stack[t]) - 1
      BY <2>1 DEF Popped, Layout, Typed
    <3>3. n + 1 \in 2 .. Len(stack[t]) /\ Len(stack[t]) > 1 /\ (n # 1 => n \in 2 .. Len(stack'[t]))
      BY <3>1, <3>2
    <3>4. stack[t][n + 1].call = d
      BY <2>1, <3>1, <3>3 DEF Popped
    <3>. QED
      BY <1>5, <3>3, <3>4
  <2>3. CASE v # t
    <3>1. On(v, d)
      BY <1>7, <2>1, <2>3 DEF On, Others
    <3>. QED
      BY <1>5, <2>3, <3>1
  <2>. QED
    BY <2>2, <2>3
<1>. QED
  BY <1>6, <1>7 DEF Present

LEMMA QuietNext ==
  ASSUME Layout, Flight, OnePlace, Fresh, Quiet, Next
  PROVE  Quiet'
<1>. SUFFICES ASSUME NEW d \in CallIds, outcome'[d] # "none", Present(d)' PROVE FALSE
  BY DEF Quiet
<1>1. Present(d) \/ NotMade(d)
  <2>1. ASSUME NEW i \in Nat, Queued(d, i)' PROVE Present(d)
    <3>1. Unbegun(d, i)
      BY <2>1, QueuedNext
    <3>2. ASSUME NEW v \in Threads, Before(v, d, i) PROVE On(v, d)
      <4>1. Len(stack[v]) > 0 /\ stack[v][1].call = d
        BY <3>2 DEF Before, Top, Layout, Typed
      <4>. QED
        BY <4>1 DEF On, Layout, Typed
    <3>. QED
      BY <3>1, <3>2 DEF Unbegun, Present
  <2>. QED
    BY <2>1, OnNext DEF Present
<1>2. outcome[d] = "none"
  BY <1>1 DEF Fresh, Quiet
<1>3. PICK t \in Threads, b \in BOOLEAN : CallEnds(t, b)
  BY <1>2, OutcomeNext
<1>4. d = Top(t).call
  BY <1>2, <1>3 DEF CallEnds, EndCall, Layout, Typed
<1>. QED
  BY <1>3, <1>4, GoneAfter

QInv == Layout /\ Flight /\ OnePlace /\ Fresh /\ Quiet

LEMMA QInit ==
  ASSUME Init
  PROVE  QInv
<1>1. Layout
  BY LayoutInit
<1>2. Len(tasks_) = 0 /\ 1 .. Len(tasks_) = {} /\ \A t \in Threads : Len(stack[t]) = 0
  BY DEF Init
<1>3. \A d, i : ~ Queued(d, i)
  BY <1>2 DEF Queued
<1>4. \A w \in Workers : \A d, i : ~ RunBy(w, d, i)
  BY <1>2, ThreadKinds DEF RunBy, Busy
<1>5. \A d \in CallIds : outcome[d] = "none"
  BY DEF Init
<1>. QED
  BY <1>1, <1>2, <1>3, <1>4, <1>5 DEF QInv, Flight, OnePlace, Fresh, Quiet

LEMMA QNext ==
  ASSUME QInv, [Next]_vars
  PROVE  QInv'
<1>1. CASE Next
  BY <1>1, LayoutNext, FlightNext, FreshNext, QuietNext DEF QInv
<1>2. CASE UNCHANGED vars
  <2>1. UNCHANGED <<num_intraop_threads, pool, tasks_, stack, in_parallel_region_, made,
                    num_tasks, future, outcome>>
    BY <1>2 DEF vars, poolVars, callVars
  <2>2. Layout'
    BY <2>1 DEF QInv, Layout, Typed, Shapes, InRegion, FramesOK
  <2>3. Flight' /\ OnePlace'
    BY <2>1 DEF QInv, Flight, OnePlace, InFlight, Live, OwnerOf, Queued, RunBy, Busy, Bottom
  <2>4. Fresh'
    BY <2>1 DEF QInv, Fresh, NotMade, Unbegun, Queued, Before, Top
  <2>5. Quiet'
    BY <2>1 DEF QInv, Quiet, Present, Queued, On
  <2>. QED
    BY <2>2, <2>3, <2>4, <2>5 DEF QInv
<1>. QED
  BY <1>1, <1>2

LEMMA QAlways == Spec => []QInv
  BY QInit, QNext, PTL DEF Spec

\* When a call of parallel_for or parallel_reduce is over, also by an exception,
\* none of its tasks is queued or running (parallel.cc:153): the futures are all
\* waited for, whatever task 0 or an earlier future threw, and a call that fails
\* in the middle of its submissions has submitted nothing.
THEOREM ParallelRunOverMeansQuiet == Spec => []OverMeansQuiet
<1>1. QInv => OverMeansQuiet
  <2>. SUFFICES ASSUME QInv, NEW d \in CallIds, outcome[d] # "none"
                PROVE  /\ \A k \in DOMAIN tasks_ : tasks_[k].call # d
                       /\ \A t \in Threads : \A k \in DOMAIN stack[t] : stack[t][k].call # d
    BY DEF OverMeansQuiet
  <2>1. ~ Present(d) /\ Typed
    BY DEF QInv, Quiet, Layout
  <2>2. ASSUME NEW k \in DOMAIN tasks_, tasks_[k].call = d PROVE FALSE
    <3>1. k \in 1 .. Len(tasks_)
      BY <2>1 DEF Typed
    <3>2. tasks_[k].id \in Nat
      BY <2>1, <3>1, QueueFacts
    <3>. QED
      BY <2>1, <2>2, <3>1, <3>2 DEF Present, Queued
  <2>3. ASSUME NEW t \in Threads, NEW k \in DOMAIN stack[t], stack[t][k].call = d PROVE FALSE
    <3>1. k \in 1 .. Len(stack[t])
      BY <2>1 DEF Typed
    <3>. QED
      BY <2>1, <2>3, <3>1 DEF Present, On
  <2>. QED
    BY <2>2, <2>3
<1>. QED
  BY <1>1, QAlways, PTL

-----------------------------------------------------------------------------
(* Where the frames of the next state come from. *)

\* A thread moves to frame f of the call it is in.
Moves(v, f) ==
  /\ stack[v] # <<>> /\ f.call = Top(v).call
  /\ \/ Start(v) /\ f.at \in {"size", "calc"} /\ f.eptr = Top(v).eptr
                 /\ (f.at = "calc" => Call(f.call).kind # "reduce")
     \/ Size(v) /\ f.at = "calc" /\ f.eptr = Top(v).eptr
     \/ Calc(v) /\ f.at = "submit" /\ f.eptr = Top(v).eptr
     \/ Submit(v) /\ Top(v).at = "submit" /\ f.at = "submit" /\ f.eptr = Top(v).eptr
     \/ OwnTask(v) /\ f.at = "task" /\ f.eptr = FALSE
     \/ OwnTask(v) /\ Top(v).at = "submit" /\ f.at = "wait" /\ f.eptr = Top(v).eptr
     \/ Get(v) /\ Top(v).at = "wait" /\ f.at = "wait"
               /\ f.eptr = (Top(v).eptr \/ future[Top(v).call][Top(v).id] = "error")
     \/ /\ (RunInline(v) /\ f.at = "inline") \/ (TaskBegin(v) /\ f.at = "end")
        /\ f.eptr = Top(v).eptr \/ \E i \in Nat : <<f.call, i>> \in thrown'

\* The exception of the frame above reaches the frame below it.
Uncovers(v, f) ==
  /\ Len(stack[v]) > 1 /\ f.at = stack[v][2].at /\ f.call = stack[v][2].call
  /\ \/ TaskEnd(v) /\ f.eptr = (stack[v][2].eptr \/ (Top(v).eptr /\ Top(v).id = 0))
     \/ \E b \in BOOLEAN : CallEnds(v, b) /\ f.eptr = (stack[v][2].eptr \/ b)

LEMMA FrameNext ==
  ASSUME Layout, Next, NEW v \in Threads, NEW n \in 1 .. Len(stack'[v]),
         NEW f, f = stack'[v][n]
  PROVE  \/ \E m \in 1 .. Len(stack[v]) : f = stack[v][m]
         \/ f.at \in {"start", "task"} /\ f.eptr = FALSE
         \/ Moves(v, f)
         \/ Uncovers(v, f)
<1>. DEFINE Kept == \E m \in 1 .. Len(stack[v]) : f = stack[v][m]
            Goal == \/ Kept \/ (f.at \in {"start", "task"} /\ f.eptr = FALSE)
                    \/ Moves(v, f) \/ Uncovers(v, f)
<1>1. /\ stack[v] \in Seq(Frames) /\ Len(stack[v]) \in Nat /\ n \in Nat \ {0}
      /\ stack'[v] \in Seq(Frames) /\ Len(stack'[v]) \in Nat /\ n <= Len(stack'[v])
      /\ stack[v] # <<>> => Len(stack[v]) > 0
  BY LayoutNext DEF Layout, Typed
<1>2. stack'[v] = stack[v] => Kept
  OBVIOUS
<1>3. ASSUME NEW g, stack[v] # <<>>, Swapped(stack[v], stack'[v], g), ~ Kept
      PROVE  f = g
  BY <1>1, <1>3 DEF Swapped
<1>4. ASSUME NEW g, NEW h, stack[v] # <<>>, Pushed(stack[v], stack'[v], g, h), ~ Kept
      PROVE  f = g \/ f = h
  <2>1. ASSUME n > 2 PROVE FALSE
    <3>1. n - 1 \in 2 .. Len(stack[v]) /\ (n - 1) + 1 = n /\ n - 1 \in 1 .. Len(stack[v])
      BY <1>1, <1>4, <2>1 DEF Pushed
    <3>2. stack'[v][n] = stack[v][n - 1]
      BY <1>4, <3>1 DEF Pushed
    <3>. QED
      BY <1>4, <3>1, <3>2
  <2>. QED
    BY <1>1, <1>4, <2>1 DEF Pushed
<1>5. ASSUME NEW b, stack[v] # <<>>, Popped(stack[v], stack'[v], b), ~ Kept
      PROVE  /\ Len(stack[v]) > 1 /\ f.at = stack[v][2].at /\ f.call = stack[v][2].call
             /\ f.eptr = (stack[v][2].eptr \/ b)
  <2>1. Len(stack[v]) > 1 /\ n + 1 \in 1 .. Len(stack[v])
    BY <1>1, <1>5 DEF Popped
  <2>2. n = 1
    <3>1. n # 1 => n \in 2 .. Len(stack'[v])
      BY <1>1
    <3>. QED
      BY <1>5, <2>1, <3>1 DEF Popped
  <2>. QED
    BY <1>5, <2>1, <2>2 DEF Popped
<1>. HIDE DEF Kept
<1>6. ASSUME NEW t \in Threads, Others(t), v # t PROVE Kept
  BY <1>2, <1>6 DEF Others
<1>7. ASSUME NEW u \in Users, Make(u) PROVE Goal
  <2>1. Others(u) /\ stack'[u] = <<Frame("start", <<u, made[u] + 1, 0>>, 0)>>
    BY <1>7, MakeEffect
  <2>2. CASE v = u
    <3>1. f = Frame("start", <<u, made[u] + 1, 0>>, 0)
      BY <1>1, <2>1, <2>2
    <3>. QED
      BY <3>1 DEF Frame
  <2>. QED
    BY <1>6, <2>1, <2>2, ThreadKinds
<1>8. ASSUME NEW w \in Workers, Take(w) PROVE Goal
  <2>1. Others(w) /\ stack'[w] = <<Frame("task", Head(tasks_).call, Head(tasks_).id)>>
    BY <1>8, TakeEffect
  <2>2. CASE v = w
    <3>1. f = Frame("task", Head(tasks_).call, Head(tasks_).id)
      BY <1>1, <2>1, <2>2
    <3>. QED
      BY <3>1 DEF Frame
  <2>. QED
    BY <1>6, <2>1, <2>2, ThreadKinds
<1>9. ASSUME NEW t \in Threads, Start(t) PROVE Goal
  BY <1>3, <1>6, <1>9, StartEffect DEF Moves
<1>10. ASSUME NEW t \in Threads, Size(t) PROVE Goal
  BY <1>3, <1>6, <1>10, SizeEffect DEF Moves
<1>11. ASSUME NEW t \in Threads, Calc(t) PROVE Goal
  BY <1>3, <1>6, <1>11, CalcEffect DEF Moves
<1>12. ASSUME NEW t \in Threads, Submit(t) PROVE Goal
  BY <1>3, <1>6, <1>12, SubmitEffect DEF Moves
<1>13. ASSUME NEW t \in Threads, OwnTask(t) PROVE Goal
  <2>1. Others(t)
    BY <1>13, OwnTaskEffect
  <2>2. PICK g \in Frames, h \in Frames :
           /\ stack[t] # <<>> /\ Pushed(stack[t], stack'[t], g, h) /\ Top(t).at = "submit"
           /\ g = Frame("task", Top(t).call, 0)
           /\ h.at = "wait" /\ h.call = Top(t).call /\ h.eptr = Top(t).eptr
    BY <1>13, OwnTaskEffect
  <2>3. CASE v = t /\ ~ Kept
    <3>1. f = g \/ f = h
      BY <1>4, <2>2, <2>3
    <3>2. f = g => Moves(v, f)
      BY <1>13, <2>2, <2>3 DEF Moves, Frame
    <3>3. f = h => Moves(v, f)
      BY <1>13, <2>2, <2>3 DEF Moves
    <3>. QED
      BY <3>1, <3>2, <3>3
  <2>. QED
    BY <1>6, <2>1, <2>3
<1>14. ASSUME NEW t \in Threads, Get(t) PROVE Goal
  BY <1>3, <1>6, <1>14, GetEffect DEF Moves
<1>15. ASSUME NEW t \in Threads, NEW i \in Nat, NEW g, NEW h, stack[t] # <<>>, Others(t),
              (RunInline(t) /\ h.at = "inline") \/ (TaskBegin(t) /\ h.at = "end"),
              h.call = Top(t).call, h.eptr = Top(t).eptr,
              BodyStays(t, h.call, i, g, h) \/ BodyCalls(t, h.call, i, g, h) \/ NoBody(t, g, h)
       PROVE  Goal
  <2>1. CASE v = t /\ ~ Kept /\ BodyStays(t, h.call, i, g, h)
    <3>1. /\ f = g /\ g.at = h.at /\ g.call = h.call
          /\ \/ g.eptr /\ thrown' = thrown \union {<<h.call, i>>}
             \/ g = h
      BY <1>3, <1>15, <2>1 DEF BodyStays
    <3>. QED
      BY <1>15, <2>1, <3>1 DEF Moves
  <2>2. CASE v = t /\ ~ Kept /\ NoBody(t, g, h)
    <3>1. f = h
      BY <1>3, <1>15, <2>2 DEF NoBody
    <3>. QED
      BY <1>15, <2>2, <3>1 DEF Moves
  <2>3. CASE v = t /\ ~ Kept /\ BodyCalls(t, h.call, i, g, h)
    <3>1. /\ f = g \/ f = h
          /\ g = Frame("start", <<h.call[1], h.call[2], i + 1>>, 0)
      BY <1>4, <1>15, <2>3 DEF BodyCalls
    <3>2. CASE f = g
      BY <3>1, <3>2 DEF Frame
    <3>3. CASE f = h
      BY <1>15, <2>3, <3>3 DEF Moves
    <3>. QED
      BY <3>1, <3>2, <3>3
  <2>. QED
    BY <1>6, <1>15, <2>1, <2>2, <2>3
<1>16. ASSUME NEW t \in Threads, RunInline(t) PROVE Goal
  <2>1. /\ Others(t) /\ stack[t] # <<>> /\ 0 \in Nat
        /\ \E g, h \in Frames :
              /\ h.at = "inline" /\ h.call = Top(t).call /\ h.eptr = Top(t).eptr
              /\ BodyStays(t, h.call, 0, g, h) \/ BodyCalls(t, h.call, 0, g, h)
    BY <1>16, RunInlineEffect
  <2>. QED
    BY <1>15, <1>16, <2>1
<1>17. ASSUME NEW t \in Threads, TaskBegin(t) PROVE Goal
  <2>1. /\ Others(t) /\ stack[t] # <<>> /\ Top(t).id \in Nat
        /\ \E g, h \in Frames :
              /\ h.at = "end" /\ h.call = Top(t).call /\ h.eptr = Top(t).eptr
              /\ \/ BodyStays(t, h.call, Top(t).id, g, h) \/ BodyCalls(t, h.call, Top(t).id, g, h)
                 \/ NoBody(t, g, h)
    BY <1>17, TaskBeginEffect, TopFacts
  <2>. QED
    BY <1>15, <1>17, <2>1
<1>18. ASSUME NEW t \in Threads, TaskEnd(t) PROVE Goal
  BY <1>5, <1>6, <1>18, TaskEndEffect DEF Uncovers
<1>19. ASSUME NEW t \in Threads, NEW b \in BOOLEAN, CallEnds(t, b) PROVE Goal
  <2>1. stack[t] # <<>> /\ Others(t) /\ Popped(stack[t], stack'[t], b)
    BY <1>19, CallEndsEffect DEF CallEnds
  <2>. QED
    BY <1>5, <1>6, <1>19, <2>1 DEF Uncovers
<1>20. PoolStep => Goal
  BY <1>2, PoolStepEffect
<1>21. Goal
  BY StepKinds, <1>7, <1>8, <1>9, <1>10, <1>11, <1>12, <1>13, <1>14, <1>16, <1>17, <1>18,
     <1>19, <1>20
<1>. QED
  BY <1>21 DEF Kept

-----------------------------------------------------------------------------
(* OnlyBodiesThrow. *)

\* The number of threads changes only when set_num_threads takes effect.
LEMMA CountNext ==
  ASSUME Layout, Next, ~ late'
  PROVE  /\ ~ late
         /\ \/ get_num_threads' = get_num_threads
            \/ \A t \in Threads : stack[t] = <<>> /\ stack'[t] = <<>>
<1>. DEFINE Goal == /\ ~ late
                    /\ \/ get_num_threads' = get_num_threads
                       \/ \A t \in Threads : stack[t] = <<>> /\ stack'[t] = <<>>
<1>1. UNCHANGED <<num_intraop_threads, pool, late>> => Goal
  BY DEF get_num_threads
<1>2. ASSUME NEW u \in Users, Make(u) PROVE UNCHANGED <<num_intraop_threads, pool, late>>
  BY <1>2 DEF Make, poolVars
<1>3. ASSUME NEW t \in Threads, Start(t) \/ Size(t) \/ Calc(t) \/ Submit(t) \/ OwnTask(t) \/ Get(t)
      PROVE  UNCHANGED <<num_intraop_threads, pool, late>>
  BY <1>3 DEF Start, Size, Calc, Submit, OwnTask, Get, poolVars
<1>4. ASSUME NEW t \in Threads, RunInline(t) \/ TaskBegin(t) \/ TaskEnd(t)
      PROVE  UNCHANGED <<num_intraop_threads, pool, late>>
  BY <1>4 DEF RunInline, TaskBegin, TaskEnd, poolVars
<1>5. ASSUME NEW t \in Threads, NEW b \in BOOLEAN, CallEnds(t, b)
      PROVE  UNCHANGED <<num_intraop_threads, pool, late>>
  BY <1>5 DEF CallEnds, poolVars
<1>6. ASSUME NEW w \in Workers, Take(w) PROVE UNCHANGED <<num_intraop_threads, pool, late>>
  BY <1>6 DEF Take
<1>7. ASSUME PoolStep PROVE Goal
  <2>1. ASSUME NEW t \in Threads, CreatePool(t) PROVE Goal
    <3>1. /\ pool = 0 /\ ~ Broken /\ pool' = PoolThreads /\ num_intraop_threads' = CONSUMED
          /\ late' = late
      BY <2>1 DEF CreatePool
    <3>2. num_intraop_threads # CONSUMED
      BY <3>1 DEF Broken
    <3>3. get_num_threads' = PoolThreads + 1
      BY <3>1 DEF get_num_threads, CONSUMED, NOT_SET
    <3>4. CASE num_intraop_threads = NOT_SET
      <4>1. PoolThreads = DefaultThreads - 1 /\ get_num_threads = DefaultThreads
        BY <3>4 DEF PoolThreads, get_num_threads, NOT_SET
      <4>2. DefaultThreads \in Nat
        BY ParallelAssumption
      <4>. QED
        BY <3>1, <3>3, <4>1, <4>2
    <3>5. CASE num_intraop_threads \in SetTo
      <4>0. num_intraop_threads \in Nat \ {0}
        BY <3>5, ParallelAssumption
      <4>1. PoolThreads = num_intraop_threads - 1 /\ get_num_threads = num_intraop_threads
        BY <4>0 DEF PoolThreads, get_num_threads, NOT_SET
      <4>. QED
        BY <3>1, <3>3, <4>0, <4>1
    <3>. QED
      BY <3>2, <3>4, <3>5 DEF Layout, Typed
  <2>2. ASSUME NEW w \in Workers, WorkLoopEnds(w)
        PROVE  UNCHANGED <<num_intraop_threads, pool, late>>
    BY <2>2 DEF WorkLoopEnds
  <2>3. Stop => UNCHANGED <<num_intraop_threads, pool, late>>
    BY DEF Stop
  <2>4. ASSUME NEW n \in SetTo, set_num_threads(n) PROVE Goal
    <3>1. ~ late
      BY <2>4 DEF set_num_threads
    <3>2. num_intraop_threads = NOT_SET => \A t \in Threads : stack[t] = <<>>
      BY <2>4 DEF set_num_threads
    <3>3. stack' = stack /\ pool' = pool
      BY <2>4 DEF set_num_threads
    <3>4. num_intraop_threads # NOT_SET => num_intraop_threads' = num_intraop_threads
      BY <2>4 DEF set_num_threads
    <3>. QED
      BY <3>1, <3>2, <3>3, <3>4 DEF get_num_threads
  <2>. QED
    BY <1>1, <1>7, <2>1, <2>2, <2>3, <2>4 DEF PoolStep
<1>. QED
  BY StepKinds, <1>1, <1>2, <1>3, <1>4, <1>5, <1>6, <1>7

\* Unless set_num_threads took effect during a call, the pool can be created when
\* it is needed: a call that submits was cut for the threads there are.
PoolInv ==
  ~ late => /\ ~ Broken
            /\ \A t \in Threads : \A n \in 1 .. Len(stack[t]) :
                 stack[t][n].at = "submit" => num_tasks[stack[t][n].call] <= get_num_threads

\* num_tasks is written by Calc.
LEMMA NumTasksNext ==
  ASSUME Layout, Next, NEW d \in CallIds
  PROVE  \/ num_tasks'[d] = num_tasks[d]
         \/ /\ \E t \in Threads : Calc(t) /\ Top(t).call = d
            /\ num_tasks'[d] = NumTasks(Call(d).size, Call(d).grain)
            /\ num_tasks'[d] \in 1 .. get_num_threads
            /\ get_num_threads' = get_num_threads /\ results' = results
<1>2. ASSUME NEW u \in Users, Make(u) PROVE num_tasks' = num_tasks
  BY <1>2 DEF Make, callVars
<1>3. ASSUME NEW t \in Threads, Start(t) \/ Size(t) \/ Submit(t) \/ OwnTask(t) \/ Get(t)
      PROVE  num_tasks' = num_tasks
  BY <1>3 DEF Start, Size, Submit, OwnTask, Get, callVars
<1>4. ASSUME NEW t \in Threads, RunInline(t) \/ TaskBegin(t) \/ TaskEnd(t)
      PROVE  num_tasks' = num_tasks
  BY <1>4 DEF RunInline, TaskBegin, TaskEnd, callVars
<1>5. ASSUME NEW t \in Threads, NEW b \in BOOLEAN, CallEnds(t, b) PROVE num_tasks' = num_tasks
  BY <1>5 DEF CallEnds, callVars
<1>6. ASSUME NEW w \in Workers, Take(w) PROVE num_tasks' = num_tasks
  BY <1>6 DEF Take, callVars
<1>7. PoolStep => num_tasks' = num_tasks
  BY PoolStepEffect DEF callVars
<1>8. ASSUME NEW t \in Threads, Calc(t), num_tasks'[d] # num_tasks[d]
      PROVE  /\ Top(t).call = d
             /\ num_tasks'[d] = NumTasks(Call(d).size, Call(d).grain)
             /\ num_tasks'[d] \in 1 .. get_num_threads
             /\ get_num_threads' = get_num_threads /\ results' = results
  <2>1. /\ num_tasks' = [num_tasks EXCEPT ![Top(t).call] =
                            NumTasks(Call(Top(t).call).size, Call(Top(t).call).grain)]
        /\ results' = results /\ num_intraop_threads' = num_intraop_threads /\ pool' = pool
    BY <1>8 DEF Calc, poolVars
  <2>2. num_tasks \in [CallIds -> 0 .. MaxThreads]
    BY DEF Layout, Typed
  <2>3. Top(t).call = d
    BY <1>8, <2>1, <2>2
  <2>4. num_tasks'[d] = NumTasks(Call(d).size, Call(d).grain)
    BY <2>1, <2>2, <2>3
  <2>5. NumTasks(Call(d).size, Call(d).grain) \in 1 .. get_num_threads
    BY <1>8, <2>3, CalcEffect
  <2>6. get_num_threads' = get_num_threads
    BY <2>1 DEF get_num_threads
  <2>. QED
    BY <2>1, <2>3, <2>4, <2>5, <2>6
<1>. QED
  BY StepKinds, <1>2, <1>3, <1>4, <1>5, <1>6, <1>7, <1>8

LEMMA PoolNext ==
  ASSUME Layout, PoolInv, Next
  PROVE  PoolInv'
<1>. SUFFICES ASSUME ~ late'
              PROVE  /\ ~ Broken'
                     /\ \A t \in Threads : \A n \in 1 .. Len(stack'[t]) :
                          stack'[t][n].at = "submit" => num_tasks'[stack'[t][n].call] <= get_num_threads'
  BY DEF PoolInv
<1>1. ~ late /\ ~ Broken
  BY CountNext DEF PoolInv
<1>2. ASSUME NEW t \in Threads, NEW n \in 1 .. Len(stack[t]), stack[t][n].at = "submit"
      PROVE  num_tasks[stack[t][n].call] <= get_num_threads
  BY <1>1, <1>2 DEF PoolInv
<1>3. ~ Broken'
  <2>1. UNCHANGED <<num_intraop_threads, pool>> => ~ Broken'
    BY <1>1 DEF Broken
  <2>2. ASSUME NEW u \in Users, Make(u) PROVE UNCHANGED <<num_intraop_threads, pool>>
    BY <2>2 DEF Make, poolVars
  <2>3. ASSUME NEW t \in Threads, Start(t) \/ Size(t) \/ Calc(t) \/ Submit(t) \/ OwnTask(t) \/ Get(t)
        PROVE  UNCHANGED <<num_intraop_threads, pool>>
    BY <2>3 DEF Start, Size, Calc, Submit, OwnTask, Get, poolVars
  <2>4. ASSUME NEW t \in Threads, RunInline(t) \/ TaskBegin(t) \/ TaskEnd(t)
        PROVE  UNCHANGED <<num_intraop_threads, pool>>
    BY <2>4 DEF RunInline, TaskBegin, TaskEnd, poolVars
  <2>5. ASSUME NEW t \in Threads, NEW b \in BOOLEAN, CallEnds(t, b)
        PROVE  UNCHANGED <<num_intraop_threads, pool>>
    BY <2>5 DEF CallEnds, poolVars
  <2>6. ASSUME NEW w \in Workers, Take(w) PROVE UNCHANGED <<num_intraop_threads, pool>>
    BY <2>6 DEF Take
  <2>7. ASSUME NEW t \in Threads, CreatePool(t) PROVE ~ Broken'
    <3>1. /\ stack[t] # <<>> /\ Top(t).at = "submit" /\ Top(t).id < num_tasks[Top(t).call]
          /\ pool = 0 /\ pool' = PoolThreads
      BY <2>7 DEF CreatePool, At
    <3>2. Top(t) = stack[t][1] /\ Top(t).call \in CallIds /\ Top(t).id \in Nat /\ 1 <= Top(t).id
      BY <3>1, TopFacts DEF FrameOK
    <3>3. num_tasks[Top(t).call] <= get_num_threads /\ num_tasks[Top(t).call] \in Nat
      <4>1. 1 \in 1 .. Len(stack[t])
        BY <3>1 DEF Layout, Typed
      <4>. QED
        BY <1>2, <3>1, <3>2, <4>1, MaxThreadsType DEF Layout, Typed
    <3>4. get_num_threads \in Nat
      BY ThreadCountType, MaxThreadsType DEF ThreadCount, Layout
    <3>5. get_num_threads > 1
      BY <3>1, <3>2, <3>3, <3>4
    <3>6. num_intraop_threads # CONSUMED
      BY <1>1, <3>1 DEF Broken
    <3>7. PoolThreads = get_num_threads - 1
      <4>1. num_intraop_threads \in SetTo => num_intraop_threads \in Nat \ {0}
        BY ParallelAssumption
      <4>. QED
        BY <3>6, <4>1 DEF PoolThreads, get_num_threads, NOT_SET, Layout, Typed
    <3>. QED
      BY <3>1, <3>4, <3>5, <3>7 DEF Broken
  <2>8. ASSUME NEW w \in Workers, WorkLoopEnds(w) PROVE UNCHANGED <<num_intraop_threads, pool>>
    BY <2>8 DEF WorkLoopEnds
  <2>9. Stop => UNCHANGED <<num_intraop_threads, pool>>
    BY DEF Stop
  <2>10. ASSUME NEW n \in SetTo, set_num_threads(n) PROVE ~ Broken'
    <3>1. /\ pool' = pool
          /\ num_intraop_threads' = n \/ num_intraop_threads' = num_intraop_threads
      BY <2>10 DEF set_num_threads
    <3>2. n # CONSUMED
      BY ParallelAssumption DEF CONSUMED
    <3>. QED
      BY <1>1, <3>1, <3>2 DEF Broken
  <2>. QED
    BY StepKinds, <2>1, <2>2, <2>3, <2>4, <2>5, <2>6, <2>7, <2>8, <2>9, <2>10 DEF PoolStep
<1>4. ASSUME NEW t \in Threads, NEW n \in 1 .. Len(stack'[t]), stack'[t][n].at = "submit"
      PROVE  num_tasks'[stack'[t][n].call] <= get_num_threads'
  <2>. DEFINE f == stack'[t][n]
              d == f.call
  <2>1. d \in CallIds
    <3>1. stack'[t] \in Seq(Frames)
      BY LayoutNext DEF Layout, Typed
    <3>2. f \in Frames
      BY <3>1
    <3>. QED
      BY <3>2 DEF Frames
  <2>2. stack'[t] # <<>>
    BY LayoutNext DEF Layout, Typed
  <2>3. get_num_threads' = get_num_threads /\ get_num_threads \in Nat
    <3>1. get_num_threads' = get_num_threads
      BY <2>2, CountNext
    <3>. QED
      BY <3>1, ThreadCountType, MaxThreadsType DEF ThreadCount, Layout
  <2>4. \/ \E m \in 1 .. Len(stack[t]) : f = stack[t][m]
        \/ f.at \in {"start", "task"}
        \/ Moves(t, f)
        \/ Uncovers(t, f)
    BY FrameNext
  <2>. HIDE DEF f
  <2>5. CASE \E m \in 1 .. Len(stack[t]) : f = stack[t][m]
    <3>1. num_tasks[d] <= get_num_threads
      BY <1>2, <1>4, <2>5 DEF f
    <3>. QED
      BY <2>1, <2>3, <3>1, NumTasksNext DEF f
  <2>6. CASE Moves(t, f)
    <3>1. f.call = Top(t).call /\ stack[t] # <<>>
          /\ (Calc(t) \/ (Submit(t) /\ Top(t).at = "submit"))
      BY <1>4, <2>6 DEF Moves, f
    <3>2. CASE Submit(t) /\ Top(t).at = "submit"
      <4>1. 1 \in 1 .. Len(stack[t]) /\ Top(t) = stack[t][1]
        BY <3>1 DEF Layout, Typed, Top
      <4>2. num_tasks[d] <= get_num_threads
        BY <1>2, <3>1, <3>2, <4>1
      <4>. QED
        BY <2>1, <2>3, <4>2, NumTasksNext DEF f
    <3>3. CASE Calc(t)
      <4>1. NumTasks(Call(d).size, Call(d).grain) \in 1 .. get_num_threads
        BY <3>1, <3>3, CalcEffect
      <4>2. num_tasks'[d] = NumTasks(Call(d).size, Call(d).grain)
        BY <2>1, <3>1, <3>3 DEF Calc, Layout, Typed
      <4>. QED
        BY <2>3, <4>1, <4>2 DEF f
    <3>. QED
      BY <3>1, <3>2, <3>3
  <2>7. CASE Uncovers(t, f)
    <3>1. Len(stack[t]) > 1 /\ f.at = stack[t][2].at
      BY <2>7 DEF Uncovers
    <3>2. stack[t] # <<>> /\ Len(stack[t]) \in Nat
      BY <3>1 DEF Layout, Typed
    <3>3. f.at \in {"wait", "end", "inline"}
      BY <3>1, <3>2, StackFacts
    <3>. QED
      BY <1>4, <3>3 DEF f
  <2>. QED
    BY <1>4, <2>4, <2>5, <2>6, <2>7 DEF f
<1>. QED
  BY <1>3, <1>4

\* A frame of call d on thread t holds an exception.
Erring(t, d) == \E n \in 1 .. Len(stack[t]) : stack[t][n].call = d /\ stack[t][n].eptr

\* The frame below the one that runs a task of the calling thread is that of the
\* call; below a nested call, that of the call it is made in.
LEMMA Below ==
  ASSUME Layout, NEW t \in Threads, Len(stack[t]) > 1
  PROVE  /\ Top(t).at \in {"task", "end"} => stack[t][2].call = Top(t).call /\ Top(t).id = 0
                                             /\ t \in Users /\ stack[t][2].at = "wait"
         /\ Top(t).at \in OwnerKinds =>
              /\ Top(t).call[3] > 0
              /\ stack[t][2].call = <<Top(t).call[1], Top(t).call[2], 0>>
<1>0. Len(stack[t]) # 1
  <2>1. \A n \in Nat : n > 1 => n # 1
    OBVIOUS
  <2>2. Len(stack[t]) \in Nat
    BY DEF Layout, Typed
  <2>. QED
    BY <2>1, <2>2
<1>1. stack[t] # <<>> /\ Top(t) = stack[t][1] /\ Top(t).call \in CallIds
      /\ Len(stack[t]) \in Nat
  <2>1. stack[t] # <<>> /\ Len(stack[t]) \in Nat
    BY DEF Layout, Typed
  <2>. QED
    BY <2>1, TopFacts
<1>2. CASE t \in Users
  <2>1. UserShape(stack[t], t, made[t])
    BY <1>2 DEF Layout, Shapes
  <2>. QED
    BY <1>1, <1>2, <2>1 DEF UserShape, Own, OwnerKinds, Running, Is
<1>3. CASE t \in Workers
  <2>1. Busy(t)
    BY <1>1 DEF Busy
  <2>2. /\ Len(stack[t]) = 2 /\ Top(t).at \in {"start", "inline"}
        /\ stack[t][2] = Bottom(t) /\ Bottom(t).call[3] = 0
        /\ Top(t).call = <<Bottom(t).call[1], Bottom(t).call[2], Bottom(t).id + 1>>
    BY <1>0, <1>3, <2>1, WorkerCalls
  <2>3. Bottom(t).call \in CallIds /\ Bottom(t).id \in Nat
    BY <1>3, <2>1, BottomFacts
  <2>4. Bottom(t).call = <<Bottom(t).call[1], Bottom(t).call[2], 0>>
    BY <2>2, <2>3, CallType3
  <2>5. /\ Top(t).call[1] = Bottom(t).call[1] /\ Top(t).call[2] = Bottom(t).call[2]
        /\ Top(t).call[3] = Bottom(t).id + 1
    BY <2>2
  <2>. QED
    BY <2>2, <2>3, <2>4, <2>5
<1>. QED
  BY <1>2, <1>3, ThreadKinds

\* How a frame comes to hold an exception.
LEMMA ErringNext ==
  ASSUME Layout, Next, NEW d \in CallIds, NEW v \in Threads, Erring(v, d)'
  PROVE  \/ Erring(v, d)
         \/ \E i \in TaskIds : future[d][i] = "error"
         \/ \E i \in Nat : <<d, i>> \in thrown'
         \/ /\ CallEnds(v, TRUE) /\ Top(v).call \in CallIds
            /\ d = <<Top(v).call[1], Top(v).call[2], 0>>
<1>1. PICK n \in 1 .. Len(stack'[v]) : stack'[v][n].call = d /\ stack'[v][n].eptr
  BY DEF Erring
<1>2. PICK f : f = stack'[v][n]
  OBVIOUS
<1>3. \/ \E m \in 1 .. Len(stack[v]) : f = stack[v][m]
      \/ f.at \in {"start", "task"} /\ f.eptr = FALSE
      \/ Moves(v, f)
      \/ Uncovers(v, f)
  BY <1>2, FrameNext
<1>4. f.call = d /\ f.eptr
  BY <1>1, <1>2
<1>5. CASE \E m \in 1 .. Len(stack[v]) : f = stack[v][m]
  BY <1>4, <1>5 DEF Erring
<1>6. CASE Moves(v, f)
  <2>1. stack[v] # <<>> /\ f.call = Top(v).call
    BY <1>6 DEF Moves
  <2>2. 1 \in 1 .. Len(stack[v]) /\ Top(v) = stack[v][1]
    BY <2>1 DEF Layout, Typed, Top
  <2>3. CASE Top(v).eptr
    BY <1>4, <2>1, <2>2, <2>3 DEF Erring
  <2>4. CASE ~ Top(v).eptr
    <3>1. \/ Get(v) /\ future[Top(v).call][Top(v).id] = "error"
          \/ \E i \in Nat : <<f.call, i>> \in thrown'
      BY <1>4, <1>6, <2>4 DEF Moves
    <3>2. CASE Get(v) /\ future[Top(v).call][Top(v).id] = "error"
      <4>1. Top(v).id < num_tasks[d] /\ num_tasks[d] \in 0 .. MaxThreads /\ Top(v).id \in Nat
        BY <1>4, <2>1, <3>2, TopFacts DEF Get, Layout, Typed
      <4>2. Top(v).id \in TaskIds
        BY <4>1, MaxThreadsType DEF TaskIds
      <4>. QED
        BY <1>4, <2>1, <3>2, <4>2
    <3>. QED
      BY <1>4, <3>1, <3>2
  <2>. QED
    BY <2>3, <2>4
<1>7. CASE Uncovers(v, f)
  <2>0. Len(stack[v]) > 1 /\ f.call = stack[v][2].call /\ Len(stack[v]) \in Nat
    BY <1>7 DEF Uncovers, Layout, Typed
  <2>1. /\ Len(stack[v]) > 1 /\ f.call = stack[v][2].call /\ stack[v] # <<>>
        /\ 1 \in 1 .. Len(stack[v]) /\ 2 \in 1 .. Len(stack[v])
    BY <2>0
  <2>2. CASE stack[v][2].eptr
    BY <1>4, <2>1, <2>2 DEF Erring
  <2>3. CASE ~ stack[v][2].eptr
    <3>1. (TaskEnd(v) /\ Top(v).eptr) \/ \E b \in BOOLEAN : CallEnds(v, b) /\ b
      BY <1>4, <1>7, <2>3 DEF Uncovers
    <3>2. CASE TaskEnd(v) /\ Top(v).eptr
      <4>1. Top(v).at = "end" /\ Top(v) = stack[v][1]
        BY <2>1, <3>2, TaskEndEffect, TopFacts
      <4>2. Top(v).call = d
        BY <1>4, <2>1, <4>1, Below
      <4>. QED
        BY <2>1, <3>2, <4>1, <4>2 DEF Erring
    <3>3. CASE \E b \in BOOLEAN : CallEnds(v, b) /\ b
      <4>1. CallEnds(v, TRUE)
        BY <3>3, Zenon
      <4>2. Top(v).at \in OwnerKinds /\ Top(v).call \in CallIds
        BY <2>1, <4>1, TopFacts DEF CallEnds, OwnerKinds
      <4>. QED
        BY <1>4, <2>1, <4>1, <4>2, Below
    <3>. QED
      BY <3>1, <3>2, <3>3
  <2>. QED
    BY <2>2, <2>3
<1>. QED
  BY <1>3, <1>4, <1>5, <1>6, <1>7

\* How a future comes to hold an exception.
LEMMA FutureNext ==
  ASSUME Layout, Next, NEW d \in CallIds, NEW i \in TaskIds
  PROVE  \/ future'[d][i] = future[d][i]
         \/ \E t \in Threads : /\ Submit(t) /\ stack[t] # <<>> /\ Top(t).call = d /\ Top(t).id = i
                               /\ Top(t).at = "submit" /\ future'[d][i] = "pending"
         \/ \E t \in Threads : /\ TaskEnd(t) /\ stack[t] # <<>> /\ Top(t).call = d /\ Top(t).id = i
                               /\ i # 0 /\ future'[d][i] = IF Top(t).eptr THEN "error" ELSE "value"
<1>1. future \in [CallIds -> [TaskIds -> {"none", "pending", "value", "error"}]]
  BY DEF Layout, Typed
<1>2. ASSUME NEW u \in Users, Make(u) PROVE future' = future
  BY <1>2 DEF Make, callVars
<1>3. ASSUME NEW t \in Threads, Start(t) \/ Size(t) \/ Calc(t) \/ OwnTask(t) \/ Get(t)
      PROVE  future' = future
  BY <1>3 DEF Start, Size, Calc, OwnTask, Get, callVars
<1>4. ASSUME NEW t \in Threads, RunInline(t) \/ TaskBegin(t) PROVE future' = future
  BY <1>4 DEF RunInline, TaskBegin, callVars
<1>5. ASSUME NEW t \in Threads, NEW b \in BOOLEAN, CallEnds(t, b) PROVE future' = future
  BY <1>5 DEF CallEnds, callVars
<1>6. ASSUME NEW w \in Workers, Take(w) PROVE future' = future
  BY <1>6 DEF Take, callVars
<1>7. PoolStep => future' = future
  BY PoolStepEffect DEF callVars
<1>8. ASSUME NEW t \in Threads, Submit(t), future'[d][i] # future[d][i]
      PROVE  /\ Submit(t) /\ stack[t] # <<>> /\ Top(t).call = d /\ Top(t).id = i
             /\ Top(t).at = "submit" /\ future'[d][i] = "pending"
  <2>1. /\ stack[t] # <<>> /\ Top(t).at = "submit"
        /\ future' = [future EXCEPT ![Top(t).call][Top(t).id] = "pending"]
    BY <1>8 DEF Submit, At
  <2>. QED
    BY <1>1, <1>8, <2>1
<1>9. ASSUME NEW t \in Threads, TaskEnd(t), future'[d][i] # future[d][i]
      PROVE  /\ TaskEnd(t) /\ stack[t] # <<>> /\ Top(t).call = d /\ Top(t).id = i
             /\ i # 0 /\ future'[d][i] = IF Top(t).eptr THEN "error" ELSE "value"
  <2>1. /\ stack[t] # <<>>
        /\ future' = IF Top(t).id = 0 THEN future
                     ELSE [future EXCEPT ![Top(t).call][Top(t).id] =
                             IF Top(t).eptr THEN "error" ELSE "value"]
    BY <1>9 DEF TaskEnd, At, TaskResult
  <2>. QED
    BY <1>1, <1>9, <2>1
<1>. QED
  BY StepKinds, <1>2, <1>3, <1>4, <1>5, <1>6, <1>7, <1>8, <1>9

LEMMA ThrownNext ==
  ASSUME Layout, Next
  PROVE  thrown \subseteq thrown'
<1>2. ASSUME NEW u \in Users, Make(u) PROVE thrown' = thrown
  BY <1>2 DEF Make
<1>3. ASSUME NEW t \in Threads, Start(t) \/ Size(t) \/ Calc(t) \/ Submit(t) \/ OwnTask(t) \/ Get(t)
      PROVE  thrown' = thrown
  BY <1>3 DEF Start, Size, Calc, Submit, OwnTask, Get
<1>4. ASSUME NEW t \in Threads, RunInline(t) PROVE thrown \subseteq thrown'
  BY <1>4, RunInlineEffect DEF BodyStays, BodyCalls
<1>5. ASSUME NEW t \in Threads, TaskBegin(t) PROVE thrown \subseteq thrown'
  BY <1>5, TaskBeginEffect DEF BodyStays, BodyCalls, NoBody
<1>6. ASSUME NEW t \in Threads, TaskEnd(t) PROVE thrown' = thrown
  BY <1>6 DEF TaskEnd
<1>7. ASSUME NEW t \in Threads, NEW b \in BOOLEAN, CallEnds(t, b) PROVE thrown' = thrown
  BY <1>7 DEF CallEnds
<1>8. ASSUME NEW w \in Workers, Take(w) PROVE thrown' = thrown
  BY <1>8 DEF Take
<1>9. PoolStep => thrown' = thrown
  BY PoolStepEffect
<1>. QED
  BY StepKinds, <1>2, <1>3, <1>4, <1>5, <1>6, <1>7, <1>8, <1>9

\* A body of call d, or of a call made in it, has thrown.
Source(d) == \E e \in thrown : e[1][1] = d[1] /\ e[1][2] = d[2]

\* Every exception on its way has its source in a body.
SourceInv ==
  ~ late => \A d \in CallIds :
    \/ outcome[d] = "threw" \/ (\E i \in TaskIds : future[d][i] = "error")
    \/ \E t \in Threads : Erring(t, d)
    => Source(d)

LEMMA SourceNext ==
  ASSUME Layout, PoolInv, SourceInv, Next
  PROVE  SourceInv'
<1>. SUFFICES ASSUME ~ late', NEW d \in CallIds,
                     \/ outcome'[d] = "threw" \/ (\E i \in TaskIds : future'[d][i] = "error")
                     \/ \E t \in Threads : Erring(t, d)'
              PROVE  Source(d)'
  BY DEF SourceInv
<1>1. ~ late /\ ~ Broken
  BY CountNext DEF PoolInv
<1>2. ASSUME NEW c \in CallIds,
             \/ outcome[c] = "threw" \/ (\E i \in TaskIds : future[c][i] = "error")
             \/ \E t \in Threads : Erring(t, c)
      PROVE  Source(c)
  BY <1>1, <1>2 DEF SourceInv
<1>3. Source(d) => Source(d)'
  BY ThrownNext DEF Source
<1>4. ASSUME NEW t \in Threads, CallEnds(t, TRUE) PROVE Top(t).call \in CallIds /\ Source(Top(t).call)
  <2>1. stack[t] # <<>> /\ Top(t).eptr
    BY <1>1, <1>4 DEF CallEnds
  <2>2. Top(t).call \in CallIds /\ Top(t) = stack[t][1] /\ 1 \in 1 .. Len(stack[t])
    BY <2>1, TopFacts DEF Layout, Typed
  <2>3. Erring(t, Top(t).call)
    BY <2>1, <2>2 DEF Erring
  <2>. QED
    BY <1>2, <2>2, <2>3
<1>5. CASE outcome'[d] = "threw"
  <2>1. CASE outcome[d] = "threw"
    BY <1>2, <1>3, <2>1
  <2>2. CASE outcome[d] # "threw"
    <3>1. PICK t \in Threads, b \in BOOLEAN : CallEnds(t, b)
      BY <1>5, <2>2, OutcomeNext
    <3>2. outcome' = [outcome EXCEPT ![Top(t).call] = IF b THEN "threw" ELSE "returned"]
      BY <3>1 DEF CallEnds, EndCall
    <3>3. Top(t).call = d
      BY <1>5, <2>2, <3>2 DEF Layout, Typed
    <3>4. b
      BY <1>5, <3>2, <3>3 DEF Layout, Typed
    <3>5. CallEnds(t, TRUE)
      BY <3>1, <3>4, Zenon
    <3>. QED
      BY <1>3, <1>4, <3>3, <3>5
  <2>. QED
    BY <2>1, <2>2
<1>6. ASSUME NEW i \in TaskIds, future'[d][i] = "error" PROVE Source(d)'
  <2>1. CASE future[d][i] = "error"
    BY <1>2, <1>3, <2>1
  <2>2. CASE future[d][i] # "error"
    <3>1. PICK t \in Threads : /\ stack[t] # <<>> /\ Top(t).call = d
                               /\ future'[d][i] = IF Top(t).eptr THEN "error" ELSE "value"
      BY <1>6, <2>2, FutureNext
    <3>2. Top(t).eptr /\ Top(t) = stack[t][1] /\ 1 \in 1 .. Len(stack[t])
      BY <1>6, <3>1, TopFacts DEF Layout, Typed
    <3>3. Erring(t, d)
      BY <3>1, <3>2 DEF Erring
    <3>. QED
      BY <1>2, <1>3, <3>3
  <2>. QED
    BY <2>1, <2>2
<1>7. ASSUME NEW t \in Threads, Erring(t, d)' PROVE Source(d)'
  <2>1. \/ Erring(t, d)
        \/ \E i \in TaskIds : future[d][i] = "error"
        \/ \E i \in Nat : <<d, i>> \in thrown'
        \/ /\ CallEnds(t, TRUE) /\ Top(t).call \in CallIds
           /\ d = <<Top(t).call[1], Top(t).call[2], 0>>
    BY <1>7, ErringNext
  <2>2. CASE \E i \in Nat : <<d, i>> \in thrown'
    BY <2>2 DEF Source
  <2>3. CASE CallEnds(t, TRUE) /\ d = <<Top(t).call[1], Top(t).call[2], 0>>
    <3>1. Source(Top(t).call)
      BY <1>4, <2>3
    <3>2. d[1] = Top(t).call[1] /\ d[2] = Top(t).call[2]
      BY <2>3
    <3>3. Source(d)
      BY <3>1, <3>2 DEF Source
    <3>. QED
      BY <1>3, <3>3
  <2>. QED
    BY <1>2, <1>3, <2>1, <2>2, <2>3
<1>. QED
  BY <1>5, <1>6, <1>7

ThrowInv == Layout /\ PoolInv /\ SourceInv

LEMMA ThrowInit ==
  ASSUME Init
  PROVE  ThrowInv
<1>1. Layout
  BY LayoutInit
<1>2. num_intraop_threads # CONSUMED
  BY DEF Init, NOT_SET, CONSUMED
<1>3. \A t \in Threads : Len(stack[t]) = 0 /\ 1 .. Len(stack[t]) = {}
  BY DEF Init
<1>4. \A d \in CallIds : outcome[d] # "threw" /\ \A i \in TaskIds : future[d][i] # "error"
  BY DEF Init
<1>. QED
  BY <1>1, <1>2, <1>3, <1>4 DEF ThrowInv, PoolInv, SourceInv, Broken, Erring

LEMMA ThrowNext ==
  ASSUME ThrowInv, [Next]_vars
  PROVE  ThrowInv'
<1>1. CASE Next
  BY <1>1, LayoutNext, PoolNext, SourceNext DEF ThrowInv
<1>2. CASE UNCHANGED vars
  <2>1. UNCHANGED <<num_intraop_threads, pool, tasks_, stack, in_parallel_region_, made,
                    num_tasks, future, outcome, thrown, late>>
    BY <1>2 DEF vars, poolVars, callVars
  <2>2. Layout'
    BY <2>1 DEF ThrowInv, Layout, Typed, Shapes, InRegion, FramesOK
  <2>3. PoolInv'
    BY <2>1 DEF ThrowInv, PoolInv, Broken, get_num_threads
  <2>4. SourceInv'
    BY <2>1 DEF ThrowInv, SourceInv, Erring, Source
  <2>. QED
    BY <2>2, <2>3, <2>4 DEF ThrowInv
<1>. QED
  BY <1>1, <1>2

\* A call of parallel_for or parallel_reduce throws only when a body did, unless
\* set_num_threads took effect during a call: a call is cut into more than one
\* task only when there are threads to create the pool with (parallel.cc:89).
THEOREM ParallelRunOnlyBodiesThrow == Spec => []OnlyBodiesThrow
<1>1. ThrowInv => OnlyBodiesThrow
  BY DEF ThrowInv, SourceInv, Source, OnlyBodiesThrow
<1>. QED
  BY <1>1, ThrowInit, ThrowNext, PTL DEF Spec

-----------------------------------------------------------------------------
(* ResultsFit. *)

\* Unless set_num_threads took effect during a call, the vector has one element
\* per task when the tasks are computed again, and then room for all of them.
Roomy(d, at) ==
  /\ at = "calc" => results[d] = NumTasks(Call(d).size, Call(d).grain)
  /\ at \in {"submit", "wait"} => num_tasks[d] <= results[d]

ResultsInv ==
  /\ results \in [CallIds -> Nat]
  /\ ~ late => \A d \in CallIds, at \in FrameKinds, t \in Threads :
       /\ Call(d).kind = "reduce"
       /\ \E n \in 1 .. Len(stack[t]) : stack[t][n].at = at /\ stack[t][n].call = d
       => Roomy(d, at)

\* results is written by Size.
LEMMA ResultsNext ==
  ASSUME Layout, results \in [CallIds -> Nat], Next
  PROVE  \/ results' = results
         \/ \E t \in Threads :
              /\ Size(t) /\ stack[t] # <<>> /\ Top(t).at = "size" /\ Top(t).call \in CallIds
              /\ NumTasks(Call(Top(t).call).size, Call(Top(t).call).grain) \in Nat
              /\ results' = [results EXCEPT ![Top(t).call] =
                               NumTasks(Call(Top(t).call).size, Call(Top(t).call).grain)]
<1>2. ASSUME NEW u \in Users, Make(u) PROVE results' = results
  BY <1>2 DEF Make, callVars
<1>3. ASSUME NEW t \in Threads, Start(t) \/ Calc(t) \/ Submit(t) \/ OwnTask(t) \/ Get(t)
      PROVE  results' = results
  BY <1>3 DEF Start, Calc, Submit, OwnTask, Get, callVars
<1>4. ASSUME NEW t \in Threads, RunInline(t) \/ TaskBegin(t) \/ TaskEnd(t)
      PROVE  results' = results
  BY <1>4 DEF RunInline, TaskBegin, TaskEnd, callVars
<1>5. ASSUME NEW t \in Threads, NEW b \in BOOLEAN, CallEnds(t, b) PROVE results' = results
  BY <1>5 DEF CallEnds, callVars
<1>6. ASSUME NEW w \in Workers, Take(w) PROVE results' = results
  BY <1>6 DEF Take, callVars
<1>7. PoolStep => results' = results
  BY PoolStepEffect DEF callVars
<1>8. ASSUME NEW t \in Threads, Size(t)
      PROVE  /\ stack[t] # <<>> /\ Top(t).at = "size" /\ Top(t).call \in CallIds
             /\ NumTasks(Call(Top(t).call).size, Call(Top(t).call).grain) \in Nat
             /\ results' = [results EXCEPT ![Top(t).call] =
                              NumTasks(Call(Top(t).call).size, Call(Top(t).call).grain)]
  <2>1. stack[t] # <<>> /\ Top(t).at = "size"
    BY <1>8 DEF Size, At
  <2>2. Top(t).call \in CallIds /\ Call(Top(t).call).size > 0
    BY <2>1, TopFacts DEF FrameOK
  <2>3. Call(Top(t).call).size \in Nat \ {0} /\ Call(Top(t).call).grain \in Nat \ {0}
    BY <2>2, CallFacts
  <2>4. get_num_threads \in Nat \ {0}
    BY ThreadCountType, MaxThreadsType DEF ThreadCount, Layout
  <2>5. NumTasks(Call(Top(t).call).size, Call(Top(t).call).grain) \in Nat
    <3>1. NumTasks(Call(Top(t).call).size, Call(Top(t).call).grain) \in 1 .. get_num_threads
      BY <2>3, <2>4, CutBounds
    <3>. QED
      BY <2>4, <3>1
  <2>6. results' = [results EXCEPT ![Top(t).call] =
                      NumTasks(Call(Top(t).call).size, Call(Top(t).call).grain)]
    BY <1>8 DEF Size
  <2>. QED
    BY <2>1, <2>2, <2>5, <2>6
<1>. QED
  BY StepKinds, <1>2, <1>3, <1>4, <1>5, <1>6, <1>7, <1>8

\* A reduction that sizes its vector has no other frame that uses it.
LEMMA SizesAlone ==
  ASSUME Layout, NEW t \in Threads, stack[t] # <<>>, Top(t).at = "size",
         NEW v \in Threads, NEW n \in 1 .. Len(stack[v]), stack[v][n].call = Top(t).call,
         stack[v][n].at \in {"calc", "submit", "wait"}, Call(Top(t).call).kind = "reduce"
  PROVE  FALSE
<1>1. Top(t).call \in CallIds /\ Top(t) = stack[t][1]
  BY TopFacts
<1>2. Top(t).call[3] = 0
  BY <1>1, CallFacts
<1>3. t \in Users /\ Top(t).call[1] = t
  BY TopCall, ThreadKinds
<1>4. Len(stack[t]) = 1
  BY <1>2, <1>3, UserCalls DEF OwnerKinds
<1>5. CASE v \in Users
  <2>1. v = t
    BY <1>3, <1>5, UserCalls
  <2>2. n = 1
    BY <1>4, <2>1
  <2>. QED
    BY <1>1, <2>1, <2>2
<1>6. CASE v \in Workers
  <2>1. WorkerShape(stack[v]) /\ Len(stack[v]) \in Nat
    BY <1>6 DEF Layout, Shapes, Typed
  <2>2. stack[v][n].at \in {"task", "end", "start", "inline"}
    BY <2>1 DEF WorkerShape
  <2>. QED
    BY <2>2
<1>. QED
  BY <1>5, <1>6, ThreadKinds

LEMMA RoomNext ==
  ASSUME Layout, ResultsInv, Next
  PROVE  ResultsInv'
<1>1. results \in [CallIds -> Nat] /\ results' \in [CallIds -> Nat]
  <2>1. results \in [CallIds -> Nat]
    BY DEF ResultsInv
  <2>. QED
    BY <2>1, ResultsNext
<1>2. ASSUME ~ late', NEW d \in CallIds, NEW at \in FrameKinds, NEW v \in Threads,
             Call(d).kind = "reduce",
             NEW n \in 1 .. Len(stack'[v]), stack'[v][n].at = at, stack'[v][n].call = d
      PROVE  Roomy(d, at)'
  <2>. DEFINE N == NumTasks(Call(d).size, Call(d).grain)
  <2>1. stack'[v] # <<>>
    <3>1. stack'[v] \in Seq(Frames)
      BY LayoutNext DEF Layout, Typed
    <3>. QED
      BY <1>2, <3>1
  <2>2. ~ late /\ get_num_threads' = get_num_threads
    BY <1>2, <2>1, CountNext
  <2>3. ASSUME NEW t \in Threads, NEW m \in 1 .. Len(stack[t]), stack[t][m].call = d,
               stack[t][m].at \in FrameKinds
        PROVE  Roomy(d, stack[t][m].at)
    BY <1>2, <2>2, <2>3 DEF ResultsInv
  <2>4. N' = N
    BY <2>2 DEF NumTasks, ChunkSize
  <2>5. PICK f : f = stack'[v][n]
    OBVIOUS
  <2>6. \/ \E m \in 1 .. Len(stack[v]) : f = stack[v][m]
        \/ f.at \in {"start", "task"}
        \/ Moves(v, f)
        \/ Uncovers(v, f)
    BY <2>5, FrameNext
  <2>. HIDE DEF N
  <2>7. f.at = at /\ f.call = d
    BY <1>2, <2>5
  <2>8. ASSUME NEW m \in 1 .. Len(stack[v]), stack[v][m].call = d,
               \/ stack[v][m].at = at
               \/ stack[v][m].at = "submit" /\ at = "wait"
        PROVE  Roomy(d, at)'
    <3>1. Roomy(d, stack[v][m].at)
      BY <2>3, <2>8 DEF FrameKinds
    <3>2. CASE at \in {"calc", "submit", "wait"}
      <4>0. stack[v][m].at \in {"calc", "submit", "wait"}
        BY <2>8, <3>2
      <4>1. results'[d] = results[d]
        <5>1. ASSUME NEW t \in Threads, stack[t] # <<>>, Top(t).at = "size", Top(t).call \in CallIds,
                     results' = [results EXCEPT ![Top(t).call] =
                                   NumTasks(Call(Top(t).call).size, Call(Top(t).call).grain)]
              PROVE  results'[d] = results[d]
          <6>1. Top(t).call # d
            BY <1>2, <2>8, <4>0, <5>1, SizesAlone
          <6>. QED
            BY <1>1, <5>1, <6>1
        <5>. QED
          BY <1>1, <5>1, ResultsNext
      <4>2. at = "calc" => results'[d] = N'
        BY <2>4, <2>8, <3>1, <4>1 DEF Roomy, N
      <4>3. ASSUME at \in {"submit", "wait"} PROVE num_tasks'[d] <= results'[d]
        <5>1. num_tasks[d] <= results[d]
          BY <2>8, <3>1, <4>3 DEF Roomy
        <5>2. ASSUME NEW t \in Threads, Calc(t), Top(t).call = d PROVE results[d] = N
          <6>1. stack[t] # <<>> /\ Top(t).at = "calc"
            BY <5>2 DEF Calc, At
          <6>2. Top(t) = stack[t][1] /\ 1 \in 1 .. Len(stack[t])
            BY <6>1, TopFacts DEF Layout, Typed
          <6>3. Roomy(d, "calc")
            BY <2>3, <5>2, <6>1, <6>2 DEF FrameKinds
          <6>. QED
            BY <6>3 DEF Roomy, N
        <5>3. results[d] \in Nat
          BY <1>1
        <5>4. \/ num_tasks'[d] = num_tasks[d]
              \/ num_tasks'[d] = results[d]
          BY <5>2, NumTasksNext DEF N
        <5>. QED
          BY <4>1, <5>1, <5>3, <5>4
      <4>. QED
        BY <4>2, <4>3 DEF Roomy, N
    <3>. QED
      BY <3>2 DEF Roomy
  <2>9. ASSUME stack[v] # <<>> PROVE 1 \in 1 .. Len(stack[v]) /\ Top(v) = stack[v][1]
    BY <2>9, TopFacts DEF Layout, Typed
  <2>10. CASE Moves(v, f)
    <3>0. stack[v] # <<>> /\ d = Top(v).call
      BY <2>7, <2>10 DEF Moves
    <3>1. CASE Size(v) /\ at = "calc"
      <4>1. results'[d] = N
        BY <1>1, <3>0, <3>1 DEF Size, N
      <4>. QED
        BY <2>4, <3>1, <4>1 DEF Roomy, N
    <3>2. CASE Calc(v) /\ at = "submit"
      <4>1. num_tasks'[d] = N /\ results' = results
        BY <3>0, <3>2 DEF Calc, Layout, Typed, N
      <4>2. Top(v).at = "calc"
        BY <3>2 DEF Calc, At
      <4>3. Roomy(d, "calc")
        BY <2>3, <2>9, <3>0, <4>2 DEF FrameKinds
      <4>4. results[d] = N /\ results[d] \in Nat
        BY <1>1, <4>3 DEF Roomy, N
      <4>. QED
        BY <3>2, <4>1, <4>4 DEF Roomy
    <3>3. CASE at \in {"submit", "wait"} /\ Top(v).at \in {"submit", "wait"}
               /\ (at = Top(v).at \/ Top(v).at = "submit")
      BY <2>8, <2>9, <3>0, <3>3
    <3>4. CASE at \notin {"calc", "submit", "wait"}
      BY <3>4 DEF Roomy
    <3>5. \/ Size(v) /\ at = "calc"
          \/ Calc(v) /\ at = "submit"
          \/ at \in {"submit", "wait"} /\ Top(v).at \in {"submit", "wait"}
             /\ (at = Top(v).at \/ Top(v).at = "submit")
          \/ at \notin {"calc", "submit", "wait"}
      BY <1>2, <2>7, <2>10 DEF Moves
    <3>. QED
      BY <3>1, <3>2, <3>3, <3>4, <3>5
  <2>11. CASE Uncovers(v, f)
    <3>1. 2 \in 1 .. Len(stack[v]) /\ f.at = stack[v][2].at /\ f.call = stack[v][2].call
      BY <2>11 DEF Uncovers, Layout, Typed
    <3>. QED
      BY <2>7, <2>8, <3>1
  <2>12. CASE \E m \in 1 .. Len(stack[v]) : f = stack[v][m]
    BY <2>7, <2>8, <2>12
  <2>13. CASE f.at \in {"start", "task"}
    BY <2>7, <2>13 DEF Roomy
  <2>. QED
    BY <2>6, <2>10, <2>11, <2>12, <2>13
<1>. QED
  BY <1>1, <1>2 DEF ResultsInv

RoomInv == QInv /\ ResultsInv

LEMMA RoomAlways == Spec => []RoomInv
<1>1. Init => RoomInv
  <2>. SUFFICES ASSUME Init PROVE RoomInv
    OBVIOUS
  <2>1. \A t \in Threads : 1 .. Len(stack[t]) = {}
    BY DEF Init
  <2>2. results \in [CallIds -> Nat]
    BY DEF Init
  <2>. QED
    BY <2>1, <2>2, QInit DEF RoomInv, ResultsInv
<1>2. RoomInv /\ [Next]_vars => RoomInv'
  <2>. SUFFICES ASSUME RoomInv, [Next]_vars PROVE RoomInv'
    OBVIOUS
  <2>1. QInv'
    BY QNext DEF RoomInv
  <2>2. CASE Next
    BY <2>1, <2>2, RoomNext DEF RoomInv, QInv
  <2>3. CASE UNCHANGED vars
    <3>1. UNCHANGED <<num_intraop_threads, pool, stack, num_tasks, results, late>>
      BY <2>3 DEF vars, poolVars, callVars
    <3>2. ResultsInv'
      BY <3>1 DEF RoomInv, ResultsInv, Roomy, NumTasks, ChunkSize, get_num_threads
    <3>. QED
      BY <2>1, <3>2 DEF RoomInv
  <2>. QED
    BY <2>2, <2>3
<1>. QED
  BY <1>1, <1>2, PTL DEF Spec

\* The vector parallel_reduce sizes before it calls _parallel_run, which computes
\* the tasks a second time, has room for the result of every task, unless
\* set_num_threads took effect during a call (parallel.h:144).
THEOREM ParallelRunResultsFit == Spec => []ResultsFit
<1>1. RoomInv => ResultsFit
  <2>. SUFFICES ASSUME RoomInv, NEW t \in Threads, ~ late, At(t, "end"),
                       Call(Top(t).call).kind = "reduce"
                PROVE  Top(t).id < results[Top(t).call]
    BY DEF ResultsFit
  <2>0. Layout /\ Flight /\ ResultsInv
    BY DEF RoomInv, QInv
  <2>1. stack[t] # <<>> /\ Top(t).at = "end"
    BY DEF At
  <2>2. PICK d \in CallIds, i \in Nat : d = Top(t).call /\ i = Top(t).id
    BY <2>0, <2>1, TopFacts
  <2>3. Top(t) = stack[t][1] /\ Len(stack[t]) \in Nat \ {0}
    BY <2>0, <2>1, TopFacts DEF Layout, Typed
  <2>4. results[d] \in Nat /\ num_tasks[d] \in Nat
    BY <2>0, MaxThreadsType DEF ResultsInv, Layout, Typed
  <2>5. ASSUME NEW v \in Threads, NEW n \in 1 .. Len(stack[v]), stack[v][n].call = d,
               stack[v][n].at \in {"submit", "wait"}
        PROVE  num_tasks[d] <= results[d]
    <3>1. stack[v][n].at \in FrameKinds
      BY <2>5 DEF FrameKinds
    <3>2. Roomy(d, stack[v][n].at)
      BY <2>0, <2>2, <2>5, <3>1 DEF ResultsInv
    <3>. QED
      BY <2>5, <3>2 DEF Roomy
  <2>6. CASE t \in Users
    <3>1. /\ Len(stack[t]) > 1 /\ stack[t][2].call = d /\ stack[t][2].at = "wait" /\ i = 0
      <4>1. UserShape(stack[t], t, made[t])
        BY <2>0, <2>6 DEF Layout, Shapes
      <4>. QED
        BY <2>1, <2>2, <2>3, <4>1 DEF UserShape, Own, OwnerKinds, Running, Is
    <3>2. 2 \in 1 .. Len(stack[t])
      BY <2>3, <3>1
    <3>3. FrameOK(stack[t][2], num_tasks, pool)
      BY <2>0, <3>2 DEF Layout, FramesOK
    <3>4. num_tasks[d] > 0
      BY <3>1, <3>3 DEF FrameOK
    <3>5. num_tasks[d] <= results[d]
      BY <2>5, <3>1, <3>2
    <3>. QED
      BY <2>2, <2>4, <3>1, <3>4, <3>5
  <2>7. CASE t \in Workers
    <3>1. Busy(t) /\ Top(t) = Bottom(t)
      <4>1. Busy(t)
        BY <2>3 DEF Busy
      <4>. QED
        BY <2>0, <2>1, <2>7, <4>1, WorkerCalls
    <3>2. RunBy(t, d, i)
      BY <2>2, <3>1 DEF RunBy
    <3>3. Live(d, i)
      BY <2>0, <2>7, <3>2 DEF Flight, InFlight
    <3>4. d[1] \in Threads /\ Len(stack[d[1]]) - d[3] \in 1 .. Len(stack[d[1]])
      BY <2>0, <3>3, OwnerPlace, ThreadKinds
    <3>5. num_tasks[d] <= results[d]
      BY <2>5, <3>3, <3>4 DEF Live, OwnerOf
    <3>6. i < num_tasks[d]
      BY <3>3 DEF Live
    <3>. QED
      BY <2>2, <2>4, <3>5, <3>6
  <2>. QED
    BY <2>6, <2>7, ThreadKinds
<1>. QED
  BY <1>1, RoomAlways, PTL

-----------------------------------------------------------------------------
(* ErrorsReported. *)

\* An exception of call d is on its way: in one of its frames, or in a future the
\* call still has to wait for.
Carried(d) == \/ \E t \in Threads : Erring(t, d)
              \/ \E i \in TaskIds : Live(d, i) /\ future[d][i] = "error"

ErrInv ==
  /\ thrown \subseteq CallIds \X Nat
  /\ \A e \in thrown : outcome[e[1]] = "threw" \/ Carried(e[1])
  /\ \A d, c \in CallIds : outcome[d] = "threw" /\ c = <<d[1], d[2], 0>> =>
       outcome[c] = "threw" \/ Carried(c)

\* A call that threw has thrown for good.
LEMMA ThrewStays ==
  ASSUME QInv, Next, NEW d \in CallIds, outcome[d] = "threw"
  PROVE  outcome'[d] = "threw"
<1>1. ASSUME NEW t \in Threads, NEW b \in BOOLEAN, CallEnds(t, b) PROVE outcome'[d] = "threw"
  <2>1. stack[t] # <<>> /\ Layout
    BY <1>1 DEF CallEnds, QInv
  <2>2. Top(t) = stack[t][1] /\ 1 \in 1 .. Len(stack[t])
    BY <2>1, TopFacts DEF Layout, Typed
  <2>3. Top(t).call # d
    BY <2>2 DEF QInv, Quiet, Present, On
  <2>. QED
    BY <1>1, <2>1, <2>3 DEF CallEnds, EndCall, Layout, Typed
<1>. QED
  BY <1>1, OutcomeNext DEF QInv

\* An exception in a frame stays with its call until the call throws it.
LEMMA ErringStays ==
  ASSUME QInv, Next, NEW d \in CallIds, NEW v \in Threads, Erring(v, d)
  PROVE  Carried(d)' \/ outcome'[d] = "threw"
<1>0. Layout /\ Flight /\ OnePlace
  BY DEF QInv
<1>1. PICK n \in 1 .. Len(stack[v]) : stack[v][n].call = d /\ stack[v][n].eptr
  BY DEF Erring
<1>2. Len(stack[v]) \in Nat \ {0} /\ stack[v] # <<>> /\ Top(v) = stack[v][1] /\ n \in Nat \ {0}
      /\ stack[v][n] \in Frames /\ n <= Len(stack[v])
  <2>1. stack[v] \in Seq(Frames)
    BY <1>0 DEF Layout, Typed
  <2>. QED
    BY <1>1, <2>1 DEF Top
<1>3. ASSUME NEW m \in 1 .. Len(stack'[v]), stack'[v][m].call = d, stack'[v][m].eptr
      PROVE  Carried(d)'
  BY <1>3 DEF Carried, Erring
<1>4. stack'[v] = stack[v] => Carried(d)'
  BY <1>1, <1>3
<1>5. ASSUME NEW t \in Threads, Others(t), v # t PROVE Carried(d)'
  BY <1>4, <1>5 DEF Others
<1>6. ASSUME NEW f, Swapped(stack[v], stack'[v], f), f.call = Top(v).call, Top(v).eptr => f.eptr
      PROVE  Carried(d)'
  <2>1. n \in 1 .. Len(stack'[v]) /\ stack'[v][n].call = d /\ stack'[v][n].eptr
    BY <1>1, <1>2, <1>6 DEF Swapped
  <2>. QED
    BY <1>3, <2>1
<1>7. ASSUME NEW f, NEW g, Pushed(stack[v], stack'[v], f, g), g.call = Top(v).call,
             Top(v).eptr => g.eptr
      PROVE  Carried(d)'
  <2>1. n + 1 \in 1 .. Len(stack'[v])
    BY <1>1, <1>2, <1>7 DEF Pushed
  <2>2. stack'[v][n + 1].call = d /\ stack'[v][n + 1].eptr
    <3>1. CASE n = 1
      BY <1>1, <1>2, <1>7, <3>1 DEF Pushed
    <3>2. CASE n # 1
      <4>1. n \in 2 .. Len(stack[v])
        BY <1>2, <3>2
      <4>. QED
        BY <1>1, <1>7, <4>1 DEF Pushed
    <3>. QED
      BY <3>1, <3>2
  <2>. QED
    BY <1>3, <2>1, <2>2
<1>8. ASSUME NEW b, Popped(stack[v], stack'[v], b), n > 1 PROVE Carried(d)'
  <2>1. n - 1 \in 1 .. Len(stack'[v]) /\ (n - 1) + 1 = n /\ Len(stack[v]) > 1
    BY <1>1, <1>2, <1>8 DEF Popped
  <2>2. stack'[v][n - 1].call = d /\ stack'[v][n - 1].eptr
    <3>1. CASE n = 2
      <4>1. stack'[v][1].call = stack[v][2].call /\ stack'[v][1].eptr = (stack[v][2].eptr \/ b)
        BY <1>8, <2>1 DEF Popped
      <4>2. stack[v][2].call = d /\ stack[v][2].eptr /\ n - 1 = 1
        BY <1>1, <3>1
      <4>3. stack'[v][1].call = d /\ stack'[v][1].eptr
        BY <4>1, <4>2
      <4>. QED
        BY <4>2, <4>3
    <3>2. CASE n # 2
      <4>1. n - 1 \in 2 .. Len(stack'[v])
        BY <1>2, <2>1, <3>2
      <4>. QED
        BY <1>1, <1>8, <2>1, <4>1 DEF Popped
    <3>. QED
      BY <3>1, <3>2
  <2>. QED
    BY <1>3, <2>1, <2>2
<1>9. ASSUME NEW u \in Users, Make(u) PROVE Carried(d)'
  <2>1. Others(u) /\ stack[u] = <<>>
    BY <1>0, <1>9, MakeEffect
  <2>. QED
    BY <1>2, <1>5, <2>1, ThreadKinds
<1>10. ASSUME NEW w \in Workers, Take(w) PROVE Carried(d)'
  <2>1. Others(w) /\ stack[w] = <<>>
    BY <1>0, <1>10, TakeEffect
  <2>. QED
    BY <1>2, <1>5, <2>1, ThreadKinds
<1>11. ASSUME NEW t \in Threads, Start(t) \/ Size(t) \/ Calc(t) \/ Submit(t) PROVE Carried(d)'
  <2>1. /\ Others(t)
        /\ \E f \in Frames : /\ Swapped(stack[t], stack'[t], f) /\ f.call = Top(t).call
                             /\ f.eptr = Top(t).eptr
    <3>1. CASE Start(t) \/ Size(t)
      BY <1>0, <3>1, StartEffect, SizeEffect
    <3>2. CASE Calc(t)
      BY <1>0, <3>2, CalcEffect
    <3>3. CASE Submit(t)
      BY <1>0, <3>3, SubmitEffect
    <3>. QED
      BY <1>11, <3>1, <3>2, <3>3
  <2>. QED
    BY <1>5, <1>6, <2>1
<1>12. ASSUME NEW t \in Threads, Get(t) PROVE Carried(d)'
  <2>1. /\ Others(t)
        /\ \E f \in Frames : /\ Swapped(stack[t], stack'[t], f) /\ f.call = Top(t).call
                             /\ Top(t).eptr => f.eptr
    BY <1>0, <1>12, GetEffect
  <2>. QED
    BY <1>5, <1>6, <2>1
<1>13. ASSUME NEW t \in Threads, OwnTask(t) PROVE Carried(d)'
  <2>1. /\ Others(t)
        /\ \E f, g \in Frames : /\ Pushed(stack[t], stack'[t], f, g) /\ g.call = Top(t).call
                                /\ g.eptr = Top(t).eptr
    BY <1>0, <1>13, OwnTaskEffect
  <2>. QED
    BY <1>5, <1>7, <2>1
<1>14. ASSUME NEW t \in Threads, NEW i, NEW f, NEW g, Others(t), g.call = Top(t).call,
              g.eptr = Top(t).eptr,
              BodyStays(t, g.call, i, f, g) \/ BodyCalls(t, g.call, i, f, g) \/ NoBody(t, f, g)
       PROVE  Carried(d)'
  <2>1. CASE v = t /\ BodyStays(t, g.call, i, f, g)
    <3>1. Swapped(stack[v], stack'[v], f) /\ f.call = Top(v).call /\ (f.eptr \/ f = g)
      BY <1>14, <2>1 DEF BodyStays
    <3>2. Top(v).eptr => f.eptr
      BY <1>14, <2>1, <3>1
    <3>. QED
      BY <1>6, <3>1, <3>2
  <2>2. CASE v = t /\ BodyCalls(t, g.call, i, f, g)
    BY <1>7, <1>14, <2>2 DEF BodyCalls
  <2>3. CASE v = t /\ NoBody(t, f, g)
    BY <1>6, <1>14, <2>3 DEF NoBody
  <2>. QED
    BY <1>5, <1>14, <2>1, <2>2, <2>3
<1>15. ASSUME NEW t \in Threads, RunInline(t) PROVE Carried(d)'
  <2>1. /\ Others(t)
        /\ \E f, g \in Frames :
             /\ g.call = Top(t).call /\ g.eptr = Top(t).eptr
             /\ BodyStays(t, g.call, 0, f, g) \/ BodyCalls(t, g.call, 0, f, g)
    BY <1>0, <1>15, RunInlineEffect
  <2>. QED
    BY <1>14, <2>1
<1>16. ASSUME NEW t \in Threads, TaskBegin(t) PROVE Carried(d)'
  <2>1. /\ Others(t)
        /\ \E f, g \in Frames :
             /\ g.call = Top(t).call /\ g.eptr = Top(t).eptr
             /\ \/ BodyStays(t, g.call, g.id, f, g) \/ BodyCalls(t, g.call, g.id, f, g)
                \/ NoBody(t, f, g)
    BY <1>0, <1>16, TaskBeginEffect
  <2>. QED
    BY <1>14, <2>1
<1>17. ASSUME NEW t \in Threads, NEW b \in BOOLEAN, CallEnds(t, b)
       PROVE  Carried(d)' \/ outcome'[d] = "threw"
  <2>1. Others(t) /\ Popped(stack[t], stack'[t], b)
    BY <1>0, <1>17, CallEndsEffect
  <2>2. CASE v = t /\ n = 1
    <3>1. Top(t).call = d /\ Top(t).eptr
      BY <1>1, <1>2, <2>2
    <3>2. Top(t).at # "start"
      <4>1. FrameOK(Top(t), num_tasks, pool)
        BY <1>0, <1>2, <2>2, TopFacts
      <4>. QED
        BY <3>1, <4>1 DEF FrameOK
    <3>3. b
      BY <1>17, <3>1, <3>2 DEF CallEnds
    <3>4. outcome' = [outcome EXCEPT ![d] = "threw"]
      BY <1>17, <3>1, <3>3 DEF CallEnds, EndCall
    <3>. QED
      BY <1>0, <3>4 DEF Layout, Typed
  <2>3. CASE v = t /\ n # 1
    BY <1>2, <1>8, <2>1, <2>3
  <2>. QED
    BY <1>5, <2>1, <2>2, <2>3
<1>18. ASSUME NEW t \in Threads, TaskEnd(t) PROVE Carried(d)'
  <2>1. /\ Others(t) /\ Top(t).at = "end" /\ Popped(stack[t], stack'[t], Top(t).eptr /\ Top(t).id = 0)
    BY <1>0, <1>18, TaskEndEffect
  <2>2. CASE v = t /\ n = 1
    <3>1. Top(t).call = d /\ Top(t).eptr
      BY <1>1, <1>2, <2>2
    <3>2. CASE t \in Users
      <4>1. Len(stack[t]) > 1 /\ Top(t).id = 0 /\ stack[t][2].call = d
        <5>1. UserShape(stack[t], t, made[t])
          BY <1>0, <3>2 DEF Layout, Shapes
        <5>. QED
          BY <1>2, <2>1, <2>2, <3>1, <5>1 DEF UserShape, Own, OwnerKinds, Running, Is
      <4>2. 1 \in 1 .. Len(stack'[t]) /\ stack'[t][1].call = d
        BY <1>2, <2>1, <2>2, <4>1 DEF Popped
      <4>3. stack'[t][1].eptr
        <5>1. stack'[t][1].eptr = (stack[t][2].eptr \/ (Top(t).eptr /\ Top(t).id = 0))
          BY <2>1, <4>1 DEF Popped
        <5>. QED
          BY <3>1, <4>1, <5>1
      <4>. QED
        BY <1>3, <2>2, <4>2, <4>3
    <3>3. CASE t \in Workers
      <4>1. PICK i \in Nat : i = Top(t).id
        BY <1>0, <1>2, <2>2, TopFacts
      <4>2. Busy(t) /\ Top(t) = Bottom(t)
        <5>1. Busy(t)
          BY <1>2, <2>2 DEF Busy
        <5>. QED
          BY <1>0, <2>1, <3>3, <5>1, WorkerCalls
      <4>3. RunBy(t, d, i)
        BY <3>1, <4>1, <4>2 DEF RunBy
      <4>4. Live(d, i) /\ 0 < i /\ i < num_tasks[d]
        BY <1>0, <3>3, <4>3 DEF Flight, InFlight, Live
      <4>5. i \in TaskIds
        BY <1>0, <4>4, MaxThreadsType DEF Layout, Typed, TaskIds
      <4>6. ~ Fetched(d, i)
        <5>1. ASSUME NEW s \in Threads, Get(s), Top(s).call = d, Top(s).id = i PROVE FALSE
          <6>1. future[d][i] # "pending"
            BY <1>0, <5>1, GetEffect
          <6>2. InFlight(d, i)
            BY <1>0, <3>3, <4>3 DEF Flight
          <6>. QED
            BY <6>1, <6>2 DEF InFlight
        <5>. QED
          BY <5>1 DEF Fetched
      <4>7. Live(d, i)'
        BY <1>0, <4>4, <4>6, LiveNext
      <4>8. future'[d][i] = "error"
        <5>1. future' = [future EXCEPT ![d][i] = "error"]
          BY <1>18, <3>1, <4>1, <4>4 DEF TaskEnd, TaskResult
        <5>. QED
          BY <1>0, <4>5, <5>1 DEF Layout, Typed
      <4>. QED
        BY <4>5, <4>7, <4>8 DEF Carried
    <3>. QED
      BY <3>2, <3>3, ThreadKinds
  <2>3. CASE v = t /\ n # 1
    BY <1>2, <1>8, <2>1, <2>3
  <2>. QED
    BY <1>5, <2>1, <2>2, <2>3
<1>19. PoolStep => Carried(d)'
  BY <1>0, <1>4, PoolStepEffect
<1>. QED
  BY <1>0, StepKinds, <1>9, <1>10, <1>11, <1>12, <1>13, <1>15, <1>16, <1>17, <1>18, <1>19

\* An exception in a future stays there until the call takes it.
LEMMA FutureStays ==
  ASSUME QInv, Next, NEW d \in CallIds, NEW i \in TaskIds, Live(d, i), future[d][i] = "error"
  PROVE  Carried(d)'
<1>0. Layout /\ Flight /\ i \in Nat
  BY MaxThreadsType DEF QInv, TaskIds
<1>1. CASE Fetched(d, i)
  <2>1. PICK t \in Threads : Get(t) /\ Top(t).call = d /\ Top(t).id = i
    BY <1>1 DEF Fetched
  <2>2. PICK f \in Frames : /\ Swapped(stack[t], stack'[t], f) /\ f.call = Top(t).call
                            /\ f.eptr = (Top(t).eptr \/ future[Top(t).call][Top(t).id] = "error")
    BY <1>0, <2>1, GetEffect
  <2>3. f.call = d /\ f.eptr
    BY <2>1, <2>2
  <2>4. Len(stack[t]) \in Nat \ {0}
    BY <1>0, <2>1 DEF Get, At, Layout, Typed
  <2>5. 1 \in 1 .. Len(stack'[t]) /\ stack'[t][1] = f
    BY <2>2, <2>4 DEF Swapped
  <2>. QED
    BY <2>3, <2>5 DEF Carried, Erring
<1>2. CASE ~ Fetched(d, i)
  <2>1. Live(d, i)'
    BY <1>0, <1>2, LiveNext
  <2>2. ASSUME NEW t \in Threads, stack[t] # <<>>, Top(t).call = d, Top(t).id = i,
               Top(t).at = "submit"
        PROVE  FALSE
    <3>1. t \in Users /\ d[1] = t /\ Len(stack[t]) - d[3] = 1
      BY <1>0, <2>2, TopCall, ThreadKinds DEF OwnerKinds
    <3>2. OwnerOf(d) = Top(t)
      BY <3>1 DEF OwnerOf, Top
    <3>. QED
      BY <1>0, <2>2, <3>2 DEF Live
  <2>3. ASSUME NEW t \in Threads, TaskEnd(t), stack[t] # <<>>, Top(t).call = d, Top(t).id = i, i # 0
        PROVE  FALSE
    <3>1. Top(t).at = "end" /\ Top(t) = stack[t][1] /\ Len(stack[t]) > 0
      BY <1>0, <2>3, TaskEndEffect, TopFacts DEF Layout, Typed
    <3>2. t \notin Users
      <4>1. ASSUME t \in Users PROVE UserShape(stack[t], t, made[t])
        BY <1>0, <4>1 DEF Layout, Shapes
      <4>. QED
        BY <2>3, <3>1, <4>1 DEF UserShape, Own, OwnerKinds, Running, Is
    <3>3. t \in Workers /\ Busy(t)
      BY <3>1, <3>2, ThreadKinds DEF Busy
    <3>4. Top(t) = Bottom(t)
      BY <1>0, <3>1, <3>3, WorkerCalls
    <3>5. RunBy(t, d, i)
      BY <2>3, <3>3, <3>4 DEF RunBy
    <3>. QED
      BY <1>0, <3>3, <3>5 DEF Flight, InFlight
  <2>4. future'[d][i] = "error"
    BY <1>0, <2>2, <2>3, FutureNext
  <2>. QED
    BY <2>1, <2>4 DEF Carried
<1>. QED
  BY <1>1, <1>2

LEMMA CarriedNext ==
  ASSUME QInv, Next, NEW d \in CallIds, Carried(d) \/ outcome[d] = "threw"
  PROVE  Carried(d)' \/ outcome'[d] = "threw"
  BY ThrewStays, ErringStays, FutureStays DEF Carried

\* What a body throws is held by the frame it runs in.
LEMMA NewThrown ==
  ASSUME Layout, Next, NEW e \in thrown', e \notin thrown
  PROVE  e \in CallIds \X Nat /\ \E t \in Threads : Erring(t, e[1])'
<1>1. ASSUME NEW t \in Threads, NEW i \in Nat, NEW f, NEW g, stack[t] # <<>>, g.call \in CallIds,
             BodyStays(t, g.call, i, f, g) \/ BodyCalls(t, g.call, i, f, g) \/ NoBody(t, f, g)
      PROVE  e \in CallIds \X Nat /\ \E v \in Threads : Erring(v, e[1])'
  <2>1. BodyStays(t, g.call, i, f, g) /\ e = <<g.call, i>> /\ f.eptr
    BY <1>1 DEF BodyStays, BodyCalls, NoBody
  <2>2. e[1] = g.call /\ e \in CallIds \X Nat
    BY <1>1, <2>1
  <2>3. Len(stack[t]) \in Nat \ {0}
    BY <1>1 DEF Layout, Typed
  <2>4. 1 \in 1 .. Len(stack'[t]) /\ stack'[t][1] = f /\ f.call = g.call
    BY <2>1, <2>3 DEF BodyStays, Swapped
  <2>. QED
    BY <2>1, <2>2, <2>4 DEF Erring
<1>2. ASSUME NEW u \in Users, Make(u) PROVE thrown' = thrown
  BY <1>2 DEF Make
<1>3. ASSUME NEW t \in Threads, Start(t) \/ Size(t) \/ Calc(t) \/ Submit(t) \/ OwnTask(t) \/ Get(t)
      PROVE  thrown' = thrown
  BY <1>3 DEF Start, Size, Calc, Submit, OwnTask, Get
<1>4. ASSUME NEW t \in Threads, RunInline(t)
      PROVE  e \in CallIds \X Nat /\ \E v \in Threads : Erring(v, e[1])'
  <2>1. /\ stack[t] # <<>> /\ Top(t).call \in CallIds /\ 0 \in Nat
        /\ \E f, g \in Frames :
             /\ g.call = Top(t).call
             /\ BodyStays(t, g.call, 0, f, g) \/ BodyCalls(t, g.call, 0, f, g)
    BY <1>4, RunInlineEffect, TopFacts
  <2>. QED
    BY <1>1, <2>1
<1>5. ASSUME NEW t \in Threads, TaskBegin(t)
      PROVE  e \in CallIds \X Nat /\ \E v \in Threads : Erring(v, e[1])'
  <2>1. /\ stack[t] # <<>> /\ Top(t).call \in CallIds /\ Top(t).id \in Nat
        /\ \E f, g \in Frames :
             /\ g.call = Top(t).call
             /\ \/ BodyStays(t, g.call, Top(t).id, f, g) \/ BodyCalls(t, g.call, Top(t).id, f, g)
                \/ NoBody(t, f, g)
    BY <1>5, TaskBeginEffect, TopFacts
  <2>. QED
    BY <1>1, <2>1
<1>6. ASSUME NEW t \in Threads, TaskEnd(t) PROVE thrown' = thrown
  BY <1>6 DEF TaskEnd
<1>7. ASSUME NEW t \in Threads, NEW b \in BOOLEAN, CallEnds(t, b) PROVE thrown' = thrown
  BY <1>7 DEF CallEnds
<1>8. ASSUME NEW w \in Workers, Take(w) PROVE thrown' = thrown
  BY <1>8 DEF Take
<1>9. PoolStep => thrown' = thrown
  BY PoolStepEffect
<1>. QED
  BY StepKinds, <1>2, <1>3, <1>4, <1>5, <1>6, <1>7, <1>8, <1>9

LEMMA ErrNext ==
  ASSUME QInv, ErrInv, Next
  PROVE  ErrInv'
<1>0. Layout
  BY DEF QInv
<1>1. thrown' \subseteq CallIds \X Nat
  BY <1>0, NewThrown DEF ErrInv
<1>2. ASSUME NEW e \in thrown' PROVE outcome'[e[1]] = "threw" \/ Carried(e[1])'
  <2>1. e[1] \in CallIds
    BY <1>1
  <2>2. CASE e \in thrown
    <3>1. PICK d \in CallIds : d = e[1]
      BY <2>1
    <3>2. Carried(d) \/ outcome[d] = "threw"
      BY <2>2, <3>1 DEF ErrInv
    <3>3. Carried(d)' \/ outcome'[d] = "threw"
      BY <3>2, CarriedNext
    <3>. QED
      BY <3>1, <3>3
  <2>3. CASE e \notin thrown
    BY <1>0, <2>3, NewThrown DEF Carried
  <2>. QED
    BY <2>2, <2>3
<1>3. ASSUME NEW d \in CallIds, NEW c \in CallIds, outcome'[d] = "threw", c = <<d[1], d[2], 0>>
      PROVE  outcome'[c] = "threw" \/ Carried(c)'
  <2>1. CASE outcome[d] = "threw"
    <3>1. Carried(c) \/ outcome[c] = "threw"
      BY <1>3, <2>1 DEF ErrInv
    <3>. QED
      BY <3>1, CarriedNext
  <2>2. CASE outcome[d] # "threw"
    <3>1. PICK t \in Threads, b \in BOOLEAN : CallEnds(t, b)
      BY <1>0, <1>3, <2>2, OutcomeNext
    <3>2. outcome' = [outcome EXCEPT ![Top(t).call] = IF b THEN "threw" ELSE "returned"]
      BY <3>1 DEF CallEnds, EndCall
    <3>3. Top(t).call = d
      BY <1>0, <1>3, <2>2, <3>2 DEF Layout, Typed
    <3>4. b
      BY <1>0, <1>3, <3>2, <3>3 DEF Layout, Typed
    <3>5. CASE d[3] = 0
      <4>1. d = c
        BY <1>3, <3>5, CallType3
      <4>. QED
        BY <1>3, <4>1
    <3>6. CASE d[3] # 0
      <4>1. stack[t] # <<>> /\ Top(t).at \in OwnerKinds /\ Popped(stack[t], stack'[t], b)
        BY <1>0, <3>1, CallEndsEffect DEF CallEnds, OwnerKinds
      <4>2. Len(stack[t]) > 1 /\ Len(stack[t]) \in Nat
        <5>0. Top(t) = stack[t][1] /\ Len(stack[t]) \in Nat \ {0}
          BY <1>0, <4>1, TopFacts DEF Layout, Typed
        <5>1. CASE t \in Users
          <6>1. UserShape(stack[t], t, made[t])
            BY <1>0, <5>1 DEF Layout, Shapes
          <6>2. Len(stack[t]) = 1 => Top(t).call = <<t, made[t], 0>>
            BY <5>0, <6>1 DEF UserShape, Own
          <6>3. Len(stack[t]) # 1
            BY <3>3, <3>6, <6>2
          <6>4. \A k \in Nat \ {0} : k # 1 => k > 1 /\ k \in Nat
            OBVIOUS
          <6>. QED
            BY <5>0, <6>3, <6>4
        <5>2. CASE t \in Workers
          <6>1. Busy(t)
            BY <5>0 DEF Busy
          <6>. QED
            BY <1>0, <4>1, <5>2, <6>1, WorkerCalls DEF OwnerKinds
        <5>. QED
          BY <5>1, <5>2, ThreadKinds
      <4>3. stack[t][2].call = c
        BY <1>0, <1>3, <3>3, <4>1, <4>2, Below
      <4>4. 1 \in 1 .. Len(stack'[t]) /\ stack'[t][1].call = c
        BY <4>1, <4>2, <4>3 DEF Popped
      <4>5. stack'[t][1].eptr
        <5>1. stack'[t][1].eptr = (stack[t][2].eptr \/ b)
          BY <4>1, <4>2 DEF Popped
        <5>. QED
          BY <3>4, <5>1
      <4>. QED
        BY <4>4, <4>5 DEF Carried, Erring
    <3>. QED
      BY <3>5, <3>6
  <2>. QED
    BY <2>1, <2>2
<1>. QED
  BY <1>1, <1>2, <1>3 DEF ErrInv

EInv == QInv /\ ErrInv

LEMMA ErrAlways == Spec => []EInv
<1>1. Init => EInv
  BY QInit DEF EInv, ErrInv, Init
<1>2. EInv /\ [Next]_vars => EInv'
  <2>. SUFFICES ASSUME EInv, [Next]_vars PROVE EInv'
    OBVIOUS
  <2>1. QInv'
    BY QNext DEF EInv
  <2>2. CASE Next
    BY <2>1, <2>2, ErrNext DEF EInv
  <2>3. CASE UNCHANGED vars
    <3>1. UNCHANGED <<stack, num_tasks, future, thrown, outcome>>
      BY <2>3 DEF vars, poolVars, callVars
    <3>2. \A d \in CallIds : Carried(d)' <=> Carried(d)
      BY <3>1 DEF Carried, Erring, Live, OwnerOf
    <3>3. ErrInv'
      BY <3>1, <3>2 DEF EInv, ErrInv
    <3>. QED
      BY <2>1, <3>3 DEF EInv
  <2>. QED
    BY <2>2, <2>3
<1>. QED
  BY <1>1, <1>2, PTL DEF Spec

\* While a user is in a call, the frame of the call it made is on its stack.
LEMMA OuterOn ==
  ASSUME Layout, NEW u \in Users, stack[u] # <<>>
  PROVE  On(u, <<u, made[u], 0>>)
<1>1. UserShape(stack[u], u, made[u]) /\ Len(stack[u]) \in Nat \ {0}
  BY ThreadKinds DEF Layout, Shapes, Typed
<1>2. stack[u][Len(stack[u])].call = <<u, made[u], 0>>
  BY <1>1 DEF UserShape, Own, Is
<1>. QED
  BY <1>1, <1>2 DEF On

\* While a call has a frame, the call it was made in has one.
LEMMA OuterPresent ==
  ASSUME Layout, Flight, NEW d \in CallIds, NEW t \in Threads, On(t, d),
         NEW c, c = <<d[1], d[2], 0>>
  PROVE  Present(c)
<1>1. PICK n \in 1 .. Len(stack[t]) : stack[t][n].call = d
  BY DEF On
<1>2. Len(stack[t]) \in Nat \ {0} /\ stack[t] # <<>>
  BY <1>1 DEF Layout, Typed
<1>3. CASE t \in Users
  <2>1. d[1] = t /\ d[2] = made[t]
    BY <1>1, <1>3, UserCalls
  <2>. QED
    BY <1>2, <1>3, <2>1, OuterOn DEF Present
<1>4. CASE t \in Workers
  <2>1. Busy(t)
    BY <1>2 DEF Busy
  <2>2. PICK e \in CallIds, i \in Nat : e = Bottom(t).call /\ i = Bottom(t).id
    BY <1>4, <2>1, BottomFacts
  <2>3. Live(e, i)
    BY <1>4, <2>1, <2>2 DEF Flight, InFlight, RunBy
  <2>4. e[1] \in Users /\ stack[e[1]] # <<>> /\ e[1] \in Threads
        /\ Len(stack[e[1]]) - e[3] \in 1 .. Len(stack[e[1]])
    BY <2>3, OwnerPlace, ThreadKinds
  <2>5. e[2] = made[e[1]]
    BY <2>3, <2>4, UserCalls DEF Live, OwnerOf
  <2>6. d[1] = e[1] /\ d[2] = e[2]
    <3>1. Top(t) = stack[t][1]
      BY DEF Top
    <3>2. n \in 1 .. 2 /\ (n = Len(stack[t]) => stack[t][n] = Bottom(t))
      BY <1>1, <1>4, <2>1, BottomFacts DEF Bottom
    <3>. QED
      BY <1>1, <1>4, <2>1, <2>2, <3>1, <3>2, WorkerCalls
  <2>. QED
    BY <2>4, <2>5, <2>6, OuterOn DEF Present
<1>. QED
  BY <1>3, <1>4, ThreadKinds

\* A call with a task whose body threw does not return, and neither does the call
\* it was made in: the exception is in a frame or in a future that is waited for
\* until the call throws it (parallel.cc:160).
THEOREM ParallelRunErrorsReported == Spec => []ErrorsReported
<1>1. EInv => ErrorsReported
  <2>. SUFFICES ASSUME EInv, NEW e \in thrown
                PROVE  outcome[e[1]] # "returned" /\ outcome[<<e[1][1], e[1][2], 0>>] # "returned"
    BY DEF ErrorsReported
  <2>0. Layout /\ Flight /\ Quiet /\ ErrInv
    BY DEF EInv, QInv
  <2>1. PICK d \in CallIds : d = e[1]
    BY <2>0 DEF ErrInv
  <2>2. PICK c \in CallIds : c = <<d[1], d[2], 0>>
    BY OuterCall
  <2>3. outcome[d] = "threw" \/ Carried(d)
    BY <2>0, <2>1 DEF ErrInv
  <2>4. ASSUME NEW b \in CallIds, Carried(b)
        PROVE  \E t \in Threads : On(t, b)
    <3>1. CASE \E t \in Threads : Erring(t, b)
      BY <3>1 DEF Erring, On
    <3>2. ASSUME NEW i \in TaskIds, Live(b, i) PROVE On(b[1], b) /\ b[1] \in Threads
      <4>1. i \in Nat
        BY MaxThreadsType DEF TaskIds
      <4>2. b[1] \in Threads /\ Len(stack[b[1]]) - b[3] \in 1 .. Len(stack[b[1]])
        BY <2>0, <3>2, <4>1, OwnerPlace, ThreadKinds
      <4>. QED
        BY <3>2, <4>2 DEF Live, OwnerOf, On
    <3>. QED
      BY <2>4, <3>1, <3>2 DEF Carried
  <2>5. CASE Carried(d)
    <3>1. Present(d) /\ Present(c)
      BY <2>0, <2>2, <2>4, <2>5, OuterPresent DEF Present
    <3>2. outcome[d] = "none" /\ outcome[c] = "none"
      BY <2>0, <3>1 DEF Quiet
    <3>. QED
      BY <2>1, <2>2, <3>2
  <2>6. CASE outcome[d] = "threw"
    <3>1. outcome[c] = "threw" \/ Carried(c)
      BY <2>0, <2>2, <2>6 DEF ErrInv
    <3>2. Carried(c) => outcome[c] = "none"
      <4>1. Carried(c) => Present(c)
        BY <2>4 DEF Present
      <4>. QED
        BY <2>0, <4>1 DEF Quiet
    <3>. QED
      BY <2>1, <2>2, <2>6, <3>1, <3>2
  <2>. QED
    BY <2>3, <2>5, <2>6
<1>. QED
  BY <1>1, ErrAlways, PTL

-----------------------------------------------------------------------------
(* EachIndexOnce. *)

Indices(d) == 0 .. (Call(d).size - 1)
Unseen(d) == \A x \in Indices(d) : visits[d][x] = 0
Complete(d) == \A x \in Indices(d) : visits[d][x] = 1
Clear(d, i) == \A x \in Range(d, i) : visits[d][x] = 0
Done(d, i) == \A x \in Range(d, i) : visits[d][x] = 1

\* Thread t is in call d before its range is cut; in d while its body runs
\* inline; in d while its tasks are submitted and waited for.
Early(t, d) == stack[t] # <<>> /\ Top(t).call = d /\ Top(t).at \in {"start", "size", "calc"}
Inlined(t, d) == \E n \in 1 .. Len(stack[t]) : stack[t][n].call = d /\ stack[t][n].at = "inline"
Cutting(t, d) ==
  \E n \in 1 .. Len(stack[t]) : stack[t][n].call = d /\ stack[t][n].at \in {"submit", "wait"}

VisitsTyped ==
  /\ chunk_size \in [CallIds -> Nat]
  /\ visits = [d \in CallIds |-> visits[d]]
  /\ \A d \in CallIds : visits[d] \in [Indices(d) -> {0, 1}]

\* The tasks of d cover its range.
CutRight(d) == chunk_size[d] > 0 /\ Call(d).size <= num_tasks[d] * chunk_size[d]

\* Until a call is made, and until it is cut, no index of it was visited; nor
\* was one of a task that has not begun.  Every task of a call that was cut has
\* not begun or has visited its indices; a call that runs inline, and one that
\* returned, has visited all.
VisitInv ==
  /\ VisitsTyped
  /\ \A d \in CallIds : NotMade(d) => Unseen(d)
  /\ \A d \in CallIds : outcome[d] = "returned" => Complete(d)
  /\ \A d \in CallIds : \A t \in Threads : Early(t, d) => Unseen(d)
  /\ \A d \in CallIds, i \in Nat : Unbegun(d, i) => Clear(d, i)
  /\ \A d \in CallIds : \A t \in Threads : Inlined(t, d) => Complete(d)
  /\ \A d \in CallIds : \A t \in Threads : Cutting(t, d) =>
       CutRight(d) /\ \A i \in Nat : i < num_tasks[d] => Unbegun(d, i) \/ Done(d, i)

\* Two tasks have no index in common.
LEMMA RangesApart ==
  ASSUME NEW i \in Nat, NEW j \in Nat, i < j, NEW ch \in Nat, NEW x \in Nat,
         x < i * ch + ch
  PROVE  x < j * ch
<1>1. PICK k \in Nat : j = i + 1 + k
  <2>1. j - i - 1 \in Nat /\ j = i + 1 + (j - i - 1)
    OBVIOUS
  <2>. QED
    BY <2>1
<1>2. (i + 1 + k) * ch = i * ch + ch + k * ch
  OBVIOUS
<1>3. k * ch \in Nat /\ i * ch \in Nat
  OBVIOUS
<1>. QED
  BY <1>1, <1>2, <1>3

\* An index that the tasks cover is in the range of one of them.
LEMMA RangesCover ==
  ASSUME NEW n \in Nat, NEW ch \in Nat \ {0}, NEW x \in Nat, x < n * ch
  PROVE  \E i \in Nat : i < n /\ i * ch <= x /\ x < i * ch + ch
<1>. DEFINE i == x \div ch
<1>1. i \in Nat /\ i * ch <= x /\ x < i * ch + ch
  OBVIOUS
<1>. HIDE DEF i
<1>2. ASSUME n <= i PROVE FALSE
  <2>1. PICK k \in Nat : i = n + k
    <3>1. i - n \in Nat /\ i = n + (i - n)
      BY <1>1, <1>2
    <3>. QED
      BY <3>1
  <2>2. (n + k) * ch = n * ch + k * ch /\ k * ch \in Nat /\ n * ch \in Nat
    OBVIOUS
  <2>. QED
    BY <1>1, <2>1, <2>2
<1>. QED
  BY <1>1, <1>2

LEMMA TasksApart ==
  ASSUME VisitsTyped, NEW d \in CallIds, NEW i \in Nat, NEW j \in Nat, i # j,
         NEW x \in Range(d, i)
  PROVE  x \notin Range(d, j)
<1>1. /\ chunk_size[d] \in Nat /\ Call(d).size \in Nat /\ x \in Nat
      /\ i * chunk_size[d] <= x /\ x < i * chunk_size[d] + chunk_size[d]
  BY CallFacts DEF VisitsTyped, Range
<1>2. CASE i < j
  <2>1. x < j * chunk_size[d]
    BY <1>1, <1>2, RangesApart
  <2>2. j * chunk_size[d] \in Nat
    BY <1>1
  <2>. QED
    BY <1>1, <2>1, <2>2 DEF Range
<1>3. CASE j < i
  <2>1. ASSUME x < j * chunk_size[d] + chunk_size[d] PROVE x < i * chunk_size[d]
    BY <1>1, <1>3, <2>1, RangesApart
  <2>2. i * chunk_size[d] \in Nat
    BY <1>1
  <2>. QED
    BY <1>1, <2>1, <2>2 DEF Range
<1>. QED
  BY <1>2, <1>3

LEMMA TasksCover ==
  ASSUME VisitsTyped, NEW d \in CallIds, CutRight(d), num_tasks[d] \in Nat,
         \A i \in Nat : i < num_tasks[d] => Done(d, i)
  PROVE  Complete(d)
<1>. SUFFICES ASSUME NEW x \in Indices(d) PROVE visits[d][x] = 1
  BY DEF Complete
<1>1. /\ chunk_size[d] \in Nat \ {0} /\ Call(d).size \in Nat /\ x \in Nat /\ x < Call(d).size
      /\ Call(d).size <= num_tasks[d] * chunk_size[d]
  BY CallFacts DEF VisitsTyped, CutRight, Indices
<1>2. x < num_tasks[d] * chunk_size[d]
  <2>1. num_tasks[d] * chunk_size[d] \in Nat
    BY <1>1
  <2>. QED
    BY <1>1, <2>1
<1>3. PICK i \in Nat : /\ i < num_tasks[d] /\ i * chunk_size[d] <= x
                       /\ x < i * chunk_size[d] + chunk_size[d]
  BY <1>1, <1>2, RangesCover
<1>4. x \in Range(d, i)
  BY <1>3 DEF Range, Indices
<1>. QED
  BY <1>3, <1>4 DEF Done

\* The body of thread t visits the indices xs of call d, none of them before.
Marks(t, d, xs) ==
  /\ stack[t] # <<>> /\ Top(t).call = d
  /\ \/ RunInline(t) /\ xs = Indices(d)
     \/ TaskBegin(t) /\ xs = Range(d, Top(t).id)
  /\ xs \subseteq Indices(d) /\ \A x \in xs : visits[d][x] = 0
  /\ visits'[d] = [x \in Indices(d) |-> IF x \in xs THEN 1 ELSE visits[d][x]]

\* Visits are counted by bodies only.
LEMMA VisitsNext ==
  ASSUME Layout, VisitInv, Next
  PROVE  /\ visits' = [d \in CallIds |-> visits'[d]]
         /\ \A d \in CallIds : \/ visits'[d] = visits[d]
                               \/ \E t \in Threads : \E xs : Marks(t, d, xs)
<1>. DEFINE Goal == /\ visits' = [d \in CallIds |-> visits'[d]]
                    /\ \A d \in CallIds : \/ visits'[d] = visits[d]
                                          \/ \E t \in Threads : \E xs : Marks(t, d, xs)
<1>0. VisitsTyped
  BY DEF VisitInv
<1>1. visits' = visits => Goal
  BY <1>0 DEF VisitsTyped
<1>2. ASSUME NEW u \in Users, Make(u) PROVE visits' = visits
  BY <1>2 DEF Make
<1>3. ASSUME NEW t \in Threads, Start(t) \/ Size(t) \/ Calc(t) \/ Submit(t) \/ OwnTask(t) \/ Get(t)
      PROVE  visits' = visits
  BY <1>3 DEF Start, Size, Calc, Submit, OwnTask, Get
<1>4. ASSUME NEW t \in Threads, NEW b \in BOOLEAN, TaskEnd(t) \/ CallEnds(t, b)
      PROVE  visits' = visits
  BY <1>4 DEF TaskEnd, CallEnds
<1>5. ASSUME NEW w \in Workers, Take(w) PROVE visits' = visits
  BY <1>5 DEF Take
<1>6. PoolStep => visits' = visits
  BY PoolStepEffect
<1>7. ASSUME NEW t \in Threads, NEW c \in CallIds, NEW xs, xs \subseteq Indices(c),
             stack[t] # <<>>, Top(t).call = c,
             \/ RunInline(t) /\ xs = Indices(c)
             \/ TaskBegin(t) /\ xs = Range(c, Top(t).id),
             \A x \in xs : visits[c][x] = 0,
             visits' = [visits EXCEPT ![c] =
                          [x \in DOMAIN @ |-> IF x \in xs THEN @[x] + 1 ELSE @[x]]]
      PROVE  Goal
  <2>1. visits[c] \in [Indices(c) -> {0, 1}] /\ DOMAIN visits = CallIds
    BY <1>0 DEF VisitsTyped
  <2>2. visits'[c] = [x \in Indices(c) |-> IF x \in xs THEN visits[c][x] + 1 ELSE visits[c][x]]
    BY <1>7, <2>1
  <2>3. visits'[c] = [x \in Indices(c) |-> IF x \in xs THEN 1 ELSE visits[c][x]]
    <3>1. \A x \in Indices(c) : (IF x \in xs THEN visits[c][x] + 1 ELSE visits[c][x])
                                = (IF x \in xs THEN 1 ELSE visits[c][x])
      BY <1>7
    <3>. QED
      BY <2>2, <3>1
  <2>4. Marks(t, c, xs)
    BY <1>7, <2>3 DEF Marks
  <2>5. visits' = [d \in CallIds |-> visits'[d]] /\ \A d \in CallIds : d # c => visits'[d] = visits[d]
    BY <1>7, <2>1
  <2>. QED
    BY <2>4, <2>5
<1>. HIDE DEF Goal
<1>8. ASSUME NEW t \in Threads, RunInline(t) PROVE Goal
  <2>1. stack[t] # <<>> /\ Top(t).at = "start" /\ Top(t).call \in CallIds
    BY <1>8, RunInlineEffect, TopFacts
  <2>2. PICK c \in CallIds : c = Top(t).call
    BY <2>1
  <2>3. DOMAIN visits[c] = Indices(c)
    BY <1>0 DEF VisitsTyped
  <2>4. visits' = [visits EXCEPT ![c] =
                     [x \in DOMAIN @ |-> IF x \in Indices(c) THEN @[x] + 1 ELSE @[x]]]
    BY <1>8, <2>2, <2>3 DEF RunInline, Body
  <2>5. Unseen(c)
    BY <2>1, <2>2 DEF VisitInv, Early
  <2>. QED
    BY <1>7, <1>8, <2>1, <2>2, <2>4, <2>5 DEF Unseen
<1>9. ASSUME NEW t \in Threads, TaskBegin(t) PROVE Goal
  <2>1. stack[t] # <<>> /\ Top(t).at = "task" /\ Top(t).call \in CallIds /\ Top(t).id \in Nat
    BY <1>9, TaskBeginEffect, TopFacts
  <2>2. PICK c \in CallIds, i \in Nat : c = Top(t).call /\ i = Top(t).id
    BY <2>1
  <2>3. \/ visits' = visits
        \/ visits' = [visits EXCEPT ![c] =
                     [x \in DOMAIN @ |-> IF x \in Range(c, i) THEN @[x] + 1 ELSE @[x]]]
    BY <1>9, <2>2 DEF TaskBegin, Body
  <2>4. Clear(c, i)
    BY <2>1, <2>2 DEF VisitInv, Unbegun, Before
  <2>5. Range(c, i) \subseteq Indices(c)
    BY DEF Range, Indices
  <2>6. PICK xs : xs = Range(c, i)
    OBVIOUS
  <2>7. \A x \in xs : visits[c][x] = 0
    BY <2>4, <2>6 DEF Clear
  <2>8. CASE visits' = [visits EXCEPT ![c] =
                         [x \in DOMAIN @ |-> IF x \in xs THEN @[x] + 1 ELSE @[x]]]
    <3>1. xs \subseteq Indices(c) /\ xs = Range(c, Top(t).id) /\ Top(t).call = c
      BY <2>2, <2>5, <2>6
    <3>. QED
      BY <1>7, <1>9, <2>1, <2>7, <2>8, <3>1
  <2>. QED
    BY <1>1, <2>3, <2>6, <2>8
<1>10. Goal
  BY StepKinds, <1>1, <1>2, <1>3, <1>4, <1>5, <1>6, <1>8, <1>9
<1>. QED
  BY <1>10 DEF Goal

LEMMA ChunkNext ==
  ASSUME Layout, VisitsTyped, Next
  PROVE  /\ chunk_size' \in [CallIds -> Nat]
         /\ \A d \in CallIds :
              \/ chunk_size'[d] = chunk_size[d] /\ num_tasks'[d] = num_tasks[d]
              \/ /\ \E t \in Threads : Calc(t) /\ Top(t).call = d
                 /\ visits' = visits /\ CutRight(d)'
<1>. DEFINE Goal == /\ chunk_size' \in [CallIds -> Nat]
                    /\ \A d \in CallIds :
                         \/ chunk_size'[d] = chunk_size[d] /\ num_tasks'[d] = num_tasks[d]
                         \/ /\ \E t \in Threads : Calc(t) /\ Top(t).call = d
                            /\ visits' = visits /\ CutRight(d)'
<1>1. UNCHANGED <<chunk_size, num_tasks>> => Goal
  BY DEF VisitsTyped
<1>2. ASSUME NEW u \in Users, Make(u) PROVE UNCHANGED <<chunk_size, num_tasks>>
  BY <1>2 DEF Make, callVars
<1>3. ASSUME NEW t \in Threads, Start(t) \/ Size(t) \/ Submit(t) \/ OwnTask(t) \/ Get(t)
      PROVE  UNCHANGED <<chunk_size, num_tasks>>
  BY <1>3 DEF Start, Size, Submit, OwnTask, Get, callVars
<1>4. ASSUME NEW t \in Threads, RunInline(t) \/ TaskBegin(t) \/ TaskEnd(t)
      PROVE  UNCHANGED <<chunk_size, num_tasks>>
  BY <1>4 DEF RunInline, TaskBegin, TaskEnd, callVars
<1>5. ASSUME NEW t \in Threads, NEW b \in BOOLEAN, CallEnds(t, b)
      PROVE  UNCHANGED <<chunk_size, num_tasks>>
  BY <1>5 DEF CallEnds, callVars
<1>6. ASSUME NEW w \in Workers, Take(w) PROVE UNCHANGED <<chunk_size, num_tasks>>
  BY <1>6 DEF Take, callVars
<1>7. PoolStep => UNCHANGED <<chunk_size, num_tasks>>
  BY PoolStepEffect DEF callVars
<1>8. ASSUME NEW t \in Threads, Calc(t) PROVE Goal
  <2>1. PICK c \in CallIds : c = Top(t).call
    BY <1>8, CalcEffect, TopFacts
  <2>2. PICK n, k : n = NumTasks(Call(c).size, Call(c).grain) /\ k = ChunkSize(Call(c).size, Call(c).grain)
    OBVIOUS
  <2>3. k \in Nat \ {0} /\ Call(c).size <= n * k
    BY <1>8, <2>1, <2>2, CalcEffect
  <2>4. num_tasks' = [num_tasks EXCEPT ![c] = n] /\ chunk_size' = [chunk_size EXCEPT ![c] = k]
        /\ visits' = visits
    BY <1>8, <2>1, <2>2 DEF Calc
  <2>5. num_tasks'[c] = n /\ chunk_size'[c] = k
    BY <2>4 DEF VisitsTyped, Layout, Typed
  <2>6. CutRight(c)'
    BY <2>3, <2>5 DEF CutRight
  <2>7. \A d \in CallIds : d # c => chunk_size'[d] = chunk_size[d] /\ num_tasks'[d] = num_tasks[d]
    BY <2>4 DEF VisitsTyped, Layout, Typed
  <2>8. chunk_size' \in [CallIds -> Nat]
    BY <2>3, <2>4 DEF VisitsTyped
  <2>. QED
    BY <1>8, <2>1, <2>4, <2>6, <2>7, <2>8
<1>. HIDE DEF Goal
<1>9. Goal
  BY StepKinds, <1>1, <1>2, <1>3, <1>4, <1>5, <1>6, <1>7, <1>8
<1>. QED
  BY <1>9 DEF Goal

\* A thread is newly before the cutting of a call when the call is made.
LEMMA EarlyNext ==
  ASSUME Layout, Next, NEW v \in Threads, NEW d \in CallIds, Early(v, d)'
  PROVE  (Early(v, d) /\ ~ RunInline(v)) \/ NotMade(d)
<1>0. stack'[v] # <<>> /\ stack'[v][1].call = d /\ stack'[v][1].at \in {"start", "size", "calc"}
  BY DEF Early, Top
<1>1. stack'[v] = stack[v] => Early(v, d)
  BY <1>0 DEF Early, Top
<1>2. ASSUME NEW u \in Users, Make(u) PROVE Early(v, d) \/ NotMade(d)
  <2>1. Others(u) /\ stack'[u] = <<Frame("start", <<u, made[u] + 1, 0>>, 0)>> /\ made[u] \in Nat
    BY <1>2, MakeEffect DEF Layout, Typed
  <2>2. CASE v = u
    <3>1. d = <<u, made[u] + 1, 0>>
      BY <1>0, <2>1, <2>2 DEF Frame
    <3>. QED
      BY <2>1, <3>1 DEF NotMade
  <2>. QED
    BY <1>1, <2>1, <2>2 DEF Others
<1>3. ASSUME NEW t \in Threads, Start(t) \/ Size(t) \/ Calc(t) \/ Submit(t) \/ Get(t)
      PROVE  Early(v, d)
  <2>1. /\ Others(t) /\ stack[t] # <<>>
        /\ \E f \in Frames : /\ Swapped(stack[t], stack'[t], f) /\ f.call = Top(t).call
                             /\ f.at \in {"start", "size", "calc"} => Top(t).at \in {"start", "size", "calc"}
    <3>1. CASE Start(t) \/ Size(t)
      BY <3>1, StartEffect, SizeEffect
    <3>2. CASE Calc(t)
      BY <3>2, CalcEffect
    <3>3. CASE Submit(t) \/ Get(t)
      BY <3>3, SubmitEffect, GetEffect
    <3>. QED
      BY <1>3, <3>1, <3>2, <3>3
  <2>. QED
    BY <1>0, <1>1, <2>1 DEF Others, Swapped, Early
<1>4. ASSUME NEW t \in Threads, OwnTask(t) PROVE Early(v, d)
  <2>1. /\ Others(t) /\ \E f, g \in Frames : /\ Pushed(stack[t], stack'[t], f, g)
                                             /\ f = Frame("task", Top(t).call, 0)
    BY <1>4, OwnTaskEffect
  <2>. QED
    BY <1>0, <1>1, <2>1 DEF Others, Pushed, Frame
<1>5. ASSUME NEW t \in Threads, RunInline(t) \/ TaskBegin(t)
      PROVE  (v # t /\ Early(v, d)) \/ NotMade(d)
  <2>1. Others(t) /\ stack[t] # <<>> /\ Top(t).call \in CallIds
    BY <1>5, RunInlineEffect, TaskBeginEffect, TopFacts
  <2>2. PICK f \in Frames, g \in Frames, k \in Nat :
           /\ g.at \in {"inline", "end"} /\ g.call = Top(t).call
           /\ Before(t, g.call, k)
           /\ \/ Swapped(stack[t], stack'[t], f) /\ f.at = g.at
              \/ BodyCalls(t, g.call, k, f, g)
    BY <1>5, <2>1, RunInlineEffect, TaskBeginEffect, TopFacts DEF BodyStays, NoBody, Before
  <2>3. CASE v = t /\ Swapped(stack[t], stack'[t], f) /\ f.at = g.at
    BY <1>0, <2>2, <2>3 DEF Swapped
  <2>4. CASE v = t /\ BodyCalls(t, g.call, k, f, g)
    <3>1. d = <<g.call[1], g.call[2], k + 1>> /\ g.call[3] = 0
      BY <1>0, <2>4 DEF BodyCalls, Pushed, Frame
    <3>. QED
      BY <2>1, <2>2, <3>1 DEF NotMade, Unbegun
  <2>. QED
    BY <1>1, <2>1, <2>2, <2>3, <2>4 DEF Others
<1>6. ASSUME NEW t \in Threads, NEW b, stack[t] # <<>>, Others(t), Popped(stack[t], stack'[t], b)
      PROVE  Early(v, d)
  <2>1. CASE v = t
    <3>1. stack[t] \in Seq(Frames) /\ Len(stack[t]) \in 1 .. 3
          /\ \A n \in 2 .. Len(stack[t]) : stack[t][n].at \in {"wait", "end", "inline"}
      BY <1>6, StackFacts
    <3>2. Len(stack'[t]) = Len(stack[t]) - 1
      BY <1>6 DEF Popped
    <3>3. Len(stack[t]) > 1
      <4>1. stack'[t] \in Seq(Frames)
        BY LayoutNext DEF Layout, Typed
      <4>. QED
        BY <1>0, <2>1, <3>1, <3>2, <4>1
    <3>4. stack'[t][1].at \in {"wait", "end", "inline"}
      BY <1>6, <3>1, <3>3 DEF Popped
    <3>. QED
      BY <1>0, <2>1, <3>4
  <2>2. CASE v # t
    BY <1>1, <1>6, <2>2 DEF Others
  <2>. QED
    BY <2>1, <2>2
<1>7. ASSUME NEW t \in Threads, NEW b \in BOOLEAN, TaskEnd(t) \/ CallEnds(t, b) PROVE Early(v, d)
  BY <1>6, <1>7, TaskEndEffect, CallEndsEffect DEF CallEnds
<1>8. ASSUME NEW w \in Workers, Take(w) PROVE Early(v, d)
  <2>1. Others(w) /\ stack'[w] = <<Frame("task", Head(tasks_).call, Head(tasks_).id)>>
    BY <1>8, TakeEffect
  <2>. QED
    BY <1>0, <1>1, <2>1 DEF Others, Frame
<1>9. ASSUME PoolStep PROVE Early(v, d)
  BY <1>1, <1>9, PoolStepEffect
<1>10. Early(v, d) \/ NotMade(d)
  BY StepKinds, <1>2, <1>3, <1>4, <1>5, <1>7, <1>8, <1>9
<1>11. RunInline(v) => NotMade(d)
  BY <1>5
<1>. QED
  BY <1>10, <1>11

\* The call at the top of t, before it is cut or after its last task, has no
\* task that has not begun elsewhere.
LEMMA AloneBefore ==
  ASSUME Layout, Flight, OnePlace, NEW t \in Threads, Idle(t),
         NEW d \in CallIds, d = Top(t).call, NEW i \in Nat, Unbegun(d, i)
  PROVE  Before(t, d, i)
<1>1. /\ \A j \in Nat : ~ InFlight(d, j)
      /\ \A u \in Threads : u # t => ~ On(u, d)
  BY Alone
<1>2. ~ Queued(d, i)
  BY <1>1 DEF Flight
<1>3. ASSUME NEW v \in Threads, Before(v, d, i) PROVE On(v, d)
  <2>1. Len(stack[v]) > 0 /\ stack[v][1].call = d /\ Len(stack[v]) \in Nat
    BY <1>3 DEF Before, Top, Layout, Typed
  <2>. QED
    BY <2>1 DEF On
<1>. QED
  BY <1>1, <1>2, <1>3 DEF Unbegun

\* A body that begins is begun.
LEMMA BegunAfter ==
  ASSUME Layout, Flight, OnePlace, Next, NEW t \in Threads, NEW d \in CallIds, NEW i \in Nat,
         stack[t] # <<>>, Top(t).call = d,
         RunInline(t) \/ (TaskBegin(t) /\ Top(t).id = i)
  PROVE  ~ Unbegun(d, i)'
<1>0. Others(t) /\ tasks_' = tasks_ /\ Top(t).at \in {"start", "task"}
  BY RunInlineEffect, TaskBeginEffect DEF RunInline, TaskBegin, poolVars
<1>1. ~ Before(t, d, i)'
  <2>1. PICK f \in Frames, g \in Frames, k \in Nat :
           /\ g.at \in {"inline", "end"} /\ g.call = Top(t).call
           /\ \/ Swapped(stack[t], stack'[t], f) /\ f.at = g.at
              \/ BodyCalls(t, g.call, k, f, g)
    BY RunInlineEffect, TaskBeginEffect DEF BodyStays, NoBody
  <2>2. CASE Swapped(stack[t], stack'[t], f) /\ f.at = g.at
    BY <2>1, <2>2 DEF Swapped, Before, Top
  <2>3. CASE BodyCalls(t, g.call, k, f, g)
    <3>1. stack'[t][1].call = <<d[1], d[2], k + 1>> /\ d[3] = 0
      BY <2>1, <2>3 DEF BodyCalls, Pushed, Frame
    <3>2. <<d[1], d[2], k + 1>>[3] # 0
      OBVIOUS
    <3>. QED
      BY <3>1, <3>2 DEF Before, Top
  <2>. QED
    BY <2>1, <2>2, <2>3
<1>2. ~ Queued(d, i) /\ \A v \in Threads : Before(v, d, i) => v = t
  <2>1. CASE RunInline(t)
    <3>1. Idle(t)
      BY <2>1, RunInlineEffect DEF Idle, OwnerKinds
    <3>2. /\ \A j \in Nat : ~ InFlight(d, j)
          /\ \A u \in Threads : u # t => ~ On(u, d)
      BY <3>1, Alone
    <3>3. ASSUME NEW v \in Threads, Before(v, d, i) PROVE On(v, d)
      <4>1. Len(stack[v]) > 0 /\ stack[v][1].call = d /\ Len(stack[v]) \in Nat
        BY <3>3 DEF Before, Top, Layout, Typed
      <4>. QED
        BY <4>1 DEF On
    <3>. QED
      BY <3>2, <3>3 DEF Flight
  <2>2. CASE TaskBegin(t) /\ Top(t).id = i /\ t \in Workers
    <3>1. Busy(t) /\ Top(t).at = "task"
      BY <2>2, TaskBeginEffect, TopFacts DEF Busy, Layout, Typed
    <3>2. Bottom(t) = Top(t)
      BY <2>2, <3>1, WorkerCalls
    <3>3. RunBy(t, d, i)
      BY <2>2, <3>1, <3>2 DEF RunBy
    <3>. QED
      BY <2>2, <3>3, NoneBefore
  <2>3. CASE TaskBegin(t) /\ Top(t).id = i /\ t \in Users
    <3>1. d[1] = t /\ d[3] \in {0, 1}
      BY <2>3, TopCall
    <3>2. i = 0
      <4>1. UserShape(stack[t], t, made[t]) /\ Len(stack[t]) > 0 /\ Top(t).at = "task"
        BY <2>3, TaskBeginEffect DEF Layout, Shapes, Typed
      <4>. QED
        BY <2>3, <4>1 DEF UserShape, Own, OwnerKinds, Running, Is, Top
    <3>. QED
      BY <3>1, <3>2, FirstBefore
  <2>. QED
    BY <2>1, <2>2, <2>3, ThreadKinds
<1>3. ASSUME NEW v \in Threads, v # t, Before(v, d, i)' PROVE FALSE
  <2>1. stack'[v] = stack[v]
    BY <1>0, <1>3 DEF Others
  <2>2. Before(v, d, i)
    BY <1>3, <2>1 DEF Before, Top
  <2>. QED
    BY <1>2, <1>3, <2>2
<1>4. ~ Queued(d, i)'
  BY <1>0, <1>2 DEF Queued
<1>. QED
  BY <1>1, <1>3, <1>4 DEF Unbegun

\* A queued task is queued until a worker takes it.
LEMMA QueuedStays ==
  ASSUME Layout, Next, NEW d \in CallIds, NEW i \in Nat, Queued(d, i)
  PROVE  Unbegun(d, i)'
<1>1. tasks_' = tasks_ => Queued(d, i)'
  BY DEF Queued
<1>2. ASSUME NEW u \in Users, Make(u) PROVE tasks_' = tasks_
  BY <1>2 DEF Make, poolVars
<1>3. ASSUME NEW t \in Threads, Start(t) \/ Size(t) \/ Calc(t) \/ OwnTask(t) \/ Get(t)
      PROVE  tasks_' = tasks_
  BY <1>3 DEF Start, Size, Calc, OwnTask, Get, poolVars
<1>4. ASSUME NEW t \in Threads, RunInline(t) \/ TaskBegin(t) \/ TaskEnd(t)
      PROVE  tasks_' = tasks_
  BY <1>4 DEF RunInline, TaskBegin, TaskEnd, poolVars
<1>5. ASSUME NEW t \in Threads, NEW b \in BOOLEAN, CallEnds(t, b) PROVE tasks_' = tasks_
  BY <1>5 DEF CallEnds, poolVars
<1>6. PoolStep => tasks_' = tasks_
  BY PoolStepEffect
<1>7. PICK j \in 1 .. Len(tasks_) : tasks_[j].call = d /\ tasks_[j].id = i
  BY DEF Queued
<1>8. ASSUME NEW t \in Threads, Submit(t) PROVE Queued(d, i)'
  <2>1. tasks_' = Append(tasks_, [call |-> Top(t).call, id |-> Top(t).id]) /\ tasks_ \in Seq(TaskType)
    BY <1>8, SubmitEffect DEF Layout, Typed
  <2>2. j \in 1 .. Len(tasks_') /\ tasks_'[j] = tasks_[j]
    BY <1>7, <2>1
  <2>. QED
    BY <1>7, <2>2 DEF Queued
<1>9. ASSUME NEW w \in Workers, Take(w) PROVE Unbegun(d, i)'
  <2>1. /\ tasks_ # <<>> /\ tasks_' = Tail(tasks_) /\ tasks_ \in Seq(TaskType) /\ w \in Threads
        /\ stack'[w] = <<Frame("task", Head(tasks_).call, Head(tasks_).id)>>
    BY <1>9, TakeEffect, ThreadKinds DEF Layout, Typed
  <2>2. CASE j = 1
    <3>1. stack'[w] # <<>> /\ stack'[w][1] = Frame("task", d, i)
      BY <1>7, <2>1, <2>2
    <3>2. Before(w, d, i)'
      BY <3>1 DEF Before, Top, Frame
    <3>. QED
      BY <2>1, <3>2 DEF Unbegun
  <2>3. CASE j # 1
    <3>1. j - 1 \in 1 .. Len(tasks_') /\ tasks_'[j - 1] = tasks_[j]
      BY <1>7, <2>1, <2>3
    <3>. QED
      BY <1>7, <3>1 DEF Unbegun, Queued
  <2>. QED
    BY <2>2, <2>3
<1>. QED
  BY StepKinds, <1>1, <1>2, <1>3, <1>4, <1>5, <1>6, <1>8, <1>9 DEF Unbegun

\* A task of a call that was cut stays to be begun until it begins, or until the
\* call ends without having submitted it.
LEMMA UnbegunStays ==
  ASSUME Layout, Next, NEW d \in CallIds, NEW i \in Nat, i < num_tasks[d], Unbegun(d, i),
         \A t \in Threads : ~ Early(t, d)
  PROVE  \/ Unbegun(d, i)'
         \/ \E t \in Threads : TaskBegin(t) /\ stack[t] # <<>> /\ Top(t).call = d /\ Top(t).id = i
         \/ \E t \in Threads, b \in BOOLEAN : CallEnds(t, b) /\ Top(t).call = d
<1>. DEFINE Goal == \/ Unbegun(d, i)'
                    \/ \E t \in Threads : /\ TaskBegin(t) /\ stack[t] # <<>>
                                          /\ Top(t).call = d /\ Top(t).id = i
                    \/ \E t \in Threads, b \in BOOLEAN : CallEnds(t, b) /\ Top(t).call = d
<1>1. CASE Queued(d, i)
  BY <1>1, QueuedStays
<1>2. ASSUME NEW v \in Threads, Before(v, d, i) PROVE Goal
  <2>0. /\ stack[v] # <<>> /\ Top(v).call = d /\ Top(v).id \in Nat /\ Top(v) = stack[v][1]
        /\ num_tasks[d] \in Nat
        /\ \/ Top(v).at = "task" /\ Top(v).id = i
           \/ Top(v).at = "submit" /\ (i = 0 \/ i >= Top(v).id)
    BY <1>2, TopFacts, MaxThreadsType DEF Before, Early, Layout, Typed
  <2>1. stack'[v] = stack[v] => Goal
    BY <1>2 DEF Before, Top, Unbegun
  <2>2. ASSUME NEW t, t # v, Others(t) PROVE Goal
    BY <2>1, <2>2 DEF Others
  <2>3. ASSUME NEW u \in Users, Make(u) PROVE Goal
    BY <2>0, <2>2, <2>3, MakeEffect
  <2>4. ASSUME NEW t \in Threads, Start(t) \/ Size(t) \/ Calc(t) \/ Get(t) PROVE Goal
    <3>1. Others(t) /\ Top(t).at \notin {"task", "submit"}
      BY <2>4, StartEffect, SizeEffect, CalcEffect, GetEffect
    <3>. QED
      BY <2>0, <2>2, <3>1
  <2>5. ASSUME NEW t \in Threads, RunInline(t) \/ TaskEnd(t) PROVE Goal
    <3>1. Others(t) /\ Top(t).at \notin {"task", "submit"}
      BY <2>5, RunInlineEffect, TaskEndEffect
    <3>. QED
      BY <2>0, <2>2, <3>1
  <2>6. ASSUME NEW t \in Threads, TaskBegin(t) PROVE Goal
    <3>1. Others(t) /\ Top(t).at = "task"
      BY <2>6, TaskBeginEffect
    <3>. QED
      BY <2>0, <2>2, <2>6, <3>1
  <2>7. ASSUME NEW t \in Threads, NEW b \in BOOLEAN, CallEnds(t, b) PROVE Goal
    <3>1. Others(t)
      BY <2>7, CallEndsEffect
    <3>. QED
      BY <2>0, <2>2, <2>7, <3>1
  <2>8. ASSUME NEW w \in Workers, Take(w) PROVE Goal
    BY <2>0, <2>2, <2>8, TakeEffect
  <2>9. PoolStep => Goal
    BY <2>1, PoolStepEffect
  <2>10. ASSUME NEW t \in Threads, Submit(t) PROVE Goal
    <3>1. /\ Others(t) /\ stack[t] # <<>> /\ Top(t).at = "submit"
          /\ tasks_' = Append(tasks_, [call |-> Top(t).call, id |-> Top(t).id])
          /\ tasks_ \in Seq(TaskType)
      BY <2>10, SubmitEffect DEF Layout, Typed
    <3>2. PICK f \in Frames : /\ Swapped(stack[t], stack'[t], f) /\ f.call = Top(t).call
                              /\ f.at = "submit" /\ f.id = Top(t).id + 1
      BY <2>10, SubmitEffect
    <3>3. CASE t = v /\ i = Top(v).id
      <4>1. Len(tasks_') \in 1 .. Len(tasks_') /\ tasks_'[Len(tasks_')] = [call |-> d, id |-> i]
        BY <2>0, <3>1, <3>3
      <4>2. Queued(d, i)'
        BY <4>1 DEF Queued
      <4>. QED
        BY <4>2 DEF Unbegun
    <3>4. CASE t = v /\ i # Top(v).id
      <4>1. i = 0 \/ i >= f.id
        BY <2>0, <3>1, <3>2, <3>4
      <4>2. stack'[v] # <<>> /\ stack'[v][1] = f
        <5>1. stack'[v] \in Seq(Frames) /\ Len(stack'[v]) > 0
          BY <2>0, <3>2, <3>4, LayoutNext DEF Layout, Typed, Swapped
        <5>. QED
          BY <3>2, <3>4, <5>1 DEF Swapped
      <4>3. Before(v, d, i)'
        BY <2>0, <3>2, <3>4, <4>1, <4>2 DEF Before, Top
      <4>. QED
        BY <4>3 DEF Unbegun
    <3>. QED
      BY <2>2, <3>1, <3>3, <3>4
  <2>11. ASSUME NEW t \in Threads, OwnTask(t) PROVE Goal
    <3>1. Others(t) /\ Top(t).at = "submit" /\ Top(t).id >= num_tasks[Top(t).call]
      BY <2>11, OwnTaskEffect
    <3>2. PICK f \in Frames, g \in Frames : /\ Pushed(stack[t], stack'[t], f, g)
                                            /\ f = Frame("task", Top(t).call, 0)
      BY <2>11, OwnTaskEffect
    <3>3. CASE t = v
      <4>1. i = 0
        BY <2>0, <3>1, <3>3
      <4>2. stack'[v] # <<>> /\ stack'[v][1] = f
        <5>1. stack'[v] \in Seq(Frames) /\ Len(stack'[v]) > 0
          BY <2>0, <3>2, <3>3, LayoutNext DEF Layout, Typed, Pushed
        <5>. QED
          BY <3>2, <3>3, <5>1 DEF Pushed
      <4>3. Before(v, d, i)'
        BY <2>0, <3>2, <3>3, <4>1, <4>2 DEF Before, Top, Frame
      <4>. QED
        BY <4>3 DEF Unbegun
    <3>. QED
      BY <2>2, <3>1, <3>3
  <2>. HIDE DEF Goal
  <2>. QED
    BY StepKinds, <2>3, <2>4, <2>5, <2>6, <2>7, <2>8, <2>9, <2>10, <2>11
<1>. QED
  BY <1>1, <1>2 DEF Unbegun

\* Every index is visited at most once, and what was visited stays so.
LEMMA VisitStays ==
  ASSUME Layout, VisitInv, Next
  PROVE  /\ VisitsTyped'
         /\ \A d \in CallIds : \A x \in Indices(d) : visits[d][x] = 1 => visits'[d][x] = 1
<1>0. VisitsTyped
  BY DEF VisitInv
<1>1. ASSUME NEW d \in CallIds
      PROVE  /\ visits'[d] \in [Indices(d) -> {0, 1}]
             /\ \A x \in Indices(d) : visits[d][x] = 1 => visits'[d][x] = 1
  <2>1. visits[d] \in [Indices(d) -> {0, 1}]
    BY <1>0 DEF VisitsTyped
  <2>2. ASSUME NEW t \in Threads, NEW xs, Marks(t, d, xs)
        PROVE  /\ visits'[d] \in [Indices(d) -> {0, 1}]
               /\ \A x \in Indices(d) : visits[d][x] = 1 => visits'[d][x] = 1
    <3>1. visits'[d] = [x \in Indices(d) |-> IF x \in xs THEN 1 ELSE visits[d][x]]
      BY <2>2 DEF Marks
    <3>. QED
      BY <2>1, <3>1
  <2>. QED
    BY <2>1, <2>2, VisitsNext
<1>2. visits' = [d \in CallIds |-> visits'[d]] /\ chunk_size' \in [CallIds -> Nat]
  BY <1>0, VisitsNext, ChunkNext
<1>. QED
  BY <1>1, <1>2 DEF VisitsTyped

LEMMA CompleteStays ==
  ASSUME Layout, VisitInv, Next, NEW d \in CallIds, Complete(d)
  PROVE  Complete(d)'
  BY VisitStays DEF Complete

\* The range of a task that has not begun has not been visited.
LEMMA ClearNext ==
  ASSUME QInv, VisitInv, Next, NEW d \in CallIds, NEW i \in Nat, Unbegun(d, i)'
  PROVE  Clear(d, i)'
<1>0. Layout /\ Flight /\ OnePlace /\ VisitsTyped
  BY DEF QInv, VisitInv
<1>1. Unbegun(d, i) \/ NotMade(d)
  BY <1>0, QueuedNext, BeforeNext DEF Unbegun
<1>2. Range(d, i) \subseteq Indices(d) /\ Range(d, i)' \subseteq Indices(d)
  BY DEF Range, Indices
<1>3. Clear(d, i)
  BY <1>1, <1>2 DEF VisitInv, Clear, Unseen
<1>4. CASE chunk_size'[d] = chunk_size[d]
  <2>1. Range(d, i)' = Range(d, i)
    BY <1>4 DEF Range
  <2>2. CASE visits'[d] = visits[d]
    BY <1>3, <2>1, <2>2 DEF Clear
  <2>3. ASSUME NEW t \in Threads, NEW xs, Marks(t, d, xs) PROVE Clear(d, i)'
    <3>0. stack[t] # <<>> /\ Top(t).call = d /\ Top(t).id \in Nat
      BY <1>0, <2>3, TopFacts DEF Marks
    <3>1. ~ RunInline(t) /\ ~ (TaskBegin(t) /\ Top(t).id = i)
      BY <1>0, <3>0, BegunAfter
    <3>2. xs = Range(d, Top(t).id) /\ Top(t).id # i
      BY <2>3, <3>1 DEF Marks
    <3>3. ASSUME NEW x \in Range(d, i) PROVE visits'[d][x] = 0
      <4>1. x \in Indices(d) /\ visits[d][x] = 0
        BY <1>2, <1>3 DEF Clear
      <4>2. x \notin xs
        BY <1>0, <3>0, <3>2, TasksApart
      <4>3. visits'[d] = [z \in Indices(d) |-> IF z \in xs THEN 1 ELSE visits[d][z]]
        BY <2>3 DEF Marks
      <4>. QED
        BY <4>1, <4>2, <4>3
    <3>. QED
      BY <2>1, <3>3 DEF Clear
  <2>. QED
    BY <1>0, <2>2, <2>3, VisitsNext
<1>5. ASSUME NEW t \in Threads, Calc(t), Top(t).call = d, visits' = visits PROVE Clear(d, i)'
  <2>1. Early(t, d)
    BY <1>0, <1>5, CalcEffect DEF Early
  <2>2. Unseen(d)
    BY <2>1 DEF VisitInv
  <2>. QED
    BY <1>2, <1>5, <2>2 DEF Clear, Unseen
<1>. QED
  BY <1>0, <1>4, <1>5, ChunkNext

\* No index of a call was visited before it is made, nor before it is cut.
LEMMA UnseenNext ==
  ASSUME QInv, VisitInv, Next, NEW d \in CallIds,
         NotMade(d)' \/ \E v \in Threads : Early(v, d)'
  PROVE  Unseen(d)'
<1>0. Layout /\ Flight /\ OnePlace
  BY DEF QInv
<1>1. CASE NotMade(d)
  <2>1. Unseen(d)
    BY <1>1 DEF VisitInv
  <2>2. ASSUME NEW t \in Threads, NEW xs, Marks(t, d, xs) PROVE FALSE
    BY <1>0, <1>1, <2>2, TopMade DEF Marks
  <2>3. visits'[d] = visits[d]
    BY <1>0, <2>2, VisitsNext
  <2>. QED
    BY <2>1, <2>3 DEF Unseen
<1>2. ASSUME NEW v \in Threads, Early(v, d), ~ RunInline(v) PROVE Unseen(d)'
  <2>1. Unseen(d)
    BY <1>2 DEF VisitInv
  <2>2. Idle(v) /\ Top(v).call = d
    BY <1>2 DEF Early, Idle, OwnerKinds
  <2>3. ASSUME NEW t \in Threads, NEW xs, Marks(t, d, xs) PROVE FALSE
    <3>1. stack[t] # <<>> /\ Top(t).call = d
      BY <2>3 DEF Marks
    <3>2. On(t, d)
      <4>1. Len(stack[t]) \in 1 .. 3 /\ Top(t) = stack[t][1]
        BY <1>0, <3>1, StackFacts
      <4>. QED
        BY <3>1, <4>1 DEF On
    <3>3. t = v
      BY <1>0, <2>2, <3>2, Alone
    <3>4. TaskBegin(v)
      BY <1>2, <2>3, <3>3 DEF Marks
    <3>. QED
      BY <1>0, <1>2, <3>4, TaskBeginEffect DEF Early
  <2>4. visits'[d] = visits[d]
    BY <1>0, <2>3, VisitsNext
  <2>. QED
    BY <2>1, <2>4 DEF Unseen
<1>. QED
  BY <1>0, <1>1, <1>2, NotMadeNext, EarlyNext

\* A call that returns has visited every index.
LEMMA ReturnedNext ==
  ASSUME QInv, VisitInv, Next, NEW d \in CallIds, outcome'[d] = "returned"
  PROVE  Complete(d)'
<1>0. Layout /\ Flight /\ OnePlace /\ VisitsTyped
  BY DEF QInv, VisitInv
<1>1. CASE outcome[d] = "returned"
  <2>1. Complete(d)
    BY <1>1 DEF VisitInv
  <2>. QED
    BY <1>0, <2>1, CompleteStays
<1>2. CASE outcome[d] # "returned"
  <2>1. PICK t \in Threads, b \in BOOLEAN : CallEnds(t, b)
    BY <1>0, <1>2, OutcomeNext
  <2>2. outcome' = [outcome EXCEPT ![Top(t).call] = IF b THEN "threw" ELSE "returned"]
    BY <2>1 DEF CallEnds, EndCall
  <2>3. Top(t).call = d
    BY <1>0, <1>2, <2>2 DEF Layout, Typed
  <2>4. ~ b
    BY <1>0, <2>2, <2>3 DEF Layout, Typed
  <2>5. stack[t] # <<>> /\ Len(stack[t]) \in Nat \ {0} /\ Top(t) = stack[t][1]
    BY <1>0, <2>1, TopFacts DEF CallEnds, Layout, Typed
  <2>6. \/ Call(d).size = 0
        \/ Top(t).at = "wait"
        \/ Top(t).at = "inline"
    BY <2>1, <2>3, <2>4 DEF CallEnds
  <2>7. CASE Call(d).size = 0
    <3>1. Indices(d) = {}
      BY <2>7 DEF Indices
    <3>. QED
      BY <3>1 DEF Complete
  <2>8. CASE Top(t).at = "inline"
    <3>1. Inlined(t, d)
      BY <2>3, <2>5, <2>8 DEF Inlined
    <3>2. Complete(d)
      BY <3>1 DEF VisitInv
    <3>. QED
      BY <1>0, <3>2, CompleteStays
  <2>9. CASE Top(t).at = "wait"
    <3>1. Cutting(t, d)
      BY <2>3, <2>5, <2>9 DEF Cutting
    <3>2. CutRight(d) /\ \A i \in Nat : i < num_tasks[d] => Unbegun(d, i) \/ Done(d, i)
      BY <3>1 DEF VisitInv
    <3>3. ASSUME NEW i \in Nat, Unbegun(d, i) PROVE FALSE
      <4>1. Before(t, d, i)
        BY <1>0, <2>1, <2>3, <3>3, EndsIdle, AloneBefore
      <4>. QED
        BY <2>9, <4>1 DEF Before
    <3>4. num_tasks[d] \in Nat
      BY <1>0, MaxThreadsType DEF Layout, Typed
    <3>5. Complete(d)
      BY <1>0, <3>2, <3>3, <3>4, TasksCover
    <3>. QED
      BY <1>0, <3>5, CompleteStays
  <2>. QED
    BY <2>6, <2>7, <2>8, <2>9
<1>. QED
  BY <1>1, <1>2

\* A body that runs inline visits the range, a task its part.
LEMMA BodyVisits ==
  ASSUME Layout, VisitInv, Next, NEW t \in Threads, NEW d \in CallIds,
         stack[t] # <<>>, Top(t).call = d
  PROVE  /\ RunInline(t) => Complete(d)'
         /\ \A i \in Nat : TaskBegin(t) /\ Top(t).id = i => Done(d, i)'
<1>0. VisitsTyped /\ visits[d] \in [Indices(d) -> {0, 1}] /\ DOMAIN visits = CallIds
  BY DEF VisitInv, VisitsTyped
<1>1. ASSUME RunInline(t) PROVE Complete(d)'
  <2>1. Unseen(d)
    BY <1>1, RunInlineEffect DEF VisitInv, Early
  <2>2. visits' = [visits EXCEPT ![d] =
                     [x \in DOMAIN @ |-> IF x \in DOMAIN visits[d] THEN @[x] + 1 ELSE @[x]]]
    BY <1>1 DEF RunInline, Body
  <2>3. \A x \in Indices(d) : visits'[d][x] = visits[d][x] + 1
    BY <1>0, <2>2
  <2>. QED
    BY <2>1, <2>3 DEF Unseen, Complete
<1>2. ASSUME NEW i \in Nat, TaskBegin(t), Top(t).id = i PROVE Done(d, i)'
  <2>2. chunk_size' = chunk_size /\ Range(d, i)' = Range(d, i) /\ Range(d, i) \subseteq Indices(d)
    BY <1>2 DEF TaskBegin, callVars, Range, Indices
  <2>3. CASE i * chunk_size[d] < Call(d).size
    <3>1. Clear(d, i)
      BY <1>2, TaskBeginEffect DEF VisitInv, Unbegun, Before
    <3>2. visits' = [visits EXCEPT ![d] =
                       [x \in DOMAIN @ |-> IF x \in Range(d, i) THEN @[x] + 1 ELSE @[x]]]
      BY <1>2, <2>3 DEF TaskBegin, Body
    <3>3. \A x \in Range(d, i) : visits'[d][x] = visits[d][x] + 1
      BY <1>0, <2>2, <3>2
    <3>. QED
      BY <2>2, <3>1, <3>3 DEF Clear, Done
  <2>4. CASE ~ (i * chunk_size[d] < Call(d).size)
    <3>1. i * chunk_size[d] \in Int /\ Call(d).size \in Nat
      BY <1>0, CallFacts DEF VisitsTyped
    <3>2. Range(d, i) = {}
      BY <2>4, <3>1 DEF Range
    <3>. QED
      BY <2>2, <3>2 DEF Done
  <2>. QED
    BY <2>3, <2>4
<1>. QED
  BY <1>1, <1>2

LEMMA InlinedNext ==
  ASSUME QInv, VisitInv, Next, NEW d \in CallIds, NEW v \in Threads, Inlined(v, d)'
  PROVE  Complete(d)'
<1>0. Layout
  BY DEF QInv
<1>1. PICK n \in 1 .. Len(stack'[v]) : stack'[v][n].call = d /\ stack'[v][n].at = "inline"
  BY DEF Inlined
<1>2. PICK f : f = stack'[v][n]
  OBVIOUS
<1>3. f.call = d /\ f.at = "inline"
  BY <1>1, <1>2
<1>4. Inlined(v, d) => Complete(d)'
  BY <1>0, CompleteStays DEF VisitInv
<1>5. CASE \E m \in 1 .. Len(stack[v]) : f = stack[v][m]
  BY <1>3, <1>4, <1>5 DEF Inlined
<1>6. CASE Moves(v, f)
  <2>1. stack[v] # <<>> /\ Top(v).call = d /\ RunInline(v)
    BY <1>3, <1>6 DEF Moves
  <2>. QED
    BY <1>0, <2>1, BodyVisits
<1>7. CASE Uncovers(v, f)
  <2>1. Len(stack[v]) > 1 /\ stack[v][2].at = "inline" /\ stack[v][2].call = d /\ Len(stack[v]) \in Nat
    BY <1>0, <1>3, <1>7 DEF Uncovers, Layout, Typed
  <2>2. 2 \in 1 .. Len(stack[v])
    BY <2>1
  <2>. QED
    BY <1>4, <2>1, <2>2 DEF Inlined
<1>. QED
  BY <1>0, <1>1, <1>2, <1>3, <1>5, <1>6, <1>7, FrameNext

LEMMA CuttingNext ==
  ASSUME Layout, Next, NEW d \in CallIds, NEW v \in Threads, Cutting(v, d)'
  PROVE  Cutting(v, d) \/ (Calc(v) /\ Top(v).call = d)
<1>1. PICK n \in 1 .. Len(stack'[v]) : stack'[v][n].call = d /\ stack'[v][n].at \in {"submit", "wait"}
  BY DEF Cutting
<1>2. PICK f : f = stack'[v][n]
  OBVIOUS
<1>3. f.call = d /\ f.at \in {"submit", "wait"}
  BY <1>1, <1>2
<1>5. CASE \E m \in 1 .. Len(stack[v]) : f = stack[v][m]
  BY <1>3, <1>5 DEF Cutting
<1>6. CASE Moves(v, f)
  <2>1. /\ stack[v] # <<>> /\ Top(v).call = d
        /\ Calc(v) \/ Top(v).at \in {"submit", "wait"}
    BY <1>3, <1>6 DEF Moves
  <2>2. 1 \in 1 .. Len(stack[v]) /\ Top(v) = stack[v][1]
    BY <2>1, StackFacts
  <2>. QED
    BY <2>1, <2>2 DEF Cutting
<1>7. CASE Uncovers(v, f)
  <2>1. /\ Len(stack[v]) > 1 /\ stack[v][2].at \in {"submit", "wait"} /\ stack[v][2].call = d
        /\ Len(stack[v]) \in Nat
    BY <1>3, <1>7 DEF Uncovers, Layout, Typed
  <2>2. 2 \in 1 .. Len(stack[v])
    BY <2>1
  <2>. QED
    BY <2>1, <2>2 DEF Cutting
<1>. QED
  BY <1>1, <1>2, <1>3, <1>5, <1>6, <1>7, FrameNext

\* A call that was cut is not about to be cut.
LEMMA NotEarly ==
  ASSUME Layout, Flight, OnePlace, NEW d \in CallIds, NEW v \in Threads, Cutting(v, d),
         NEW t \in Threads
  PROVE  ~ Early(t, d)
<1>. SUFFICES ASSUME Early(t, d) PROVE FALSE
  OBVIOUS
<1>1. stack[t] # <<>> /\ Idle(t) /\ Top(t).call = d /\ Top(t).at \in {"start", "size", "calc"}
  BY DEF Early, Idle, OwnerKinds
<1>2. /\ \A u \in Threads : u # t => ~ On(u, d)
      /\ \A n \in 2 .. Len(stack[t]) : stack[t][n].call # d
  BY <1>1, Alone
<1>3. PICK n \in 1 .. Len(stack[v]) : stack[v][n].call = d /\ stack[v][n].at \in {"submit", "wait"}
  BY DEF Cutting
<1>4. v = t
  BY <1>2, <1>3 DEF On
<1>5. n = 1 \/ n \in 2 .. Len(stack[t])
  <2>1. Len(stack[t]) \in 1 .. 3
    BY <1>1, StackFacts
  <2>. QED
    BY <1>3, <1>4, <2>1
<1>6. Top(t) = stack[t][1]
  BY <1>1, StackFacts
<1>. QED
  BY <1>1, <1>2, <1>3, <1>4, <1>5, <1>6

\* Every task of a call that was cut is still to begin, or has visited its part.
LEMMA CutNext ==
  ASSUME QInv, VisitInv, Next, NEW d \in CallIds, NEW v \in Threads, Cutting(v, d)'
  PROVE  CutRight(d)' /\ \A i \in Nat : i < num_tasks'[d] => Unbegun(d, i)' \/ Done(d, i)'
<1>0. Layout /\ Flight /\ OnePlace /\ VisitsTyped
  BY DEF QInv, VisitInv
<1>1. CASE Calc(v) /\ Top(v).call = d
  <2>1. stack[v] # <<>>
    BY <1>0, <1>1, CalcEffect
  <2>2. PICK f \in Frames : /\ Swapped(stack[v], stack'[v], f) /\ f.call = d
                            /\ f.at = "submit" /\ f.id = 1
    BY <1>0, <1>1, CalcEffect
  <2>3. stack'[v] # <<>> /\ stack'[v][1] = f
    <3>1. stack'[v] \in Seq(Frames) /\ Len(stack'[v]) > 0
      BY <1>0, <2>1, <2>2, LayoutNext DEF Layout, Typed, Swapped
    <3>. QED
      BY <2>2, <3>1 DEF Swapped
  <2>4. ASSUME NEW i \in Nat PROVE Before(v, d, i)'
    BY <2>2, <2>3 DEF Before, Top
  <2>5. CutRight(d)'
    <3>1. /\ NumTasks(Call(d).size, Call(d).grain) \in Nat
          /\ ChunkSize(Call(d).size, Call(d).grain) \in Nat \ {0}
          /\ Call(d).size <= NumTasks(Call(d).size, Call(d).grain) * ChunkSize(Call(d).size, Call(d).grain)
      BY <1>0, <1>1, CalcEffect, ThreadCountType DEF ThreadCount
    <3>2. /\ num_tasks'[d] = NumTasks(Call(d).size, Call(d).grain)
          /\ chunk_size'[d] = ChunkSize(Call(d).size, Call(d).grain)
      BY <1>0, <1>1 DEF Calc, VisitsTyped, Layout, Typed
    <3>. QED
      BY <3>1, <3>2 DEF CutRight
  <2>. QED
    BY <2>4, <2>5 DEF Unbegun
<1>2. CASE Cutting(v, d)
  <2>1. \A t \in Threads : ~ Early(t, d)
    BY <1>0, <1>2, NotEarly
  <2>2. CutRight(d) /\ \A i \in Nat : i < num_tasks[d] => Unbegun(d, i) \/ Done(d, i)
    BY <1>2 DEF VisitInv
  <2>3. chunk_size'[d] = chunk_size[d] /\ num_tasks'[d] = num_tasks[d]
    <3>1. ASSUME NEW t \in Threads, Calc(t), Top(t).call = d PROVE FALSE
      <4>1. Early(t, d)
        BY <1>0, <3>1, CalcEffect DEF Early
      <4>. QED
        BY <2>1, <4>1
    <3>. QED
      BY <1>0, <3>1, ChunkNext
  <2>4. CutRight(d)'
    BY <2>2, <2>3 DEF CutRight
  <2>5. ASSUME NEW i \in Nat, i < num_tasks[d] PROVE Unbegun(d, i)' \/ Done(d, i)'
    <3>1. Range(d, i)' = Range(d, i) /\ Range(d, i) \subseteq Indices(d)
      BY <2>3 DEF Range, Indices
    <3>2. CASE Done(d, i)
      BY <1>0, <3>1, <3>2, VisitStays DEF Done
    <3>3. CASE Unbegun(d, i)
      <4>1. ASSUME NEW t \in Threads, TaskBegin(t), stack[t] # <<>>, Top(t).call = d, Top(t).id = i
            PROVE  Done(d, i)'
        BY <1>0, <4>1, BodyVisits
      <4>2. ASSUME NEW t \in Threads, NEW b \in BOOLEAN, CallEnds(t, b), Top(t).call = d
            PROVE  FALSE
        <5>1. ~ Present(d)'
          BY <1>0, <4>2, GoneAfter
        <5>2. On(v, d)'
          BY DEF Cutting, On
        <5>. QED
          BY <5>1, <5>2 DEF Present
      <4>. QED
        BY <1>0, <2>1, <2>5, <3>3, <4>1, <4>2, UnbegunStays
    <3>. QED
      BY <2>2, <2>5, <3>2, <3>3
  <2>. QED
    BY <2>3, <2>4, <2>5
<1>. QED
  BY <1>0, <1>1, <1>2, CuttingNext

VInv == QInv /\ VisitInv

LEMMA VisitAlways == Spec => []VInv
<1>1. Init => VInv
  <2>. SUFFICES ASSUME Init PROVE VInv
    OBVIOUS
  <2>0. QInv
    BY QInit
  <2>1. \A d \in CallIds : visits[d] = [x \in Indices(d) |-> 0]
    BY DEF Init, Indices
  <2>2. \A d \in CallIds : visits[d] \in [Indices(d) -> {0, 1}] /\ Unseen(d)
    BY <2>1 DEF Unseen
  <2>3. chunk_size \in [CallIds -> Nat] /\ visits = [d \in CallIds |-> visits[d]]
    BY DEF Init
  <2>4. \A t \in Threads : stack[t] = <<>> /\ Len(stack[t]) = 0
    BY DEF Init
  <2>5. \A d \in CallIds : outcome[d] = "none"
    BY DEF Init
  <2>6. \A d \in CallIds : \A t \in Threads : ~ Early(t, d) /\ ~ Inlined(t, d) /\ ~ Cutting(t, d)
    BY <2>4 DEF Early, Inlined, Cutting
  <2>7. \A d \in CallIds, i \in Nat : Clear(d, i)
    BY <2>2 DEF Clear, Unseen, Range, Indices
  <2>. QED
    BY <2>0, <2>2, <2>3, <2>5, <2>6, <2>7 DEF VInv, VisitInv, VisitsTyped
<1>2. VInv /\ [Next]_vars => VInv'
  <2>. SUFFICES ASSUME VInv, [Next]_vars PROVE VInv'
    OBVIOUS
  <2>1. QInv'
    BY QNext DEF VInv
  <2>2. CASE Next
    <3>0. QInv /\ VisitInv /\ Layout
      BY DEF VInv, QInv
    <3>1. VisitsTyped'
      BY <2>2, <3>0, VisitStays
    <3>2. VisitInv'
      BY <2>2, <3>0, <3>1, UnseenNext, ReturnedNext, ClearNext, InlinedNext, CutNext DEF VisitInv
    <3>. QED
      BY <2>1, <3>2 DEF VInv
  <2>3. CASE UNCHANGED vars
    <3>1. UNCHANGED <<stack, tasks_, made, num_tasks, chunk_size, visits, outcome>>
      BY <2>3 DEF vars, poolVars, callVars
    <3>2. VisitsTyped'
      BY <3>1 DEF VInv, VisitInv, VisitsTyped
    <3>3. \A d \in CallIds : /\ NotMade(d)' <=> NotMade(d)
                             /\ Unseen(d)' <=> Unseen(d)
                             /\ Complete(d)' <=> Complete(d)
                             /\ CutRight(d)' <=> CutRight(d)
      BY <3>1 DEF NotMade, Unbegun, Queued, Before, Top, Unseen, Complete, CutRight
    <3>4. \A d \in CallIds, i \in Nat : /\ Unbegun(d, i)' <=> Unbegun(d, i)
                                        /\ Clear(d, i)' <=> Clear(d, i)
                                        /\ Done(d, i)' <=> Done(d, i)
      BY <3>1 DEF Unbegun, Queued, Before, Top, Clear, Done, Range
    <3>5. \A d \in CallIds : \A t \in Threads : /\ Early(t, d)' <=> Early(t, d)
                                                /\ Inlined(t, d)' <=> Inlined(t, d)
                                                /\ Cutting(t, d)' <=> Cutting(t, d)
      BY <3>1 DEF Early, Inlined, Cutting, Top
    <3>6. VisitInv'
      BY <3>1, <3>2, <3>3, <3>4, <3>5 DEF VInv, VisitInv
    <3>. QED
      BY <2>1, <3>6 DEF VInv
  <2>. QED
    BY <2>2, <2>3
<1>. QED
  BY <1>1, <1>2, PTL DEF Spec

\* No index of the range is given to the body twice, and a call that returns has
\* given it every index (parallel.h:40, parallel.cc:119): whatever the number of
\* threads was when the range was cut, its chunks neither overlap nor leave a gap,
\* and each is run once, by a worker or by the caller.
THEOREM ParallelRunEachIndexOnce == Spec => []EachIndexOnce
<1>1. VInv => EachIndexOnce
  <2>. SUFFICES ASSUME VInv, NEW d \in CallIds, NEW x \in DOMAIN visits[d]
                PROVE  visits[d][x] <= 1 /\ (outcome[d] = "returned" => visits[d][x] = 1)
    BY DEF EachIndexOnce
  <2>1. visits[d] \in [Indices(d) -> {0, 1}]
    BY DEF VInv, VisitInv, VisitsTyped
  <2>2. x \in Indices(d) /\ visits[d][x] \in {0, 1}
    BY <2>1
  <2>3. outcome[d] = "returned" => Complete(d)
    BY DEF VInv, VisitInv
  <2>. QED
    BY <2>2, <2>3 DEF Complete
<1>. QED
  BY <1>1, VisitAlways, PTL

=============================================================================
