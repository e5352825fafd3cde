------------------------- MODULE SortingPoolsProofs -------------------------
(***************************************************************************)
(* Proofs about ForkJoin, for any set of threads and any number of calls:  *)
(* waiting threads that run other tasks on top of the waiting call cannot  *)
(* block one another, and nothing is left of the tree when the root is     *)
(* done.  And about the pools that sort: both implement ForkJoin, lose no  *)
(* task and sort, for any list and any number of workers.                  *)
(***************************************************************************)
EXTENDS SortingPools, WellFoundedInduction, SequenceTheorems,
        FiniteSetTheorems, TLAPS

\* A numbering of the calls that grows up every stack and from a call to its
\* lower half when that has started: the order in which they started.
OrderedBy(began) ==
  /\ \A t \in Threads : \A i, j \in Depths(t) :
       i < j => began[stack[t][i]] < began[stack[t][j]]
  /\ \A c \in Calls : Lower(c) \in Calls /\ phase[Lower(c)] \in Live =>
       began[c] < began[Lower(c)]

StartOrder == \E k \in Nat : \E began \in [Calls -> 0..k] : OrderedBy(began)
-----------------------------------------------------------------------------
\* The halves of a call are calls like any other, and no call is a half twice.
LEMMA Numbering ==
  /\ Root \in Calls /\ Calls \subseteq Nat
  /\ \A c \in Calls : Higher(c) \in Calls => Lower(c) \in Calls
  /\ \A c, d \in Calls : /\ Lower(c) # Higher(d)
                         /\ Lower(c) = Lower(d) => c = d
                         /\ Higher(c) = Higher(d) => c = d
                         /\ Lower(c) # Root /\ Higher(c) # Root
                         /\ Lower(c) > c /\ Higher(c) > c
BY MaxCallAssumption, SMT DEF Calls, Root, Lower, Higher

\* Every call but the root is a half of a smaller one.
LEMMA Parent ==
  ASSUME NEW c \in Calls, c # Root
  PROVE  \E p \in Calls : p < c /\ (c = Lower(p) \/ c = Higher(p))
<1> DEFINE p == c \div 2
<1>1. c = 2 * p \/ c = 2 * p + 1
  BY MaxCallAssumption, SMT DEF Calls
<1>2. p \in Calls /\ p < c
  BY <1>1, MaxCallAssumption, SMT DEF Calls, Root
<1>3. QED
  BY <1>1, <1>2 DEF Lower, Higher

\* A nonempty set of natural numbers has a least element.
LEMMA Least ==
  ASSUME NEW S, S \subseteq Nat, S # {}
  PROVE  \E n \in S : \A m \in S : n <= m
<1> DEFINE R == {mn \in Nat \X Nat : mn[1] < mn[2]}
<1>1. OpToRel(<, Nat) = R
  BY Zenon DEF OpToRel
<1>2. IsWellFoundedOn(R, Nat)
  BY <1>1, NatLessThanWellFounded, Zenon
<1> HIDE DEF R
<1>3. PICK n \in S : \A m \in S : ~ (<<m, n>> \in R)
  BY <1>2, WFMin
<1>4. ASSUME NEW m \in S, m < n PROVE FALSE
  <2>1. <<m, n>> \in Nat \X Nat /\ <<m, n>>[1] = m /\ <<m, n>>[2] = n
    OBVIOUS
  <2>2. <<m, n>> \in R
    BY <1>4, <2>1, Zenon DEF R
  <2>3. QED
    BY <1>3, <2>2
<1>5. QED
  BY <1>4

\* What pushing a call and returning from one do to a thread's stack.
LEMMA StackAppend ==
  ASSUME TypeOK, NEW t \in Threads, NEW c \in Calls,
         stack' = [stack EXCEPT ![t] = Append(@, c)]
  PROVE  /\ stack' \in [Threads -> Seq(Calls)]
         /\ \A u \in Threads \ {t} : stack'[u] = stack[u]
         /\ Len(stack'[t]) = Len(stack[t]) + 1
         /\ stack'[t][Len(stack[t]) + 1] = c
         /\ \A i \in Depths(t) : stack'[t][i] = stack[t][i]
         /\ Len(stack[t]) \in Nat
BY AppendProperties DEF TypeOK, Depths

LEMMA StackReturn ==
  ASSUME TypeOK, NEW t \in Threads, Busy(t),
         stack' = [stack EXCEPT ![t] = WithoutTop(@)]
  PROVE  /\ stack' \in [Threads -> Seq(Calls)]
         /\ \A u \in Threads \ {t} : stack'[u] = stack[u]
         /\ Len(stack'[t]) = Len(stack[t]) - 1
         /\ \A i \in Depths(t) : i < Len(stack[t]) =>
              stack'[t][i] = stack[t][i]
         /\ Len(stack[t]) \in Nat \ {0}
<1>1. stack[t] \in Seq(Calls) /\ Len(stack[t]) \in Nat \ {0}
  BY DEF TypeOK, Busy
<1>2. \A i \in 1..(Len(stack[t]) - 1) : stack[t][i] \in Calls
  BY <1>1
<1>3. /\ WithoutTop(stack[t]) \in Seq(Calls)
      /\ Len(WithoutTop(stack[t])) = Len(stack[t]) - 1
      /\ \A i \in 1..(Len(stack[t]) - 1) :
           WithoutTop(stack[t])[i] = stack[t][i]
  BY <1>1, <1>2, SubSeqProperties DEF WithoutTop
<1>4. QED
  BY <1>1, <1>3 DEF TypeOK, Depths

\* The innermost call of a busy thread is one of its calls.
LEMMA TopIsCall ==
  ASSUME TypeOK, NEW t \in Threads, Busy(t)
  PROVE  /\ Len(stack[t]) \in Depths(t)
         /\ Top(t) = stack[t][Len(stack[t])]
         /\ Top(t) \in Calls
BY DEF TypeOK, Busy, Depths, Top

\* A call that is not live has no frame.
LEMMA NotLiveNoFrame ==
  ASSUME TreeInv, NEW c \in Calls, phase[c] \notin Live
  PROVE  \A t \in Threads : \A i \in Depths(t) : stack[t][i] # c
BY DEF TreeInv, LiveOnStack
-----------------------------------------------------------------------------
LEMMA InitTreeInv == ForkInit => TreeInv
<1> SUFFICES ASSUME ForkInit PROVE TreeInv
  OBVIOUS
<1>1. /\ \A c \in Calls : phase[c] = IF c = Root THEN "start" ELSE "none"
      /\ stack[Main] = <<Root>> /\ Len(stack[Main]) = 1
      /\ stack[Main][1] = Root
      /\ \A t \in Threads \ {Main} : stack[t] = <<>> /\ Len(stack[t]) = 0
  BY ThreadsAssumption DEF ForkInit
<1>2. TypeOK
  <2>1. phase \in [Calls -> Phases] /\ stack \in [Threads -> Seq(Calls)]
    BY Numbering DEF ForkInit, Phases, Live
  <2>2. QED
    BY <1>1, <2>1 DEF TypeOK, Depths
<1>o. /\ 1 \in Depths(Main)
      /\ \A t \in Threads : \A i \in Depths(t) :
           t = Main /\ i = 1 /\ stack[t][i] = Root
  <2>1. Depths(Main) = 1..1
    BY <1>1 DEF Depths
  <2>2. \A t \in Threads \ {Main} : Depths(t) = {}
    BY <1>1 DEF Depths
  <2>3. 1 \in 1..1 /\ \A i \in 1..1 : i = 1
    OBVIOUS
  <2>4. QED
    BY <1>1, <2>1, <2>2, <2>3
<1>r. phase[Root] = "start" /\ Root \in Calls
  BY <1>1, Numbering
<1>3. LiveOnStack
  BY <1>1, <1>o, <1>r, ThreadsAssumption DEF LiveOnStack, Live
<1>4. FrameOrder
  BY <1>1, <1>o, <1>r DEF FrameOrder
<1>5. Family
  BY <1>1, Numbering DEF Family, Live
<1>6. QED
  BY <1>2, <1>3, <1>4, <1>5 DEF TreeInv

\* Splitting a call.
LEMMA ForkTreeInv ==
  ASSUME TreeInv, NEW t \in Threads, Fork(t)
  PROVE  TreeInv'
<1> DEFINE c == Top(t)
           n == Len(stack[t])
<1>1. TypeOK /\ LiveOnStack /\ FrameOrder /\ Family
  BY DEF TreeInv
<1>2. /\ n \in Depths(t) /\ c = stack[t][n] /\ c \in Calls
      /\ phase[c] = "start" /\ Higher(c) \in Calls /\ Lower(c) \in Calls
      /\ phase[Lower(c)] = "none" /\ phase[Higher(c)] = "none"
  BY <1>1, TopIsCall, Numbering DEF Fork, Family
<1>3. /\ stack' \in [Threads -> Seq(Calls)]
      /\ \A u \in Threads \ {t} : stack'[u] = stack[u]
      /\ Len(stack'[t]) = n + 1
      /\ stack'[t][n + 1] = Higher(c)
      /\ \A i \in Depths(t) : stack'[t][i] = stack[t][i]
      /\ n \in Nat
  BY <1>1, <1>2, StackAppend DEF Fork
<1>4. /\ phase' \in [Calls -> Phases]
      /\ phase'[c] = "higher" /\ phase'[Lower(c)] = "queued"
      /\ phase'[Higher(c)] = "start"
      /\ \A d \in Calls \ {c, Lower(c), Higher(c)} : phase'[d] = phase[d]
  BY ZenonT(60), <1>1, <1>2, Numbering DEF Fork, TypeOK, Phases, Live
<1>5. \A u \in Threads : \A i \in Depths(u) :
        stack[u][i] # Lower(c) /\ stack[u][i] # Higher(c)
        /\ stack[u][i] \in Calls
  BY SMTT(60), <1>1, <1>2 DEF LiveOnStack, Live, TypeOK, Depths
<1>6. \A u \in Threads : \A i \in Depths(u)' :
        \/ i \in Depths(u) /\ stack'[u][i] = stack[u][i]
        \/ u = t /\ i = n + 1 /\ stack'[u][i] = Higher(c)
  BY <1>3 DEF Depths
<1>7. \A u \in Threads : \A i \in Depths(u) :
        i \in Depths(u)' /\ stack'[u][i] = stack[u][i]
  BY <1>3 DEF Depths
<1>8. TypeOK'
  <2>1. ASSUME NEW u \in Threads, NEW v \in Threads,
               NEW i \in Depths(u)', NEW j \in Depths(v)',
               stack'[u][i] = stack'[v][j]
        PROVE  u = v /\ i = j
    BY SMTT(60), <1>1, <1>5, <1>6, <2>1 DEF TypeOK
  <2>2. QED
    BY <1>3, <1>4, <2>1 DEF TypeOK
<1>9. LiveOnStack'
  <2>1. ASSUME NEW u \in Threads, NEW i \in Depths(u)'
        PROVE  phase'[stack'[u][i]] \in Live
    BY <1>1, <1>4, <1>5, <1>6 DEF LiveOnStack, Live
  <2>2. ASSUME NEW d \in Calls, phase'[d] \in Live
        PROVE  \E u \in Threads : \E i \in Depths(u)' : stack'[u][i] = d
    <3>1. CASE d = Higher(c)
      <4>1. n + 1 \in Depths(t)'
        BY <1>3 DEF Depths
      <4>2. QED
        BY <1>3, <3>1, <4>1
    <3>2. CASE d # Higher(c)
      <4>1. phase[d] \in Live
        BY <1>2, <1>4, <2>2, <3>2 DEF Live
      <4>2. QED
        BY <1>1, <1>7, <4>1 DEF LiveOnStack
    <3>3. QED
      BY <3>1, <3>2
  <2>3. QED
    BY <2>1, <2>2 DEF LiveOnStack
<1>10. FrameOrder'
  <2>1. ASSUME NEW u \in Threads, NEW i \in Depths(u)'
        PROVE  /\ phase'[stack'[u][i]] = "start" => i = Len(stack'[u])
               /\ phase'[stack'[u][i]] = "higher" =>
                    /\ i < Len(stack'[u])
                    /\ stack'[u][i + 1] = Higher(stack'[u][i])
    <3>1. CASE u = t /\ i = n + 1
      BY <1>3, <1>4, <3>1
    <3>2. CASE u = t /\ i = n
      BY <1>2, <1>3, <1>4, <3>2
    <3>3. CASE ~ (u = t /\ i \in {n, n + 1})
      <4>1. i \in Depths(u) /\ stack'[u][i] = stack[u][i]
            /\ stack[u][i] # c
        BY <1>1, <1>2, <1>6, <3>3 DEF TypeOK
      <4>2. phase'[stack'[u][i]] = phase[stack[u][i]]
        BY <1>4, <1>5, <4>1
      <4>3. phase[stack[u][i]] = "start" => i = Len(stack[u])
        BY <1>1, <4>1 DEF FrameOrder
      <4>4. phase[stack[u][i]] = "higher" =>
              /\ i < Len(stack[u])
              /\ stack[u][i + 1] = Higher(stack[u][i])
        BY <1>1, <4>1 DEF FrameOrder
      <4>5. CASE u # t
        BY <1>3, <4>1, <4>2, <4>3, <4>4, <4>5
      <4>6. CASE u = t
        <5>1. i < n /\ i + 1 \in Depths(t)
          BY <1>3, <3>3, <4>1, <4>6 DEF Depths
        <5>2. stack'[u][i + 1] = stack[u][i + 1]
              /\ Len(stack[u]) = n /\ Len(stack'[u]) = n + 1
          BY <1>3, <4>6, <5>1
        <5>3. i < Len(stack[u]) /\ i < Len(stack'[u]) /\ i # Len(stack[u])
          BY <1>3, <4>1, <5>1, <5>2 DEF Depths
        <5>4. QED
          BY <4>1, <4>2, <4>3, <4>4, <5>2, <5>3
      <4>7. QED
        BY <4>5, <4>6
    <3>4. QED
      BY <3>1, <3>2, <3>3
  <2>2. QED
    BY <2>1 DEF FrameOrder
<1>11. Family'
  BY ZenonT(60), <1>1, <1>2, <1>4, Numbering DEF Family, Live
<1>12. QED
  BY <1>8, <1>9, <1>10, <1>11 DEF TreeInv

\* Taking a pending task.
LEMMA TakeTreeInv ==
  ASSUME TreeInv, NEW t \in Threads, Take(t)
  PROVE  TreeInv'
<1> DEFINE n == Len(stack[t])
<1>1. TypeOK /\ LiveOnStack /\ FrameOrder /\ Family
  BY DEF TreeInv
<1>2. PICK c \in Calls :
        /\ phase[c] = "queued"
        /\ phase' = [phase EXCEPT ![c] = "start"]
        /\ stack' = [stack EXCEPT ![t] = Append(@, c)]
  BY DEF Take
<1>3. /\ stack' \in [Threads -> Seq(Calls)]
      /\ \A u \in Threads \ {t} : stack'[u] = stack[u]
      /\ Len(stack'[t]) = n + 1
      /\ stack'[t][n + 1] = c
      /\ \A i \in Depths(t) : stack'[t][i] = stack[t][i]
      /\ n \in Nat
  BY <1>1, <1>2, StackAppend
<1>4. /\ phase' \in [Calls -> Phases]
      /\ phase'[c] = "start"
      /\ \A d \in Calls \ {c} : phase'[d] = phase[d]
  BY <1>1, <1>2 DEF TypeOK, Phases, Live
<1>5. \A u \in Threads : \A i \in Depths(u) :
        stack[u][i] # c /\ stack[u][i] \in Calls
  BY SMTT(60), <1>1, <1>2 DEF LiveOnStack, Live, TypeOK, Depths
<1>6. \A u \in Threads : \A i \in Depths(u)' :
        \/ i \in Depths(u) /\ stack'[u][i] = stack[u][i]
        \/ u = t /\ i = n + 1 /\ stack'[u][i] = c
  BY <1>3 DEF Depths
<1>7. \A u \in Threads : \A i \in Depths(u) :
        i \in Depths(u)' /\ stack'[u][i] = stack[u][i]
  BY <1>3 DEF Depths
<1>8. TypeOK'
  <2>1. ASSUME NEW u \in Threads, NEW v \in Threads,
               NEW i \in Depths(u)', NEW j \in Depths(v)',
               stack'[u][i] = stack'[v][j]
        PROVE  u = v /\ i = j
    BY SMTT(60), <1>1, <1>5, <1>6, <2>1 DEF TypeOK
  <2>2. QED
    BY <1>3, <1>4, <2>1 DEF TypeOK
<1>9. LiveOnStack'
  <2>1. ASSUME NEW u \in Threads, NEW i \in Depths(u)'
        PROVE  phase'[stack'[u][i]] \in Live
    BY <1>1, <1>4, <1>5, <1>6 DEF LiveOnStack, Live
  <2>2. ASSUME NEW d \in Calls, phase'[d] \in Live
        PROVE  \E u \in Threads : \E i \in Depths(u)' : stack'[u][i] = d
    <3>1. CASE d = c
      <4>1. n + 1 \in Depths(t)'
        BY <1>3 DEF Depths
      <4>2. QED
        BY <1>3, <3>1, <4>1
    <3>2. CASE d # c
      BY <1>1, <1>4, <1>7, <2>2, <3>2 DEF LiveOnStack
    <3>3. QED
      BY <3>1, <3>2
  <2>3. QED
    BY <2>1, <2>2 DEF LiveOnStack
<1>10. FrameOrder'
  <2>1. ASSUME NEW u \in Threads, NEW i \in Depths(u)'
        PROVE  /\ phase'[stack'[u][i]] = "start" => i = Len(stack'[u])
               /\ phase'[stack'[u][i]] = "higher" =>
                    /\ i < Len(stack'[u])
                    /\ stack'[u][i + 1] = Higher(stack'[u][i])
    <3>1. CASE u = t /\ i = n + 1
      BY <1>3, <1>4, <3>1
    <3>2. CASE ~ (u = t /\ i = n + 1)
      <4>1. i \in Depths(u) /\ stack'[u][i] = stack[u][i]
            /\ phase'[stack'[u][i]] = phase[stack[u][i]]
        BY <1>4, <1>5, <1>6, <3>2
      <4>2. CASE u # t
        BY <1>1, <1>3, <4>1, <4>2 DEF FrameOrder
      <4>3. CASE u = t /\ i < n
        <5>1. stack'[u][i + 1] = stack[u][i + 1]
              /\ Len(stack[u]) = n /\ Len(stack'[u]) = n + 1
          BY <1>3, <4>1, <4>3 DEF Depths
        <5>2. phase[stack[u][i]] # "start"
              /\ (phase[stack[u][i]] = "higher" =>
                    stack[u][i + 1] = Higher(stack[u][i]))
          BY <1>1, <1>3, <4>1, <4>3, <5>1 DEF FrameOrder
        <5>3. i < Len(stack'[u])
          BY <1>3, <4>1, <4>3, <5>1 DEF Depths
        <5>4. QED
          BY <4>1, <5>1, <5>2, <5>3
      <4>4. CASE u = t /\ i = n
        <5>1. Busy(t) /\ Top(t) = stack[t][n]
          BY <1>1, <4>1, <4>4 DEF Busy, Top, Depths, TypeOK
        <5>2. phase[stack[u][i]] = "wait"
          BY <4>4, <5>1 DEF Take, CanTake
        <5>3. QED
          BY <4>1, <5>2
      <4>5. QED
        BY <1>3, <4>1, <4>2, <4>3, <4>4 DEF Depths
    <3>3. QED
      BY <3>1, <3>2
  <2>2. QED
    BY <2>1 DEF FrameOrder
<1>11. Family'
  BY <1>1, <1>2, <1>4, Numbering DEF Family, Live
<1>12. QED
  BY <1>8, <1>9, <1>10, <1>11 DEF TreeInv

\* Returning from the innermost call.
LEMMA ReturnTreeInv ==
  ASSUME TreeInv, NEW t \in Threads, Return(t)
  PROVE  TreeInv'
<1> DEFINE c == Top(t)
           n == Len(stack[t])
<1>1. TypeOK /\ LiveOnStack /\ FrameOrder /\ Family
  BY DEF TreeInv
<1>2. /\ n \in Depths(t) /\ c = stack[t][n] /\ c \in Calls /\ n \in Nat \ {0}
      /\ phase[c] \in {"start", "wait"}
      /\ phase[c] = "wait" => phase[Lower(c)] = "done"
  BY <1>1, TopIsCall DEF Return, CanReturn, Depths, TypeOK, Busy
<1>3. /\ stack' \in [Threads -> Seq(Calls)]
      /\ \A u \in Threads \ {t} : stack'[u] = stack[u]
      /\ Len(stack'[t]) = n - 1
      /\ \A i \in Depths(t) : i < n => stack'[t][i] = stack[t][i]
  BY <1>1, StackReturn DEF Return, CanReturn
<1>4. /\ phase' \in [Calls -> Phases]
      /\ phase'[c] = "done"
      /\ \A d \in Calls \ {c} : Higher(d) = c => phase'[d] = "wait"
      /\ \A d \in Calls \ {c} : Higher(d) # c => phase'[d] = phase[d]
  BY <1>1, <1>2 DEF Return, TypeOK, Phases, Live
<1>5. \A u \in Threads : \A i \in Depths(u)' :
        /\ i \in Depths(u) /\ stack'[u][i] = stack[u][i]
        /\ stack[u][i] # c /\ stack[u][i] \in Calls
  <2>1. ASSUME NEW u \in Threads, NEW i \in Depths(u)'
        PROVE  i \in Depths(u) /\ stack'[u][i] = stack[u][i]
               /\ ~ (u = t /\ i = n)
    BY <1>2, <1>3 DEF Depths
  <2>2. QED
    BY <1>1, <1>2, <2>1 DEF TypeOK, Depths
<1>6. \A u \in Threads : \A i \in Depths(u) :
        stack[u][i] # c => i \in Depths(u)' /\ stack'[u][i] = stack[u][i]
  <2>1. ASSUME NEW u \in Threads, NEW i \in Depths(u), stack[u][i] # c
        PROVE  i \in Depths(u)' /\ stack'[u][i] = stack[u][i]
    <3>1. ~ (u = t /\ i = n)
      BY <1>2, <2>1
    <3>2. QED
      BY <1>2, <1>3, <3>1 DEF Depths
  <2>2. QED
    BY <2>1
\* The caller of c, when c was called and not taken, is the frame below it.
<1>7. \A p \in Calls : Higher(p) = c =>
        phase[p] = "higher" /\ p # c
  BY <1>1, <1>2, Numbering DEF Family, Live
<1>8. TypeOK'
  <2>1. ASSUME NEW u \in Threads, NEW v \in Threads,
               NEW i \in Depths(u)', NEW j \in Depths(v)',
               stack'[u][i] = stack'[v][j]
        PROVE  u = v /\ i = j
    BY <1>1, <1>5, <2>1 DEF TypeOK
  <2>2. QED
    BY <1>3, <1>4, <2>1 DEF TypeOK
<1>9. LiveOnStack'
  <2>1. ASSUME NEW u \in Threads, NEW i \in Depths(u)'
        PROVE  phase'[stack'[u][i]] \in Live
    BY <1>1, <1>4, <1>5 DEF LiveOnStack, Live
  <2>2. ASSUME NEW d \in Calls, phase'[d] \in Live
        PROVE  \E u \in Threads : \E i \in Depths(u)' : stack'[u][i] = d
    <3>1. d # c /\ phase[d] \in Live
      BY <1>4, <1>7, <2>2 DEF Live
    <3>2. QED
      BY <1>1, <1>6, <3>1 DEF LiveOnStack
  <2>3. QED
    BY <2>1, <2>2 DEF LiveOnStack
<1>10. FrameOrder'
  <2>1. ASSUME NEW u \in Threads, NEW i \in Depths(u)'
        PROVE  /\ phase'[stack'[u][i]] = "start" => i = Len(stack'[u])
               /\ phase'[stack'[u][i]] = "higher" =>
                    /\ i < Len(stack'[u])
                    /\ stack'[u][i + 1] = Higher(stack'[u][i])
    <3> DEFINE d == stack[u][i]
    <3>1. /\ i \in Depths(u) /\ stack'[u][i] = d /\ d # c /\ d \in Calls
      BY <1>5
    <3>2. CASE Higher(d) = c
      BY <1>4, <3>1, <3>2
    <3>3. CASE Higher(d) # c
      <4>1. phase'[d] = phase[d]
        BY <1>4, <3>1, <3>3
      <4>2. /\ phase[d] = "start" => i = Len(stack[u])
            /\ phase[d] = "higher" =>
                 i < Len(stack[u]) /\ stack[u][i + 1] = Higher(d)
        BY <1>1, <3>1 DEF FrameOrder
      <4>3. CASE u # t
        BY <1>3, <3>1, <4>1, <4>2, <4>3
      <4>4. CASE u = t
        <5>1. i < n /\ Len(stack[u]) = n /\ Len(stack'[u]) = n - 1
              /\ i \in Nat
          BY <1>2, <1>3, <4>4 DEF Depths
        <5>2. phase[d] = "higher" => i + 1 < n
          BY <1>2, <3>3, <4>2, <4>4, <5>1
        <5>3. phase[d] = "higher" => stack'[u][i + 1] = stack[u][i + 1]
          BY <1>2, <1>3, <4>4, <5>1, <5>2 DEF Depths
        <5>4. QED
          BY <1>2, <3>1, <4>1, <4>2, <5>1, <5>2, <5>3
      <4>5. QED
        BY <4>3, <4>4
    <3>4. QED
      BY <3>2, <3>3
  <2>2. QED
    BY <2>1 DEF FrameOrder
<1>11. Family'
  <2>1. phase'[Root] \in Live \cup {"done"}
    BY <1>1, <1>4, Numbering DEF Family, Live
  <2>2. ASSUME NEW d \in Calls
        PROVE  /\ phase'[d] \in {"none", "queued", "start"} =>
                    /\ Lower(d) \in Calls => phase'[Lower(d)] = "none"
                    /\ Higher(d) \in Calls => phase'[Higher(d)] = "none"
               /\ phase'[d] \in {"higher", "wait"} =>
                    Higher(d) \in Calls /\ phase'[Lower(d)] # "none"
    BY ZenonT(60), <1>1, <1>2, <1>4, <1>7, Numbering DEF Family, Live
  <2>3. ASSUME NEW d \in Calls, Lower(d) \in Calls,
               phase'[Lower(d)] \in {"queued"} \cup Live
        PROVE  phase'[d] \in {"higher", "wait"}
    BY ZenonT(60), <1>1, <1>2, <1>4, <1>7, <2>3, Numbering DEF Family, Live
  <2>4. ASSUME NEW d \in Calls, Higher(d) \in Calls,
               phase'[Higher(d)] \in {"queued"} \cup Live
        PROVE  phase'[d] = "higher" /\ phase'[Higher(d)] # "queued"
    BY ZenonT(60), <1>1, <1>2, <1>4, <1>7, <2>4, Numbering DEF Family, Live
  <2>5. QED
    BY <2>1, <2>2, <2>3, <2>4 DEF Family
<1>12. QED
  BY <1>8, <1>9, <1>10, <1>11 DEF TreeInv

LEMMA TreeStep == TreeInv /\ [ForkNext]_forkVars => TreeInv'
<1> SUFFICES ASSUME TreeInv, [ForkNext]_forkVars PROVE TreeInv'
  OBVIOUS
<1>1. CASE UNCHANGED forkVars
  BY <1>1 DEF forkVars, TreeInv, TypeOK, LiveOnStack, FrameOrder, Family, Depths
<1>2. CASE ForkNext
  BY <1>2, ForkTreeInv, TakeTreeInv, ReturnTreeInv DEF ForkNext, ForkStep
<1>3. QED
  BY <1>1, <1>2

LEMMA TreeInvariant == ForkSpec => []TreeInv
BY TreeStep, InitTreeInv, PTL DEF ForkSpec

\* Types, and no call ever has two frames: no task runs twice.
THEOREM TypeCorrect == ForkSpec => []TypeOK
<1>1. TreeInv => TypeOK
  BY DEF TreeInv
<1>2. QED
  BY <1>1, TreeInvariant, PTL
-----------------------------------------------------------------------------
(* Nothing outlives the root.                                              *)

LEMMA RootDone == TreeInv => NothingOutlivesRoot
<1> SUFFICES ASSUME TreeInv, phase[Root] = "done"
             PROVE  /\ \A c \in Calls : phase[c] \in {"none", "done"}
                    /\ \A t \in Threads : stack[t] = <<>>
  BY DEF NothingOutlivesRoot
<1> DEFINE Unfinished == {c \in Calls : phase[c] \in {"queued"} \cup Live}
<1>1. Unfinished = {}
  <2> SUFFICES ASSUME Unfinished # {} PROVE FALSE
    OBVIOUS
  <2>1. Unfinished \subseteq Nat
    BY Numbering
  <2>2. PICK c \in Unfinished : \A d \in Unfinished : c <= d
    BY <2>1, Least
  <2>3. c \in Calls /\ c # Root /\ phase[c] \in {"queued"} \cup Live
    BY DEF Live
  <2>4. PICK p \in Calls : p < c /\ (c = Lower(p) \/ c = Higher(p))
    BY <2>3, Parent
  <2>5. phase[p] \in Live
    BY <2>3, <2>4 DEF TreeInv, Family, Live
  <2>6. p \in Unfinished /\ ~ (c <= p)
    BY <2>3, <2>4, <2>5, Numbering
  <2>7. QED
    BY <2>2, <2>6
<1>2. \A c \in Calls : phase[c] \in {"none", "done"}
  BY <1>1 DEF TreeInv, TypeOK, Phases
<1>3. \A t \in Threads : stack[t] = <<>>
  <2> SUFFICES ASSUME NEW t \in Threads, Busy(t) PROVE FALSE
    BY DEF Busy
  <2>1. Top(t) \in Calls /\ phase[Top(t)] \in Live
    BY TopIsCall DEF TreeInv, LiveOnStack
  <2>2. QED
    BY <1>2, <2>1 DEF Live
<1>4. QED
  BY <1>2, <1>3

\* When parallel_quick_sort's own call returns, the pool it destroys holds no
\* task and no thread runs one.
THEOREM RootReturnsLast == ForkSpec => []NothingOutlivesRoot
BY TreeInvariant, RootDone, PTL
-----------------------------------------------------------------------------
(* No circular wait.                                                       *)

LEMMA InitStartOrder == ForkInit => StartOrder
<1> SUFFICES ASSUME ForkInit PROVE StartOrder
  OBVIOUS
<1> DEFINE f == [c \in Calls |-> 0]
<1>1. f \in [Calls -> 0..0]
  OBVIOUS
<1>2. \A t \in Threads : Len(stack[t]) <= 1
  BY DEF ForkInit
<1>3. \A c \in Calls : Lower(c) \in Calls => phase[Lower(c)] = "none"
  BY Numbering DEF ForkInit
<1>4. \A t \in Threads : \A i, j \in Depths(t) : ~ (i < j)
  BY <1>2 DEF Depths, ForkInit
<1>5. QED
  BY <1>1, <1>3, <1>4 DEF StartOrder, OrderedBy, Live

\* A call that starts gets a number above all others.
LEMMA StartKeepsOrder ==
  ASSUME TreeInv, StartOrder, NEW t \in Threads, NEW c \in Calls,
         phase[c] \in {"none", "queued"},
         stack' = [stack EXCEPT ![t] = Append(@, c)],
         \A d \in Calls : phase'[d] \in Live => phase[d] \in Live \/ d = c
  PROVE  StartOrder'
<1>1. PICK k \in Nat : \E f \in [Calls -> 0..k] : OrderedBy(f)
  BY DEF StartOrder
<1>1f. PICK f \in [Calls -> 0..k] : OrderedBy(f)
  BY <1>1
<1> DEFINE g == [f EXCEPT ![c] = k + 1]
<1>2. /\ k + 1 \in Nat /\ g \in [Calls -> 0..(k + 1)] /\ g[c] = k + 1
      /\ \A d \in Calls \ {c} : g[d] = f[d] /\ g[d] < g[c]
  BY <1>1, <1>1f DEF OrderedBy
<1> HIDE DEF g
<1>3. /\ \A u \in Threads \ {t} : stack'[u] = stack[u]
      /\ Len(stack'[t]) = Len(stack[t]) + 1
      /\ stack'[t][Len(stack[t]) + 1] = c
      /\ \A i \in Depths(t) : stack'[t][i] = stack[t][i]
      /\ Len(stack[t]) \in Nat
  BY StackAppend DEF TreeInv
<1>4. \A u \in Threads : \A i \in Depths(u) :
        stack[u][i] # c /\ stack[u][i] \in Calls
  <2>1. phase[c] \notin Live
    BY DEF Live
  <2>2. \A u \in Threads : \A i \in Depths(u) : stack[u][i] # c
    BY <2>1, NotLiveNoFrame
  <2>3. QED
    BY <2>2 DEF TreeInv, TypeOK, Depths
<1>5. \A u \in Threads : \A i \in Depths(u)' :
        \/ i \in Depths(u) /\ stack'[u][i] = stack[u][i]
        \/ u = t /\ i = Len(stack[t]) + 1 /\ stack'[u][i] = c
  BY <1>3 DEF Depths
<1>6. ASSUME NEW u \in Threads, NEW i \in Depths(u)', NEW j \in Depths(u)',
             i < j
      PROVE  g[stack'[u][i]] < g[stack'[u][j]]
  <2>1. CASE j \in Depths(u) /\ stack'[u][j] = stack[u][j]
    <3>1. i \in Depths(u) /\ stack'[u][i] = stack[u][i]
      BY <1>3, <1>5, <1>6, <2>1 DEF Depths
    <3>2. QED
      BY ZenonT(60), <1>1, <1>1f, <1>2, <1>4, <1>6, <2>1, <3>1 DEF OrderedBy
  <2>2. CASE u = t /\ j = Len(stack[t]) + 1 /\ stack'[u][j] = c
    <3>1. i \in Depths(u) /\ stack'[u][i] = stack[u][i]
      BY <1>3, <1>5, <1>6, <2>2 DEF Depths
    <3>2. QED
      BY <1>2, <1>4, <2>2, <3>1
  <2>3. QED
    BY <1>5, <2>1, <2>2
<1>7. ASSUME NEW d \in Calls, Lower(d) \in Calls, phase'[Lower(d)] \in Live
      PROVE  g[d] < g[Lower(d)]
  <2>1. Lower(d) # d
    BY Numbering
  <2>2. CASE Lower(d) = c
    BY <1>2, <2>1, <2>2
  <2>3. CASE Lower(d) # c
    <3>1. phase[Lower(d)] \in Live
      BY <1>7, <2>3
    <3>2. d # c
      BY <1>7, <3>1 DEF TreeInv, Family
    <3>3. QED
      BY <1>1, <1>1f, <1>2, <1>7, <2>3, <3>1, <3>2 DEF OrderedBy
  <2>4. QED
    BY <2>2, <2>3
<1>8. QED
  BY <1>2, <1>6, <1>7 DEF StartOrder, OrderedBy

LEMMA NextStartOrder == TreeInv /\ StartOrder /\ [ForkNext]_forkVars => StartOrder'
<1> SUFFICES ASSUME TreeInv, StartOrder, [ForkNext]_forkVars PROVE StartOrder'
  OBVIOUS
<1>1. ASSUME NEW t \in Threads, Fork(t) PROVE StartOrder'
  <2>1. Top(t) \in Calls
    BY <1>1, TopIsCall DEF Fork, TreeInv
  <2>2. Higher(Top(t)) \in Calls /\ phase[Higher(Top(t))] = "none"
    BY <1>1, <2>1 DEF Fork, TreeInv, Family
  <2>3. \A d \in Calls : phase'[d] \in Live =>
          phase[d] \in Live \/ d = Higher(Top(t))
    BY <1>1, <2>1 DEF Fork, TreeInv, TypeOK, Live
  <2>4. QED
    BY <1>1, <2>2, <2>3, StartKeepsOrder DEF Fork
<1>2. ASSUME NEW t \in Threads, Take(t) PROVE StartOrder'
  <2>1. PICK c \in Calls : /\ phase[c] = "queued"
                           /\ phase' = [phase EXCEPT ![c] = "start"]
                           /\ stack' = [stack EXCEPT ![t] = Append(@, c)]
    BY <1>2 DEF Take
  <2>2. \A d \in Calls : phase'[d] \in Live => phase[d] \in Live \/ d = c
    BY <2>1 DEF TreeInv, TypeOK
  <2>3. QED
    BY <2>1, <2>2, StartKeepsOrder
<1>3. ASSUME NEW t \in Threads, Return(t) PROVE StartOrder'
  <2>1. PICK k \in Nat : \E f \in [Calls -> 0..k] : OrderedBy(f)
    BY DEF StartOrder
  <2>1f. PICK f \in [Calls -> 0..k] : OrderedBy(f)
    BY <2>1
  <2>2. \A u \in Threads : \A i \in Depths(u)' :
          i \in Depths(u) /\ stack'[u][i] = stack[u][i]
    <3>1. /\ \A u \in Threads \ {t} : stack'[u] = stack[u]
          /\ Len(stack'[t]) = Len(stack[t]) - 1
          /\ \A i \in Depths(t) : i < Len(stack[t]) =>
               stack'[t][i] = stack[t][i]
          /\ Len(stack[t]) \in Nat \ {0}
      BY <1>3, StackReturn DEF Return, CanReturn, TreeInv
    <3>2. QED
      BY <3>1 DEF Depths
  <2>3. \A d \in Calls : phase'[d] \in Live => phase[d] \in Live
    <3>1. Top(t) \in Calls
      BY <1>3, TopIsCall DEF Return, CanReturn, TreeInv
    <3>2. ASSUME NEW d \in Calls, Higher(d) = Top(t)
          PROVE  phase[d] \in Live
      BY <1>3, <3>1, <3>2
         DEF Return, CanReturn, TreeInv, Family, Live
    <3>3. ASSUME NEW d \in Calls, phase'[d] \in Live, Higher(d) # Top(t)
          PROVE  phase[d] \in Live
      BY <1>3, <3>3 DEF Return, Live
    <3>4. QED
      BY <3>2, <3>3
  <2>4. QED
    BY <2>1, <2>1f, <2>2, <2>3 DEF StartOrder, OrderedBy
<1>4. CASE UNCHANGED forkVars
  BY <1>4 DEF forkVars, StartOrder, OrderedBy, Depths
<1>5. QED
  BY <1>1, <1>2, <1>3, <1>4 DEF ForkNext, ForkStep

\* If no thread could go on, every busy thread's innermost call would wait for
\* a call deeper in some stack; the one of them that started last cannot.
LEMMA OrderProgress == TreeInv /\ StartOrder => NoCircularWait
<1> SUFFICES ASSUME TreeInv, StartOrder, phase[Root] # "done",
                    \A t \in Threads : ~ CanReturn(t),
                    \A t \in Threads : CanTake(t) =>
                      ~ \E c \in Calls : phase[c] = "queued"
             PROVE  FALSE
  BY DEF NoCircularWait
<1> DEFINE BusyThreads == {t \in Threads : Busy(t)}
<1>1. TypeOK /\ LiveOnStack /\ FrameOrder /\ Family
  BY DEF TreeInv
<1>2. \A c \in Calls : phase[c] \in Live =>
        \E t \in BusyThreads : \E i \in Depths(t) : stack[t][i] = c
  BY <1>1 DEF LiveOnStack, Busy, Depths, TypeOK
<1>3. BusyThreads # {}
  BY <1>1, <1>2, Numbering DEF Family
<1>4. ASSUME NEW t \in BusyThreads
      PROVE  /\ Top(t) \in Calls /\ phase[Top(t)] = "wait"
             /\ Lower(Top(t)) \in Calls /\ phase[Lower(Top(t))] \in Live
  <2>1. /\ Len(stack[t]) \in Depths(t) /\ Top(t) \in Calls
        /\ Top(t) = stack[t][Len(stack[t])] /\ Len(stack[t]) \in Nat
    BY <1>1, TopIsCall DEF TypeOK
  <2>2. phase[Top(t)] \in Live /\ phase[Top(t)] # "higher"
    BY <1>1, <2>1 DEF LiveOnStack, FrameOrder
  <2>3. phase[Top(t)] = "wait" /\ phase[Lower(Top(t))] # "done"
    BY <2>2 DEF CanReturn, Live
  <2>4. Lower(Top(t)) \in Calls /\ phase[Lower(Top(t))] # "none"
    BY <1>1, <2>1, <2>3, Numbering DEF Family
  <2>5. phase[Lower(Top(t))] # "queued"
    BY <2>3, <2>4 DEF CanTake
  <2>6. QED
    BY <1>1, <2>1, <2>3, <2>4, <2>5 DEF TypeOK, Phases
<1>5. PICK k \in Nat : \E f \in [Calls -> 0..k] : OrderedBy(f)
  BY DEF StartOrder
<1>5f. PICK f \in [Calls -> 0..k] : OrderedBy(f)
  BY <1>5
\* The busy thread whose innermost call started last.
<1>6. PICK t \in BusyThreads :
        \A u \in BusyThreads : f[Top(u)] <= f[Top(t)]
  <2> DEFINE Age(u) == k - f[Top(u)]
             Ages == {Age(u) : u \in BusyThreads}
  <2>1. \A u \in BusyThreads : f[Top(u)] \in 0..k /\ Age(u) \in Nat
    BY <1>4, <1>5, <1>5f DEF OrderedBy
  <2>2. Ages \subseteq Nat /\ Ages # {}
    BY <1>3, <2>1
  <2>3. PICK a \in Ages : \A b \in Ages : a <= b
    BY <2>2, Least
  <2>4. PICK t \in BusyThreads : a = Age(t)
    BY <2>3
  <2>5. \A u \in BusyThreads : Age(t) <= Age(u)
    BY <2>3, <2>4
  <2>6. \A u \in BusyThreads : f[Top(u)] <= f[Top(t)]
    BY <2>1, <2>5
  <2>7. QED
    BY <2>6
<1>7. PICK u \in BusyThreads : \E i \in Depths(u) :
        stack[u][i] = Lower(Top(t))
  BY <1>2, <1>4
<1>8. PICK i \in Depths(u) : stack[u][i] = Lower(Top(t))
  BY <1>7
<1>9. f[Top(t)] < f[Lower(Top(t))]
  BY <1>4, <1>5, <1>5f DEF OrderedBy
<1>10. f[Lower(Top(t))] <= f[Top(u)]
  <2>1. /\ Len(stack[u]) \in Depths(u) /\ Len(stack[u]) \in Nat
        /\ Top(u) = stack[u][Len(stack[u])] /\ Top(u) \in Calls
    BY <1>1, TopIsCall DEF TypeOK
  <2>2. CASE i = Len(stack[u])
    BY <1>4, <1>5, <1>5f, <1>8, <2>1, <2>2 DEF OrderedBy
  <2>3. CASE i # Len(stack[u])
    <3>1. i < Len(stack[u])
      BY <2>1, <2>3 DEF Depths
    <3>2. f[stack[u][i]] < f[stack[u][Len(stack[u])]]
      BY <1>5, <1>5f, <2>1, <3>1 DEF OrderedBy
    <3>3. QED
      BY <1>4, <1>5, <1>5f, <1>8, <2>1, <3>2 DEF OrderedBy
  <2>4. QED
    BY <2>2, <2>3
<1>11. f[Top(u)] <= f[Top(t)]
  BY <1>6
<1>12. {f[Top(t)], f[Top(u)], f[Lower(Top(t))]} \subseteq Nat
  BY <1>4, <1>5, <1>5f DEF OrderedBy
<1>13. QED
  BY <1>9, <1>10, <1>11, <1>12

\* Running tasks on top of waiting calls never blocks the sort.
THEOREM WaitsNeverCircular == ForkSpec => []NoCircularWait
<1>1. ForkSpec => [](TreeInv /\ StartOrder)
  <2>1. TreeInv /\ StartOrder /\ [ForkNext]_forkVars => StartOrder'
    BY NextStartOrder
  <2>2. QED
    BY <2>1, InitStartOrder, TreeInvariant, PTL DEF ForkSpec
<1>2. QED
  BY <1>1, OrderProgress, PTL
-----------------------------------------------------------------------------
(* The pools.  A queue belongs to a thread: the pool's own to main, which  *)
(* alone submits to it on the work-stealing pool.                          *)

Queue(t) ==
  IF pool = "shared" THEN IF t = Main THEN work_queue ELSE <<>>
  ELSE IF t = Main THEN global_work_queue ELSE queues[t]

Once(s) == \A i, j \in DOMAIN s : s[i] = s[j] => i = j

QueueTypes ==
  /\ pool \in {"shared", "stealing"}
  /\ work_queue \in Seq(Calls) /\ global_work_queue \in Seq(Calls)
  /\ queues \in [Workers -> Seq(Calls)]
  /\ pool = "shared" => \A w \in Workers : queues[w] = <<>>

\* The tasks that have been submitted and not begun are in the queues, once.
QueuesOK ==
  /\ \A t \in Threads : Once(Queue(t))
  /\ \A t, u \in Threads : t # u => Items(Queue(t)) \cap Items(Queue(u)) = {}
  /\ \A c \in Calls : phase[c] = "queued" <=> \E t \in Threads : c \in Items(Queue(t))

\* Where a thread is tells whether it has a call, and what that does.
PlaceOK(t) ==
  /\ at[t] = "sort" => Busy(t)
  /\ at[t] = "pending" => CanTake(t)
  /\ at[t] \in {"loop", "exit"} => t # Main /\ ~Busy(t)
  /\ at[t] \in {"destroy", "join", "end"} => t = Main /\ ~Busy(t)

\* The root is the first call of main until it returns.
RootOK ==
  /\ Busy(Main) => stack[Main][1] = Root
  /\ phase[Root] = "done" <=> ~Busy(Main)
  /\ done => at[Main] \in {"join", "end"}

PoolInv ==
  /\ TreeInv /\ QueueTypes /\ QueuesOK /\ RootOK
  /\ at \in [Threads -> Places] /\ \A t \in Threads : PlaceOK(t)

Gets(u, c) ==
  /\ Queue(u)' \in {Append(Queue(u), c), <<c>> \o Queue(u)}
  /\ \A v \in Threads \ {u} : Queue(v)' = Queue(v)

Loses(u, c) ==
  /\ Queue(u) # <<>>
  /\ \/ c = Head(Queue(u)) /\ Queue(u)' = Tail(Queue(u))
     \/ c = Queue(u)[Len(Queue(u))] /\ Queue(u)' = DropBack(Queue(u))
  /\ \A v \in Threads \ {u} : Queue(v)' = Queue(v)

Keeps == \A u \in Threads : Queue(u)' = Queue(u)
-----------------------------------------------------------------------------
\* What putting an item into a queue and taking one from it does to its items.
LEMMA ItemOf ==
  ASSUME NEW s
  PROVE  /\ \A i \in DOMAIN s : s[i] \in Items(s)
         /\ \A x \in Items(s) : \E i \in DOMAIN s : x = s[i]
BY DEF Items

LEMMA Adding ==
  ASSUME NEW s \in Seq(Calls), NEW c \in Calls, NEW r \in {Append(s, c), <<c>> \o s}
  PROVE  /\ r \in Seq(Calls) /\ Items(r) = Items(s) \cup {c}
         /\ Once(s) /\ c \notin Items(s) => Once(r)
<1>1. CASE r = Append(s, c)
  <2>1. /\ r \in Seq(Calls) /\ DOMAIN r = 1..(Len(s) + 1) /\ r[Len(s) + 1] = c
        /\ DOMAIN s = 1..Len(s) /\ Len(s) \in Nat /\ \A i \in 1..Len(s) : r[i] = s[i]
    BY <1>1
  <2>2. Items(r) = Items(s) \cup {c}
    <3>1. Len(s) + 1 \in DOMAIN r /\ DOMAIN r = DOMAIN s \cup {Len(s) + 1}
      BY <2>1
    <3>2. ASSUME NEW x \in Items(s) PROVE x \in Items(r)
      <4>1. PICK i \in DOMAIN s : x = s[i]
        BY ItemOf
      <4>2. i \in DOMAIN r /\ r[i] = x
        BY <2>1, <3>1, <4>1
      <4>3. QED
        BY <4>2, ItemOf
    <3>3. c \in Items(r)
      BY <2>1, <3>1, ItemOf
    <3>4. ASSUME NEW x \in Items(r), x # c PROVE x \in Items(s)
      <4>1. PICK i \in DOMAIN r : x = r[i]
        BY ItemOf
      <4>2. i \in DOMAIN s /\ s[i] = x
        BY <2>1, <3>1, <3>4, <4>1
      <4>3. QED
        BY <4>2, ItemOf
    <3>5. QED
      BY <3>2, <3>3, <3>4
  <2>3. ASSUME Once(s), c \notin Items(s) PROVE Once(r)
    <3>1. \A i \in DOMAIN s : s[i] # c
      BY <2>3 DEF Items
    <3>2. QED
      BY <2>1, <2>3, <3>1 DEF Once
  <2>4. QED
    BY <2>1, <2>2, <2>3
<1>2. CASE r = <<c>> \o s
  <2>1. /\ r \in Seq(Calls) /\ DOMAIN r = 1..(Len(s) + 1) /\ r[1] = c
        /\ DOMAIN s = 1..Len(s) /\ Len(s) \in Nat
        /\ \A i \in 2..(Len(s) + 1) : r[i] = s[i - 1]
    BY <1>2
  <2>2. \A i \in 1..Len(s) : i + 1 \in 2..(Len(s) + 1) /\ r[i + 1] = s[i]
    BY <2>1
  <2>3. Items(r) = Items(s) \cup {c}
    <3>1. /\ 1 \in DOMAIN r /\ \A i \in DOMAIN s : i + 1 \in DOMAIN r
          /\ \A i \in DOMAIN r : i = 1 \/ (i - 1 \in DOMAIN s /\ r[i] = s[i - 1])
      BY <2>1
    <3>2. \A i \in DOMAIN s : r[i + 1] = s[i]
      BY <2>1, <2>2
    <3>3. ASSUME NEW x \in Items(s) PROVE x \in Items(r)
      <4>1. PICK i \in DOMAIN s : x = s[i]
        BY ItemOf
      <4>2. i + 1 \in DOMAIN r /\ r[i + 1] = x
        BY <3>1, <3>2, <4>1
      <4>3. QED
        BY <4>2, ItemOf
    <3>4. c \in Items(r)
      BY <2>1, <3>1, ItemOf
    <3>5. ASSUME NEW x \in Items(r), x # c PROVE x \in Items(s)
      <4>1. PICK i \in DOMAIN r : x = r[i]
        BY ItemOf
      <4>2. i - 1 \in DOMAIN s /\ s[i - 1] = x
        BY <2>1, <3>1, <3>5, <4>1
      <4>3. QED
        BY <4>2, ItemOf
    <3>6. QED
      BY <3>3, <3>4, <3>5
  <2>4. ASSUME Once(s), c \notin Items(s) PROVE Once(r)
    <3>1. \A i \in DOMAIN s : s[i] # c
      BY <2>4 DEF Items
    <3>2. \A i \in DOMAIN r : i = 1 \/ (i - 1 \in DOMAIN s /\ r[i] = s[i - 1])
      BY <2>1
    <3>3. ASSUME NEW i \in DOMAIN r, NEW j \in DOMAIN r, r[i] = r[j], i # 1, j # 1
          PROVE  i = j
      <4>1. i - 1 = j - 1
        BY <2>4, <3>2, <3>3 DEF Once
      <4>2. QED
        BY <2>1, <4>1
    <3>4. QED
      BY <2>1, <3>1, <3>2, <3>3 DEF Once
  <2>5. QED
    BY <2>1, <2>3, <2>4
<1>3. QED
  BY <1>1, <1>2

LEMMA Taking ==
  ASSUME NEW s \in Seq(Calls), s # <<>>, NEW c, NEW r,
         \/ c = Head(s) /\ r = Tail(s)
         \/ c = s[Len(s)] /\ r = DropBack(s)
  PROVE  /\ r \in Seq(Calls) /\ c \in Items(s) /\ c \in Calls
         /\ Once(s) => Once(r) /\ Items(r) = Items(s) \ {c}
<1>0. Len(s) \in Nat \ {0} /\ DOMAIN s = 1..Len(s) /\ \A i \in DOMAIN s : s[i] \in Calls
  OBVIOUS
<1>1. CASE c = Head(s) /\ r = Tail(s)
  <2>1. /\ r \in Seq(Calls) /\ DOMAIN r = 1..(Len(s) - 1) /\ s[1] = c
        /\ \A i \in 1..(Len(s) - 1) : r[i] = s[i + 1]
    BY <1>0, <1>1
  <2>2. \A i \in 2..Len(s) : i - 1 \in 1..(Len(s) - 1) /\ r[i - 1] = s[i]
    BY <1>0, <2>1
  <2>3. c \in Items(s)
    BY <1>0, <2>1, ItemOf
  <2>4. ASSUME Once(s) PROVE Once(r)
    <3>1. ASSUME NEW i \in DOMAIN r, NEW j \in DOMAIN r, r[i] = r[j] PROVE i = j
      <4>1. i + 1 \in DOMAIN s /\ j + 1 \in DOMAIN s /\ s[i + 1] = s[j + 1]
        BY <1>0, <2>1, <3>1
      <4>2. QED
        BY <1>0, <2>1, <2>4, <4>1 DEF Once
    <3>2. QED
      BY <3>1 DEF Once
  <2>5. ASSUME Once(s) PROVE Items(r) = Items(s) \ {c}
    <3>1. \A i \in DOMAIN s : s[i] = c <=> i = 1
      BY <1>0, <2>1, <2>5 DEF Once
    <3>2. \A i \in DOMAIN r : i + 1 \in DOMAIN s /\ i + 1 # 1 /\ r[i] = s[i + 1]
      BY <1>0, <2>1
    <3>3. \A i \in DOMAIN s : i # 1 => i - 1 \in DOMAIN r /\ r[i - 1] = s[i]
      BY <1>0, <2>1, <2>2
    <3>4. ASSUME NEW x \in Items(r) PROVE x \in Items(s) \ {c}
      BY <3>1, <3>2, ItemOf
    <3>5. ASSUME NEW x \in Items(s) \ {c} PROVE x \in Items(r)
      BY <3>1, <3>3, ItemOf
    <3>6. QED
      BY <3>4, <3>5
  <2>6. QED
    BY <1>0, <2>1, <2>3, <2>4, <2>5
<1>2. CASE c = s[Len(s)] /\ r = DropBack(s)
  <2>1. /\ r \in Seq(Calls) /\ DOMAIN r = 1..(Len(s) - 1)
        /\ \A i \in 1..(Len(s) - 1) : r[i] = s[i]
    BY <1>0, <1>2, SubSeqProperties DEF DropBack
  <2>3. QED
    BY <1>0, <1>2, <2>1 DEF Items, Once
<1>3. QED
  BY <1>1, <1>2
-----------------------------------------------------------------------------
(* What a step is, whichever pool it is of.                                *)

Goes(t) ==
  \/ ReturnShort(t) \/ ReturnJoined(t) \/ NotReady(t) \/ LoopTest(t)
  \/ at[t] = "pending" /\ Yield(t)

Move ==
  \/ \E t, u \in Threads : Split(t) /\ Gets(u, Lower(Top(t)))
  \/ \E t, u \in Threads, c \in Calls :
       at[t] = "pending" /\ RunTask(t, c) /\ Loses(u, c)
  \/ Keeps /\ ((\E t \in Threads : Goes(t)) \/ Destroy \/ Joined \/ UNCHANGED sortVars)

LEMMA QueueIsSeq == QueueTypes => \A t \in Threads : Queue(t) \in Seq(Calls)
BY ThreadsAssumption DEF QueueTypes, Queue, Workers

LEMMA SplitsBusy ==
  ASSUME PoolInv, NEW t \in Threads, Split(t)
  PROVE  Busy(t) /\ Top(t) \in Calls /\ Lower(Top(t)) \in Calls /\ Higher(Top(t)) \in Calls
<1>1. Busy(t)
  BY DEF PoolInv, PlaceOK, Split
<1>2. Top(t) \in Calls
  BY <1>1, TopIsCall DEF PoolInv, TreeInv
<1>3. QED
  BY <1>1, <1>2, Numbering DEF Split

LEMMA VictimIsWorker ==
  ASSUME NEW t \in Threads, NEW i \in Victims
  PROVE  Victim(t, i) \in Workers
<1>1. Cardinality(Workers) \in Nat
  BY NumberedWorkers, FS_CardinalityType
<1>2. Cardinality(Workers) > 0 /\ i - 2 \in Int
  BY <1>1 DEF Victims
<1>3. MyIndex(t) \in Int
  BY NumberedWorkers, <1>1 DEF MyIndex, Workers
<1>4. \A n \in Nat \ {0}, a \in Int : a % n \in 0..(n - 1)
  OBVIOUS
<1>5. QED
  BY <1>1, <1>2, <1>3, <1>4, NumberedWorkers DEF Victim

LEMMA StepMoves == PoolInv /\ Next => Move /\ QueueTypes'
<1> SUFFICES ASSUME PoolInv, Next PROVE Move /\ QueueTypes'
  OBVIOUS
<1>0. QueueTypes /\ Main \in Threads /\ Main \notin Workers /\ Workers \subseteq Threads
  BY ThreadsAssumption DEF PoolInv, Workers
<1>1. ASSUME NEW t \in Threads, OnShared(SubmitShared(t)) PROVE Move /\ QueueTypes'
  <2>1. Lower(Top(t)) \in Calls
    BY <1>1, SplitsBusy DEF OnShared, SubmitShared
  <2>2. Gets(Main, Lower(Top(t)))
    BY <1>0, <1>1 DEF OnShared, SubmitShared, queueVars, Gets, Queue
  <2>3. QueueTypes'
    BY <1>0, <1>1, <2>1 DEF OnShared, SubmitShared, queueVars, QueueTypes
  <2>4. QED
    BY <1>0, <1>1, <2>2, <2>3 DEF OnShared, SubmitShared, Move
<1>2. ASSUME NEW t \in Threads, OnShared(RunPending(t)) PROVE Move /\ QueueTypes'
  <2>1. Head(work_queue) \in Calls /\ Tail(work_queue) \in Seq(Calls)
    BY <1>0, <1>2 DEF OnShared, RunPending, QueueTypes
  <2>2. Loses(Main, Head(work_queue))
    BY <1>0, <1>2 DEF OnShared, RunPending, Rest, queueVars, Loses, Queue
  <2>3. QueueTypes'
    BY <1>0, <1>2, <2>1 DEF OnShared, RunPending, Rest, queueVars, QueueTypes
  <2>4. QED
    BY <1>0, <1>2, <2>1, <2>2, <2>3 DEF OnShared, RunPending, Move
<1>3. ASSUME UNCHANGED <<work_queue, queueVars, pool>> PROVE Keeps /\ QueueTypes'
  BY <1>0, <1>3 DEF queueVars, Keeps, Queue, QueueTypes
<1>4. ASSUME NEW t \in Threads, OnStealing(SubmitTask(t)) PROVE Move /\ QueueTypes'
  <2>1. Lower(Top(t)) \in Calls
    BY <1>4, SplitsBusy DEF OnStealing, SubmitTask
  <2>2. CASE t = Main
    <3>1. Gets(Main, Lower(Top(t)))
      BY <1>0, <1>4, <2>2 DEF OnStealing, SubmitTask, Gets, Queue
    <3>2. Append(global_work_queue, Lower(Top(t))) \in Seq(Calls)
      BY <1>0, <2>1 DEF QueueTypes
    <3>3. /\ global_work_queue' = Append(global_work_queue, Lower(Top(t)))
          /\ UNCHANGED <<queues, work_queue, pool>>
      BY <1>4, <2>2 DEF OnStealing, SubmitTask
    <3>4. QueueTypes'
      BY <1>0, <3>2, <3>3 DEF QueueTypes
    <3>5. QED
      BY <1>0, <1>4, <3>1, <3>4 DEF OnStealing, SubmitTask, Move
  <2>3. CASE t # Main
    <3>0. t \in Workers /\ queues[t] \in Seq(Calls)
      BY <2>3, <1>0 DEF Workers, QueueTypes
    <3>1. Gets(t, Lower(Top(t)))
      BY <1>0, <1>4, <2>3, <3>0
      DEF OnStealing, SubmitTask, PushFront, Gets, Queue, QueueTypes, Workers
    <3>2. <<Lower(Top(t))>> \o queues[t] \in Seq(Calls)
      BY <2>1, <3>0
    <3>3. QueueTypes'
      BY <1>0, <1>4, <2>3, <3>0, <3>2 DEF OnStealing, SubmitTask, PushFront, QueueTypes
    <3>4. QED
      BY <1>0, <1>4, <3>1, <3>3 DEF OnStealing, SubmitTask, Move
  <2>4. QED
    BY <2>2, <2>3
<1>5. ASSUME NEW t \in Threads, OnStealing(TryLocal(t)) PROVE Move /\ QueueTypes'
  <2>1. CASE t \in Workers /\ queues[t] # <<>>
    <3>1. queues[t] \in Seq(Calls) /\ Head(queues[t]) \in Calls /\ Tail(queues[t]) \in Seq(Calls)
      BY <1>0, <2>1 DEF QueueTypes
    <3>2. Loses(t, Head(queues[t]))
      BY <1>0, <1>5, <2>1 DEF OnStealing, TryLocal, Loses, Queue, QueueTypes, Workers
    <3>3. QueueTypes'
      BY <1>0, <1>5, <2>1, <3>1 DEF OnStealing, TryLocal, QueueTypes
    <3>4. QED
      BY <1>0, <1>5, <2>1, <3>1, <3>2, <3>3 DEF OnStealing, TryLocal, Move
  <2>2. CASE ~(t \in Workers /\ queues[t] # <<>>)
    BY <1>3, <1>5, <2>2 DEF OnStealing, TryLocal, LookNext, Move
  <2>3. QED
    BY <2>1, <2>2
<1>6. ASSUME NEW t \in Threads, OnStealing(TryPool(t)) PROVE Move /\ QueueTypes'
  <2>1. CASE global_work_queue # <<>>
    <3>1. Head(global_work_queue) \in Calls /\ Tail(global_work_queue) \in Seq(Calls)
      BY <1>0, <2>1 DEF QueueTypes
    <3>2. Loses(Main, Head(global_work_queue))
      BY <1>0, <1>6, <2>1 DEF OnStealing, TryPool, Loses, Queue
    <3>3. QueueTypes'
      BY <1>0, <1>6, <2>1, <3>1 DEF OnStealing, TryPool, QueueTypes
    <3>4. QED
      BY <1>0, <1>6, <2>1, <3>1, <3>2, <3>3 DEF OnStealing, TryPool, Move
  <2>2. CASE global_work_queue = <<>>
    BY <1>3, <1>6, <2>2 DEF OnStealing, TryPool, LookNext, Move
  <2>3. QED
    BY <2>1, <2>2
<1>7. ASSUME NEW t \in Threads, OnStealing(TrySteal(t)) PROVE Move /\ QueueTypes'
  <2>0. PICK v \in Workers : v = Victim(t, probe[t])
    BY <1>7, VictimIsWorker DEF OnStealing, TrySteal
  <2> DEFINE c == queues[v][Len(queues[v])]
  <2>1. CASE queues[v] # <<>>
    <3>1. queues[v] \in Seq(Calls) /\ c \in Calls /\ DropBack(queues[v]) \in Seq(Calls)
      BY <1>0, <2>1, Taking DEF QueueTypes
    <3>2. /\ pool = "stealing" /\ queues' = [queues EXCEPT ![v] = DropBack(@)]
          /\ UNCHANGED <<global_work_queue, work_queue, pool>> /\ RunTask(t, c)
      BY <1>7, <2>0, <2>1 DEF OnStealing, TrySteal
    <3>3. queues'[v] = DropBack(queues[v]) /\ \A w \in Workers \ {v} : queues'[w] = queues[w]
      BY <1>0, <3>2 DEF QueueTypes
    <3>4. Loses(v, c)
      BY <1>0, <2>1, <3>2, <3>3 DEF Loses, Queue, Workers
    <3>5. QueueTypes'
      BY <1>0, <3>1, <3>2 DEF QueueTypes
    <3>6. at[t] = "pending"
      BY <1>7 DEF OnStealing, TrySteal
    <3>7. QED
      BY <1>0, <3>1, <3>2, <3>4, <3>5, <3>6 DEF Move
  <2>2. CASE queues[v] = <<>>
    BY <1>3, <1>7, <2>0, <2>2 DEF OnStealing, TrySteal, LookNext, Move
  <2>3. QED
    BY <2>1, <2>2
<1>8. ASSUME NEW t \in Threads,
             \/ OnShared(NoPending(t)) \/ OnStealing(GiveUp(t))
             \/ OnShared(UNCHANGED work_queue
                  /\ (ReturnShort(t) \/ ReturnJoined(t) \/ NotReady(t) \/ LoopTest(t)))
             \/ OnStealing(UNCHANGED <<queueVars, probe>>
                  /\ (ReturnShort(t) \/ ReturnJoined(t) \/ NotReady(t) \/ LoopTest(t)))
      PROVE  Move /\ QueueTypes'
  <2>1. Goes(t) /\ UNCHANGED <<work_queue, queueVars, pool>>
    BY <1>8 DEF OnShared, OnStealing, NoPending, GiveUp, Goes
  <2>2. QED
    BY <1>3, <2>1 DEF Move
<1>9. ASSUME EndOfPool \/ Ended PROVE Move /\ QueueTypes'
  <2>1. /\ UNCHANGED <<work_queue, queueVars, pool>>
        /\ Destroy \/ Joined \/ UNCHANGED sortVars
    BY <1>9 DEF EndOfPool, Ended, OnShared, OnStealing, SharedEnd, StealEnd, vars
  <2>2. QED
    BY <1>3, <2>1 DEF Move
<1>10. QED
  BY <1>1, <1>2, <1>4, <1>5, <1>6, <1>7, <1>8, <1>9
     DEF Next, Step, OnShared, OnStealing, SharedStep, StealStep
-----------------------------------------------------------------------------
(* Every step is one of ForkJoin, or leaves its variables alone.           *)

LEMMA SplitIsFork ==
  ASSUME PoolInv, NEW t \in Threads, Split(t)
  PROVE  Fork(t)
BY SplitsBusy DEF Split, Fork

LEMMA RunIsTake ==
  ASSUME PoolInv, NEW t \in Threads, NEW u \in Threads, NEW c \in Calls,
         at[t] = "pending", RunTask(t, c), Loses(u, c)
  PROVE  phase[c] = "queued" /\ Take(t)
<1>1. c \in Items(Queue(u))
  BY QueueIsSeq, Taking DEF PoolInv, Loses
<1>2. phase[c] = "queued"
  BY <1>1 DEF PoolInv, QueuesOK
<1>3. CanTake(t)
  BY DEF PoolInv, PlaceOK
<1>4. QED
  BY <1>2, <1>3 DEF Take, RunTask

LEMMA ReturnIsReturn ==
  ASSUME PoolInv, NEW t \in Threads, ReturnShort(t) \/ ReturnJoined(t)
  PROVE  /\ Return(t) /\ Busy(t) /\ at[t] = "sort" /\ at' = [at EXCEPT ![t] = Resumes(t)]
         /\ UNCHANGED done
<1>1. Busy(t) /\ at[t] = "sort"
  BY DEF PoolInv, PlaceOK, ReturnShort, ReturnJoined
<1>2. CanReturn(t)
  BY <1>1 DEF CanReturn, ReturnShort, ReturnJoined, Ready
<1>3. PICK r : ReturnList(t, r)
  BY DEF ReturnShort, ReturnJoined
<1>4. /\ phase' = [c \in Calls |-> IF c = Top(t) THEN "done"
                                   ELSE IF Higher(c) = Top(t) THEN "wait" ELSE phase[c]]
      /\ stack' = [stack EXCEPT ![t] = WithoutTop(@)]
      /\ at' = [at EXCEPT ![t] = Resumes(t)] /\ UNCHANGED done
  BY <1>3 DEF ReturnList
<1>5. QED
  BY <1>1, <1>2, <1>4 DEF Return

\* The step of a thread that leaves its stack as it is.
Idles(t) == NotReady(t) \/ LoopTest(t) \/ (at[t] = "pending" /\ Yield(t))

LEMMA IdleKeepsTree ==
  ASSUME NEW t, Idles(t) \/ Destroy \/ Joined \/ UNCHANGED sortVars
  PROVE  UNCHANGED forkVars
BY DEF Idles, NotReady, LoopTest, Yield, Destroy, Joined, sortVars, forkVars

LEMMA MoveIsForkJoin == PoolInv /\ Move => [ForkNext]_forkVars
<1> SUFFICES ASSUME PoolInv, Move PROVE [ForkNext]_forkVars
  OBVIOUS
<1>1. ASSUME NEW t \in Threads, Split(t) PROVE ForkNext
  BY <1>1, SplitIsFork DEF ForkNext, ForkStep
<1>2. ASSUME NEW t \in Threads, NEW u \in Threads, NEW c \in Calls,
             at[t] = "pending", RunTask(t, c), Loses(u, c)
      PROVE  ForkNext
  BY <1>2, RunIsTake DEF ForkNext, ForkStep
<1>3. ASSUME NEW t \in Threads, ReturnShort(t) \/ ReturnJoined(t) PROVE ForkNext
  BY <1>3, ReturnIsReturn DEF ForkNext, ForkStep
<1>4. ASSUME NEW t \in Threads, Idles(t) PROVE UNCHANGED forkVars
  BY <1>4, IdleKeepsTree
<1>5. Destroy \/ Joined \/ UNCHANGED sortVars => UNCHANGED forkVars
  BY IdleKeepsTree
<1>6. QED
  BY <1>1, <1>2, <1>3, <1>4, <1>5 DEF Move, Goes, Idles
-----------------------------------------------------------------------------
(* The tasks in the queues.                                                *)

LEMMA QueueGets ==
  ASSUME PoolInv, NEW t \in Threads, NEW u \in Threads, Split(t), Gets(u, Lower(Top(t)))
  PROVE  QueuesOK'
<1> DEFINE c == Top(t)
<1>1. /\ Busy(t) /\ c \in Calls /\ Lower(c) \in Calls /\ Higher(c) \in Calls
      /\ phase[c] = "start"
  BY SplitsBusy DEF Split
<1>2. phase[Lower(c)] = "none" /\ phase[Higher(c)] = "none"
  BY <1>1 DEF PoolInv, TreeInv, Family
<1>3. phase' = [phase EXCEPT ![c] = "higher", ![Lower(c)] = "queued", ![Higher(c)] = "start"]
  BY DEF Split
<1>4. c # Lower(c) /\ c # Higher(c) /\ Lower(c) # Higher(c)
  BY <1>1, MaxCallAssumption DEF Calls, Lower, Higher
<1> HIDE DEF c
<1>5. \A d \in Calls : phase'[d] = "queued" <=> phase[d] = "queued" \/ d = Lower(c)
  BY <1>1, <1>2, <1>3, <1>4 DEF PoolInv, TreeInv, TypeOK
<1>6. \A v \in Threads : Lower(c) \notin Items(Queue(v))
  BY <1>1, <1>2 DEF PoolInv, QueuesOK
<1>7. /\ Queue(u) \in Seq(Calls)
     /\ Queue(u)' \in {Append(Queue(u), Lower(c)), <<Lower(c)>> \o Queue(u)}
      /\ \A v \in Threads \ {u} : Queue(v)' = Queue(v)
  BY QueueIsSeq DEF PoolInv, Gets, c
<1>8. Items(Queue(u)') = Items(Queue(u)) \cup {Lower(c)} /\ Once(Queue(u)')
  <2>1. Once(Queue(u)) /\ Lower(c) \notin Items(Queue(u))
    BY <1>6 DEF PoolInv, QueuesOK
  <2>2. QED
    BY <1>1, <1>7, <2>1, Adding
<1>9. \A v \in Threads : Once(Queue(v)')
  BY <1>7, <1>8 DEF PoolInv, QueuesOK
<1>10. \A v, w \in Threads : v # w => Items(Queue(v)') \cap Items(Queue(w)') = {}
  BY <1>6, <1>7, <1>8 DEF PoolInv, QueuesOK
<1>11. \A d \in Calls : phase'[d] = "queued" <=> \E v \in Threads : d \in Items(Queue(v)')
  BY <1>5, <1>7, <1>8 DEF PoolInv, QueuesOK
<1>12. QED
  BY <1>9, <1>10, <1>11 DEF QueuesOK

LEMMA QueueLoses ==
  ASSUME PoolInv, NEW t \in Threads, NEW u \in Threads, NEW c \in Calls,
         at[t] = "pending", RunTask(t, c), Loses(u, c)
  PROVE  QueuesOK'
<1>1. phase' = [phase EXCEPT ![c] = "start"]
  BY DEF RunTask
<1>2. \A d \in Calls : phase'[d] = "queued" <=> phase[d] = "queued" /\ d # c
  BY <1>1 DEF PoolInv, TreeInv, TypeOK
<1>3. /\ Queue(u) \in Seq(Calls) /\ Queue(u) # <<>>
      /\ \/ c = Head(Queue(u)) /\ Queue(u)' = Tail(Queue(u))
         \/ c = Queue(u)[Len(Queue(u))] /\ Queue(u)' = DropBack(Queue(u))
      /\ \A v \in Threads \ {u} : Queue(v)' = Queue(v)
  BY QueueIsSeq DEF PoolInv, Loses
<1>4. Once(Queue(u)') /\ Items(Queue(u)') = Items(Queue(u)) \ {c} /\ c \in Items(Queue(u))
  BY <1>3, Taking DEF PoolInv, QueuesOK
<1>5. \A v \in Threads \ {u} : c \notin Items(Queue(v))
  BY <1>4 DEF PoolInv, QueuesOK
<1>6. \A v \in Threads : Once(Queue(v)')
  BY <1>3, <1>4 DEF PoolInv, QueuesOK
<1>7. \A v, w \in Threads : v # w => Items(Queue(v)') \cap Items(Queue(w)') = {}
  BY <1>3, <1>4 DEF PoolInv, QueuesOK
<1>8. \A d \in Calls : phase'[d] = "queued" <=> \E v \in Threads : d \in Items(Queue(v)')
  BY <1>2, <1>3, <1>4, <1>5 DEF PoolInv, QueuesOK
<1>9. QED
  BY <1>6, <1>7, <1>8 DEF QueuesOK

LEMMA QueueKeeps ==
  ASSUME PoolInv, Keeps, (\E t \in Threads : Return(t)) \/ UNCHANGED forkVars
  PROVE  QueuesOK'
<1>1. \A d \in Calls : phase'[d] = "queued" <=> phase[d] = "queued"
  <2>1. ASSUME NEW t \in Threads, Return(t), NEW d \in Calls
        PROVE  phase'[d] = "queued" <=> phase[d] = "queued"
    <3>1. Top(t) \in Calls /\ phase[Top(t)] \in {"start", "wait"}
      BY <2>1, TopIsCall DEF Return, CanReturn, PoolInv, TreeInv
    <3>2. Higher(d) = Top(t) => phase[d] = "higher"
      BY <2>1, <3>1 DEF PoolInv, TreeInv, Family, Live
    <3>3. QED
      BY <2>1, <3>1, <3>2 DEF Return
  <2>2. QED
    BY <2>1 DEF forkVars
<1>2. QED
  BY <1>1 DEF Keeps, PoolInv, QueuesOK
-----------------------------------------------------------------------------
(* Where the threads are.                                                  *)

AllPlacesOK == at \in [Threads -> Places] /\ \A t \in Threads : PlaceOK(t)

\* The step of one thread leaves the stacks of the others and the phases of the
\* calls that are innermost there.
LEMMA OthersStay ==
  ASSUME PoolInv, NEW t \in Threads, Fork(t) \/ Take(t) \/ Return(t),
         NEW u \in Threads, u # t
  PROVE  /\ stack'[u] = stack[u] /\ Busy(u)' = Busy(u) /\ Top(u)' = Top(u)
         /\ Busy(u) /\ phase[Top(u)] = "wait" => phase'[Top(u)] = "wait"
<1>1. stack'[u] = stack[u]
  BY DEF Fork, Take, Return, PoolInv, TreeInv, TypeOK
<1>2. ASSUME Busy(u), phase[Top(u)] = "wait" PROVE phase'[Top(u)] = "wait"
  <2>1. Top(u) \in Calls
    BY <1>2, TopIsCall DEF PoolInv, TreeInv
  <2>2. CASE Fork(t)
    <3>1. Top(t) \in Calls /\ phase[Top(t)] = "start" /\ Higher(Top(t)) \in Calls
          /\ Lower(Top(t)) \in Calls
      BY <2>2, TopIsCall, Numbering DEF Fork, PoolInv, TreeInv
    <3>2. phase[Lower(Top(t))] = "none" /\ phase[Higher(Top(t))] = "none"
      BY <3>1 DEF PoolInv, TreeInv, Family
    <3>3. QED
      BY <1>2, <2>1, <2>2, <3>1, <3>2 DEF Fork, PoolInv, TreeInv, TypeOK
  <2>3. CASE Take(t)
    BY <1>2, <2>1, <2>3 DEF Take, PoolInv, TreeInv, TypeOK
  <2>4. CASE Return(t)
    <3>1. Busy(t) /\ Len(stack[t]) \in Depths(t) /\ Top(t) = stack[t][Len(stack[t])]
          /\ Len(stack[u]) \in Depths(u) /\ Top(u) = stack[u][Len(stack[u])]
      BY <1>2, <2>4, TopIsCall DEF Return, CanReturn, PoolInv, TreeInv
    <3>2. Top(u) # Top(t)
      BY <3>1 DEF PoolInv, TreeInv, TypeOK
    <3>3. QED
      BY <1>2, <2>1, <2>4, <3>2 DEF Return
  <2>5. QED
    BY <2>2, <2>3, <2>4
<1>3. QED
  BY <1>1, <1>2 DEF Busy, Top

LEMMA OtherPlaces ==
  ASSUME PoolInv, NEW t \in Threads, Fork(t) \/ Take(t) \/ Return(t),
         NEW u \in Threads, u # t, at'[u] = at[u]
  PROVE  PlaceOK(u)'
<1>1. PlaceOK(u)
  BY DEF PoolInv
<1>2. /\ stack'[u] = stack[u] /\ Busy(u)' = Busy(u) /\ Top(u)' = Top(u)
      /\ Busy(u) /\ phase[Top(u)] = "wait" => phase'[Top(u)] = "wait"
  BY OthersStay
<1>3. CanTake(u) => CanTake(u)'
  BY <1>2 DEF CanTake
<1>4. QED
  BY <1>1, <1>2, <1>3 DEF PlaceOK

LEMMA PlaceSplits ==
  ASSUME PoolInv, NEW t \in Threads, Split(t)
  PROVE  AllPlacesOK' /\ RootOK'
<1>1. Fork(t) /\ at' = at /\ done' = done /\ at[t] = "sort" /\ Busy(t)
  BY SplitIsFork, SplitsBusy DEF Split
<1>2. stack' = [stack EXCEPT ![t] = Append(@, Higher(Top(t)))]
  BY <1>1 DEF Fork
<1>3. stack[t] \in Seq(Calls) /\ stack[t] # <<>> /\ Higher(Top(t)) \in Calls
  BY <1>1, SplitsBusy DEF Busy, PoolInv, TreeInv, TypeOK
<1>4. stack'[t] = Append(stack[t], Higher(Top(t)))
  BY <1>2 DEF PoolInv, TreeInv, TypeOK
<1>5. stack'[t] # <<>> /\ stack'[t][1] = stack[t][1]
  BY <1>3, <1>4
<1>6. PlaceOK(t)'
  BY <1>1, <1>5 DEF PlaceOK, Busy
<1>7. AllPlacesOK'
  BY <1>1, <1>6, OtherPlaces DEF AllPlacesOK, PoolInv
<1>8. phase'[Root] = "done" <=> phase[Root] = "done"
  <2>1. Top(t) \in Calls /\ phase[Top(t)] = "start" /\ Root \in Calls
    BY <1>1, SplitsBusy, Numbering DEF Split
  <2>2. Lower(Top(t)) # Root /\ Higher(Top(t)) # Root
    BY <2>1, Numbering
  <2>3. QED
    BY <1>1, <2>1, <2>2 DEF Fork, PoolInv, TreeInv, TypeOK
<1>9. \A u \in Threads \ {t} : stack'[u] = stack[u]
  BY <1>1, OthersStay
<1>10. QED
  BY <1>1, <1>3, <1>5, <1>7, <1>8, <1>9, ThreadsAssumption DEF RootOK, PoolInv, Busy

LEMMA PlaceRuns ==
  ASSUME PoolInv, NEW t \in Threads, NEW u \in Threads, NEW c \in Calls,
         at[t] = "pending", RunTask(t, c), Loses(u, c)
  PROVE  AllPlacesOK' /\ RootOK'
<1>1. Take(t) /\ phase[c] = "queued" /\ at' = [at EXCEPT ![t] = "sort"] /\ done' = done
      /\ stack' = [stack EXCEPT ![t] = Append(@, c)]
      /\ phase' = [phase EXCEPT ![c] = "start"]
  BY RunIsTake DEF RunTask
<1>2. stack[t] \in Seq(Calls) /\ stack'[t] = Append(stack[t], c)
  BY <1>1 DEF PoolInv, TreeInv, TypeOK
<1>3. stack'[t] # <<>> /\ (Busy(t) => stack'[t][1] = stack[t][1])
  BY <1>2 DEF Busy
<1>4. at' \in [Threads -> Places] /\ at'[t] = "sort" /\ \A v \in Threads \ {t} : at'[v] = at[v]
  BY <1>1 DEF PoolInv, Places
<1>5. PlaceOK(t)'
  BY <1>3, <1>4 DEF PlaceOK, Busy
<1>6. AllPlacesOK'
  BY <1>1, <1>4, <1>5, OtherPlaces DEF AllPlacesOK
<1>7. c # Root /\ phase'[Root] = phase[Root]
  <2>1. Root \in Calls /\ phase[Root] # "queued"
    BY Numbering DEF PoolInv, TreeInv, Family, Live
  <2>2. QED
    BY <1>1, <2>1 DEF PoolInv, TreeInv, TypeOK
<1>8. Main = t => Busy(t)
  BY <1>1 DEF Take, CanTake
<1>9. \A v \in Threads \ {t} : stack'[v] = stack[v]
  BY <1>1, OthersStay
<1>10. QED
  BY <1>1, <1>3, <1>4, <1>6, <1>7, <1>8, <1>9, ThreadsAssumption DEF RootOK, PoolInv, Busy

LEMMA PlaceReturns ==
  ASSUME PoolInv, NEW t \in Threads, ReturnShort(t) \/ ReturnJoined(t)
  PROVE  AllPlacesOK' /\ RootOK'
<1>1. /\ Return(t) /\ Busy(t) /\ at[t] = "sort" /\ at' = [at EXCEPT ![t] = Resumes(t)]
      /\ done' = done
  BY ReturnIsReturn
<1>2. /\ Len(stack[t]) \in Nat \ {0} /\ Len(stack'[t]) = Len(stack[t]) - 1
      /\ stack'[t] \in Seq(Calls)
      /\ \A i \in Depths(t) : i < Len(stack[t]) => stack'[t][i] = stack[t][i]
  BY <1>1, StackReturn DEF Return, PoolInv, TreeInv
<1>3. Busy(t)' <=> Len(stack[t]) > 1
  BY <1>2 DEF Busy
<1>4. Busy(t)' => stack'[t][1] = stack[t][1]
  BY <1>2, <1>3 DEF Depths
<1>5. at' \in [Threads -> Places] /\ at'[t] = Resumes(t) /\ \A v \in Threads \ {t} : at'[v] = at[v]
  BY <1>1 DEF PoolInv, Places, Resumes
<1>6. PlaceOK(t)'
  BY <1>3, <1>5 DEF PlaceOK, Resumes
<1>7. AllPlacesOK'
  BY <1>1, <1>5, <1>6, OtherPlaces DEF AllPlacesOK
<1>8. \A v \in Threads \ {t} : stack'[v] = stack[v]
  BY <1>1, OthersStay
<1>9. phase'[Root] = "done" <=> ~Busy(Main)'
  <2>0. /\ Root \in Calls /\ Main \in Threads /\ Top(t) \in Calls
        /\ Len(stack[t]) \in Depths(t) /\ Top(t) = stack[t][Len(stack[t])]
        /\ phase[Top(t)] # "done"
    BY <1>1, TopIsCall, Numbering, ThreadsAssumption DEF Return, CanReturn, PoolInv, TreeInv
  <2>1. Higher(Root) # Root /\ phase'[Root] \in {phase[Root], "done", "wait"}
        /\ (Top(t) # Root /\ phase[Root] = "done" => phase'[Root] = "done")
        /\ (phase'[Root] = "done" => phase[Root] = "done" \/ Top(t) = Root)
        /\ (Top(t) = Root => phase'[Root] = "done")
    <3>1. Higher(Root) = Top(t) => phase[Root] = "higher"
      BY <1>1, <2>0 DEF Return, CanReturn, PoolInv, TreeInv, Family, Live
    <3>2. QED
      BY <1>1, <2>0, <3>1, Numbering DEF Return
  <2>2. CASE t = Main
    <3>1. stack[t][1] = Root /\ phase[Root] # "done" /\ 1 \in Depths(t)
      BY <1>1, <1>2, <2>2 DEF PoolInv, RootOK, Depths
    <3>2. \A i, j \in Depths(t) : stack[t][i] = stack[t][j] => i = j
      BY DEF PoolInv, TreeInv, TypeOK
    <3>3. Top(t) = Root <=> Len(stack[t]) = 1
      BY <2>0, <3>1, <3>2
    <3>4. Busy(Main)' <=> Len(stack[t]) # 1
      <4>0. Len(stack[t]) \in Nat \ {0}
        BY <1>2
      <4>1. Len(stack[t]) > 1 <=> Len(stack[t]) # 1
        <5>1. \A n \in Nat \ {0} : n > 1 <=> n # 1
          OBVIOUS
        <5>2. QED
          BY <4>0, <5>1
      <4>2. stack'[t] # <<>> <=> Len(stack[t]) # 1
        BY <1>3, <4>1 DEF Busy
      <4>3. QED
        BY <2>2, <4>2 DEF Busy
    <3>5. QED
      BY <2>1, <3>1, <3>3, <3>4
  <2>3. CASE t # Main
    <3>1. Busy(Main)' = Busy(Main)
      BY <1>8, <2>0, <2>3 DEF Busy
    <3>2. Top(t) # Root
      <4>1. CASE Busy(Main)
        <5>1. 1 \in Depths(Main) /\ stack[Main][1] = Root
          BY <2>0, <4>1 DEF PoolInv, RootOK, Busy, Depths, TreeInv, TypeOK
        <5>2. QED
          BY <2>0, <2>3, <5>1 DEF PoolInv, TreeInv, TypeOK
      <4>2. CASE ~Busy(Main)
        BY <2>0, <4>2 DEF PoolInv, RootOK
      <4>3. QED
        BY <4>1, <4>2
    <3>3. QED
      BY <2>1, <3>1, <3>2 DEF PoolInv, RootOK
  <2>4. QED
    BY <2>2, <2>3
<1>10. Busy(Main)' => stack'[Main][1] = Root
  BY <1>1, <1>4, <1>8, ThreadsAssumption DEF PoolInv, RootOK, Busy
<1>11. done' => at'[Main] \in {"join", "end"}
  BY <1>1, <1>5, ThreadsAssumption DEF PoolInv, RootOK
<1>12. QED
  BY <1>7, <1>9, <1>10, <1>11 DEF RootOK

LEMMA PlaceIdles ==
  ASSUME PoolInv, (\E t \in Threads : Idles(t)) \/ Destroy \/ Joined \/ UNCHANGED sortVars
  PROVE  AllPlacesOK' /\ RootOK'
<1>1. UNCHANGED forkVars
  BY IdleKeepsTree
<1>2. \A u \in Threads : Busy(u)' = Busy(u) /\ CanTake(u)' = CanTake(u)
  BY <1>1 DEF forkVars, Busy, CanTake, Top
<1>3. ASSUME NEW t \in Threads, NotReady(t) \/ LoopTest(t) \/ (at[t] = "pending" /\ Yield(t))
      PROVE  /\ AllPlacesOK' /\ done' = done
             /\ at[Main] \in {"join", "end"} => at'[Main] = at[Main]
  <2>1. /\ at' \in [Threads -> Places] /\ \A v \in Threads \ {t} : at'[v] = at[v]
        /\ done' = done
    BY <1>3 DEF NotReady, LoopTest, Yield, PoolInv, Places
  <2>2. PlaceOK(t)'
    BY <1>2, <1>3 DEF NotReady, LoopTest, Yield, PoolInv, PlaceOK, CanTake
  <2>3. AllPlacesOK'
    BY <1>2, <2>1, <2>2 DEF AllPlacesOK, PoolInv, PlaceOK
  <2>4. at[t] \in {"sort", "loop", "pending"}
    BY <1>3 DEF NotReady, LoopTest
  <2>5. CASE t = Main
    BY <2>1, <2>3, <2>4, <2>5
  <2>6. CASE t # Main
    BY <2>1, <2>3, <2>6, ThreadsAssumption
  <2>7. QED
    BY <2>5, <2>6
<1>4. ASSUME Destroy \/ Joined
      PROVE  AllPlacesOK' /\ at'[Main] \in {"join", "end"}
  <2>1. /\ at' \in [Threads -> Places] /\ \A v \in Threads \ {Main} : at'[v] = at[v]
        /\ at'[Main] \in {"join", "end"} /\ at[Main] \in {"destroy", "join"}
    BY <1>4, ThreadsAssumption DEF Destroy, Joined, PoolInv, Places
  <2>2. QED
    BY <1>2, <2>1, ThreadsAssumption DEF AllPlacesOK, PoolInv, PlaceOK
<1>5. ASSUME UNCHANGED sortVars PROVE AllPlacesOK' /\ UNCHANGED <<at, done>>
  BY <1>2, <1>5 DEF sortVars, AllPlacesOK, PoolInv, PlaceOK
<1>6. AllPlacesOK' /\ (done' => at'[Main] \in {"join", "end"})
  BY <1>3, <1>4, <1>5 DEF Idles, PoolInv, RootOK
<1>7. QED
  BY <1>1, <1>2, <1>6, ThreadsAssumption DEF RootOK, PoolInv, forkVars
-----------------------------------------------------------------------------
LEMMA PoolStarts == Init => PoolInv
<1> SUFFICES ASSUME Init PROVE PoolInv
  OBVIOUS
<1>1. /\ ForkInit /\ at = [t \in Threads |-> IF t = Main THEN "sort" ELSE "loop"]
      /\ done = FALSE /\ pool \in {"shared", "stealing"}
      /\ work_queue = <<>> /\ global_work_queue = <<>> /\ queues = [w \in Workers |-> <<>>]
  BY DEF Init, SharedInit, StealInit, SortInit
<1>2. TreeInv
  BY <1>1, InitTreeInv
<1>3. /\ stack[Main] = <<Root>> /\ \A t \in Threads \ {Main} : stack[t] = <<>>
      /\ \A c \in Calls : phase[c] \in {"start", "none"}
      /\ phase[Root] = "start"
  BY <1>1, Numbering, ThreadsAssumption DEF ForkInit
<1>4. QueueTypes /\ \A t \in Threads : Queue(t) = <<>>
  BY <1>1, ThreadsAssumption DEF QueueTypes, Queue, Workers
<1>5. QueuesOK
  <2>1. \A t \in Threads : DOMAIN Queue(t) = {}
    BY <1>4
  <2>2. QED
    BY <1>3, <2>1 DEF QueuesOK, Once, Items
<1>6. AllPlacesOK
  BY <1>1, <1>3, ThreadsAssumption DEF AllPlacesOK, Places, PlaceOK, Busy
<1>7. RootOK
  BY <1>1, <1>3 DEF RootOK, Busy
<1>8. QED
  BY <1>2, <1>4, <1>5, <1>6, <1>7 DEF PoolInv, AllPlacesOK

LEMMA PoolSteps == PoolInv /\ [Next]_vars => PoolInv' /\ [ForkNext]_forkVars
<1> SUFFICES ASSUME PoolInv, [Next]_vars PROVE PoolInv' /\ [ForkNext]_forkVars
  OBVIOUS
<1>1. Move /\ QueueTypes'
  <2>1. CASE UNCHANGED vars
    BY <2>1 DEF vars, queueVars, Move, Keeps, Queue, QueueTypes, PoolInv
  <2>2. QED
    BY <2>1, StepMoves
<1>2. [ForkNext]_forkVars
  BY <1>1, MoveIsForkJoin
<1>3. TreeInv'
  BY <1>2, TreeStep DEF PoolInv
<1>4. QueuesOK' /\ AllPlacesOK' /\ RootOK'
  <2>1. ASSUME NEW t \in Threads, NEW u \in Threads, Split(t), Gets(u, Lower(Top(t)))
        PROVE  QueuesOK' /\ AllPlacesOK' /\ RootOK'
    BY <2>1, QueueGets, PlaceSplits
  <2>2. ASSUME NEW t \in Threads, NEW u \in Threads, NEW c \in Calls,
               at[t] = "pending", RunTask(t, c), Loses(u, c)
        PROVE  QueuesOK' /\ AllPlacesOK' /\ RootOK'
    BY <2>2, QueueLoses, PlaceRuns
  <2>3. ASSUME Keeps, NEW t \in Threads, ReturnShort(t) \/ ReturnJoined(t)
        PROVE  QueuesOK' /\ AllPlacesOK' /\ RootOK'
    BY <2>3, ReturnIsReturn, QueueKeeps, PlaceReturns
  <2>4. ASSUME Keeps, (\E t \in Threads : Idles(t)) \/ Destroy \/ Joined \/ UNCHANGED sortVars
        PROVE  QueuesOK' /\ AllPlacesOK' /\ RootOK'
    BY <2>4, IdleKeepsTree, QueueKeeps, PlaceIdles
  <2>5. QED
    BY <1>1, <2>1, <2>2, <2>3, <2>4 DEF Move, Goes, Idles
<1>5. QED
  BY <1>1, <1>2, <1>3, <1>4 DEF PoolInv, AllPlacesOK

LEMMA PoolAlways == Spec => []PoolInv
BY PoolStarts, PoolSteps, PTL DEF Spec

\* The two pools implement ForkJoin: whatever thread takes whichever task out of
\* whichever queue, a task is taken once, from those that are pending, by a
\* thread that has nothing else to do, and a call returns only when its lower
\* half has.
THEOREM DisciplineKept == Spec => ForkJoinDiscipline
<1>1. Init => ForkInit
  BY DEF Init, SharedInit, SortInit
<1>2. QED
  BY <1>1, PoolAlways, PoolSteps, PTL DEF Spec, ForkJoinDiscipline, ForkSpec

\* So the threads of either pool never wait for one another in a circle.
THEOREM PoolsNeverCircular == Spec => []NoCircularWait
BY DisciplineKept, WaitsNeverCircular, PTL DEF ForkJoinDiscipline
-----------------------------------------------------------------------------
(* Tasks.                                                                  *)

LEMMA CountOnce ==
  ASSUME NEW s \in Seq(Calls), Once(s)
  PROVE  Cardinality(Items(s)) = Len(s)
<1> DEFINE f == [i \in 1..Len(s) |-> s[i]]
<1>1. Len(s) \in Nat /\ DOMAIN s = 1..Len(s)
  OBVIOUS
<1>2. \A i \in 1..Len(s) : s[i] \in Items(s)
  BY <1>1, ItemOf
<1>3. \A x \in Items(s) : \E i \in 1..Len(s) : f[i] = x
  BY <1>1, ItemOf
<1>4. f \in Injection(1..Len(s), Items(s))
  BY <1>1, <1>2 DEF Injection, IsInjective, Once
<1>5. f \in Surjection(1..Len(s), Items(s))
  BY <1>2, <1>3 DEF Surjection
<1>6. ExistsBijection(1..Len(s), Items(s))
  BY <1>4, <1>5 DEF ExistsBijection, Bijection
<1>7. QED
  BY <1>1, <1>6, FS_CountingElements

\* The pool is destroyed when the sort has returned.
LEMMA NothingLeft ==
  ASSUME PoolInv, done
  PROVE  (\A t \in Threads : ~Busy(t)) /\ \A c \in Calls : phase[c] # "queued"
<1>1. phase[Root] = "done"
  BY ThreadsAssumption DEF PoolInv, RootOK, PlaceOK
<1>2. QED
  BY <1>1, RootDone DEF PoolInv, NothingOutlivesRoot, Busy

LEMMA TasksInQueues == PoolInv => TasksKept
<1> SUFFICES ASSUME PoolInv PROVE TasksKept
  OBVIOUS
<1> DEFINE Queued == {c \in Calls : phase[c] = "queued"}
<1>1. QueueTypes /\ QueuesOK /\ Main \in Threads /\ Threads = Workers \cup {Main}
      /\ Main \notin Workers
  BY ThreadsAssumption DEF PoolInv, Workers
<1>2. ASSUME NEW t \in Threads PROVE Items(Queue(t)) \subseteq Calls
  <2>1. \A i \in DOMAIN Queue(t) : Queue(t)[i] \in Calls
    BY <1>1, QueueIsSeq
  <2>2. QED
    BY <2>1, ItemOf
<1>3. \A c : c \in Queued <=> \E t \in Threads : c \in Items(Queue(t))
  BY <1>1, <1>2 DEF QueuesOK
<1>4. CASE pool = "shared"
  <2>1. /\ work_queue \in Seq(Calls) /\ Once(work_queue) /\ Queue(Main) = work_queue
        /\ \A t \in Workers : Queue(t) = <<>>
    BY <1>1, <1>4 DEF Queue, QueueTypes, QueuesOK
  <2>2. \A t \in Workers : Items(Queue(t)) = {}
    BY <2>1 DEF Items
  <2>3. Items(work_queue) = Queued
    BY <1>1, <1>3, <2>1, <2>2
  <2>4. Len(work_queue) = Cardinality(Queued)
    BY <2>1, <2>3, CountOnce
  <2>5. ASSUME done PROVE work_queue = <<>> /\ \A t \in Threads : ~Busy(t)
    <3>1. Queued = {}
      BY <2>5, NothingLeft
    <3>2. DOMAIN work_queue = {}
      BY <2>3, <3>1, ItemOf
    <3>3. QED
      BY <2>1, <2>5, <3>2, NothingLeft
  <2>6. QED
    BY <1>4, <2>3, <2>4, <2>5 DEF TasksKept, SharedTasksKept, Items
<1>5. CASE pool # "shared"
  <2>1. /\ Queue(Main) = global_work_queue
        /\ \A w \in Workers : Queue(w) = queues[w]
    BY <1>1, <1>5 DEF Queue
  <2>2. Items(global_work_queue) \cup UNION {Items(queues[w]) : w \in Workers} = Queued
    BY <1>1, <1>3, <2>1
  <2>3. ASSUME NEW v \in Workers, NEW w \in Workers,
               NEW i \in DOMAIN queues[v], NEW j \in DOMAIN queues[w],
               queues[v][i] = queues[w][j]
        PROVE  v = w /\ i = j
    <3>1. queues[v][i] \in Items(Queue(v)) /\ queues[w][j] \in Items(Queue(w))
      BY <2>1, ItemOf
    <3>2. v = w
      BY <1>1, <2>3, <3>1 DEF QueuesOK
    <3>3. QED
      BY <1>1, <2>1, <2>3, <3>2 DEF QueuesOK, Once
  <2>4. QED
    BY <1>5, <2>2, <2>3, NothingLeft DEF TasksKept, StolenTasksKept
<1>6. QED
  BY <1>4, <1>5

\* On either pool a submitted task is in exactly one queue until one thread runs
\* it, and the pool is destroyed only when no task is left and no thread has a
\* call, so that no future of the sort is broken.
THEOREM TasksAlwaysKept == Spec => []TasksKept
BY PoolAlways, TasksInQueues, PTL
-----------------------------------------------------------------------------
(* The queues of the workers.                                              *)

\* Item i of a worker's queue is the lower half of its call at depth d.
Mirrors(w, i, d) == queues[w][i] = Lower(stack[w][d])

MirrorOK ==
  \A w \in Workers :
    /\ \A i \in DOMAIN queues[w] : \E d \in Depths(w) : Mirrors(w, i, d)
    /\ \A i, j \in DOMAIN queues[w] : i < j =>
         \E d, e \in Depths(w) : e < d /\ Mirrors(w, i, d) /\ Mirrors(w, j, e)

\* A worker that splits its call,
Submits(w) ==
  /\ Split(w)
  /\ queues'[w] = <<Lower(Top(w))>> \o queues[w]

\* one that returns,
Pops(w) == Return(w) /\ queues'[w] = queues[w]

\* and one that may start a call and lose an item at either end.
Advances(w) ==
  /\ \/ stack'[w] = stack[w]
     \/ \E c \in Calls : stack'[w] = Append(stack[w], c)
  /\ \/ queues'[w] = queues[w]
     \/ queues[w] # <<>> /\ queues'[w] \in {Tail(queues[w]), DropBack(queues[w])}

LEMMA MirrorPart ==
  ASSUME PoolInv, MirrorOK, NEW w \in Workers,
         Len(stack'[w]) \in Nat, Len(stack'[w]) >= Len(stack[w]),
         \A d \in Depths(w) : stack'[w][d] = stack[w][d],
         NEW f, \A i \in DOMAIN queues'[w] :
           f[i] \in DOMAIN queues[w] /\ queues'[w][i] = queues[w][f[i]],
         \A i, j \in DOMAIN queues'[w] : i < j => f[i] < f[j]
  PROVE  /\ \A i \in DOMAIN queues'[w] : \E d \in Depths(w)' : Mirrors(w, i, d)'
         /\ \A i, j \in DOMAIN queues'[w] : i < j =>
              \E d, e \in Depths(w)' : e < d /\ Mirrors(w, i, d)' /\ Mirrors(w, j, e)'
<1>0. Len(stack[w]) \in Nat
  BY DEF PoolInv, TreeInv, TypeOK, Workers
<1>1. \A d \in Depths(w) : d \in Depths(w)'
  BY <1>0 DEF Depths
<1>2. ASSUME NEW i \in DOMAIN queues'[w], NEW d \in Depths(w), Mirrors(w, f[i], d)
      PROVE  d \in Depths(w)' /\ Mirrors(w, i, d)'
  BY <1>1, <1>2 DEF Mirrors
<1>3. ASSUME NEW i \in DOMAIN queues'[w] PROVE \E d \in Depths(w)' : Mirrors(w, i, d)'
  <2>1. PICK d \in Depths(w) : Mirrors(w, f[i], d)
    BY DEF MirrorOK
  <2>2. QED
    BY <1>2, <2>1
<1>4. ASSUME NEW i \in DOMAIN queues'[w], NEW j \in DOMAIN queues'[w], i < j
      PROVE  \E d, e \in Depths(w)' : e < d /\ Mirrors(w, i, d)' /\ Mirrors(w, j, e)'
  <2>1. PICK d \in Depths(w), e \in Depths(w) :
          e < d /\ Mirrors(w, f[i], d) /\ Mirrors(w, f[j], e)
    BY <1>4 DEF MirrorOK
  <2>2. QED
    BY <1>2, <2>1
<1>5. QED
  BY <1>3, <1>4

LEMMA MirrorAdvances ==
  ASSUME PoolInv, MirrorOK, NEW w \in Workers, Advances(w)
  PROVE  /\ \A i \in DOMAIN queues'[w] : \E d \in Depths(w)' : Mirrors(w, i, d)'
         /\ \A i, j \in DOMAIN queues'[w] : i < j =>
              \E d, e \in Depths(w)' : e < d /\ Mirrors(w, i, d)' /\ Mirrors(w, j, e)'
<1>1. stack[w] \in Seq(Calls) /\ queues[w] \in Seq(Calls)
  BY DEF PoolInv, TreeInv, TypeOK, QueueTypes, Workers
<1>2. /\ Len(stack'[w]) \in Nat /\ Len(stack'[w]) >= Len(stack[w])
      /\ \A d \in Depths(w) : stack'[w][d] = stack[w][d]
  <2>1. CASE stack'[w] = stack[w]
    BY <1>1, <2>1
  <2>2. ASSUME NEW c \in Calls, stack'[w] = Append(stack[w], c)
        PROVE  /\ Len(stack'[w]) \in Nat /\ Len(stack'[w]) >= Len(stack[w])
               /\ \A d \in Depths(w) : stack'[w][d] = stack[w][d]
    BY <1>1, <2>2 DEF Depths
  <2>3. QED
    BY <2>1, <2>2 DEF Advances
<1>3. CASE queues'[w] = queues[w]
  <2> DEFINE f == [i \in DOMAIN queues[w] |-> i]
  <2>1. \A i \in DOMAIN queues'[w] : f[i] \in DOMAIN queues[w] /\ queues'[w][i] = queues[w][f[i]]
    BY <1>3
  <2>2. \A i, j \in DOMAIN queues'[w] : i < j => f[i] < f[j]
    BY <1>3
  <2> HIDE DEF f
  <2>3. QED
    BY <1>2, <2>1, <2>2, MirrorPart
<1>4. CASE queues[w] # <<>> /\ queues'[w] = Tail(queues[w])
  <2> DEFINE f == [i \in 1..(Len(queues[w]) - 1) |-> i + 1]
  <2>0. DOMAIN queues'[w] = 1..(Len(queues[w]) - 1) /\ Len(queues[w]) \in Nat \ {0}
        /\ DOMAIN queues[w] = 1..Len(queues[w])
    BY <1>1, <1>4
  <2>1. \A i \in DOMAIN queues'[w] : f[i] \in DOMAIN queues[w] /\ queues'[w][i] = queues[w][f[i]]
    BY <1>1, <1>4, <2>0
  <2>2. \A i, j \in DOMAIN queues'[w] : i < j => f[i] < f[j]
    BY <2>0
  <2> HIDE DEF f
  <2>3. QED
    BY <1>2, <2>1, <2>2, MirrorPart
<1>5. CASE queues[w] # <<>> /\ queues'[w] = DropBack(queues[w])
  <2> DEFINE f == [i \in 1..(Len(queues[w]) - 1) |-> i]
  <2>0. /\ Len(queues[w]) \in Nat \ {0} /\ DOMAIN queues[w] = 1..Len(queues[w])
        /\ DOMAIN queues'[w] = 1..(Len(queues[w]) - 1)
        /\ \A i \in 1..(Len(queues[w]) - 1) : queues'[w][i] = queues[w][i]
    BY <1>1, <1>5, SubSeqProperties DEF DropBack
  <2>1. \A i \in DOMAIN queues'[w] : f[i] \in DOMAIN queues[w] /\ queues'[w][i] = queues[w][f[i]]
    BY <2>0
  <2>2. \A i, j \in DOMAIN queues'[w] : i < j => f[i] < f[j]
    BY <2>0
  <2> HIDE DEF f
  <2>3. QED
    BY <1>2, <2>1, <2>2, MirrorPart
<1>6. QED
  BY <1>3, <1>4, <1>5 DEF Advances

\* A call whose lower half is queued is not innermost where it can split or
\* return.
LEMMA BelowTop ==
  ASSUME PoolInv, NEW w \in Workers, Busy(w),
         \/ phase[Top(w)] = "start"
         \/ phase[Top(w)] = "wait" /\ phase[Lower(Top(w))] = "done",
         NEW i \in DOMAIN queues[w], NEW d \in Depths(w), Mirrors(w, i, d),
         pool = "stealing"
  PROVE  d < Len(stack[w])
<1>1. /\ w \in Threads /\ Queue(w) = queues[w] /\ queues[w] \in Seq(Calls)
      /\ Len(stack[w]) \in Nat
  BY DEF Workers, Queue, PoolInv, QueueTypes, TreeInv, TypeOK
<1>2. queues[w][i] \in Calls /\ phase[queues[w][i]] = "queued"
  BY <1>1, ItemOf DEF PoolInv, QueuesOK
<1>3. Top(w) \in Calls /\ Top(w) = stack[w][Len(stack[w])]
  BY <1>1, TopIsCall DEF PoolInv, TreeInv
<1>4. queues[w][i] # Lower(Top(w))
  BY <1>2, <1>3 DEF PoolInv, TreeInv, Family
<1>5. d # Len(stack[w])
  BY <1>3, <1>4 DEF Mirrors
<1>6. QED
  BY <1>1, <1>5 DEF Depths

LEMMA MirrorSubmits ==
  ASSUME PoolInv, MirrorOK, NEW w \in Workers, Submits(w), pool = "stealing"
  PROVE  /\ \A i \in DOMAIN queues'[w] : \E d \in Depths(w)' : Mirrors(w, i, d)'
         /\ \A i, j \in DOMAIN queues'[w] : i < j =>
              \E d, e \in Depths(w)' : e < d /\ Mirrors(w, i, d)' /\ Mirrors(w, j, e)'
<1>0. PICK n \in Nat : n = Len(stack[w])
  BY DEF PoolInv, TreeInv, TypeOK, Workers
<1>1. /\ w \in Threads /\ stack[w] \in Seq(Calls) /\ queues[w] \in Seq(Calls)
      /\ Busy(w) /\ phase[Top(w)] = "start" /\ Higher(Top(w)) \in Calls
      /\ Lower(Top(w)) \in Calls /\ stack[w] # <<>> /\ Top(w) = stack[w][n]
  BY <1>0, SplitsBusy DEF PoolInv, TreeInv, TypeOK, QueueTypes, Workers, Submits, Split, Busy, Top
<1>2. stack'[w] = Append(stack[w], Higher(Top(w)))
  BY <1>1 DEF Submits, Split, PoolInv, TreeInv, TypeOK
<1>3. /\ n \in Nat \ {0} /\ Depths(w)' = 1..(n + 1) /\ Depths(w) = 1..n
      /\ \A d \in 1..n : stack'[w][d] = stack[w][d]
  BY <1>0, <1>1, <1>2 DEF Depths
<1>4. /\ DOMAIN queues'[w] = 1..(Len(queues[w]) + 1) /\ Len(queues[w]) \in Nat
      /\ DOMAIN queues[w] = 1..Len(queues[w]) /\ queues'[w][1] = Lower(stack[w][n])
      /\ \A i \in DOMAIN queues[w] : queues'[w][i + 1] = queues[w][i]
  BY <1>1 DEF Submits
<1>5. n \in Depths(w)' /\ Mirrors(w, 1, n)'
  BY <1>3, <1>4 DEF Mirrors
<1>6. ASSUME NEW i \in DOMAIN queues'[w], i # 1
      PROVE  i - 1 \in DOMAIN queues[w] /\ \A d \in Depths(w) : Mirrors(w, i - 1, d) =>
               d \in Depths(w)' /\ Mirrors(w, i, d)' /\ d < n
  <2>1. i - 1 \in DOMAIN queues[w] /\ queues'[w][i] = queues[w][i - 1]
    BY <1>4, <1>6
  <2>2. ASSUME NEW d \in Depths(w), Mirrors(w, i - 1, d)
        PROVE  d \in Depths(w)' /\ Mirrors(w, i, d)' /\ d < n
    <3>1. d < n
      BY <1>0, <1>1, <2>1, <2>2, BelowTop
    <3>2. d \in Depths(w)' /\ stack'[w][d] = stack[w][d]
      BY <1>3
    <3>3. QED
      BY <2>1, <2>2, <3>1, <3>2 DEF Mirrors
  <2>3. QED
    BY <2>1, <2>2
<1>7. ASSUME NEW i \in DOMAIN queues'[w] PROVE \E d \in Depths(w)' : Mirrors(w, i, d)'
  <2>1. CASE i = 1
    BY <1>5, <2>1
  <2>2. CASE i # 1
    BY <1>6, <2>2 DEF MirrorOK
  <2>3. QED
    BY <2>1, <2>2
<1>8. ASSUME NEW i \in DOMAIN queues'[w], NEW j \in DOMAIN queues'[w], i < j
      PROVE  \E d, e \in Depths(w)' : e < d /\ Mirrors(w, i, d)' /\ Mirrors(w, j, e)'
  <2>1. j # 1 /\ i \in Int /\ j \in Int
    BY <1>4, <1>8
  <2>2. CASE i = 1
    <3>1. PICK e \in Depths(w) : Mirrors(w, j - 1, e)
      BY <1>6, <2>1 DEF MirrorOK
    <3>2. e \in Depths(w)' /\ Mirrors(w, j, e)' /\ e < n
      BY <1>6, <2>1, <3>1
    <3>3. QED
      BY <1>5, <2>2, <3>2
  <2>3. CASE i # 1
    <3>1. i - 1 \in DOMAIN queues[w] /\ j - 1 \in DOMAIN queues[w] /\ i - 1 < j - 1
      BY <1>6, <1>8, <2>1, <2>3
    <3>2. PICK d \in Depths(w), e \in Depths(w) :
            e < d /\ Mirrors(w, i - 1, d) /\ Mirrors(w, j - 1, e)
      BY <3>1 DEF MirrorOK
    <3>3. QED
      BY <1>6, <2>1, <2>3, <3>2
  <2>4. QED
    BY <2>2, <2>3
<1>9. QED
  BY <1>7, <1>8

LEMMA MirrorPops ==
  ASSUME PoolInv, MirrorOK, NEW w \in Workers, Pops(w), pool = "stealing"
  PROVE  /\ \A i \in DOMAIN queues'[w] : \E d \in Depths(w)' : Mirrors(w, i, d)'
         /\ \A i, j \in DOMAIN queues'[w] : i < j =>
              \E d, e \in Depths(w)' : e < d /\ Mirrors(w, i, d)' /\ Mirrors(w, j, e)'
<1>1. w \in Threads /\ Busy(w) /\ CanReturn(w) /\ queues'[w] = queues[w]
  BY DEF Workers, Pops, Return, CanReturn
<1>2. /\ Len(stack[w]) \in Nat \ {0} /\ Len(stack'[w]) = Len(stack[w]) - 1
      /\ \A d \in Depths(w) : d < Len(stack[w]) => stack'[w][d] = stack[w][d]
  BY <1>1, StackReturn DEF Pops, Return, PoolInv, TreeInv
<1>3. ASSUME NEW i \in DOMAIN queues[w], NEW d \in Depths(w), Mirrors(w, i, d)
      PROVE  d \in Depths(w)' /\ Mirrors(w, i, d)'
  <2>1. d < Len(stack[w])
    BY <1>1, <1>3, BelowTop DEF CanReturn
  <2>2. d \in Depths(w)' /\ stack'[w][d] = stack[w][d]
    BY <1>2, <2>1 DEF Depths
  <2>3. QED
    BY <1>1, <1>3, <2>2 DEF Mirrors
<1>4. QED
  BY <1>1, <1>3 DEF MirrorOK

\* A step does one of these to a worker of the stealing pool.
LEMMA StacksMove ==
  ASSUME PoolInv, NEW w \in Workers
  PROVE  /\ \A t \in Threads, c \in Calls : RunTask(t, c) =>
              stack'[w] = stack[w] \/ stack'[w] = Append(stack[w], c)
         /\ \A t \in Threads \ {w} : Fork(t) \/ Return(t) => stack'[w] = stack[w]
BY OthersStay DEF RunTask, PoolInv, TreeInv, TypeOK, Workers

LEMMA WorkerMoves ==
  ASSUME PoolInv, [Next]_vars, pool = "stealing", NEW w \in Workers
  PROVE  Submits(w) \/ Pops(w) \/ Advances(w)
<1>0. /\ queues \in [Workers -> Seq(Calls)] /\ w \in Threads /\ w # Main
      /\ global_work_queue \in Seq(Calls) /\ queues[w] \in Seq(Calls)
  BY DEF PoolInv, QueueTypes, Workers
<1>1. ASSUME NEW t \in Threads, SubmitTask(t) PROVE Submits(w) \/ Advances(w)
  <2>1. CASE t = w
    BY <1>0, <1>1, <2>1 DEF SubmitTask, PushFront, Submits
  <2>2. CASE t # w
    <3>1. stack'[w] = stack[w]
      BY <1>0, <1>1, <2>2, SplitIsFork, OthersStay DEF SubmitTask
    <3>2. queues'[w] = queues[w]
      BY <1>0, <1>1, <2>2 DEF SubmitTask, PushFront
    <3>3. QED
      BY <3>1, <3>2 DEF Advances
  <2>3. QED
    BY <2>1, <2>2
<1>2. ASSUME NEW t \in Threads, NEW c, RunTask(t, c), c \in Calls
      PROVE  stack'[w] = stack[w] \/ stack'[w] = Append(stack[w], c)
  BY <1>2, StacksMove
<1>3. ASSUME NEW t \in Threads, LookNext(t) \/ GiveUp(t) PROVE Advances(w)
  BY <1>3 DEF LookNext, GiveUp, Yield, sortVars, queueVars, Advances
<1>4. ASSUME NEW t \in Threads, TryLocal(t) PROVE Advances(w)
  <2>1. CASE t \in Workers /\ queues[t] # <<>>
    <3>1. Head(queues[t]) \in Calls
      BY <1>0, <2>1
    <3>2. RunTask(t, Head(queues[t])) /\ queues' = [queues EXCEPT ![t] = Tail(@)]
      BY <1>4, <2>1 DEF TryLocal
    <3>3. queues'[w] = queues[w] \/ (queues[w] # <<>> /\ queues'[w] = Tail(queues[w]))
      BY <1>0, <2>1, <3>2
    <3>4. QED
      BY <1>2, <3>1, <3>2, <3>3 DEF Advances
  <2>2. QED
    BY <1>3, <1>4, <2>1 DEF TryLocal
<1>5. ASSUME NEW t \in Threads, TryPool(t) PROVE Advances(w)
  <2>1. CASE global_work_queue # <<>>
    <3>1. Head(global_work_queue) \in Calls
      BY <1>0, <2>1
    <3>2. RunTask(t, Head(global_work_queue)) /\ queues' = queues
      BY <1>5, <2>1 DEF TryPool
    <3>3. QED
      BY <1>2, <3>1, <3>2 DEF Advances
  <2>2. QED
    BY <1>3, <1>5, <2>1 DEF TryPool
<1>6. ASSUME NEW t \in Threads, TrySteal(t) PROVE Advances(w)
  <2>0. PICK v \in Workers : v = Victim(t, probe[t])
    BY <1>6, VictimIsWorker DEF TrySteal
  <2>1. CASE queues[v] # <<>>
    <3>1. queues[v][Len(queues[v])] \in Calls
      BY <1>0, <2>1
    <3>2. RunTask(t, queues[v][Len(queues[v])]) /\ queues' = [queues EXCEPT ![v] = DropBack(@)]
      BY <1>6, <2>0, <2>1 DEF TrySteal
    <3>3. queues'[w] = queues[w] \/ (queues[w] # <<>> /\ queues'[w] = DropBack(queues[w]))
      BY <1>0, <2>1, <3>2
    <3>4. QED
      BY <1>2, <3>1, <3>2, <3>3 DEF Advances
  <2>2. QED
    BY <1>3, <1>6, <2>0, <2>1 DEF TrySteal
<1>7. ASSUME NEW t \in Threads, UNCHANGED queues, ReturnShort(t) \/ ReturnJoined(t)
      PROVE  Pops(w) \/ Advances(w)
  <2>1. Return(t) /\ queues'[w] = queues[w]
    BY <1>7, ReturnIsReturn
  <2>2. QED
    BY <2>1, StacksMove DEF Pops, Advances
<1>8. ASSUME UNCHANGED queues,
             (\E t \in Threads : Idles(t)) \/ Destroy \/ Joined \/ UNCHANGED sortVars
      PROVE  Advances(w)
  BY <1>8, IdleKeepsTree DEF forkVars, Advances
<1>9. CASE UNCHANGED vars
  BY <1>8, <1>9 DEF vars, queueVars
<1>10. ASSUME NEW t \in Threads, StealStep(t) PROVE Submits(w) \/ Pops(w) \/ Advances(w)
  <2>1. CASE UNCHANGED queues /\ (NotReady(t) \/ LoopTest(t))
    BY <1>8, <2>1 DEF Idles
  <2>2. QED
    BY <1>1, <1>3, <1>4, <1>5, <1>6, <1>7, <1>10, <2>1 DEF StealStep, queueVars
<1>11. CASE EndOfPool \/ Ended
  BY <1>8, <1>9, <1>11 DEF EndOfPool, OnShared, OnStealing, StealEnd, queueVars, Ended
<1>12. QED
  BY <1>9, <1>10, <1>11 DEF Next, Step, OnShared, OnStealing

LEMMA MirrorSteps == PoolInv /\ MirrorOK /\ [Next]_vars => MirrorOK'
<1> SUFFICES ASSUME PoolInv, MirrorOK, [Next]_vars PROVE MirrorOK'
  OBVIOUS
<1>1. QueueTypes' /\ pool' = pool
  BY PoolSteps DEF PoolInv, vars, Next, Step, EndOfPool, Ended, OnShared, OnStealing
<1>2. ASSUME NEW w \in Workers
      PROVE  /\ \A i \in DOMAIN queues'[w] : \E d \in Depths(w)' : Mirrors(w, i, d)'
             /\ \A i, j \in DOMAIN queues'[w] : i < j =>
                  \E d, e \in Depths(w)' : e < d /\ Mirrors(w, i, d)' /\ Mirrors(w, j, e)'
  <2>1. CASE pool = "shared"
    BY <1>1, <2>1 DEF QueueTypes
  <2>2. CASE pool = "stealing"
    BY <2>2, WorkerMoves, MirrorSubmits, MirrorPops, MirrorAdvances
  <2>3. QED
    BY <2>1, <2>2 DEF PoolInv, QueueTypes
<1>3. QED
  BY <1>2 DEF MirrorOK

LEMMA MirrorShown == PoolInv /\ MirrorOK => QueueMirrorsStack
<1> SUFFICES ASSUME PoolInv, MirrorOK, NEW w \in Workers
             PROVE  \E depth \in [DOMAIN queues[w] -> DOMAIN stack[w]] :
                      /\ \A i \in DOMAIN queues[w] : queues[w][i] = Lower(stack[w][depth[i]])
                      /\ \A i, j \in DOMAIN queues[w] : i < j => depth[i] > depth[j]
  BY DEF QueueMirrorsStack
<1> DEFINE depth == [i \in DOMAIN queues[w] |-> CHOOSE d \in Depths(w) : Mirrors(w, i, d)]
<1>0. w \in Threads /\ stack[w] \in Seq(Calls) /\ DOMAIN stack[w] = Depths(w)
      /\ Depths(w) \subseteq Nat
  BY DEF PoolInv, TreeInv, TypeOK, Workers, Depths
<1>1. \A i \in DOMAIN queues[w] : depth[i] \in Depths(w) /\ Mirrors(w, i, depth[i])
  BY DEF MirrorOK
<1>2. depth \in [DOMAIN queues[w] -> DOMAIN stack[w]]
  BY <1>0, <1>1
<1> HIDE DEF depth
<1>3. ASSUME NEW i \in DOMAIN queues[w], NEW d \in Depths(w), Mirrors(w, i, d)
      PROVE  depth[i] = d
  <2>1. Lower(stack[w][d]) = Lower(stack[w][depth[i]])
    BY <1>1, <1>3 DEF Mirrors
  <2>2. stack[w][d] \in Calls /\ stack[w][depth[i]] \in Calls
    BY <1>0, <1>1
  <2>3. stack[w][d] = stack[w][depth[i]]
    BY <2>1, <2>2, Numbering
  <2>4. QED
    BY <1>0, <1>1, <2>3 DEF PoolInv, TreeInv, TypeOK
<1>4. ASSUME NEW i \in DOMAIN queues[w], NEW j \in DOMAIN queues[w], i < j
      PROVE  depth[i] > depth[j]
  <2>1. PICK d \in Depths(w), e \in Depths(w) : e < d /\ Mirrors(w, i, d) /\ Mirrors(w, j, e)
    BY <1>4 DEF MirrorOK
  <2>2. depth[i] = d /\ depth[j] = e
    BY <1>3, <2>1
  <2>3. QED
    BY <1>0, <2>1, <2>2
<1>5. QED
  BY <1>1, <1>2, <1>4 DEF Mirrors

\* A worker's queue holds lower halves of calls on its own stack, those of the
\* inner calls in front, whoever steals from it.
THEOREM QueuesAlwaysMirror == Spec => []QueueMirrorsStack
<1>1. Init => MirrorOK
  BY DEF Init, StealInit, MirrorOK
<1>2. Spec => [](PoolInv /\ MirrorOK)
  <2>1. (PoolInv /\ MirrorOK) /\ [Next]_vars => (PoolInv /\ MirrorOK)'
    BY PoolSteps, MirrorSteps
  <2>2. QED
    BY <1>1, <2>1, PoolStarts, PTL DEF Spec
<1>3. QED
  BY <1>2, MirrorShown, PTL
-----------------------------------------------------------------------------
(* The lists.                                                              *)

\* The list s holds the elements of S in the order of their keys.
Sorts(s, S) ==
  /\ s \in Seq(Elements) /\ S \subseteq Elements
  /\ Items(s) = S /\ Len(s) = Cardinality(S)
  /\ \A i, j \in DOMAIN s : i < j => Key[s[i]] <= Key[s[j]]

\* A call that has been split: p was the pivot of the elements given to it.
SplitAt(c, given, p) ==
  /\ p \in given[c]
  /\ given[Lower(c)] = Below(given[c], p) /\ given[Higher(c)] = Above(given[c], p)
  /\ phase[c] = "higher" => result[c] = <<p>>
  /\ phase[c] = "wait" => Sorts(result[c], {p} \cup Above(given[c], p))

\* Somebody will read the result of the call.
Awaited(c) == c = Root \/ \E d \in Calls : c = Lower(d) /\ phase[d] \in {"higher", "wait"}

CallOK(c, given) ==
  /\ phase[c] \in {"queued", "start"} => chunk[c] = given[c]
  /\ phase[c] \in {"higher", "wait"} => \E p : SplitAt(c, given, p)
  /\ phase[c] = "done" /\ Awaited(c) => Sorts(result[c], given[c])

GivenOK(given) ==
  /\ given \in [Calls -> SUBSET Elements] /\ given[Root] = Elements
  /\ \A c \in Calls : CallOK(c, given)

\* Every call was given a set of elements, and has done with it what its phase
\* says.
ListsOK ==
  /\ DOMAIN chunk = Calls /\ DOMAIN result = Calls
  /\ \E given : GivenOK(given)

LEMMA SortsFew ==
  /\ Sorts(<<>>, {})
  /\ \A e \in Elements : Sorts(<<e>>, {e})
<1>1. Items(<<>>) = {} /\ \A e : Items(<<e>>) = {e}
  BY DEF Items
<1>2. Sorts(<<>>, {})
  BY <1>1, FS_EmptySet DEF Sorts
<1>3. ASSUME NEW e \in Elements PROVE Sorts(<<e>>, {e})
  <2>1. <<e>> \in Seq(Elements) /\ Len(<<e>>) = 1 /\ DOMAIN <<e>> = 1..1
    OBVIOUS
  <2>2. \A i, j \in 1..1 : ~(i < j)
    OBVIOUS
  <2>3. Cardinality({e}) = 1
    BY FS_Singleton
  <2>4. QED
    BY <1>1, <2>1, <2>2, <2>3 DEF Sorts
<1>4. QED
  BY <1>2, <1>3

LEMMA SortsJoined ==
  ASSUME NEW a, NEW A, Sorts(a, A), NEW b, NEW B, Sorts(b, B), A \cap B = {},
         \A x \in A, y \in B : Key[x] <= Key[y]
  PROVE  Sorts(a \o b, A \cup B)
<1>1. /\ a \in Seq(Elements) /\ b \in Seq(Elements) /\ Items(a) = A /\ Items(b) = B
      /\ Len(a) = Cardinality(A) /\ Len(b) = Cardinality(B)
      /\ A \subseteq Elements /\ B \subseteq Elements
  BY DEF Sorts
<1>2. /\ Len(a) \in Nat /\ Len(b) \in Nat /\ DOMAIN a = 1..Len(a) /\ DOMAIN b = 1..Len(b)
      /\ a \o b \in Seq(Elements) /\ DOMAIN (a \o b) = 1..(Len(a) + Len(b))
      /\ Len(a \o b) = Len(a) + Len(b)
      /\ \A i \in 1..(Len(a) + Len(b)) :
           (a \o b)[i] = IF i <= Len(a) THEN a[i] ELSE b[i - Len(a)]
  BY <1>1
<1> DEFINE s == a \o b
<1>3. \A i \in DOMAIN s : \/ i \in DOMAIN a /\ s[i] = a[i]
                          \/ i - Len(a) \in DOMAIN b /\ i > Len(a) /\ s[i] = b[i - Len(a)]
  BY <1>2
<1>4. /\ \A i \in DOMAIN a : i \in DOMAIN s /\ s[i] = a[i]
      /\ \A i \in DOMAIN b : i + Len(a) \in DOMAIN s /\ s[i + Len(a)] = b[i]
  BY <1>2
<1>c. Len(s) = Cardinality(A \cup B)
  <2>1. IsFiniteSet(A) /\ IsFiniteSet(B)
    BY <1>1, ElementsAssumption, FS_Subset
  <2>2. Cardinality(A \cap B) = 0
    BY FS_EmptySet
  <2>3. Cardinality(A) \in Nat /\ Cardinality(B) \in Nat
    BY <1>1, <1>2
  <2>4. Cardinality(A \cup B) = Cardinality(A) + Cardinality(B) - Cardinality(A \cap B)
    BY <2>1, FS_Union
  <2>5. Len(s) = Cardinality(A) + Cardinality(B)
    BY <1>1, <1>2
  <2>6. QED
    BY <2>2, <2>3, <2>4, <2>5
<1>t. s \in Seq(Elements)
  BY <1>2
<1> HIDE DEF s
<1>5. Items(s) = A \cup B
  <2>1. ASSUME NEW x \in Items(s) PROVE x \in A \cup B
    <3>1. PICK i \in DOMAIN s : x = s[i]
      BY ItemOf
    <3>2. QED
      BY <1>1, <1>3, <3>1, ItemOf
  <2>2. ASSUME NEW x \in A PROVE x \in Items(s)
    <3>1. PICK i \in DOMAIN a : x = a[i]
      BY <1>1, ItemOf
    <3>2. QED
      BY <1>4, <3>1, ItemOf
  <2>3. ASSUME NEW x \in B PROVE x \in Items(s)
    <3>1. PICK i \in DOMAIN b : x = b[i]
      BY <1>1, ItemOf
    <3>2. s[i + Len(a)] \in Items(s)
      BY <1>4, ItemOf
    <3>3. QED
      BY <1>4, <3>1, <3>2
  <2>4. QED
    BY <2>1, <2>2, <2>3
<1>6. ASSUME NEW i \in DOMAIN s, NEW j \in DOMAIN s, i < j PROVE Key[s[i]] <= Key[s[j]]
  <2>0. i \in Int /\ j \in Int
    BY <1>2 DEF s
  <2>1. CASE j \in DOMAIN a /\ s[j] = a[j]
    <3>1. i \in DOMAIN a /\ s[i] = a[i]
      BY <1>2, <1>3, <1>6, <2>0, <2>1
    <3>2. QED
      BY <1>6, <2>1, <3>1 DEF Sorts
  <2>2. CASE j - Len(a) \in DOMAIN b /\ j > Len(a) /\ s[j] = b[j - Len(a)]
    <3>1. CASE i \in DOMAIN a /\ s[i] = a[i]
      BY <1>1, <2>2, <3>1, ItemOf
    <3>2. CASE i - Len(a) \in DOMAIN b /\ s[i] = b[i - Len(a)]
      <4>1. i - Len(a) < j - Len(a)
        BY <1>2, <1>6, <2>0
      <4>2. QED
        BY <2>2, <3>2, <4>1 DEF Sorts
    <3>3. QED
      BY <1>3, <3>1, <3>2
  <2>3. QED
    BY <1>3, <2>1, <2>2
<1>7. QED
  BY <1>1, <1>t, <1>c, <1>5, <1>6 DEF Sorts, s

\* The pivot parts the elements of a chunk.
LEMMA Pivot ==
  ASSUME NEW S \in SUBSET Elements, NEW p \in S
  PROVE  /\ Below(S, p) \subseteq Elements /\ Above(S, p) \subseteq Elements
         /\ S = Below(S, p) \cup ({p} \cup Above(S, p))
         /\ Below(S, p) \cap ({p} \cup Above(S, p)) = {}
         /\ {p} \cap Above(S, p) = {}
         /\ \A x \in Below(S, p), y \in {p} \cup Above(S, p) : Key[x] <= Key[y]
         /\ \A y \in Above(S, p) : Key[p] <= Key[y]
<1>1. \A x \in S : Key[x] \in Int
  BY ElementsAssumption
<1>2. QED
  BY <1>1 DEF Below, Above

LEMMA ShortSorts ==
  ASSUME NEW S \in SUBSET Elements, Cardinality(S) < 2
  PROVE  Sorts(AsList(S), S)
<1>1. IsFiniteSet(S) /\ Cardinality(S) \in Nat
  BY ElementsAssumption, FS_Subset, FS_CardinalityType
<1>2. CASE S = {}
  BY <1>2, SortsFew DEF AsList
<1>3. CASE S # {}
  <2>1. Cardinality(S) = 1
    BY <1>1, <1>3, FS_EmptySet
  <2>2. PICK e : S = {e}
    BY <1>1, <2>1, FS_Singleton
  <2>3. AsList(S) = <<e>>
    BY <2>2 DEF AsList
  <2>4. QED
    BY <2>2, <2>3, SortsFew
<1>4. QED
  BY <1>2, <1>3

LEMMA ListsSplit ==
  ASSUME PoolInv, ListsOK, NEW t \in Threads, Split(t)
  PROVE  ListsOK'
<1>1. PICK given : GivenOK(given)
  BY DEF ListsOK
<1>2. PICK c \in Calls : c = Top(t)
  BY SplitsBusy
<1>3. /\ Lower(c) \in Calls /\ Higher(c) \in Calls /\ phase[c] = "start"
      /\ DOMAIN chunk = Calls /\ DOMAIN result = Calls /\ DOMAIN phase = Calls
  BY <1>2, SplitsBusy DEF Split, ListsOK, PoolInv, TreeInv, TypeOK
<1>4. PICK p \in chunk[c] :
        /\ result' = [result EXCEPT ![c] = <<p>>]
        /\ chunk' = [chunk EXCEPT ![c] = {}, ![Lower(c)] = Below(chunk[c], p),
                                  ![Higher(c)] = Above(chunk[c], p)]
  BY <1>2 DEF Split
<1>5. phase' = [phase EXCEPT ![c] = "higher", ![Lower(c)] = "queued", ![Higher(c)] = "start"]
  BY <1>2 DEF Split
<1>6. /\ c # Lower(c) /\ c # Higher(c) /\ Lower(c) # Higher(c)
      /\ Lower(c) # Root /\ Higher(c) # Root
  BY MaxCallAssumption DEF Calls, Lower, Higher, Root
<1>7. /\ \A d \in Calls \ {c} : Lower(d) # Lower(c) /\ Higher(d) # Higher(c)
      /\ \A d \in Calls : Lower(d) # Higher(c) /\ Higher(d) # Lower(c)
  BY Numbering
<1>8. chunk[c] = given[c] /\ given \in [Calls -> SUBSET Elements] /\ p \in given[c]
  BY <1>1, <1>3, <1>4 DEF GivenOK, CallOK
<1>9. Below(given[c], p) \in SUBSET Elements /\ Above(given[c], p) \in SUBSET Elements
  BY <1>8, Pivot
<1> DEFINE dealt == [given EXCEPT ![Lower(c)] = Below(given[c], p),
                                  ![Higher(c)] = Above(given[c], p)]
<1>10. /\ dealt \in [Calls -> SUBSET Elements]
       /\ dealt[Lower(c)] = Below(given[c], p) /\ dealt[Higher(c)] = Above(given[c], p)
       /\ \A d \in Calls : d # Lower(c) /\ d # Higher(c) => dealt[d] = given[d]
  <2>1. dealt \in [Calls -> SUBSET Elements] /\ dealt[Lower(c)] = Below(given[c], p)
        /\ dealt[Higher(c)] = Above(given[c], p)
    BY <1>3, <1>6, <1>8, <1>9
  <2>2. ASSUME NEW d \in Calls, d # Lower(c), d # Higher(c) PROVE dealt[d] = given[d]
    BY <1>8, <2>2
  <2>3. QED
    BY <2>1, <2>2
<1> HIDE DEF dealt
<1>11. CallOK(c, dealt)'
  <2>1. phase'[c] = "higher" /\ result'[c] = <<p>>
    BY <1>3, <1>4, <1>5, <1>6
  <2>2. SplitAt(c, dealt, p)'
    BY <1>6, <1>8, <1>10, <2>1 DEF SplitAt
  <2>3. QED
    BY <2>1, <2>2 DEF CallOK
<1>12. ASSUME NEW d \in {Lower(c), Higher(c)} PROVE CallOK(d, dealt)'
  <2>1. phase'[d] \in {"queued", "start"} /\ chunk'[d] = dealt[d]
    BY <1>3, <1>4, <1>5, <1>6, <1>8, <1>10
  <2>2. QED
    BY <2>1 DEF CallOK
<1>13. ASSUME NEW d \in Calls, d # c, d # Lower(c), d # Higher(c) PROVE CallOK(d, dealt)'
  <2>1. phase'[d] = phase[d] /\ chunk'[d] = chunk[d] /\ result'[d] = result[d]
        /\ dealt[d] = given[d] /\ CallOK(d, given)
    BY <1>1, <1>3, <1>4, <1>5, <1>10, <1>13 DEF GivenOK
  <2>2. ASSUME phase[d] \in {"higher", "wait"}
        PROVE  dealt[Lower(d)] = given[Lower(d)] /\ dealt[Higher(d)] = given[Higher(d)]
    <3>1. Lower(d) \in Calls /\ Higher(d) \in Calls
      BY <2>2, Numbering DEF PoolInv, TreeInv, Family
    <3>2. QED
      BY <1>7, <1>10, <1>13, <3>1
  <2>3. phase[d] \in {"higher", "wait"} => \A q : SplitAt(d, given, q) => SplitAt(d, dealt, q)'
    BY <2>1, <2>2 DEF SplitAt
  <2>4. Awaited(d)' => Awaited(d)
    <3>1. ASSUME NEW e \in Calls, d = Lower(e), phase'[e] \in {"higher", "wait"}
          PROVE  phase[e] \in {"higher", "wait"}
      BY <1>3, <1>5, <1>13, <3>1
    <3>2. QED
      BY <3>1 DEF Awaited
  <2>5. QED
    BY <2>1, <2>3, <2>4 DEF CallOK
<1>14. GivenOK(dealt)'
  BY <1>1, <1>6, <1>10, <1>11, <1>12, <1>13, Numbering DEF GivenOK
<1>15. QED
  BY <1>3, <1>4, <1>14 DEF ListsOK

LEMMA ListsRun ==
  ASSUME PoolInv, ListsOK, NEW t \in Threads, NEW c \in Calls, RunTask(t, c),
         phase[c] = "queued"
  PROVE  ListsOK'
<1>1. PICK given : GivenOK(given)
  BY DEF ListsOK
<1>2. phase' = [phase EXCEPT ![c] = "start"] /\ UNCHANGED <<chunk, result>>
  BY DEF RunTask
<1>3. \A d \in Calls : phase'[d] = IF d = c THEN "start" ELSE phase[d]
  BY <1>2 DEF PoolInv, TreeInv, TypeOK
<1>4. ASSUME NEW d \in Calls PROVE CallOK(d, given)'
  <2>1. CallOK(d, given)
    BY <1>1 DEF GivenOK
  <2>2. Awaited(d)' => Awaited(d)
    BY <1>3 DEF Awaited
  <2>3. CASE d = c
    BY <1>2, <1>3, <2>1, <2>3 DEF CallOK
  <2>4. CASE d # c
    BY <1>2, <1>3, <2>1, <2>2, <2>4 DEF CallOK, SplitAt
  <2>5. QED
    BY <2>3, <2>4
<1>5. QED
  BY <1>1, <1>2, <1>4 DEF ListsOK, GivenOK

LEMMA ListsReturn ==
  ASSUME PoolInv, ListsOK, NEW t \in Threads, ReturnShort(t) \/ ReturnJoined(t)
  PROVE  ListsOK'
<1>1. PICK given : GivenOK(given)
  BY DEF ListsOK
<1>2. Return(t) /\ Busy(t)
  BY ReturnIsReturn
<1>3. PICK c \in Calls : c = Top(t)
  BY <1>2, TopIsCall DEF PoolInv, TreeInv
<1>4. given \in [Calls -> SUBSET Elements] /\ \A d \in Calls : CallOK(d, given)
  BY <1>1 DEF GivenOK
\* What it returns is sorted.
<1>5. PICK r : ReturnList(t, r) /\ Sorts(r, given[c])
  <2>1. CASE ReturnShort(t)
    <3>1. chunk[c] = given[c] /\ Cardinality(chunk[c]) < 2
      BY <1>3, <1>4, <2>1 DEF ReturnShort, CallOK
    <3>2. QED
      BY <1>3, <1>4, <2>1, <3>1, ShortSorts DEF ReturnShort
  <2>2. CASE ReturnJoined(t)
    <3>1. phase[c] = "wait" /\ phase[Lower(c)] = "done"
      BY <1>3, <2>2 DEF ReturnJoined, Ready
    <3>2. PICK p : SplitAt(c, given, p)
      BY <1>4, <3>1 DEF CallOK
    <3>3. Lower(c) \in Calls
      BY <3>1, Numbering DEF PoolInv, TreeInv, Family
    <3>4. Sorts(result[Lower(c)], Below(given[c], p))
      BY <1>4, <3>1, <3>2, <3>3 DEF CallOK, Awaited, SplitAt
    <3>5. Sorts(result[c], {p} \cup Above(given[c], p)) /\ p \in given[c]
      BY <3>1, <3>2 DEF SplitAt
    <3>6. Sorts(JoinedInFront(c), given[c])
      <4>1. given[c] \in SUBSET Elements
        BY <1>4
      <4>2. QED
        BY <3>4, <3>5, <4>1, Pivot, SortsJoined DEF JoinedInFront
    <3>7. QED
      BY <1>3, <2>2, <3>6 DEF ReturnJoined
  <2>3. QED
    BY <2>1, <2>2
<1>6. /\ phase' = [d \in Calls |-> IF d = c THEN "done"
                                   ELSE IF Higher(d) = c THEN "wait" ELSE phase[d]]
      /\ chunk' = [chunk EXCEPT ![c] = {}]
      /\ result' = [d \in Calls |->
           IF Higher(d) = c THEN result[d] \o r
           ELSE IF d = c THEN IF \E q \in Calls : Higher(q) = c THEN <<>> ELSE r
           ELSE IF d = Lower(c) THEN <<>> ELSE result[d]]
  BY <1>3, <1>5 DEF ReturnList
<1>7. phase[c] \in {"start", "wait"} /\ (phase[c] = "wait" => phase[Lower(c)] = "done")
  BY <1>2, <1>3 DEF Return, CanReturn
<1>8. \A d \in Calls : Higher(d) = c => d # c /\ phase[d] = "higher" /\ Lower(d) # c
  BY <1>3, <1>7, Numbering DEF PoolInv, TreeInv, Family, Live
<1>9. Lower(c) \in Calls => phase[Lower(c)] \in {"none", "done"}
  BY <1>7 DEF PoolInv, TreeInv, Family
<1>10. c # Lower(c) /\ c # Higher(c) /\ \A d \in Calls \ {c} : Lower(d) # Lower(c)
  BY MaxCallAssumption DEF Calls, Lower, Higher
<1>11. \A d \in Calls : Awaited(d)' => Awaited(d) /\ d # Lower(c)
  <2>1. ASSUME NEW e \in Calls, phase'[e] \in {"higher", "wait"}
        PROVE  phase[e] \in {"higher", "wait"} /\ e # c
    BY <1>6, <1>8, <2>1
  <2>2. Lower(c) # Root
    BY Numbering
  <2>3. QED
    BY <1>10, <2>1, <2>2 DEF Awaited
<1>12. CallOK(c, given)'
  <2>1. phase'[c] = "done"
    BY <1>6
  <2>2. ASSUME Awaited(c)' PROVE result'[c] = r
    <3>1. \A q \in Calls : Higher(q) # c
      BY <2>2, Numbering DEF Awaited
    <3>2. QED
      BY <1>6, <3>1
  <2>3. QED
    BY <1>5, <2>1, <2>2 DEF CallOK
<1>13. ASSUME NEW d \in Calls, Higher(d) = c PROVE CallOK(d, given)'
  <2>1. phase'[d] = "wait" /\ phase[d] = "higher" /\ result'[d] = result[d] \o r
    BY <1>6, <1>8, <1>13
  <2>2. PICK p : SplitAt(d, given, p)
    BY <1>4, <2>1 DEF CallOK
  <2>3. /\ p \in given[d] /\ given[d] \in SUBSET Elements /\ result[d] = <<p>>
        /\ given[Lower(d)] = Below(given[d], p) /\ given[c] = Above(given[d], p)
    BY <1>4, <1>13, <2>1, <2>2 DEF SplitAt
  <2>4. Sorts(<<p>>, {p})
    BY <2>3, SortsFew
  <2>5. Sorts(result'[d], {p} \cup Above(given[d], p))
    <3>1. /\ {p} \cap Above(given[d], p) = {}
          /\ \A x \in {p}, y \in Above(given[d], p) : Key[x] <= Key[y]
      BY <2>3, Pivot
    <3>2. Sorts(r, Above(given[d], p))
      BY <1>5, <2>3
    <3>3. QED
      BY <2>1, <2>3, <2>4, <3>1, <3>2, SortsJoined
  <2>6. SplitAt(d, given, p)'
    BY <1>13, <2>1, <2>3, <2>5 DEF SplitAt
  <2>7. QED
    BY <2>1, <2>6 DEF CallOK
<1>14. ASSUME NEW d \in Calls, d # c, Higher(d) # c PROVE CallOK(d, given)'
  <2>1. phase'[d] = phase[d] /\ CallOK(d, given) /\ (Awaited(d)' => Awaited(d) /\ d # Lower(c))
    BY <1>4, <1>6, <1>11, <1>14
  <2>2. chunk'[d] = chunk[d]
    BY <1>6, <1>14 DEF ListsOK
  <2>3. CASE d = Lower(c)
    BY <1>9, <2>1, <2>3 DEF CallOK
  <2>4. CASE d # Lower(c)
    <3>1. result'[d] = result[d]
      BY <1>6, <1>14, <2>4
    <3>2. \A p : SplitAt(d, given, p) => SplitAt(d, given, p)'
      BY <2>1, <3>1 DEF SplitAt
    <3>3. QED
      BY <2>1, <2>2, <3>1, <3>2 DEF CallOK
  <2>5. QED
    BY <2>3, <2>4
<1>15. GivenOK(given)'
  BY <1>1, <1>12, <1>13, <1>14 DEF GivenOK
<1>16. QED
  BY <1>6, <1>15 DEF ListsOK

LEMMA ListsSteps == PoolInv /\ ListsOK /\ [Next]_vars => ListsOK'
<1> SUFFICES ASSUME PoolInv, ListsOK, [Next]_vars PROVE ListsOK'
  OBVIOUS
<1>1. ASSUME UNCHANGED <<phase, chunk, result>> PROVE ListsOK'
  BY <1>1 DEF ListsOK, GivenOK, CallOK, Awaited, SplitAt
<1>2. CASE UNCHANGED vars
  BY <1>1, <1>2 DEF vars, sortVars
<1>3. ASSUME NEW t \in Threads, Idles(t) PROVE ListsOK'
  BY <1>1, <1>3 DEF Idles, NotReady, LoopTest, Yield
<1>4. CASE Destroy \/ Joined \/ UNCHANGED sortVars
  BY <1>1, <1>4 DEF Destroy, Joined, sortVars
<1>5. ASSUME NEW t \in Threads, NEW u \in Threads, NEW c \in Calls,
             at[t] = "pending", RunTask(t, c), Loses(u, c)
      PROVE  ListsOK'
  BY <1>5, RunIsTake, ListsRun
<1>6. CASE Next
  BY <1>3, <1>4, <1>5, <1>6, StepMoves, ListsSplit, ListsReturn DEF Move, Goes, Idles
<1>7. QED
  BY <1>2, <1>6

LEMMA ListsStart == Init => ListsOK
<1> SUFFICES ASSUME Init PROVE ListsOK
  OBVIOUS
<1> DEFINE given == [c \in Calls |-> Elements]
<1>1. /\ chunk = [c \in Calls |-> IF c = Root THEN Elements ELSE {}]
      /\ result = [c \in Calls |-> <<>>]
      /\ \A c \in Calls : phase[c] = IF c = Root THEN "start" ELSE "none"
  BY DEF Init, SharedInit, SortInit, ForkInit
<1>2. GivenOK(given)
  BY <1>1, Numbering DEF GivenOK, CallOK
<1>3. QED
  BY <1>1, <1>2 DEF ListsOK

\* What parallel_quick_sort returns is its list in the order of the keys, with
\* every element once, whatever the pivots are and whatever thread sorts what.
THEOREM AlwaysSorted == Spec => []SortedAtEnd
<1>1. PoolInv /\ ListsOK => SortedAtEnd
  <2> SUFFICES ASSUME PoolInv, ListsOK, at[Main] \in {"destroy", "join", "end"}
               PROVE  /\ Len(result[Root]) = Cardinality(Elements)
                      /\ Elements = Items(result[Root])
                      /\ \A i, j \in DOMAIN result[Root] :
                           i < j => Key[result[Root][i]] <= Key[result[Root][j]]
    BY DEF SortedAtEnd, Items
  <2>1. phase[Root] = "done" /\ Root \in Calls
    BY Numbering, ThreadsAssumption DEF PoolInv, RootOK, PlaceOK
  <2>2. PICK given : GivenOK(given)
    BY DEF ListsOK
  <2>3. Sorts(result[Root], Elements)
    BY <2>1, <2>2 DEF GivenOK, CallOK, Awaited
  <2>4. QED
    BY <2>3 DEF Sorts
<1>2. Spec => [](PoolInv /\ ListsOK)
  <2>1. (PoolInv /\ ListsOK) /\ [Next]_vars => (PoolInv /\ ListsOK)'
    BY PoolSteps, ListsSteps
  <2>2. QED
    BY <2>1, PoolStarts, ListsStart, PTL DEF Spec
<1>3. QED
  BY <1>1, <1>2, PTL
=============================================================================
