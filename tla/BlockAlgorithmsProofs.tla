------------------------ MODULE BlockAlgorithmsProofs ------------------------
(***************************************************************************)
(* The parallel algorithms on ranges are right for every range, every      *)
(* number of hardware threads and every bound of the model: their blocks   *)
(* partition the range, and no call loses an exception, returns something  *)
(* that was not there, leaves out an element, visits one twice or outlives *)
(* its threads.                                                            *)
(*                                                                         *)
(* For each algorithm there is an invariant of the call that goes on (...OK*)
(* below), a formula about how it may have ended (...Ends), and a lemma    *)
(* that every step leads from the first to the first or to the second.  The*)
(* blocks of the first six share a frame, FrameOK; the asynchronous calls  *)
(* of the other four make a tree of ranges, TreeOK.                        *)
(***************************************************************************)
EXTENDS BlockAlgorithms, TLAPS, FiniteSetTheorems

-----------------------------------------------------------------------------
(* Arithmetic.                                                             *)

LEMMA ProductNat ==
  ASSUME NEW a \in Nat, NEW b \in Nat PROVE a * b \in Nat
OBVIOUS

LEMMA ProductGrows ==
  ASSUME NEW a \in Nat, NEW b \in Nat, NEW c \in Nat, a <= b
  PROVE  a * c <= b * c
<1>1. PICK d \in Nat : b = a + d
  <2>1. b - a \in Nat /\ b = a + (b - a)
    OBVIOUS
  <2>2. QED
    BY <2>1
<1>2. b * c = a * c + d * c
  BY <1>1
<1>3. a * c \in Nat /\ d * c \in Nat
  BY <1>1, ProductNat
<1>4. QED
  BY <1>2, <1>3

\* Division by d rounds down.
LEMMA Quotient ==
  ASSUME NEW a \in Nat, NEW d \in Nat \ {0}
  PROVE  /\ a \div d \in Nat
         /\ (a \div d) * d <= a
         /\ a < (a \div d) * d + d
OBVIOUS

-----------------------------------------------------------------------------
(* The blocks.                                                             *)

\* There is a thread, and no more threads than positions.
LEMMA ThreadsInRange ==
  ASSUME NEW len \in Nat \ {0}, NEW hw \in Nat
  PROVE  num_threads(len, hw) \in 1..len
<1> DEFINE M == MinPerThread
           q == max_threads(len)
<1>1. M \in Nat \ {0} /\ len + M - 1 \in Nat
  BY MinPerThreadAssumption
<1>2. q \in Nat /\ q * M <= len + M - 1 /\ len + M - 1 < q * M + M
  BY <1>1, Quotient DEF max_threads
<1>3. q # 0
  <2>1. ASSUME q = 0 PROVE FALSE
    <3>1. q * M = 0
      BY <2>1, <1>1
    <3>2. QED
      BY <3>1, <1>1, <1>2
  <2>2. QED
    BY <2>1
<1>4. q <= len
  <2>1. ASSUME len + 1 <= q PROVE FALSE
    <3>1. (len + 1) * M <= q * M
      BY <1>1, <1>2, <2>1, ProductGrows
    <3>2. len * 1 <= len * M
      <4>1. 1 * len <= M * len
        BY <1>1, ProductGrows
      <4>2. QED
        BY <4>1, <1>1
    <3>3. (len + 1) * M = len * M + M /\ len * M \in Nat
      BY <1>1, ProductNat
    <3>4. QED
      BY <1>1, <1>2, <3>1, <3>2, <3>3
  <2>2. QED
    BY <1>2, <2>1
<1>5. Planned(hw) \in Nat \ {0}
  BY DEF Planned
<1>6. QED
  BY <1>2, <1>3, <1>4, <1>5 DEF num_threads

\* Whatever the length and the hardware, no thread is without work and every
\* position is in one block only.
THEOREM PartitionAlways ==
  ASSUME NEW len \in Nat, NEW hw \in Nat
  PROVE  PartitionOK(len, hw)
<1> DEFINE n == num_threads(len, hw)
           b == block_size(len, hw)
           B(k) == BlockOf(len, hw, k)
<1> SUFFICES ASSUME len > 0
             PROVE  /\ n \in 1..len
                    /\ \A k \in 1..n : B(k) # {} /\ B(k) \subseteq 0..(len - 1)
                    /\ \A p \in 0..(len - 1) : \E k \in 1..n : p \in B(k)
                    /\ \A j, k \in 1..n : j # k => B(j) \cap B(k) = {}
  BY DEF PartitionOK
<1>1. n \in 1..len
  BY ThreadsInRange
<1>2. b \in Nat /\ b * n <= len /\ len < b * n + n
  BY <1>1, Quotient DEF block_size
<1>3. b >= 1
  <2>1. ASSUME b = 0 PROVE FALSE
    BY <1>1, <1>2, <2>1
  <2>2. QED
    BY <1>2, <2>1
\* Block k, without the remainder, ends where block k + 1 begins.
<1>4. ASSUME NEW k \in 1..n
      PROVE  /\ (k - 1) * b \in Nat /\ k * b = (k - 1) * b + b /\ k * b <= len
             /\ \A p \in Int : p \in B(k) <=>
                  (k - 1) * b <= p /\ p < (IF k = n THEN len ELSE k * b)
             /\ B(k) \subseteq Int
  <2>1. k \in Nat /\ k - 1 \in Nat /\ n \in Nat /\ k <= n
    BY <1>1
  <2>2. (k - 1) * b \in Nat
    BY <1>2, <2>1, ProductNat
  <2>3. k * b = (k - 1) * b + b
    BY <1>2, <2>1
  <2>4. k * b <= n * b
    BY <1>2, <2>1, ProductGrows
  <2>5. n * b = b * n
    BY <1>2, <2>1
  <2>6. k * b <= len
    BY <1>2, <2>1, <2>2, <2>3, <2>4, <2>5
  <2>7. B(k) = (k - 1) * b..((IF k = n THEN len ELSE k * b) - 1)
    BY <2>1 DEF BlockOf, block_start, block_end
  <2> HIDE DEF n, b, B
  <2>8. (IF k = n THEN len ELSE k * b) \in Int
    BY <1>2, <2>1
  <2>9. QED
    BY <2>2, <2>3, <2>6, <2>7, <2>8
<1>5. ASSUME NEW k \in 1..n PROVE B(k) # {} /\ B(k) \subseteq 0..(len - 1)
  <2> HIDE DEF n, b, B
  <2>1. (k - 1) * b \in B(k)
    BY <1>1, <1>2, <1>3, <1>4
  <2>2. \A p \in B(k) : p \in 0..(len - 1)
    BY <1>1, <1>2, <1>3, <1>4
  <2>3. QED
    BY <2>1, <2>2
<1>6. ASSUME NEW p \in 0..(len - 1) PROVE \E k \in 1..n : p \in B(k)
  <2> DEFINE q == p \div b
  <2>1. p \in Nat /\ b \in Nat \ {0} /\ n \in Nat
    BY <1>1, <1>2, <1>3
  <2>2. q \in Nat /\ q * b <= p /\ p < q * b + b
    BY <2>1, Quotient
  <2>3. CASE q + 1 < n
    <3>1. q + 1 \in 1..n /\ (q + 1) - 1 = q /\ q + 1 # n
      BY <2>1, <2>2, <2>3
    <3> HIDE DEF n, b, B, q
    <3>2. (q + 1) * b = q * b + b
      BY <1>4, <3>1
    <3>3. p \in B(q + 1) <=> q * b <= p /\ p < (q + 1) * b
      BY <1>4, <2>1, <3>1
    <3>4. p \in B(q + 1)
      BY <2>2, <3>2, <3>3
    <3>5. QED
      BY <3>1, <3>4
  <2>4. CASE n <= q + 1
    <3>1. n \in 1..n /\ n - 1 \in Nat /\ n - 1 <= q
      BY <1>1, <2>1, <2>2, <2>4
    <3>2. (n - 1) * b <= q * b
      BY <2>1, <2>2, <3>1, ProductGrows
    <3>3. (n - 1) * b \in Nat /\ q * b \in Nat
      BY <2>1, <2>2, <3>1, ProductNat
    <3> HIDE DEF n, b, B, q
    <3>4. p \in B(n) <=> (n - 1) * b <= p /\ p < len
      BY <1>4, <2>1, <3>1
    <3>5. p \in B(n)
      BY <2>1, <2>2, <3>2, <3>3, <3>4
    <3>6. QED
      BY <3>1, <3>5
  <2>5. QED
    BY <2>1, <2>2, <2>3, <2>4
<1>7. ASSUME NEW j \in 1..n, NEW k \in 1..n, j < k PROVE B(j) \cap B(k) = {}
  <2>1. j \in Nat /\ k - 1 \in Nat /\ j <= k - 1 /\ j # n
    BY <1>1, <1>7
  <2>2. j * b <= (k - 1) * b
    BY <1>2, <2>1, ProductGrows
  <2>3. j * b \in Nat /\ (k - 1) * b \in Nat
    BY <1>2, <2>1, ProductNat
  <2> HIDE DEF n, b, B
  <2>4. \A p \in B(j) : p \in Int /\ p < j * b
    BY <1>4, <2>1
  <2>5. \A p \in B(k) : p \in Int /\ (k - 1) * b <= p
    BY <1>4
  <2>6. QED
    BY <2>2, <2>3, <2>4, <2>5
<1>8. \A j, k \in 1..n : j # k => B(j) \cap B(k) = {}
  <2> SUFFICES ASSUME NEW j \in 1..n, NEW k \in 1..n, j # k
               PROVE  B(j) \cap B(k) = {}
    OBVIOUS
  <2>1. j < k \/ k < j
    BY <1>1
  <2>2. B(j) \cap B(k) = B(k) \cap B(j)
    OBVIOUS
  <2>3. QED
    BY <1>7, <2>1, <2>2
<1>9. QED
  BY <1>1, <1>5, <1>6, <1>8

-----------------------------------------------------------------------------
(* The calls.                                                              *)

SettingOK == length \in Nat /\ hardware \in Hardware

LEMMA InitSetting == Init => SettingOK
BY RangesAssumption DEF Init, InitFrame, SettingOK

\* No step changes what is called, and with what.
LEMMA SettingStays == [Next]_vars => UNCHANGED setting
<1> USE DEF Proceed, Goto, ReturnAtOnce, StartThread, StartFails, StartFinal, Escape,
            Leave, LeaveByException, frame
<1>1. CallerStep => UNCHANGED setting
  <2>1. LaunchMatrix \/ RefuseSizes \/ ReturnMatrix => UNCHANGED setting
    BY DEF LaunchMatrix, RefuseSizes, ReturnMatrix
  <2>2. QED
    BY <2>1 DEF CallerStep, InSum, InFind, InEach, InRaw, InMatrix, LaunchSum,
         ReturnSum, LaunchSearch, ReturnFound, LaunchApply, IndexEmpty, ReturnEach,
         LaunchRaw, DivideByZero, ReturnRaw
<1>2. LaunchSearchFails \/ LaunchMatrixFails \/ AsyncTrouble => UNCHANGED setting
  BY DEF LaunchSearchFails, LaunchMatrixFails, AsyncTrouble, WorkThrows, quiet
<1>3. ASSUME NEW k \in Ids, SumTrouble(k) \/ EachTrouble(k) \/ RawTrouble(k)
      PROVE  UNCHANGED setting
  BY <1>3 DEF SumTrouble, LaunchSumFails, AdditionThrows, EachTrouble,
         LaunchApplyFails, ApplyThrows, RawTrouble, LaunchRawFails, SumUpThrows,
         LeaveUnjoined
<1>4. ASSUME NEW k \in Ids, Step(k) PROVE UNCHANGED setting
  <2>1. SumStep(k) => UNCHANGED setting
    BY DEF SumStep, SumBlock, SetFirst, Get, GetThrows, AddToLast, AddToRest,
           HandleInThread, HandleInCaller
  <2>2. SearchStep(k) => UNCHANGED setting
    BY DEF SearchStep, StopLooking, Look, SetValue, RaiseFlag, Catch, CatchThrows
  <2>3. EachStep(k) => UNCHANGED setting
    BY DEF EachStep, ApplyBlock, ThreadEnds, Collect, CollectThrows, CollectedAll
  <2>4. RawStep(k) => UNCHANGED setting
    BY DEF RawStep, SumUp, JoinThread, AddResult
  <2>5. ComputeBlock(k) => UNCHANGED setting
    BY DEF ComputeBlock
  <2>6. QED
    BY <1>4, <2>1, <2>2, <2>3, <2>4, <2>5
    DEF Step, InSum, InFind, InEach, InRaw, InMatrix
<1>5. AsyncStep => UNCHANGED setting
  BY DEF AsyncStep, ReturnAsync, CallStep, Work, CutInHalves, CutAtPivot, HandOver,
         OwnReturns, OwnThrows, RunDeferred, GetReturnsHalf, GetThrowsHalf,
         DestroyFuture, quiet
<1>6. QED
  BY <1>1, <1>2, <1>3, <1>4, <1>5 DEF Next, Trouble, InSum, InFind, InEach, InRaw,
         InMatrix, InAsync, vars

LEMMA NextSetting == SettingOK /\ [Next]_vars => SettingOK'
BY SettingStays DEF SettingOK, setting
-----------------------------------------------------------------------------
(* Threads and blocks.                                                     *)

LEMMA NumbersOfThreads ==
  ASSUME SettingOK
  PROVE  /\ threads \in Nat /\ 1..threads \subseteq Ids
         /\ Ids \subseteq Nat \ {0}
         /\ ~IsRaw /\ length > 0 => threads \in 1..length
         /\ ~IsRaw /\ length = 0 => threads = 0
<1>1. Hardware \cup {2} \subseteq Nat
  BY RangesAssumption
<1>2. Ids \subseteq Nat \ {0}
  BY <1>1 DEF Ids
<1>3. Planned(hardware) \in Hardware \cup {2} /\ Planned(hardware) \in Nat
  BY <1>1 DEF SettingOK, Planned
<1>4. 1..Planned(hardware) \subseteq Ids
  BY <1>3 DEF Ids
<1>5. max_threads(length) \in Nat
  <2>1. length + MinPerThread - 1 \in Nat /\ MinPerThread \in Nat \ {0}
    BY MinPerThreadAssumption DEF SettingOK
  <2>2. QED
    BY <2>1, Quotient DEF max_threads
<1>6. (length + 1) \div MinBlockSize \in Nat
  <2>1. length + 1 \in Nat
    BY DEF SettingOK
  <2>2. QED
    BY <2>1, Quotient, MinBlockSizeAssumption
<1>7. threads \in Nat /\ threads <= Planned(hardware)
  <2>1. CASE IsRaw
    BY <1>3, <1>6, <2>1 DEF threads, allowed_threads
  <2>2. CASE ~IsRaw
    BY <1>3, <1>5, <2>2 DEF threads, num_threads
  <2>3. QED
    BY <2>1, <2>2
<1>8. 1..threads \subseteq Ids
  <2>1. 1..threads \subseteq 1..Planned(hardware)
    BY <1>3, <1>7
  <2>2. QED
    BY <1>4, <2>1
<1>9. ~IsRaw /\ length > 0 => threads \in 1..length
  BY ThreadsInRange, RangesAssumption DEF SettingOK, threads
<1>10. ~IsRaw /\ length = 0 => threads = 0
  <2>1. SUFFICES ASSUME ~IsRaw, length = 0 PROVE threads = 0
    OBVIOUS
  <2>2. MinPerThread - 1 \in Nat /\ MinPerThread \in Nat \ {0}
    BY MinPerThreadAssumption
  <2> DEFINE q == (MinPerThread - 1) \div MinPerThread
  <2>3. q \in Nat /\ q * MinPerThread <= MinPerThread - 1
    BY <2>2, Quotient
  <2>4. q = 0
    <3>1. ASSUME 1 <= q PROVE FALSE
      <4> HIDE DEF q
      <4>1. 1 * MinPerThread <= q * MinPerThread
        BY <2>2, <2>3, <3>1, ProductGrows
      <4>2. q * MinPerThread \in Nat
        BY <2>2, <2>3, ProductNat
      <4>3. QED
        BY <2>2, <2>3, <4>1, <4>2
    <3> HIDE DEF q
    <3>2. QED
      BY <2>3, <3>1
  <2>5. max_threads(length) = 0
    <3>1. length + MinPerThread - 1 = MinPerThread - 1
      BY <2>1, <2>2
    <3>2. QED
      BY <2>4, <3>1 DEF max_threads
  <2>6. QED
    BY <1>3, <2>1, <2>5 DEF threads, num_threads
<1>11. QED
  BY <1>2, <1>7, <1>8, <1>9, <1>10

\* The blocks of an algorithm that is not the accumulate of raw threads.
LEMMA BlocksOfCall ==
  ASSUME SettingOK, ~IsRaw, length > 0
  PROVE  /\ \A k \in 1..threads :
              /\ begin(k) \in Nat /\ end(k) \in Nat
              /\ begin(k) < end(k) /\ end(k) <= length
         /\ \A p \in Positions : \E k \in 1..threads : p \in Block(k)
         /\ \A j, k \in 1..threads : j # k => Block(j) \cap Block(k) = {}
<1> DEFINE n == num_threads(length, hardware)
<1>1. n = threads
  BY DEF threads
<1>2. PartitionOK(length, hardware)
  BY PartitionAlways, RangesAssumption DEF SettingOK
<1>3. \A k \in 1..n : Block(k) = BlockOf(length, hardware, k)
  BY DEF Block, begin, end, BlockOf
<1>4. /\ n \in 1..length
      /\ \A k \in 1..n : Block(k) # {} /\ Block(k) \subseteq 0..(length - 1)
      /\ \A p \in 0..(length - 1) : \E k \in 1..n : p \in Block(k)
      /\ \A j, k \in 1..n : j # k => Block(j) \cap Block(k) = {}
  <2> HIDE DEF n
  <2>1. /\ n \in 1..length
        /\ \A k \in 1..n : BlockOf(length, hardware, k) # {}
             /\ BlockOf(length, hardware, k) \subseteq 0..(length - 1)
        /\ \A p \in 0..(length - 1) : \E k \in 1..n : p \in BlockOf(length, hardware, k)
        /\ \A j, k \in 1..n : j # k =>
             BlockOf(length, hardware, j) \cap BlockOf(length, hardware, k) = {}
    BY <1>2 DEF PartitionOK, n
  <2>2. QED
    BY <1>3, <2>1
<1>5. ASSUME NEW k \in 1..n
      PROVE  begin(k) \in Nat /\ end(k) \in Nat /\ begin(k) < end(k) /\ end(k) <= length
  <2>1. length \in Nat /\ n \in Nat \ {0} /\ k \in Nat /\ k - 1 \in Nat
    BY <1>4 DEF SettingOK
  <2>2. block_size(length, hardware) \in Nat
    BY <2>1, Quotient DEF block_size
  <2>3. begin(k) \in Nat
    BY <2>1, <2>2, ProductNat DEF begin, block_start
  <2>4. end(k) \in Nat
    <3>1. k * block_size(length, hardware) \in Nat
      BY <2>1, <2>2, ProductNat
    <3>2. QED
      BY <2>1, <3>1 DEF end, block_end
  <2>5. Block(k) # {} /\ Block(k) \subseteq 0..(length - 1)
    BY <1>4
  <2> HIDE DEF n
  <2>6. PICK p : p \in begin(k)..(end(k) - 1)
    BY <2>5 DEF Block
  <2>7. begin(k) < end(k)
    BY <2>3, <2>4, <2>6
  <2>8. end(k) - 1 \in Block(k)
    BY <2>3, <2>4, <2>7 DEF Block
  <2>9. end(k) - 1 \in 0..(length - 1)
    BY <2>5, <2>8
  <2>10. QED
    BY <2>1, <2>3, <2>4, <2>7, <2>9
<1> HIDE DEF n
<1>6. QED
  BY <1>1, <1>4, <1>5 DEF Positions
-----------------------------------------------------------------------------
(* The frame.                                                              *)

\* The threads have numbers, and the caller takes its block when all others
\* have been started.
FrameOK(places) ==
  /\ pc \in [Ids -> places \cup {"off", "end", "thrown"}]
  /\ started \in Nat /\ throws \in Nat
  /\ started = 0 \/ started < threads
  /\ \A k \in Ids : k <= started => pc[k] # "off"
  /\ \A k \in Ids : pc[k] # "off" => k <= started \/ k = Final
  /\ \A k \in Ids : pc[k] = "thrown" => k = Final
  /\ threads > 0 /\ pc[Final] \notin {"off", "thrown"} => started = threads - 1

LEMMA SameFrame ==
  ASSUME UNCHANGED setting
  PROVE  /\ threads' = threads /\ Final' = Final /\ IsRaw' = IsRaw
         /\ Positions' = Positions
         /\ \A k : begin(k)' = begin(k) /\ end(k)' = end(k) /\ Block(k)' = Block(k)
BY DEF setting, threads, Final, IsRaw, allowed_threads, Positions, begin, end, Block,
       raw_block_size

LEMMA FrameStarts ==
  ASSUME Init, NEW places PROVE FrameOK(places)
<1>1. SettingOK
  BY InitSetting
<1>2. \A k \in Ids : pc[k] = "off"
  BY DEF Init, InitFrame
<1>3. threads > 0 => Final \in Ids
  BY <1>1, NumbersOfThreads DEF Final
<1>4. QED
  BY <1>1, <1>2, <1>3, NumbersOfThreads DEF Init, InitFrame, FrameOK

\* What is started is in the range of the frame.
LEMMA InFrame ==
  ASSUME SettingOK, NEW places, FrameOK(places)
  PROVE  /\ threads \in Nat /\ (threads > 0 => Final \in Ids)
         /\ \A k \in Ids : pc[k] # "off" => k \in 1..threads /\ threads > 0
<1>1. threads \in Nat /\ 1..threads \subseteq Ids /\ Ids \subseteq Nat \ {0}
  BY NumbersOfThreads
<1>2. threads > 0 => Final \in Ids
  BY <1>1 DEF Final
<1>3. ASSUME NEW k \in Ids, pc[k] # "off" PROVE k \in 1..threads /\ threads > 0
  <2>1. k <= started \/ k = threads
    BY <1>3 DEF FrameOK, Final
  <2>2. QED
    BY <1>1, <2>1 DEF FrameOK
<1>4. QED
  BY <1>1, <1>2, <1>3

LEMMA FrameProceeds ==
  ASSUME SettingOK, NEW places, FrameOK(places), NEW k \in Ids, NEW l,
         pc[k] \notin {"off", "thrown"}, Proceed(k, l),
         l \in (places \ {"off"}) \cup {"end", "thrown"},
         l = "thrown" => k = Final, throws' \in Nat
  PROVE  FrameOK(places)'
<1>1. threads' = threads /\ Final' = Final
  BY SameFrame DEF Proceed
<1>2. pc' = [pc EXCEPT ![k] = l] /\ started' = started
  BY DEF Proceed, Goto
<1>3. \A j \in Ids : pc'[j] = IF j = k THEN l ELSE pc[j]
  BY <1>2 DEF FrameOK
<1>4. pc' \in [Ids -> places \cup {"off", "end", "thrown"}]
  BY <1>2 DEF FrameOK
<1>5. \A j \in Ids : j <= started' => pc'[j] # "off"
  BY <1>2, <1>3 DEF FrameOK
<1>6. \A j \in Ids : pc'[j] # "off" => j <= started' \/ j = Final'
  BY <1>1, <1>2, <1>3 DEF FrameOK
<1>7. \A j \in Ids : pc'[j] = "thrown" => j = Final'
  BY <1>1, <1>3 DEF FrameOK
<1>8. ASSUME threads > 0, pc'[Final] \notin {"off", "thrown"} PROVE started = threads - 1
  <2>1. Final \in Ids
    BY <1>8, InFrame
  <2>2. pc[Final] \notin {"off", "thrown"}
    BY <1>3, <1>8, <2>1
  <2>3. QED
    BY <1>8, <2>2 DEF FrameOK
<1>9. QED
  BY <1>1, <1>2, <1>3, <1>4, <1>5, <1>6, <1>7, <1>8 DEF FrameOK

\* A thread is started, or the caller begins with its own block.
LEMMA FrameLaunches ==
  ASSUME SettingOK, NEW places, FrameOK(places), NEW l \in places,
         l \notin {"off", "thrown"}, throws' \in Nat,
         StartThread(l) \/ StartFinal(l)
  PROVE  /\ FrameOK(places)' /\ UNCHANGED setting /\ outcome' = outcome
         /\ \E k \in 1..threads :
              /\ pc[k] = "off" /\ pc' = [pc EXCEPT ![k] = l]
              /\ StartThread(l) => k = started' /\ k # Final
              /\ StartFinal(l) => k = Final
<1>1. threads \in Nat \ {0} /\ Final \in Ids /\ pc[Final] = "off" /\ started \in Nat
  BY InFrame DEF StartThread, StartFinal, Starting, FrameOK
<1>2. 1..threads \subseteq Ids /\ Ids \subseteq Nat \ {0}
  BY NumbersOfThreads
<1>3. UNCHANGED setting /\ outcome' = outcome
  BY DEF StartThread, StartFinal, Proceed
<1>4. threads' = threads /\ Final' = Final
  BY <1>3, SameFrame
<1>5. CASE StartThread(l)
  <2>1. started' = started + 1 /\ started' < threads /\ pc' = [pc EXCEPT ![started'] = l]
    BY <1>1, <1>5 DEF StartThread, Goto
  <2>2. started' \in 1..threads /\ started' \in Ids /\ started' # Final
    BY <1>1, <1>2, <2>1 DEF Final
  <2>3. pc[started'] = "off"
    BY <1>1, <2>1, <2>2 DEF FrameOK
  <2>4. \A k \in Ids : pc'[k] = IF k = started' THEN l ELSE pc[k]
    BY <2>1 DEF FrameOK
  <2>5. pc' \in [Ids -> places \cup {"off", "end", "thrown"}]
    BY <2>1 DEF FrameOK
  <2>6. \A k \in Ids : k <= started' => pc'[k] # "off"
    <3>1. \A k \in Ids : k <= started' /\ k # started' => k <= started
      BY <1>1, <1>2, <2>1
    <3>2. QED
      BY <2>4, <3>1 DEF FrameOK
  <2>7. \A k \in Ids : pc'[k] # "off" => k <= started' \/ k = Final'
    <3>1. \A k \in Ids : k <= started => k <= started'
      BY <1>1, <1>2, <2>1
    <3>2. started' <= started'
      BY <2>2
    <3>3. QED
      BY <1>4, <2>4, <3>1, <3>2 DEF FrameOK
  <2>8. FrameOK(places)'
    BY <1>1, <1>4, <2>1, <2>2, <2>4, <2>5, <2>6, <2>7 DEF FrameOK
  <2>9. ~StartFinal(l)
    BY <1>5, <2>1, <1>1 DEF StartThread, StartFinal, Proceed
  <2>10. QED
    BY <1>3, <2>1, <2>2, <2>3, <2>8, <2>9
<1>6. CASE StartFinal(l)
  <2>1. started' = started /\ started = threads - 1 /\ pc' = [pc EXCEPT ![Final] = l]
    BY <1>6 DEF StartFinal, Proceed, Goto
  <2>2. \A k \in Ids : pc'[k] = IF k = Final THEN l ELSE pc[k]
    BY <2>1 DEF FrameOK
  <2>3. pc' \in [Ids -> places \cup {"off", "end", "thrown"}]
    BY <2>1 DEF FrameOK
  <2>4. FrameOK(places)'
    BY <1>1, <1>4, <2>1, <2>2, <2>3 DEF FrameOK
  <2>5. ~StartThread(l)
    BY <1>1, <1>6, <2>1 DEF StartThread
  <2>6. Final \in 1..threads
    BY <1>1 DEF Final
  <2>7. QED
    BY <1>1, <1>3, <2>1, <2>4, <2>5, <2>6
<1>7. QED
  BY <1>5, <1>6

LEMMA FrameFails ==
  ASSUME SettingOK, NEW places, FrameOK(places), throws' \in Nat, StartFails
  PROVE  /\ FrameOK(places)' /\ UNCHANGED setting /\ outcome' = outcome
         /\ Final \in 1..threads /\ pc[Final] = "off"
         /\ pc' = [pc EXCEPT ![Final] = "thrown"]
<1>1. threads \in Nat \ {0} /\ Final \in Ids /\ pc[Final] = "off" /\ started \in Nat
  BY InFrame DEF StartFails, Starting, FrameOK
<1>2. UNCHANGED setting /\ outcome' = outcome /\ started' = started
      /\ pc' = [pc EXCEPT ![Final] = "thrown"]
  BY DEF StartFails, Proceed, Goto
<1>3. threads' = threads /\ Final' = Final
  BY <1>2, SameFrame
<1>4. \A k \in Ids : pc'[k] = IF k = Final THEN "thrown" ELSE pc[k]
  BY <1>2 DEF FrameOK
<1>5. pc' \in [Ids -> places \cup {"off", "end", "thrown"}]
  BY <1>2 DEF FrameOK
<1>6. FrameOK(places)'
  BY <1>1, <1>2, <1>3, <1>4, <1>5 DEF FrameOK
<1>7. Final \in 1..threads
  BY <1>1 DEF Final
<1>8. QED
  BY <1>1, <1>2, <1>6, <1>7

\* Who leaves when all threads are joined leaves no block behind.
LEMMA FrameEnds ==
  ASSUME SettingOK, NEW places, FrameOK(places), AllJoined,
         pc[Final] \in {"off", "end", "thrown"}
  PROVE  \A k \in Ids : pc[k] \in {"off", "end", "thrown"}
<1> SUFFICES ASSUME NEW k \in Ids, pc[k] # "off", k # Final
             PROVE  pc[k] = "end"
  OBVIOUS
<1>1. Ids \subseteq Nat \ {0} /\ started \in Nat /\ k <= started
  BY NumbersOfThreads DEF FrameOK
<1>2. k \in 1..started
  BY <1>1
<1>3. QED
  BY <1>2 DEF AllJoined

CallSafe ==
  /\ ThrownIsReported /\ FoundIsMatch /\ DiesOnlyOf /\ EveryElementOnce
  /\ NothingOutlivesCall

\* While the caller's range is not empty, nothing is started on an empty one.
LEMMA NothingToDo ==
  ASSUME SettingOK, NEW places, FrameOK(places), ~IsRaw, length = 0
  PROVE  \A k \in Ids : pc[k] = "off"
BY NumbersOfThreads, InFrame
-----------------------------------------------------------------------------
(* Partial sums: a block is handed a value only if all blocks before it    *)
(* were, and an exception is on its way to the caller until it gets there. *)

SumPlaces == {"sum", "set", "get", "last", "rest", "catch"}
HasValue(k) == promise[k].holds = "value"

Unhanded(k) ==
  pc[k] \in {"off", "sum", "set", "get", "last"} \/ k = Final => promise[k] = Unset
HandedOn(k) ==
  /\ pc[k] = "set" => k = 1
  /\ pc[k] \in {"get", "last", "rest"} => k > 1
  /\ k > 1 /\ (pc[k] \in {"last", "rest"} \/ (pc[k] = "end" /\ promise[k] # Failed)) =>
       HasValue(k - 1)
  /\ HasValue(k) => \A j \in Ids : j < k => HasValue(j)
UnderWay(k) == pc[k] \in {"catch", "thrown"} \/ promise[k] = Failed

SumOK ==
  /\ FrameOK(SumPlaces)
  /\ DOMAIN promise = Ids
  /\ \A k \in Ids : Unhanded(k) /\ HandedOn(k)
  /\ \A k \in Ids : pc[k] = "catch" \/ promise[k] = Failed => throws > 0
  /\ throws > 0 => \E k \in Ids : UnderWay(k)

SumEnds ==
  /\ outcome \in {Running, Returned, Threw, Terminated}
  /\ outcome = Terminated => throws > 0
  /\ outcome = Returned => throws = 0
  /\ outcome \notin {Running, Terminated} => NoBlockOutlivesCall

SumMove ==
  \/ LaunchSum \/ ReturnSum
  \/ \E k \in Ids : SumStep(k) \/ SumTrouble(k)

LEMMA Outcomes ==
  /\ Unset # Failed /\ \A v : Value(v) # Unset /\ Value(v) # Failed /\ Value(v).holds = "value"
  /\ Unset.holds # "value" /\ Failed.holds # "value"
BY DEF Unset, Failed, Value

LEMMA SumStarts == Init /\ algorithm = "partial_sum" => SumOK
<1> SUFFICES ASSUME Init PROVE SumOK
  OBVIOUS
<1>1. FrameOK(SumPlaces)
  BY FrameStarts
<1>2. /\ DOMAIN promise = Ids /\ throws = 0
      /\ \A k \in Ids : promise[k] = Unset /\ pc[k] = "off"
  BY DEF Init, InitFrame, SumInit
<1>3. QED
  BY <1>1, <1>2, Outcomes DEF SumOK, Unhanded, HandedOn, HasValue

\* The work on block k goes on, and no other block is changed.
LEMMA SumProceeds ==
  ASSUME SettingOK, SumOK, NEW k \in Ids, NEW l, Proceed(k, l),
         pc[k] \notin {"off", "thrown"}, l \in SumPlaces \cup {"end", "thrown"},
         l = "thrown" => k = Final,
         DOMAIN promise' = Ids, \A j \in Ids : j # k => promise'[j] = promise[j],
         throws' \in Nat, throws' >= throws,
         Unhanded(k)', HandedOn(k)', HasValue(k) => HasValue(k)',
         l = "catch" \/ promise'[k] = Failed => throws' > 0,
         UnderWay(k) \/ throws' > throws => UnderWay(k)'
  PROVE  SumOK'
<1>1. FrameOK(SumPlaces)'
  <2>1. l \in (SumPlaces \ {"off"}) \cup {"end", "thrown"}
    BY DEF SumPlaces
  <2>2. QED
    BY <2>1, FrameProceeds DEF SumOK
<1>2. \A j \in Ids : pc'[j] = IF j = k THEN l ELSE pc[j]
  BY DEF Proceed, Goto, SumOK, FrameOK
<1>3. Final' = Final
  BY SameFrame DEF Proceed
<1>4. \A j \in Ids : HasValue(j) => HasValue(j)'
  BY DEF HasValue
<1>5. ASSUME NEW j \in Ids, j # k PROVE Unhanded(j)' /\ HandedOn(j)'
  <2>1. Unhanded(j) /\ HandedOn(j) /\ pc'[j] = pc[j] /\ promise'[j] = promise[j]
    BY <1>2, <1>5 DEF SumOK
  <2>2. Unhanded(j)'
    BY <1>3, <2>1 DEF Unhanded
  <2>3. j > 1 /\ pc'[j] # "off" => j - 1 \in Ids
    <3>1. SUFFICES ASSUME j > 1, pc[j] # "off" PROVE j - 1 \in Ids
      BY <2>1
    <3>2. j \in 1..threads /\ threads \in Nat
      BY <3>1, InFrame DEF SumOK
    <3>3. j - 1 \in 1..threads
      BY <3>1, <3>2
    <3>4. QED
      BY <3>3, NumbersOfThreads
  <2>4. HasValue(j)' <=> HasValue(j)
    BY <2>1 DEF HasValue
  <2>5. QED
    BY <1>4, <2>1, <2>2, <2>3, <2>4 DEF HandedOn
<1>6. \A j \in Ids : pc'[j] = "catch" \/ promise'[j] = Failed => throws' > 0
  BY <1>2, NumbersOfThreads DEF SumOK, FrameOK
<1>7. throws' > 0 => \E j \in Ids : UnderWay(j)'
  <2>1. SUFFICES ASSUME throws' > 0 PROVE \E j \in Ids : UnderWay(j)'
    OBVIOUS
  <2>2. CASE throws' > throws
    BY <2>2
  <2>3. CASE throws' = throws
    <3>1. PICK j \in Ids : UnderWay(j)
      BY <2>1, <2>3 DEF SumOK
    <3>2. UnderWay(j)'
      BY <1>2, <3>1 DEF UnderWay
    <3>3. QED
      BY <3>2
  <2>4. QED
    BY <2>2, <2>3 DEF SumOK, FrameOK
<1>8. QED
  BY <1>1, <1>5, <1>6, <1>7 DEF SumOK

\* What has been thrown is seen by the caller before it returns.
LEMMA SumReturns ==
  ASSUME SettingOK, SumOK, threads > 0, AllJoined, pc[Final] = "end"
  PROVE  throws = 0
<1> USE Outcomes
<1>1. Ids \subseteq Nat \ {0} /\ throws \in Nat /\ threads \in Nat
  BY NumbersOfThreads DEF SumOK, FrameOK
<1>2. SUFFICES ASSUME NEW k \in Ids, UnderWay(k) PROVE FALSE
  BY <1>1 DEF SumOK
<1>3. Final \in Ids
  BY InFrame DEF SumOK
<1>4. \A j \in Ids : pc[j] \in {"off", "end", "thrown"}
  BY <1>3, FrameEnds DEF SumOK
<1>5. pc[k] # "thrown" /\ pc[k] # "catch"
  BY <1>2, <1>4 DEF SumOK, FrameOK
<1>6. promise[k] = Failed
  BY <1>2, <1>5 DEF UnderWay
<1>7. pc[k] # "off" /\ k # Final /\ promise[Final] = Unset
  BY <1>3, <1>6 DEF SumOK, Unhanded
<1>8. k \in 1..threads /\ k < Final
  BY <1>1, <1>7, InFrame DEF SumOK, Final
<1>9. Final - 1 \in Ids /\ Final > 1 /\ k <= Final - 1
  <2>1. Final - 1 \in 1..threads /\ Final > 1 /\ k <= Final - 1
    BY <1>1, <1>8 DEF Final
  <2>2. QED
    BY <2>1, NumbersOfThreads
<1>10. HasValue(Final - 1)
  BY <1>3, <1>7, <1>9 DEF SumOK, HandedOn
<1>11. HasValue(k)
  <2>1. k = Final - 1 \/ k < Final - 1
    BY <1>1, <1>3, <1>9
  <2>2. QED
    BY <1>9, <1>10, <2>1 DEF SumOK, HandedOn
<1>12. QED
  BY <1>6, <1>11 DEF HasValue

\* A step of a block: the proof has one step for each of its actions.
LEMMA SumMoves ==
  ASSUME SettingOK, ~IsRaw, SumOK, Alive, SumMove
  PROVE  SumEnds' /\ (Alive' => SumOK')
<1> USE Outcomes
<1>1. Ids \subseteq Nat \ {0} /\ throws \in Nat
  BY NumbersOfThreads DEF SumOK, FrameOK
<1>2. CASE LaunchSum
  <2>1. StartThread("sum") \/ StartFinal("sum")
    BY <1>2 DEF LaunchSum
  <2>2. UNCHANGED <<promise, throws>>
    BY <1>2 DEF LaunchSum
  <2>3. FrameOK(SumPlaces)
    BY DEF SumOK
  <2>4. /\ FrameOK(SumPlaces)' /\ UNCHANGED setting /\ outcome' = outcome
        /\ \E k \in 1..threads : pc[k] = "off" /\ pc' = [pc EXCEPT ![k] = "sum"]
    <3>1. "sum" \in SumPlaces /\ throws' \in Nat
      BY <1>1, <2>2 DEF SumPlaces
    <3>2. QED
      BY <2>1, <2>3, <3>1, FrameLaunches
  <2>5. Final' = Final
    BY <2>4, SameFrame
  <2>6. PICK k \in Ids : pc[k] = "off" /\ pc' = [pc EXCEPT ![k] = "sum"]
    BY <2>4, NumbersOfThreads
  <2>7. \A j \in Ids : pc'[j] = IF j = k THEN "sum" ELSE pc[j]
    BY <2>6 DEF SumOK, FrameOK
  <2>8. \A j \in Ids : Unhanded(j)' /\ HandedOn(j)'
    BY <2>2, <2>5, <2>6, <2>7 DEF SumOK, Unhanded, HandedOn, HasValue
  <2>9. throws' > 0 => \E j \in Ids : UnderWay(j)'
    BY <2>2, <2>6, <2>7 DEF SumOK, UnderWay
  <2>10. SumOK'
    BY <2>2, <2>4, <2>7, <2>8, <2>9 DEF SumOK
  <2>11. SumEnds'
    BY <2>4 DEF Alive, SumEnds, Running, Returned, Threw, Terminated
  <2>12. QED
    BY <2>10, <2>11
<1>3. CASE ReturnSum
  <2>1. UNCHANGED <<setting, pc, throws>> /\ Final' = Final
    BY <1>3, SameFrame DEF ReturnSum, ReturnAtOnce, LeaveByException, Leave
  <2>2. CASE ReturnAtOnce(Returned)
    <3>1. outcome' = Returned /\ \A k \in Ids : pc[k] = "off"
      BY <2>2, NothingToDo DEF ReturnAtOnce, SumOK
    <3>2. throws = 0
      <4>1. ASSUME NEW k \in Ids, UnderWay(k) PROVE FALSE
        BY <3>1, <4>1 DEF SumOK, UnderWay, Unhanded
      <4>2. QED
        BY <1>1, <4>1 DEF SumOK
    <3>3. QED
      BY <2>1, <3>1, <3>2
      DEF SumEnds, NoBlockOutlivesCall, Alive, Returned, Running, Terminated
  <2>3. CASE length > 0 /\ pc[Final] = "end" /\ Leave(Returned)
    <3>1. outcome' = Returned /\ AllJoined /\ threads > 0
      BY <2>3, NumbersOfThreads DEF Leave
    <3>2. throws = 0
      BY <2>3, <3>1, SumReturns
    <3>3. \A k \in Ids : pc[k] \in {"off", "end", "thrown"}
      BY <2>3, <3>1, FrameEnds DEF SumOK
    <3>4. QED
      BY <2>1, <3>1, <3>2, <3>3
      DEF SumEnds, NoBlockOutlivesCall, Alive, Returned, Running, Terminated
  <2>4. CASE LeaveByException
    <3>1. outcome' = Threw /\ AllJoined /\ pc[Final] = "thrown"
      BY <2>4 DEF LeaveByException, Leave
    <3>2. \A k \in Ids : pc[k] \in {"off", "end", "thrown"}
      BY <3>1, FrameEnds DEF SumOK
    <3>3. QED
      BY <2>1, <3>1, <3>2
      DEF SumEnds, NoBlockOutlivesCall, Alive, Threw, Returned, Running, Terminated
  <2>5. QED
    BY <1>3, <2>2, <2>3, <2>4 DEF ReturnSum
<1>4. ASSUME LaunchSumFails PROVE SumEnds' /\ (Alive' => SumOK')
  <2>1. throws' = throws + 1 /\ StartFails /\ promise' = promise
    BY <1>4 DEF LaunchSumFails
  <2>2. /\ FrameOK(SumPlaces)' /\ UNCHANGED setting /\ outcome' = outcome
        /\ Final \in 1..threads /\ pc[Final] = "off"
        /\ pc' = [pc EXCEPT ![Final] = "thrown"]
    <3>1. throws' \in Nat /\ FrameOK(SumPlaces)
      BY <1>1, <2>1 DEF SumOK
    <3>2. QED
      BY <2>1, <3>1, FrameFails
  <2>3. Final' = Final /\ Final \in Ids
    BY <2>2, SameFrame, NumbersOfThreads
  <2>4. \A j \in Ids : pc'[j] = IF j = Final THEN "thrown" ELSE pc[j]
    BY <2>2 DEF SumOK, FrameOK
  <2>5. \A j \in Ids : Unhanded(j)' /\ HandedOn(j)'
    BY <2>1, <2>3, <2>4 DEF SumOK, Unhanded, HandedOn, HasValue
  <2>6. UnderWay(Final)' /\ throws' > 0
    BY <1>1, <2>1, <2>3, <2>4 DEF UnderWay
  <2>7. SumOK'
    BY <2>1, <2>2, <2>3, <2>5, <2>6 DEF SumOK
  <2>8. SumEnds'
    BY <2>2 DEF Alive, SumEnds, Running, Returned, Threw, Terminated
  <2>9. QED
    BY <2>7, <2>8
<1>5. ASSUME NEW k \in Ids, SumStep(k) \/ AdditionThrows(k)
      PROVE  SumEnds' /\ (Alive' => SumOK')
  <2>1. Unhanded(k) /\ HandedOn(k) /\ DOMAIN promise = Ids
        /\ (pc[k] = "catch" \/ promise[k] = Failed => throws > 0)
    BY DEF SumOK
  <2>2. k \in Nat \ {0} /\ throws >= throws
    BY <1>1
  \* Where the call goes on, block k is the only one to look at.
  <2>3. ASSUME NEW l, Proceed(k, l), SumOK' PROVE SumEnds' /\ (Alive' => SumOK')
    BY <2>3 DEF Proceed, SumEnds, Alive, Running, Returned, Threw, Terminated
  <2>4. ASSUME NEW l, Proceed(k, l), pc[k] \notin {"off", "thrown"}
        PROVE  pc'[k] = l /\ Final' = Final
    BY <2>4, SameFrame DEF Proceed, Goto, SumOK, FrameOK
  <2>5. pc[k] # "off" /\ k > 1 => k - 1 \in Ids
    <3>1. SUFFICES ASSUME k > 1, pc[k] # "off" PROVE k - 1 \in Ids
      OBVIOUS
    <3>2. k \in 1..threads /\ threads \in Nat
      BY <3>1, InFrame DEF SumOK
    <3>3. k - 1 \in 1..threads
      BY <3>1, <3>2
    <3>4. QED
      BY <3>3, NumbersOfThreads
  <2>6. CASE SumBlock(k)
    <3>1. /\ Proceed(k, (IF k = 1 THEN "set" ELSE "get")) /\ pc[k] = "sum"
          /\ UNCHANGED <<promise, throws>>
      BY <2>6 DEF SumBlock
    <3>2. pc'[k] = (IF k = 1 THEN "set" ELSE "get") /\ Final' = Final
      BY <2>4, <3>1
    <3>3. Unhanded(k)' /\ HandedOn(k)'
      BY <2>1, <2>2, <2>5, <3>1, <3>2 DEF Unhanded, HandedOn, HasValue
    <3>4. SumOK'
      BY <1>1, <2>1, <2>2, <3>1, <3>2, <3>3, SumProceeds DEF UnderWay, HasValue, SumPlaces
    <3>5. QED
      BY <2>3, <3>1, <3>4
  <2>7. CASE SetFirst(k)
    <3>1. /\ Proceed(k, "end") /\ pc[k] = "set" /\ throws' = throws
          /\ promise' = IF k = Final THEN promise
                        ELSE [promise EXCEPT ![k] = Value(list[last(k)])]
      BY <2>7 DEF SetFirst
    <3>2. pc'[k] = "end" /\ Final' = Final
      BY <2>4, <3>1
    <3>3. /\ DOMAIN promise' = Ids /\ \A j \in Ids : j # k => promise'[j] = promise[j]
          /\ k = Final => promise'[k] = promise[k]
          /\ k # Final => promise'[k] = Value(list[last(k)])
      BY <2>1, <3>1
    <3>4. k = 1 /\ promise[k] = Unset
      BY <2>1, <3>1 DEF HandedOn, Unhanded
    <3>5. Unhanded(k)' /\ HandedOn(k)'
      BY <1>1, <3>2, <3>3, <3>4 DEF Unhanded, HandedOn, HasValue
    <3>6. SumOK'
      BY <1>1, <2>1, <2>2, <3>1, <3>2, <3>3, <3>4, <3>5, SumProceeds
      DEF UnderWay, HasValue, SumPlaces
    <3>7. QED
      BY <2>3, <3>1, <3>6
  <2>8. CASE Get(k)
    <3>1. Proceed(k, "last") /\ pc[k] = "get" /\ HasValue(k - 1) /\ UNCHANGED <<promise, throws>>
      BY <2>8 DEF Get, HasValue
    <3>2. pc'[k] = "last" /\ Final' = Final
      BY <2>4, <3>1
    <3>3. Unhanded(k)' /\ HandedOn(k)'
      BY <2>1, <2>2, <2>5, <3>1, <3>2 DEF Unhanded, HandedOn, HasValue
    <3>4. SumOK'
      BY <1>1, <2>1, <2>2, <3>1, <3>2, <3>3, SumProceeds DEF UnderWay, HasValue, SumPlaces
    <3>5. QED
      BY <2>3, <3>1, <3>4
  <2>9. CASE GetThrows(k)
    <3>1. /\ Proceed(k, "catch") /\ pc[k] = "get" /\ promise[k - 1] = Failed
          /\ UNCHANGED <<promise, throws>>
      BY <2>9 DEF GetThrows
    <3>2. pc'[k] = "catch" /\ Final' = Final
      BY <2>4, <3>1
    <3>3. k > 1 /\ k - 1 \in Ids /\ throws > 0
      BY <2>1, <2>5, <3>1 DEF HandedOn, SumOK
    <3>4. Unhanded(k)' /\ HandedOn(k)'
      BY <2>1, <3>1, <3>2 DEF Unhanded, HandedOn, HasValue
    <3>5. SumOK'
      BY <1>1, <2>1, <2>2, <3>1, <3>2, <3>3, <3>4, SumProceeds
      DEF UnderWay, HasValue, SumPlaces
    <3>6. QED
      BY <2>3, <3>1, <3>5
  <2>10. CASE AddToLast(k)
    <3>1. /\ Proceed(k, "rest") /\ pc[k] = "last" /\ throws' = throws
          /\ promise' = IF k = Final THEN promise
                        ELSE [promise EXCEPT ![k] = Value(list'[last(k)])]
      BY <2>10 DEF AddToLast
    <3>2. pc'[k] = "rest" /\ Final' = Final
      BY <2>4, <3>1
    <3>3. /\ DOMAIN promise' = Ids /\ \A j \in Ids : j # k => promise'[j] = promise[j]
          /\ k = Final => promise'[k] = promise[k]
          /\ k # Final => promise'[k] = Value(list'[last(k)])
      BY <2>1, <3>1
    <3>4. k > 1 /\ k - 1 \in Ids /\ HasValue(k - 1) /\ promise[k] = Unset
      BY <2>1, <2>5, <3>1 DEF HandedOn, Unhanded
    \* Whoever is handed a value has all of them behind it.
    <3>5. \A j \in Ids : j < k => HasValue(j)'
      <4>1. \A j \in Ids : j < k => j = k - 1 \/ j < k - 1
        BY <1>1
      <4>2. \A j \in Ids : j < k => HasValue(j) /\ j # k
        BY <1>1, <3>4, <4>1 DEF SumOK, HandedOn
      <4>3. QED
        BY <3>3, <4>2 DEF HasValue
    <3>6. HasValue(k - 1)'
      BY <2>2, <3>4, <3>5
    <3>7. Unhanded(k)' /\ HandedOn(k)'
      BY <3>2, <3>3, <3>4, <3>5, <3>6 DEF Unhanded, HandedOn
    <3>8. SumOK'
      BY <1>1, <2>1, <2>2, <3>1, <3>2, <3>3, <3>4, <3>7, SumProceeds
      DEF UnderWay, HasValue, SumPlaces
    <3>9. QED
      BY <2>3, <3>1, <3>8
  <2>11. CASE AddToRest(k)
    <3>1. Proceed(k, "end") /\ pc[k] = "rest" /\ UNCHANGED <<promise, throws>>
      BY <2>11 DEF AddToRest
    <3>2. pc'[k] = "end" /\ Final' = Final
      BY <2>4, <3>1
    <3>3. Unhanded(k)' /\ HandedOn(k)'
      BY <2>1, <2>2, <2>5, <3>1, <3>2 DEF Unhanded, HandedOn, HasValue
    <3>4. SumOK'
      BY <1>1, <2>1, <2>2, <3>1, <3>2, <3>3, SumProceeds DEF UnderWay, HasValue, SumPlaces
    <3>5. QED
      BY <2>3, <3>1, <3>4
  <2>12. CASE HandleInThread(k)
    <3>1. pc[k] = "catch" /\ k # Final /\ throws' = throws /\ throws > 0
      BY <2>1, <2>12 DEF HandleInThread
    <3>2. CASE promise[k] = Unset
      <4>1. Proceed(k, "end") /\ promise' = [promise EXCEPT ![k] = Failed]
        BY <2>12, <3>2 DEF HandleInThread
      <4>2. pc'[k] = "end" /\ Final' = Final
        BY <2>4, <3>1, <4>1
      <4>3. /\ DOMAIN promise' = Ids /\ \A j \in Ids : j # k => promise'[j] = promise[j]
            /\ promise'[k] = Failed
        BY <2>1, <4>1
      <4>4. Unhanded(k)' /\ HandedOn(k)'
        BY <3>1, <4>2, <4>3 DEF Unhanded, HandedOn, HasValue
      <4>5. SumOK'
        BY <1>1, <2>1, <2>2, <3>1, <3>2, <4>1, <4>2, <4>3, <4>4, SumProceeds
        DEF UnderWay, HasValue, SumPlaces
      <4>6. QED
        BY <2>3, <4>1, <4>5
    \* The second exception leaves the thread.
    <3>3. CASE promise[k] # Unset
      <4>1. outcome' = Terminated
        BY <2>12, <3>1, <3>3 DEF HandleInThread, Escape
      <4>2. QED
        BY <3>1, <4>1 DEF SumEnds, Alive, Terminated, Running, Returned, Threw
    <3>4. QED
      BY <3>2, <3>3
  <2>13. CASE HandleInCaller(k)
    <3>1. Proceed(k, "thrown") /\ pc[k] = "catch" /\ k = Final /\ UNCHANGED <<promise, throws>>
      BY <2>13 DEF HandleInCaller
    <3>2. pc'[k] = "thrown" /\ Final' = Final
      BY <2>4, <3>1
    <3>3. Unhanded(k)' /\ HandedOn(k)'
      BY <2>1, <2>2, <2>5, <3>1, <3>2 DEF Unhanded, HandedOn, HasValue
    <3>4. SumOK'
      BY <1>1, <2>1, <2>2, <3>1, <3>2, <3>3, SumProceeds DEF UnderWay, HasValue, SumPlaces
    <3>5. QED
      BY <2>3, <3>1, <3>4
  <2>14. CASE AdditionThrows(k)
    <3>1. /\ Proceed(k, "catch") /\ pc[k] \in {"sum", "last", "rest"}
          /\ promise' = promise /\ throws' = throws + 1
      BY <2>14 DEF AdditionThrows
    <3>2. pc'[k] = "catch" /\ Final' = Final
      BY <2>4, <3>1
    <3>3. Unhanded(k)' /\ HandedOn(k)'
      BY <2>1, <2>2, <2>5, <3>1, <3>2 DEF Unhanded, HandedOn, HasValue
    <3>4. SumOK'
      BY <1>1, <2>1, <2>2, <3>1, <3>2, <3>3, SumProceeds DEF UnderWay, HasValue, SumPlaces
    <3>5. QED
      BY <2>3, <3>1, <3>4
  <2>15. QED
    BY <1>5, <2>6, <2>7, <2>8, <2>9, <2>10, <2>11, <2>12, <2>13, <2>14 DEF SumStep
<1>6. QED
  BY <1>2, <1>3, <1>4, <1>5 DEF SumMove, SumTrouble
-----------------------------------------------------------------------------
(* Searching: what a thread has looked at matches nothing, and the promise *)
(* was set by a thread that still stands where it found something.         *)

SearchPlaces == {"look", "set", "flag", "catch"}
Stops == matches \cup throwing

Searched(k) ==
  /\ pc[k] \notin {"off", "thrown"} =>
       /\ begin(k) <= pos[k] /\ pos[k] <= end(k)
       /\ \A p \in begin(k)..(pos[k] - 1) : p \notin Stops
  /\ pc[k] = "set" => pos[k] \in matches
  /\ pc[k] \in {"set", "catch", "flag"} => pos[k] \in Stops /\ pos[k] < end(k)
  /\ pc[k] = "end" => done_flag \/ pos[k] = end(k)

\* Thread k has set the promise, or found it set.
Decided(k) ==
  /\ pc[k] = "flag" \/ (pc[k] = "end" /\ done_flag)
  /\ pos[k] \in Stops /\ pos[k] < end(k)

\* What was thrown is on its way out of the caller, in the promise, or in the
\* hands of a thread that is about to put it there.
ThrownKept ==
  throws > 0 => /\ threads > 0
                /\ \/ pc[Final] = "thrown"
                   \/ result = Exception
                   \/ \E k \in 1..threads : pc[k] = "catch"

FindOK ==
  /\ FrameOK(SearchPlaces)
  /\ throws \in Nat /\ ThrownKept /\ done_flag \in BOOLEAN
  /\ result \in matches \cup {Empty, Exception}
  /\ pos \in [Ids -> Nat]
  /\ \A k \in 1..threads : Searched(k)
  /\ result # Empty => \E k \in 1..threads : Decided(k)

FindEnds ==
  /\ throws \in Nat /\ (throws > 0 => outcome \in {Running, Threw, Terminated})
  /\ outcome \in matches \cup {Running, length, Threw, Terminated}
  /\ outcome = length => matches = {} /\ throwing = {}
  /\ outcome = Terminated => TwoMatch
  /\ outcome \notin {Running, Terminated} => NoBlockOutlivesCall

RangeInPositions == matches \subseteq Positions /\ throwing \subseteq Positions

LEMMA FindStarts == Init /\ algorithm = "find" => FindOK
<1> SUFFICES ASSUME Init PROVE FindOK
  OBVIOUS
<1>1. FrameOK(SearchPlaces)
  BY FrameStarts
<1>2. 1..threads \subseteq Ids
  BY InitSetting, NumbersOfThreads
<1>3. /\ throws = 0 /\ done_flag = FALSE /\ result = Empty /\ pos = [k \in Ids |-> 0]
      /\ \A k \in Ids : pc[k] = "off"
  BY DEF Init, InitFrame, FindInit
<1>4. ThrownKept /\ throws \in Nat
  BY <1>3 DEF ThrownKept
<1>5. QED
  BY <1>1, <1>2, <1>3, <1>4 DEF FindOK, Searched

\* The search of block k goes on, and no other block is changed.
LEMMA FindProceeds ==
  ASSUME SettingOK, FindOK, NEW k \in 1..threads, NEW l,
         Proceed(k, l) \/ (UNCHANGED frame /\ l = pc[k]),
         pc[k] \notin {"off", "thrown"}, l \in SearchPlaces \cup {"end", "thrown"},
         l = "thrown" => k = Final, UNCHANGED range,
         throws' \in Nat, throws' # throws => l = "catch",
         result = Exception => result' = Exception,
         pc[k] = "catch" => l \in {"catch", "thrown"} \/ result' = Exception,
         done_flag' \in BOOLEAN, done_flag => done_flag',
         result' \in matches \cup {Empty, Exception},
         pos' \in [Ids -> Nat], \A j \in Ids : j # k => pos'[j] = pos[j],
         Searched(k)', Decided(k) => Decided(k)',
         result' # result => Decided(k)'
  PROVE  FindOK'
<1>1. k \in Ids /\ 1..threads \subseteq Ids
  BY NumbersOfThreads
<1>2. UNCHANGED setting
  BY DEF Proceed, frame
<1>3. FrameOK(SearchPlaces)'
  <2>1. l \in (SearchPlaces \ {"off"}) \cup {"end", "thrown"} /\ throws' \in Nat
    BY DEF SearchPlaces, FindOK
  <2>2. CASE Proceed(k, l)
    BY <1>1, <2>1, <2>2, FrameProceeds DEF FindOK
  <2>3. CASE UNCHANGED frame
    <3>1. FrameOK(SearchPlaces)
      BY DEF FindOK
    <3>2. threads' = threads /\ Final' = Final /\ pc' = pc /\ started' = started
      BY <1>2, <2>3, SameFrame DEF frame
    <3>3. QED
      BY <2>1, <3>1, <3>2 DEF FrameOK
  <2>4. QED
    BY <2>2, <2>3
<1>4. \A j \in Ids : pc'[j] = IF j = k THEN l ELSE pc[j]
  BY <1>1 DEF Proceed, Goto, FindOK, FrameOK, frame
<1>5. /\ threads' = threads /\ matches' = matches /\ Stops' = Stops
      /\ \A j : begin(j)' = begin(j) /\ end(j)' = end(j)
  BY <1>2, SameFrame DEF Stops, range
<1>6. ASSUME NEW j \in 1..threads, j # k PROVE Searched(j)'
  <2>1. Searched(j) /\ pc'[j] = pc[j] /\ pos'[j] = pos[j]
        /\ begin(j)' = begin(j) /\ end(j)' = end(j)
    BY <1>1, <1>4, <1>5, <1>6 DEF FindOK
  <2>2. \A p \in begin(j)'..(pos'[j] - 1) : p \in begin(j)..(pos[j] - 1)
    BY <2>1
  <2>3. QED
    BY <1>5, <2>1, <2>2 DEF Searched
<1>7. result' # Empty => \E j \in 1..threads : Decided(j)'
  <2>1. SUFFICES ASSUME result' # Empty, result' = result
                 PROVE  \E j \in 1..threads : Decided(j)'
    OBVIOUS
  <2>2. PICK j \in 1..threads : Decided(j)
    BY <2>1 DEF FindOK
  <2>3. j # k => pc'[j] = pc[j] /\ pos'[j] = pos[j] /\ end(j)' = end(j)
    BY <1>1, <1>4, <1>5
  <2>4. Decided(j)'
    BY <1>5, <2>2, <2>3 DEF Decided
  <2>5. QED
    BY <2>4
<1>8. ThrownKept'
  <2> SUFFICES ASSUME throws' > 0
               PROVE  /\ threads' > 0
                      /\ \/ pc'[Final] = "thrown" \/ result' = Exception
                         \/ \E j \in 1..threads : pc'[j] = "catch"
    BY <1>2, <1>5, SameFrame DEF ThrownKept
  <2>1. threads' > 0 /\ Final \in Ids
    BY <1>1, <1>5, NumbersOfThreads DEF SettingOK, Final
  <2>2. CASE l = "catch"
    BY <1>1, <1>4, <2>1, <2>2
  <2>3. CASE l # "catch"
    <3>1. throws > 0 /\ ThrownKept
      BY <2>3 DEF FindOK
    <3>2. CASE pc[Final] = "thrown"
      BY <1>4, <2>1, <3>2
    <3>3. CASE result = Exception
      BY <2>1, <3>3
    <3>4. ASSUME NEW j \in 1..threads, pc[j] = "catch"
          PROVE  \/ pc'[Final] = "thrown" \/ result' = Exception
                 \/ \E i \in 1..threads : pc'[i] = "catch"
      <4>1. CASE j = k
        BY <1>1, <1>4, <2>3, <3>4, <4>1
      <4>2. CASE j # k
        BY <1>1, <1>4, <3>4, <4>2
      <4>3. QED
        BY <4>1, <4>2
    <3>5. QED
      BY <2>1, <3>1, <3>2, <3>3, <3>4 DEF ThrownKept
  <2>4. QED
    BY <2>2, <2>3
<1>9. QED
  BY <1>3, <1>5, <1>6, <1>7, <1>8 DEF FindOK, Empty, Running, Exception, Threw

\* Who is kept from setting the promise has found a second match.
LEMMA SecondMatch ==
  ASSUME SettingOK, ~IsRaw, RangeInPositions, FindOK, NEW k \in 1..threads,
         pc[k] = "catch", result # Empty
  PROVE  TwoMatch
<1>1. length > 0 /\ length \in Nat
  <2>1. length \in Nat /\ (length = 0 => threads = 0)
    BY NumbersOfThreads DEF SettingOK
  <2>2. QED
    BY <2>1
<1>2. PICK j \in 1..threads : Decided(j)
  BY DEF FindOK
<1>3. 1..threads \subseteq Ids /\ j # k
  BY <1>2, NumbersOfThreads DEF Decided
<1>4. ASSUME NEW i \in {j, k} PROVE pos[i] \in Block(i) /\ pos[i] \in Stops
  <2>1. i \in 1..threads /\ Searched(i) /\ pos[i] \in Nat
    BY <1>2, <1>3 DEF FindOK
  <2>2. begin(i) <= pos[i] /\ pos[i] < end(i) /\ pos[i] \in Stops
    BY <1>2, <2>1 DEF Searched, Decided
  <2>3. begin(i) \in Nat /\ end(i) \in Nat
    BY <1>1, <2>1, BlocksOfCall
  <2>4. QED
    BY <2>1, <2>2, <2>3 DEF Block
<1>5. pos[j] # pos[k]
  BY <1>1, <1>3, <1>4, BlocksOfCall
<1>6. {pos[j], pos[k]} \subseteq Stops
  BY <1>4
<1>7. IsFiniteSet(Stops)
  <2>1. IsFiniteSet(0..(length - 1))
    BY <1>1, FS_Interval
  <2>2. Stops \subseteq 0..(length - 1)
    BY DEF RangeInPositions, Positions, Stops
  <2>3. QED
    BY <2>1, <2>2, FS_Subset
<1>8. Cardinality({pos[j], pos[k]}) = 2
  <2>1. IsFiniteSet({pos[j]}) /\ Cardinality({pos[j]}) = 1
    BY FS_Singleton
  <2>2. Cardinality({pos[j]} \cup {pos[k]}) = Cardinality({pos[j]}) + 1
    BY <1>5, <2>1, FS_AddElement
  <2>3. {pos[j], pos[k]} = {pos[j]} \cup {pos[k]}
    OBVIOUS
  <2>4. QED
    BY <2>1, <2>2, <2>3
<1>9. Cardinality({pos[j], pos[k]}) <= Cardinality(Stops)
  BY <1>6, <1>7, FS_Subset
<1>10. Cardinality(Stops) \in Nat
  BY <1>7, FS_CardinalityType
<1>11. QED
  BY <1>8, <1>9, <1>10 DEF TwoMatch, Stops

\* If the flag is down when all have ended, everything was looked at.
LEMMA NothingMissed ==
  ASSUME SettingOK, ~IsRaw, length > 0, RangeInPositions, FindOK, AllJoined,
         pc[Final] = "end", ~done_flag
  PROVE  matches = {} /\ throwing = {}
<1>1. 1..threads \subseteq Ids /\ threads \in 1..length /\ length \in Nat
  BY NumbersOfThreads DEF SettingOK
<1>2. started = threads - 1 /\ started \in Nat
  BY <1>1 DEF FindOK, FrameOK
<1>3. \A k \in 1..threads : pc[k] = "end"
  <2>1. \A k \in 1..threads : k = Final \/ k \in 1..started
    BY <1>1, <1>2 DEF Final
  <2>2. QED
    BY <2>1 DEF AllJoined
<1>4. ASSUME NEW p \in Positions PROVE p \notin Stops
  <2>1. PICK k \in 1..threads : p \in Block(k)
    BY BlocksOfCall
  <2>2. Searched(k) /\ pc[k] = "end" /\ pos[k] = end(k)
    BY <1>3 DEF FindOK, Searched
  <2>3. p \in begin(k)..(pos[k] - 1)
    BY <2>1, <2>2 DEF Block
  <2>4. QED
    BY <2>2, <2>3 DEF Searched
<1>5. QED
  BY <1>4 DEF RangeInPositions, Stops

\* If something was thrown and all have ended, the promise holds an exception.
LEMMA ExceptionKept ==
  ASSUME SettingOK, length > 0, FindOK, AllJoined, pc[Final] = "end", throws > 0
  PROVE  result = Exception /\ done_flag
<1>1. 1..threads \subseteq Ids /\ threads \in Nat \ {0}
  <2>1. threads > 0
    BY DEF FindOK, ThrownKept
  <2>2. QED
    BY <2>1, NumbersOfThreads DEF SettingOK
<1>2. started = threads - 1
  BY <1>1 DEF FindOK, FrameOK
<1>3. \A k \in 1..threads : pc[k] = "end"
  <2>1. \A k \in 1..threads : k = Final \/ k \in 1..started
    BY <1>1, <1>2 DEF Final
  <2>2. QED
    BY <2>1 DEF AllJoined
<1>4. result = Exception
  BY <1>3 DEF FindOK, ThrownKept
<1>5. \E k \in 1..threads : Decided(k)
  BY <1>4 DEF FindOK, Empty, Exception, Running, Threw
<1>6. QED
  BY <1>3, <1>4, <1>5 DEF Decided

FindMove ==
  \/ LaunchSearch \/ ReturnFound \/ LaunchSearchFails
  \/ \E k \in Ids : SearchStep(k)

LEMMA FindMoves ==
  ASSUME SettingOK, ~IsRaw, RangeInPositions, FindOK, Alive, FindMove
  PROVE  FindEnds' /\ (Alive' => FindOK')
<1>1. 1..threads \subseteq Ids /\ threads \in Nat /\ length \in Nat
      /\ (threads > 0 <=> length > 0)
  <2>1. length \in Nat /\ threads \in Nat
    BY NumbersOfThreads DEF SettingOK
  <2>2. QED
    BY <2>1, NumbersOfThreads
<1>2. FrameOK(SearchPlaces) /\ throws \in Nat /\ throws' \in Nat /\ pos \in [Ids -> Nat]
  <2>1. throws' \in {throws, throws + 1}
    BY DEF FindMove, LaunchSearch, LaunchSearchFails, ReturnFound, SearchStep, StopLooking,
           Look, SetValue, RaiseFlag, Catch, CatchThrows
  <2>2. QED
    BY <2>1 DEF FindOK
<1>3. ASSUME outcome' = Running, range' = range, length' = length PROVE FindEnds'
  BY <1>1, <1>2, <1>3 DEF FindEnds, Running, Terminated
<1>4. CASE LaunchSearch
  <2>1. StartThread("look") \/ StartFinal("look")
    BY <1>4 DEF LaunchSearch
  <2>2. UNCHANGED <<range, result, done_flag, throws>>
    BY <1>4 DEF LaunchSearch
  <2>3. /\ FrameOK(SearchPlaces)' /\ UNCHANGED setting /\ outcome' = outcome
        /\ \E k \in 1..threads :
             /\ pc[k] = "off" /\ pc' = [pc EXCEPT ![k] = "look"]
             /\ StartThread("look") => k = started' /\ k # Final
             /\ StartFinal("look") => k = Final
    <3>1. "look" \in SearchPlaces
      BY DEF SearchPlaces
    <3>2. QED
      BY <1>2, <2>1, <3>1, FrameLaunches
  <2>4. PICK k \in 1..threads :
             /\ pc[k] = "off" /\ pc' = [pc EXCEPT ![k] = "look"]
             /\ StartThread("look") => k = started' /\ k # Final
             /\ StartFinal("look") => k = Final
    BY <2>3
  <2>5. /\ threads' = threads /\ Final' = Final /\ Positions' = Positions
        /\ \A j : begin(j)' = begin(j) /\ end(j)' = end(j)
    BY <2>3, SameFrame
  <2>6. pos' = [pos EXCEPT ![k] = begin(k)]
    BY <1>4, <2>1, <2>4 DEF LaunchSearch
  <2>7. begin(k) \in Nat /\ end(k) \in Nat /\ begin(k) <= end(k)
    BY <1>1, BlocksOfCall
  <2>8. pos' \in [Ids -> Nat]
    BY <1>2, <2>6, <2>7
  <2>9. \A j \in Ids : /\ pc'[j] = IF j = k THEN "look" ELSE pc[j]
                       /\ pos'[j] = IF j = k THEN begin(k) ELSE pos[j]
    BY <1>1, <1>2, <2>4, <2>6 DEF FrameOK
  <2>10. Stops' = Stops /\ matches' = matches
    BY <2>2 DEF Stops, range
  <2>11. Searched(k)'
    BY <1>1, <2>5, <2>7, <2>9 DEF Searched
  <2>12. ASSUME NEW j \in 1..threads, j # k PROVE Searched(j)'
    <3>1. Searched(j) /\ pc'[j] = pc[j] /\ pos'[j] = pos[j]
          /\ begin(j)' = begin(j) /\ end(j)' = end(j)
      BY <1>1, <2>5, <2>9, <2>12 DEF FindOK
    <3>2. \A p \in begin(j)'..(pos'[j] - 1) : p \in begin(j)..(pos[j] - 1)
      BY <3>1
    <3>3. QED
      BY <2>2, <2>10, <3>1, <3>2 DEF Searched
  <2>13. result' # Empty => \E j \in 1..threads : Decided(j)'
    <3>1. SUFFICES ASSUME result # Empty PROVE \E j \in 1..threads : Decided(j)'
      BY <2>2
    <3>2. PICK j \in 1..threads : Decided(j)
      BY <3>1 DEF FindOK
    <3>3. j # k
      BY <2>4, <3>2 DEF Decided
    <3>4. QED
      BY <1>1, <2>2, <2>5, <2>9, <2>10, <3>2, <3>3 DEF Decided
  <2>17. ThrownKept'
    <3>1. pc[Final] = "off"
      BY <2>1 DEF StartThread, StartFinal, Starting
    <3>2. SUFFICES ASSUME throws > 0
                   PROVE  /\ threads > 0
                          /\ result = Exception \/ \E j \in 1..threads : pc'[j] = "catch"
      BY <2>2, <2>5 DEF ThrownKept
    <3>3. threads > 0 /\ (result = Exception \/ \E j \in 1..threads : pc[j] = "catch")
      BY <3>1, <3>2 DEF FindOK, ThrownKept
    <3>4. ASSUME NEW j \in 1..threads, pc[j] = "catch" PROVE pc'[j] = "catch"
      BY <1>1, <2>4, <2>9, <3>4
    <3>5. QED
      BY <3>3, <3>4
  <2>14. FindOK'
    <3>1. result' \in matches' \cup {Empty, Exception} /\ done_flag' \in BOOLEAN
      BY <2>2, <2>10 DEF FindOK
    <3>2. QED
      BY <1>2, <2>3, <2>5, <2>8, <2>11, <2>12, <2>13, <2>17, <3>1
      DEF FindOK, Empty, Running, Exception, Threw
  <2>15. FindEnds'
    BY <1>3, <2>2, <2>3 DEF Alive, setting
  <2>16. QED
    BY <2>14, <2>15
<1>5. CASE LaunchSearchFails
  <2>1. StartFails /\ UNCHANGED <<range, result, done_flag, pos>>
    BY <1>5 DEF LaunchSearchFails
  <2>2. /\ FrameOK(SearchPlaces)' /\ UNCHANGED setting /\ outcome' = outcome
        /\ Final \in 1..threads /\ pc[Final] = "off"
        /\ pc' = [pc EXCEPT ![Final] = "thrown"]
    BY <1>2, <2>1, FrameFails
  <2>3. /\ threads' = threads /\ Stops' = Stops /\ matches' = matches
        /\ \A j : begin(j)' = begin(j) /\ end(j)' = end(j)
    BY <2>1, <2>2, SameFrame DEF Stops, range
  <2>4. \A j \in Ids : pc'[j] = IF j = Final THEN "thrown" ELSE pc[j]
    BY <2>2 DEF FindOK, FrameOK
  <2>5. ASSUME NEW j \in 1..threads PROVE Searched(j)'
    <3>1. CASE j = Final
      BY <1>1, <2>4, <3>1 DEF Searched
    <3>2. CASE j # Final
      <4>1. Searched(j) /\ pc'[j] = pc[j] /\ pos'[j] = pos[j]
            /\ begin(j)' = begin(j) /\ end(j)' = end(j)
        BY <1>1, <2>1, <2>3, <2>4, <3>2 DEF FindOK
      <4>2. \A p \in begin(j)'..(pos'[j] - 1) : p \in begin(j)..(pos[j] - 1)
        BY <4>1
      <4>3. QED
        BY <2>1, <2>3, <4>1, <4>2 DEF Searched
    <3>3. QED
      BY <3>1, <3>2
  <2>6. result' # Empty => \E j \in 1..threads : Decided(j)'
    <3>1. SUFFICES ASSUME result # Empty PROVE \E j \in 1..threads : Decided(j)'
      BY <2>1
    <3>2. PICK j \in 1..threads : Decided(j)
      BY <3>1 DEF FindOK
    <3>3. j # Final
      BY <2>2, <3>2 DEF Decided
    <3>4. QED
      BY <1>1, <2>1, <2>3, <2>4, <3>2, <3>3 DEF Decided
  <2>10. ThrownKept' /\ throws' \in Nat
    BY <1>1, <1>2, <1>5, <2>2, <2>3, <2>4 DEF ThrownKept, FrameOK, FindOK, LaunchSearchFails
  <2>7. FindOK'
    BY <1>2, <2>1, <2>2, <2>3, <2>5, <2>6, <2>10
    DEF FindOK, Empty, Running, Exception, Threw
  <2>8. FindEnds'
    BY <1>3, <2>1, <2>2 DEF Alive, setting
  <2>9. QED
    BY <2>7, <2>8
<1>6. CASE ReturnFound
  <2>1. UNCHANGED <<setting, pc, range, throws>> /\ length' = length
    BY <1>6 DEF ReturnFound, ReturnAtOnce, LeaveByException, Leave, setting
  <2>2. matches' = matches /\ throwing' = throwing
    BY <2>1 DEF range
  <2>3. CASE ReturnAtOnce(length)
    <3>1. outcome' = length /\ \A k \in Ids : pc[k] = "off"
      BY <1>2, <2>3, NothingToDo DEF ReturnAtOnce
    <3>2. matches = {} /\ throwing = {}
      <4>1. Positions = {}
        BY <2>3 DEF ReturnAtOnce, Positions
      <4>2. QED
        BY <4>1 DEF RangeInPositions
    <3>4. ~(throws' > 0)
      BY <1>1, <2>1, <2>3 DEF ReturnAtOnce, FindOK, ThrownKept
    <3>3. QED
      BY <1>1, <1>2, <2>1, <2>2, <3>1, <3>2, <3>4
      DEF FindEnds, NoBlockOutlivesCall, Alive, Running, Terminated
  <2>4. ASSUME length > 0, NEW v, Leave(v), pc[Final] \in {"end", "thrown"}
        PROVE  outcome' = v /\ AllJoined /\ NoBlockOutlivesCall'
    <3>1. outcome' = v /\ AllJoined
      BY <2>4 DEF Leave
    <3>2. \A k \in Ids : pc[k] \in {"off", "end", "thrown"}
      BY <1>2, <2>4, <3>1, FrameEnds
    <3>3. QED
      BY <2>1, <3>1, <3>2 DEF NoBlockOutlivesCall
  <2>5. CASE length > 0 /\ pc[Final] = "end" /\ ~done_flag /\ Leave(length)
    <3>1. outcome' = length /\ AllJoined /\ NoBlockOutlivesCall'
      BY <2>4, <2>5
    <3>2. matches = {} /\ throwing = {}
      BY <2>5, <3>1, NothingMissed
    <3>4. ~(throws' > 0)
      BY <2>1, <2>5, <3>1, ExceptionKept
    <3>3. QED
      BY <1>1, <1>2, <2>1, <2>2, <3>1, <3>2, <3>4
      DEF FindEnds, Alive, Running, Terminated
  <2>6. CASE length > 0 /\ pc[Final] = "end" /\ done_flag /\ result # Empty /\ Leave(result)
    <3>1. outcome' = result /\ AllJoined /\ NoBlockOutlivesCall'
      BY <2>4, <2>6
    <3>2. result \in matches \cup {Exception}
      BY <2>6 DEF FindOK
    <3>3. \A p \in matches : p \in Nat /\ p # length
      BY <1>1 DEF RangeInPositions, Positions
    <3>5. throws' > 0 => outcome' = Threw
      BY <2>1, <2>6, <3>1, ExceptionKept DEF Exception
    <3>4. QED
      BY <1>1, <1>2, <2>1, <2>2, <3>1, <3>2, <3>3, <3>5
      DEF FindEnds, Alive, Running, Terminated, Exception, Threw
  <2>7. CASE LeaveByException
    <3>1. outcome' = Threw /\ AllJoined /\ NoBlockOutlivesCall'
      BY <2>4, <2>7 DEF LeaveByException
    <3>2. QED
      BY <1>1, <1>2, <2>1, <2>2, <3>1
      DEF FindEnds, Alive, Running, Terminated, Threw
  <2>8. QED
    BY <1>6, <2>3, <2>5, <2>6, <2>7 DEF ReturnFound
<1>7. ASSUME NEW k \in Ids, SearchStep(k) PROVE FindEnds' /\ (Alive' => FindOK')
  <2>1. k \in 1..threads /\ pc[k] \in SearchPlaces /\ Searched(k)
    <3>1. pc[k] \in {"look", "set", "flag", "catch"}
      BY <1>7 DEF SearchStep, StopLooking, Look, SetValue, RaiseFlag, Catch, CatchThrows
    <3>2. k \in 1..threads
      BY <1>2, <3>1, InFrame
    <3>3. QED
      BY <3>1, <3>2 DEF FindOK, SearchPlaces
  <2>2. /\ begin(k) \in Nat /\ end(k) \in Nat /\ pos[k] \in Nat
        /\ done_flag \in BOOLEAN /\ result \in matches \cup {Empty, Exception}
    BY <1>1, <1>2, <2>1, BlocksOfCall DEF FindOK
  <2>3. range' = range
    BY <1>7 DEF SearchStep, StopLooking, Look, SetValue, RaiseFlag, Catch, CatchThrows
  <2>4. Stops' = Stops /\ matches' = matches /\ throwing' = throwing
    BY <2>3 DEF Stops, range
  <2>5. ASSUME NEW l, Proceed(k, l) \/ (UNCHANGED frame /\ l = pc[k])
        PROVE  /\ pc'[k] = l /\ FindEnds'
               /\ begin(k)' = begin(k) /\ end(k)' = end(k)
    <3>1. UNCHANGED <<setting, outcome>>
      BY <2>5 DEF Proceed, frame
    <3>2. pc'[k] = l
      BY <1>2, <2>5 DEF Proceed, Goto, frame, FrameOK
    <3>3. FindEnds'
      BY <1>3, <2>3, <3>1 DEF Alive, setting
    <3>4. QED
      BY <3>1, <3>2, <3>3, SameFrame
  \* What is known of the positions looked at stays so.
  <2>20. /\ begin(k) <= pos[k] /\ pos[k] <= end(k)
         /\ \A p \in begin(k)..(pos[k] - 1) : p \notin Stops
    BY <2>1 DEF Searched, SearchPlaces
  <2>6. CASE StopLooking(k)
    <3>1. /\ Proceed(k, "end") /\ pc[k] = "look" /\ (pos[k] = end(k) \/ done_flag)
          /\ UNCHANGED <<result, done_flag, throws>>
          /\ UNCHANGED pos
      BY <2>6 DEF StopLooking, AtEnd
    <3>2. pc'[k] = "end" /\ begin(k)' = begin(k) /\ end(k)' = end(k) /\ FindEnds'
      BY <2>5, <3>1
    <3>3. Searched(k)'
      BY <2>1, <2>2, <2>4, <2>20, <3>1, <3>2 DEF Searched
    <3>4. /\ result' \in matches \cup {Empty, Exception} /\ pos' \in [Ids -> Nat]
          /\ Decided(k) => Decided(k)'
          /\ result' # result => Decided(k)'
      BY <1>2, <2>1, <2>2, <2>4, <3>1, <3>2 DEF Decided, Searched
    <3>5. FindOK'
      BY <1>2, <2>1, <2>2, <2>3, <3>1, <3>2, <3>3, <3>4, FindProceeds DEF SearchPlaces
    <3>6. QED
      BY <3>2, <3>5
  <2>7. CASE Look(k)
    <3>1. pc[k] = "look" /\ pos[k] # end(k) /\ UNCHANGED <<result, done_flag>>
      BY <2>7 DEF Look, AtEnd
    <3>2. ASSUME NEW l, Proceed(k, l), UNCHANGED pos,
                 \/ l = "set" /\ pos[k] \in matches /\ throws' = throws
                 \/ l = "catch" /\ pos[k] \in throwing
          PROVE  FindEnds' /\ (Alive' => FindOK')
      <4>1. pc'[k] = l /\ begin(k)' = begin(k) /\ end(k)' = end(k) /\ FindEnds'
        BY <2>5, <3>2
      <4>2. pos[k] \in Stops /\ pos[k] < end(k)
        BY <2>2, <2>20, <3>1, <3>2 DEF Stops
      <4>3. Searched(k)'
        BY <2>1, <2>2, <2>4, <2>20, <3>1, <3>2, <4>1, <4>2 DEF Searched
      <4>4. ~Decided(k)
        BY <3>1 DEF Decided
      <4>5. FindOK'
        BY <1>2, <2>1, <2>2, <2>3, <3>1, <3>2, <4>1, <4>3, <4>4, FindProceeds
        DEF SearchPlaces
      <4>6. QED
        BY <4>1, <4>5
    <3>3. CASE pos[k] \in Stops
      BY <2>7, <3>2, <3>3 DEF Look, Stops
    <3>4. CASE pos[k] \notin Stops
      <4>1. UNCHANGED <<frame, throws>> /\ pos' = [pos EXCEPT ![k] = @ + 1]
        BY <2>7, <3>4 DEF Look, Stops
      <4>2. pc'[k] = "look" /\ begin(k)' = begin(k) /\ end(k)' = end(k) /\ FindEnds'
        BY <2>5, <3>1, <4>1
      <4>3. /\ pos' \in [Ids -> Nat] /\ pos'[k] = pos[k] + 1
            /\ \A j \in Ids : j # k => pos'[j] = pos[j]
        BY <1>2, <2>2, <4>1
      <4>4. \A p \in begin(k)..((pos[k] + 1) - 1) : p = pos[k] \/ p \in begin(k)..(pos[k] - 1)
        BY <2>2
      <4>5. Searched(k)'
        BY <2>2, <2>4, <2>20, <3>1, <3>4, <4>2, <4>3, <4>4 DEF Searched
      <4>6. ~Decided(k)
        BY <3>1 DEF Decided
      <4>7. FindOK'
        BY <1>2, <2>1, <2>2, <2>3, <3>1, <4>1, <4>2, <4>3, <4>5, <4>6, FindProceeds
        DEF SearchPlaces
      <4>8. QED
        BY <4>2, <4>7
    <3>5. QED
      BY <3>3, <3>4
  <2>8. CASE SetValue(k)
    <3>1. pc[k] = "set" /\ UNCHANGED <<done_flag, pos, throws>>
      BY <2>8 DEF SetValue
    <3>2. pos[k] \in matches /\ pos[k] \in Stops /\ pos[k] < end(k) /\ ~Decided(k)
      BY <2>1, <3>1 DEF Searched, Decided
    <3>3. CASE result = Empty
      <4>1. Proceed(k, "flag") /\ result' = pos[k]
        BY <2>8, <3>3 DEF SetValue, Found
      <4>2. pc'[k] = "flag" /\ begin(k)' = begin(k) /\ end(k)' = end(k) /\ FindEnds'
        BY <2>5, <4>1
      <4>3. Searched(k)' /\ Decided(k)'
        BY <2>1, <2>2, <2>4, <2>20, <3>1, <3>2, <4>1, <4>2 DEF Searched, Decided
      <4>4. UNCHANGED range /\ throws' = throws /\ throws' \in Nat
        BY <1>2, <3>1, <2>8 DEF SetValue
      <4>5. (result = Exception => result' = Exception) /\ result' \in matches \cup {Empty, Exception}
        BY <3>2, <3>3, <4>1 DEF Empty, Exception, Running, Threw
      <4>6. "flag" \in SearchPlaces
        BY DEF SearchPlaces
      <4>7. FindOK'
        BY <1>2, <2>1, <2>2, <2>3, <3>1, <3>2, <4>1, <4>2, <4>3, <4>4, <4>5, <4>6, FindProceeds
      <4>8. QED
        BY <4>2, <4>7
    <3>4. CASE result # Empty
      <4>1. Proceed(k, "catch") /\ result' = result
        BY <2>8, <3>4 DEF SetValue
      <4>2. pc'[k] = "catch" /\ begin(k)' = begin(k) /\ end(k)' = end(k) /\ FindEnds'
        BY <2>5, <4>1
      <4>3. Searched(k)'
        BY <2>1, <2>2, <2>4, <2>20, <3>1, <3>2, <4>1, <4>2 DEF Searched
      <4>4. FindOK'
        BY <1>2, <2>1, <2>2, <2>3, <3>1, <3>2, <4>1, <4>2, <4>3, FindProceeds
        DEF SearchPlaces
      <4>5. QED
        BY <4>2, <4>4
    <3>5. QED
      BY <3>3, <3>4
  <2>9. CASE RaiseFlag(k)
    <3>1. /\ Proceed(k, "end") /\ pc[k] = "flag" /\ done_flag' = TRUE /\ result' = result
          /\ UNCHANGED <<pos, throws>>
      BY <2>9 DEF RaiseFlag
    <3>2. pc'[k] = "end" /\ begin(k)' = begin(k) /\ end(k)' = end(k) /\ FindEnds'
      BY <2>5, <3>1
    <3>3. Searched(k)'
      BY <2>1, <2>2, <2>4, <2>20, <3>1, <3>2 DEF Searched
    <3>4. /\ result' \in matches \cup {Empty, Exception} /\ pos' \in [Ids -> Nat]
          /\ Decided(k) => Decided(k)'
          /\ result' # result => Decided(k)'
      BY <1>2, <2>1, <2>2, <2>4, <3>1, <3>2 DEF Decided, Searched
    <3>5. FindOK'
      BY <1>2, <2>1, <2>2, <2>3, <3>1, <3>2, <3>3, <3>4, FindProceeds DEF SearchPlaces
    <3>6. QED
      BY <3>2, <3>5
  <2>10. CASE Catch(k)
    <3>1. /\ Proceed(k, "flag") /\ pc[k] = "catch" /\ result' = Exception /\ UNCHANGED done_flag
          /\ UNCHANGED <<pos, throws>>
      BY <2>10 DEF Catch
    <3>2. pc'[k] = "flag" /\ begin(k)' = begin(k) /\ end(k)' = end(k) /\ FindEnds'
      BY <2>5, <3>1
    <3>3. Searched(k)'
      BY <2>1, <2>2, <2>4, <2>20, <3>1, <3>2 DEF Searched
    <3>4. /\ result' \in matches \cup {Empty, Exception} /\ pos' \in [Ids -> Nat]
          /\ Decided(k) => Decided(k)'
          /\ result' # result => Decided(k)'
      BY <1>2, <2>1, <2>2, <2>4, <3>1, <3>2 DEF Decided, Searched
    <3>5. FindOK'
      BY <1>2, <2>1, <2>2, <2>3, <3>1, <3>2, <3>3, <3>4, FindProceeds DEF SearchPlaces
    <3>6. QED
      BY <3>2, <3>5
  \* The second exception ends the program, or leaves the caller.
  <2>11. CASE CatchThrows(k)
    <3>1. pc[k] = "catch" /\ result # Empty /\ UNCHANGED <<result, done_flag, pos, throws>>
      BY <2>11 DEF CatchThrows
    <3>2. CASE k = Final
      <4>1. Proceed(k, "thrown")
        BY <2>11, <3>2 DEF CatchThrows, Escape
      <4>2. pc'[k] = "thrown" /\ FindEnds'
        BY <2>5, <4>1
      <4>3. Searched(k)' /\ ~Decided(k)
        BY <3>1, <4>2 DEF Searched, Decided
      <4>4. FindOK'
        BY <1>2, <2>1, <2>2, <2>3, <3>1, <3>2, <4>1, <4>2, <4>3, FindProceeds
        DEF SearchPlaces
      <4>5. QED
        BY <4>2, <4>4
    <3>3. CASE k # Final
      <4>1. outcome' = Terminated /\ length' = length
        BY <2>11, <3>3 DEF CatchThrows, Escape, setting
      <4>2. TwoMatch /\ TwoMatch' = TwoMatch
        BY <2>1, <2>4, <3>1, SecondMatch DEF TwoMatch
      <4>3. QED
        BY <1>1, <1>2, <4>1, <4>2 DEF FindEnds, Alive, Terminated, Running
    <3>4. QED
      BY <3>2, <3>3
  <2>12. QED
    BY <1>7, <2>6, <2>7, <2>8, <2>9, <2>10, <2>11 DEF SearchStep
<1>8. QED
  BY <1>4, <1>5, <1>6, <1>7 DEF FindMove
-----------------------------------------------------------------------------
(* for_each: f is applied to a block once, and an exception is kept in a   *)
(* future the caller has not got yet, or is on its way out of the caller.  *)

ApplyPlaces == {"apply", "ready", "collect"}

Applied(k) ==
  /\ pc[k] \in {"off", "apply"} \/ k = Final => future[k] = Pending
  /\ pc[k] \in {"off", "apply"} => \A p \in Block(k) : visits[p] = 0
  /\ future[k] = Done \/ (k = Final /\ pc[k] \in {"collect", "end"}) =>
       \A p \in Block(k) : visits[p] = 1
  /\ pc[k] = "collect" => k = Final
  /\ pc[k] = "ready" => k # Final
  /\ k = Final /\ pc[k] = "end" => collected >= threads - 1
HoldsException(k) == pc[k] = "thrown" \/ future[k] = Kept

EachOK ==
  /\ FrameOK(ApplyPlaces)
  /\ future \in [Ids -> {Pending, Done, Kept}]
  /\ visits \in [Positions -> {0, 1}]
  /\ collected \in Nat /\ \A k \in 1..collected : k \in Ids /\ future[k] = Done
  /\ \A k \in 1..threads : Applied(k)
  /\ throws > 0 => \E k \in 1..threads : HoldsException(k)

EachEnds ==
  /\ outcome \in {Running, Returned, Threw, Undefined}
  /\ outcome = Undefined => length <= MinPerThread \/ hardware = 1
  /\ visits \in [Positions -> {0, 1}]
  /\ outcome = Returned => throws = 0 /\ \A p \in Positions : visits[p] = 1
  /\ outcome \notin {Running, Undefined} => NoBlockOutlivesCall

\* A block lies in the range.
LEMMA BlockInRange ==
  ASSUME SettingOK, ~IsRaw, NEW k \in 1..threads
  PROVE  length \in Nat /\ length > 0 /\ Block(k) \subseteq Positions
<1>1. length \in Nat /\ threads \in Nat /\ (length = 0 => threads = 0)
  BY NumbersOfThreads DEF SettingOK
<1>2. length > 0
  BY <1>1
<1>3. begin(k) \in Nat /\ end(k) \in Nat /\ end(k) <= length
  BY <1>2, BlocksOfCall
<1>4. QED
  BY <1>1, <1>2, <1>3 DEF Block, Positions

LEMMA EachStarts == Init /\ algorithm = "for_each" => EachOK
<1> SUFFICES ASSUME Init, ~IsRaw PROVE EachOK
  BY DEF IsRaw
<1>1. FrameOK(ApplyPlaces)
  BY FrameStarts
<1>2. 1..threads \subseteq Ids
  BY InitSetting, NumbersOfThreads
<1>3. /\ throws = 0 /\ visits = [p \in Positions |-> 0] /\ collected = 0
      /\ future = [k \in Ids |-> Pending] /\ \A k \in Ids : pc[k] = "off"
  BY DEF Init, InitFrame, EachInit
<1>4. \A k \in 1..threads : Block(k) \subseteq Positions
  BY InitSetting, BlockInRange
<1>5. \A k \in 1..threads : Applied(k)
  BY <1>2, <1>3, <1>4 DEF Applied, Done, Pending
<1>6. QED
  BY <1>1, <1>3, <1>5 DEF EachOK

\* f was applied to the positions up to p of block k.
LEMMA VisitBlock ==
  ASSUME SettingOK, ~IsRaw, EachOK, NEW k \in 1..threads, pc[k] = "apply",
         NEW b \in Int, b <= end(k) - 1, Visit(begin(k), b)
  PROVE  /\ visits' \in [Positions -> {0, 1}]
         /\ \A p \in Positions : p \notin Block(k) => visits'[p] = visits[p]
         /\ b = end(k) - 1 => \A p \in Block(k) : visits'[p] = 1
<1>1. length > 0 /\ Block(k) \subseteq Positions
  BY BlockInRange
<1>2. begin(k) \in Nat /\ end(k) \in Nat
  BY <1>1, BlocksOfCall
<1>3. begin(k)..b \subseteq Block(k) /\ (b = end(k) - 1 => begin(k)..b = Block(k))
  BY <1>2 DEF Block
<1>4. \A p \in Block(k) : visits[p] = 0
  BY DEF EachOK, Applied
<1>5. visits' = [p \in Positions |-> visits[p] + IF p \in begin(k)..b THEN 1 ELSE 0]
  BY DEF Visit
<1>6. \A p \in Positions : p \in begin(k)..b => visits'[p] = 1
  BY <1>1, <1>3, <1>4, <1>5
<1>7. \A p \in Positions : p \notin begin(k)..b => visits'[p] = visits[p]
  BY <1>5 DEF EachOK
<1>8. \A p \in Positions : visits'[p] \in {0, 1}
  BY <1>6, <1>7 DEF EachOK
<1>9. visits' \in [Positions -> {0, 1}]
  BY <1>5, <1>8
<1>10. QED
  BY <1>1, <1>3, <1>6, <1>7, <1>9

\* The work on block k goes on, and no other block is changed.
LEMMA EachProceeds ==
  ASSUME SettingOK, ~IsRaw, EachOK, NEW k \in 1..threads, NEW l, Proceed(k, l),
         pc[k] \notin {"off", "thrown"}, l \in ApplyPlaces \cup {"end", "thrown"},
         l = "thrown" => k = Final, collected' = collected,
         future' \in [Ids -> {Pending, Done, Kept}],
         \A j \in Ids : j # k => future'[j] = future[j],
         pc[k] # "apply" => future'[k] = future[k],
         visits' \in [Positions -> {0, 1}],
         \A p \in Positions : p \notin Block(k) => visits'[p] = visits[p],
         throws' \in Nat, throws' >= throws, Applied(k)',
         HoldsException(k) \/ throws' > throws => HoldsException(k)'
  PROVE  EachOK'
<1>1. k \in Ids /\ 1..threads \subseteq Ids
  BY NumbersOfThreads
<1>2. FrameOK(ApplyPlaces)'
  <2>1. l \in (ApplyPlaces \ {"off"}) \cup {"end", "thrown"}
    BY DEF ApplyPlaces
  <2>2. QED
    BY <1>1, <2>1, FrameProceeds DEF EachOK
<1>3. \A j \in Ids : pc'[j] = IF j = k THEN l ELSE pc[j]
  BY <1>1 DEF Proceed, Goto, EachOK, FrameOK
<1>4. /\ threads' = threads /\ Final' = Final /\ Positions' = Positions
      /\ \A j : Block(j)' = Block(j)
  BY SameFrame DEF Proceed
<1>5. ASSUME NEW j \in 1..threads, j # k PROVE Applied(j)'
  <2>1. Applied(j) /\ pc'[j] = pc[j] /\ future'[j] = future[j] /\ Block(j)' = Block(j)
    BY <1>1, <1>3, <1>4, <1>5 DEF EachOK
  <2>2. Block(j) \subseteq Positions /\ length > 0
    BY BlockInRange
  <2>3. Block(j) \cap Block(k) = {}
    BY <1>5, <2>2, BlocksOfCall
  <2>4. \A p \in Block(j) : visits'[p] = visits[p]
    BY <2>2, <2>3
  <2>5. QED
    BY <1>4, <2>1, <2>4 DEF Applied
<1>6. throws' > 0 => \E j \in 1..threads : HoldsException(j)'
  <2>1. SUFFICES ASSUME throws' > 0, throws' = throws
                 PROVE  \E j \in 1..threads : HoldsException(j)'
    BY DEF EachOK, FrameOK
  <2>2. PICK j \in 1..threads : HoldsException(j)
    BY <2>1 DEF EachOK
  <2>3. HoldsException(j)'
    BY <1>1, <1>3, <2>2 DEF HoldsException
  <2>4. QED
    BY <2>3
<1>7. \A j \in 1..collected' : j \in Ids /\ future'[j] = Done
  <2>1. ASSUME NEW j \in 1..collected PROVE j \in Ids /\ future'[j] = Done
    <3>1. j \in Ids /\ future[j] = Done
      BY DEF EachOK
    <3>2. j = k => pc[k] # "apply"
      BY <3>1 DEF EachOK, Applied, Done, Pending
    <3>3. QED
      BY <3>1, <3>2
  <2>2. QED
    BY <2>1
<1>8. QED
  BY <1>2, <1>4, <1>5, <1>6, <1>7 DEF EachOK

\* What the caller returns with.
LEMMA EachReturns ==
  ASSUME SettingOK, ~IsRaw, length > 0, EachOK, pc[Final] = "end"
  PROVE  throws = 0 /\ \A p \in Positions : visits[p] = 1
<1>1. 1..threads \subseteq Ids /\ threads \in 1..length /\ length \in Nat
  BY NumbersOfThreads DEF SettingOK
<1>2. collected \in Nat /\ collected >= threads - 1 /\ Final \in 1..threads
  BY <1>1 DEF EachOK, Applied, Final
<1>3. \A k \in 1..threads : k # Final => future[k] = Done
  <2>1. \A k \in 1..threads : k # Final => k \in 1..collected
    BY <1>1, <1>2 DEF Final
  <2>2. QED
    BY <2>1 DEF EachOK
<1>4. throws = 0
  <2>1. ASSUME NEW k \in 1..threads, HoldsException(k) PROVE FALSE
    <3>1. pc[k] # "thrown"
      BY <1>1 DEF EachOK, FrameOK
    <3>2. future[k] = Kept
      BY <2>1, <3>1 DEF HoldsException
    <3>3. k = Final
      BY <1>3, <3>2 DEF Kept, Done
    <3>4. QED
      BY <3>2, <3>3 DEF EachOK, Applied, Kept, Pending
  <2>2. QED
    BY <2>1 DEF EachOK, FrameOK
<1>5. ASSUME NEW p \in Positions PROVE visits[p] = 1
  <2>1. PICK k \in 1..threads : p \in Block(k)
    BY BlocksOfCall
  <2>2. QED
    BY <1>3, <2>1 DEF EachOK, Applied
<1>6. QED
  BY <1>4, <1>5

\* With a single thread the range is short, or there is but one processor.
LEMMA SingleThread ==
  ASSUME SettingOK, ~IsRaw, threads = 1
  PROVE  length <= MinPerThread \/ hardware = 1
<1>1. length \in Nat /\ hardware \in Nat /\ MinPerThread \in Nat \ {0}
  BY RangesAssumption, MinPerThreadAssumption DEF SettingOK
<1>2. Planned(hardware) \in Nat /\ (Planned(hardware) = 1 => hardware = 1)
  BY <1>1 DEF Planned
<1>3. ASSUME max_threads(length) = 1 PROVE length <= MinPerThread
  <2>1. length + MinPerThread - 1 \in Nat
    BY <1>1
  <2>2. length + MinPerThread - 1 < 1 * MinPerThread + MinPerThread
    BY <1>1, <1>3, <2>1, Quotient DEF max_threads
  <2>3. QED
    BY <1>1, <2>2
<1>4. QED
  BY <1>2, <1>3 DEF threads, num_threads

EachMove ==
  \/ LaunchApply \/ IndexEmpty \/ ReturnEach
  \/ \E k \in Ids : EachStep(k) \/ EachTrouble(k)

LEMMA EachMoves ==
  ASSUME SettingOK, ~IsRaw, EachOK, Alive, EachMove
  PROVE  EachEnds' /\ (Alive' => EachOK')
<1>1. 1..threads \subseteq Ids /\ Ids \subseteq Nat \ {0}
      /\ threads \in Nat /\ length \in Nat /\ (threads > 0 <=> length > 0)
  <2>1. length \in Nat /\ threads \in Nat
    BY NumbersOfThreads DEF SettingOK
  <2>2. QED
    BY <2>1, NumbersOfThreads
<1>2. /\ FrameOK(ApplyPlaces) /\ throws \in Nat /\ visits \in [Positions -> {0, 1}]
      /\ future \in [Ids -> {Pending, Done, Kept}] /\ collected \in Nat
  BY DEF EachOK, FrameOK
<1>3. ASSUME outcome' = Running, EachOK' PROVE EachEnds'
  BY <1>3 DEF EachEnds, EachOK, Running, Returned, Undefined
<1>4. CASE LaunchApply
  <2>1. (StartThread("apply") \/ StartFinal("apply")) /\ UNCHANGED <<eachVars, throws>>
    BY <1>4 DEF LaunchApply
  <2>2. UNCHANGED <<visits, future, collected, throws>> /\ throws' \in Nat
    BY <1>2, <2>1 DEF eachVars
  <2>3. /\ FrameOK(ApplyPlaces)' /\ UNCHANGED setting /\ outcome' = outcome
        /\ \E k \in 1..threads : pc[k] = "off" /\ pc' = [pc EXCEPT ![k] = "apply"]
    <3>1. "apply" \in ApplyPlaces
      BY DEF ApplyPlaces
    <3>2. QED
      BY <1>2, <2>1, <2>2, <3>1, FrameLaunches
  <2>4. PICK k \in 1..threads : pc[k] = "off" /\ pc' = [pc EXCEPT ![k] = "apply"]
    BY <2>3
  <2>5. /\ threads' = threads /\ Final' = Final /\ Positions' = Positions
        /\ \A j : Block(j)' = Block(j)
    BY <2>3, SameFrame
  <2>6. \A j \in Ids : pc'[j] = IF j = k THEN "apply" ELSE pc[j]
    BY <1>2, <2>4 DEF FrameOK
  <2>7. \A j \in 1..threads : Applied(j)'
    BY <1>1, <2>2, <2>4, <2>5, <2>6 DEF EachOK, Applied, Done, Pending
  <2>8. throws' > 0 => \E j \in 1..threads : HoldsException(j)'
    <3>1. ASSUME NEW j \in 1..threads, HoldsException(j) PROVE HoldsException(j)'
      BY <1>1, <2>2, <2>4, <2>6, <3>1 DEF HoldsException
    <3>2. QED
      BY <2>2, <3>1 DEF EachOK
  <2>9. EachOK'
    BY <1>2, <2>2, <2>3, <2>5, <2>7, <2>8 DEF EachOK
  <2>10. QED
    BY <1>3, <2>3, <2>9 DEF Alive
<1>5. CASE IndexEmpty
  <2>1. threads = 1 /\ outcome' = Undefined /\ UNCHANGED <<setting, visits>>
    BY <1>5 DEF IndexEmpty, eachVars
  <2>2. length' = length /\ hardware' = hardware /\ Positions' = Positions
    BY <2>1, SameFrame DEF setting
  <2>3. length <= MinPerThread \/ hardware = 1
    BY <2>1, SingleThread
  <2>4. QED
    BY <1>2, <2>1, <2>2, <2>3
    DEF EachEnds, Alive, Running, Returned, Threw, Undefined
<1>6. CASE ReturnEach
  <2>1. UNCHANGED <<setting, pc, visits, throws>> /\ Positions' = Positions
    BY <1>6, SameFrame DEF ReturnEach, ReturnAtOnce, LeaveByException, Leave, eachVars
  <2>2. ASSUME length > 0, NEW v, Leave(v), pc[Final] \in {"end", "thrown"}
        PROVE  outcome' = v /\ AllJoined /\ NoBlockOutlivesCall'
    <3>1. outcome' = v /\ AllJoined
      BY <2>2 DEF Leave
    <3>2. \A k \in Ids : pc[k] \in {"off", "end", "thrown"}
      BY <1>2, <2>2, <3>1, FrameEnds
    <3>3. QED
      BY <2>1, <3>1, <3>2 DEF NoBlockOutlivesCall
  <2>3. CASE ReturnAtOnce(Returned)
    <3>1. outcome' = Returned /\ length = 0 /\ \A k \in Ids : pc[k] = "off"
      BY <1>2, <2>3, NothingToDo DEF ReturnAtOnce
    <3>2. threads = 0 /\ throws = 0
      BY <1>1, <1>2, <3>1, NumbersOfThreads DEF EachOK
    <3>3. Positions = {}
      BY <3>1 DEF Positions
    <3>4. QED
      BY <1>2, <2>1, <3>1, <3>2, <3>3
      DEF EachEnds, NoBlockOutlivesCall, Alive, Running, Returned, Undefined
  <2>4. CASE length > 0 /\ pc[Final] = "end" /\ Leave(Returned)
    <3>1. outcome' = Returned /\ NoBlockOutlivesCall'
      BY <2>2, <2>4
    <3>2. throws = 0 /\ \A p \in Positions : visits[p] = 1
      BY <2>4, EachReturns
    <3>3. QED
      BY <1>2, <2>1, <3>1, <3>2 DEF EachEnds, Alive, Running, Returned, Undefined
  <2>5. CASE LeaveByException
    <3>1. outcome' = Threw /\ NoBlockOutlivesCall'
      BY <2>2, <2>5 DEF LeaveByException
    <3>2. QED
      BY <1>2, <2>1, <3>1 DEF EachEnds, Alive, Running, Returned, Threw, Undefined
  <2>6. QED
    BY <1>6, <2>3, <2>4, <2>5 DEF ReturnEach
<1>7. ASSUME LaunchApplyFails PROVE EachEnds' /\ (Alive' => EachOK')
  <2>1. throws' = throws + 1 /\ StartFails /\ UNCHANGED <<visits, future, collected>>
    BY <1>7 DEF LaunchApplyFails, eachVars
  <2>2. /\ FrameOK(ApplyPlaces)' /\ UNCHANGED setting /\ outcome' = outcome
        /\ Final \in 1..threads /\ pc[Final] = "off"
        /\ pc' = [pc EXCEPT ![Final] = "thrown"]
    <3>1. throws' \in Nat
      BY <1>2, <2>1
    <3>2. QED
      BY <1>2, <2>1, <3>1, FrameFails
  <2>3. /\ threads' = threads /\ Final' = Final /\ Positions' = Positions
        /\ \A j : Block(j)' = Block(j)
    BY <2>2, SameFrame
  <2>4. \A j \in Ids : pc'[j] = IF j = Final THEN "thrown" ELSE pc[j]
    BY <1>2, <2>2 DEF FrameOK
  <2>5. \A j \in 1..threads : Applied(j)'
    BY <1>1, <2>1, <2>2, <2>3, <2>4 DEF EachOK, Applied, Done, Pending
  <2>6. HoldsException(Final)'
    BY <1>1, <2>2, <2>3, <2>4 DEF HoldsException
  <2>7. EachOK'
    BY <1>2, <2>1, <2>2, <2>3, <2>5, <2>6 DEF EachOK
  <2>8. QED
    BY <1>3, <2>2, <2>7 DEF Alive
<1>8. ASSUME NEW k \in Ids, EachStep(k) \/ ApplyThrows(k)
      PROVE  EachEnds' /\ (Alive' => EachOK')
  <2>1. k \in 1..threads /\ pc[k] \in ApplyPlaces /\ Applied(k)
    <3>1. pc[k] \in {"apply", "ready", "collect"}
      BY <1>8 DEF EachStep, ApplyBlock, ThreadEnds, Collect, CollectThrows, CollectedAll,
                  ApplyThrows
    <3>2. k \in 1..threads
      BY <1>2, <3>1, InFrame
    <3>3. QED
      BY <3>1, <3>2 DEF EachOK, ApplyPlaces
  <2>2. Block(k) \subseteq Positions /\ begin(k) \in Nat /\ end(k) \in Nat
        /\ begin(k) < end(k) /\ end(k) <= length
    BY <2>1, BlockInRange, BlocksOfCall
  <2>3. ASSUME NEW l, Proceed(k, l)
        PROVE  /\ pc'[k] = l /\ threads' = threads /\ Final' = Final /\ Block(k)' = Block(k)
               /\ EachOK' => EachEnds' /\ (Alive' => EachOK')
    <3>1. UNCHANGED <<setting, outcome>> /\ pc'[k] = l
      BY <1>2, <2>3 DEF Proceed, Goto, FrameOK
    <3>2. QED
      BY <1>3, <3>1, SameFrame DEF Alive
  <2>4. CASE ApplyBlock(k)
    <3> DEFINE l == IF k = Final THEN "collect" ELSE "ready"
    <3>1. /\ pc[k] = "apply" /\ Visit(begin(k), end(k) - 1) /\ Proceed(k, l)
          /\ future' = IF k = Final THEN future ELSE [future EXCEPT ![k] = Done]
          /\ UNCHANGED <<collected, throws>>
      BY <2>4 DEF ApplyBlock
    <3>2. /\ visits' \in [Positions -> {0, 1}]
          /\ \A p \in Positions : p \notin Block(k) => visits'[p] = visits[p]
          /\ \A p \in Block(k) : visits'[p] = 1
      <4>1. end(k) - 1 \in Int /\ end(k) - 1 <= end(k) - 1
        BY <2>2
      <4>2. QED
        BY <2>1, <3>1, <4>1, VisitBlock
    <3>3. /\ future' \in [Ids -> {Pending, Done, Kept}]
          /\ \A j \in Ids : j # k => future'[j] = future[j]
          /\ future'[k] = IF k = Final THEN Pending ELSE Done
      BY <1>1, <1>2, <2>1, <3>1 DEF Applied
    <3>4. pc'[k] = l /\ threads' = threads /\ Final' = Final /\ Block(k)' = Block(k)
      BY <2>3, <3>1
    <3>5. Applied(k)' /\ ~HoldsException(k)
      BY <2>1, <3>1, <3>2, <3>3, <3>4 DEF Applied, HoldsException, Pending, Done, Kept
    <3>6. EachOK'
      <4>1. l \in ApplyPlaces /\ l # "thrown" /\ throws' \in Nat /\ throws' >= throws
            /\ ~(throws' > throws)
        BY <1>2, <3>1 DEF ApplyPlaces
      <4>2. pc[k] \notin {"off", "thrown"}
        BY <3>1
      <4> HIDE DEF l
      <4>3. QED
        BY <2>1, <3>1, <3>2, <3>3, <3>5, <4>1, <4>2, EachProceeds
    <3>7. QED
      BY <2>3, <3>1, <3>6
  <2>5. CASE ThreadEnds(k)
    <3>1. /\ Proceed(k, "end") /\ pc[k] = "ready"
          /\ UNCHANGED <<visits, future, collected, throws>>
      BY <2>5 DEF ThreadEnds, eachVars
    <3>2. pc'[k] = "end" /\ threads' = threads /\ Final' = Final /\ Block(k)' = Block(k)
      BY <2>3, <3>1
    <3>3. Applied(k)' /\ (HoldsException(k) => HoldsException(k)')
      BY <2>1, <3>1, <3>2 DEF Applied, HoldsException
    <3>4. EachOK'
      BY <1>2, <2>1, <3>1, <3>2, <3>3, EachProceeds DEF ApplyPlaces
    <3>5. QED
      BY <2>3, <3>1, <3>4
  <2>6. CASE Collect(k)
    <3>1. /\ UNCHANGED frame /\ UNCHANGED <<visits, future, throws>>
          /\ pc[k] = "collect" /\ k = Final /\ collected' = collected + 1
          /\ collected + 1 < threads /\ future[collected + 1] = Done
      BY <1>1, <1>2, <2>6 DEF Collect
    <3>2. UNCHANGED <<setting, pc, started, outcome>>
      BY <3>1 DEF frame
    <3>3. /\ threads' = threads /\ Final' = Final /\ Positions' = Positions
          /\ \A j : Block(j)' = Block(j)
      BY <3>2, SameFrame
    <3>4. FrameOK(ApplyPlaces)'
      BY <1>2, <3>1, <3>2, <3>3 DEF FrameOK
    <3>5. collected + 1 \in Ids
      <4>1. collected + 1 \in 1..threads
        BY <1>1, <1>2, <3>1
      <4>2. QED
        BY <1>1, <4>1
    <3>6. \A j \in 1..collected' : j \in Ids /\ future'[j] = Done
      <4>1. \A j \in 1..collected' : j = collected + 1 \/ j \in 1..collected
        BY <1>2, <3>1
      <4>2. QED
        BY <3>1, <3>5, <4>1 DEF EachOK
    <3>7. ASSUME NEW j \in 1..threads PROVE Applied(j)'
      <4>1. Applied(j) /\ collected' >= collected /\ Block(j)' = Block(j)
        BY <1>2, <3>1, <3>3 DEF EachOK
      <4>2. collected >= threads - 1 => collected' >= threads - 1
        BY <1>1, <1>2, <3>1
      <4>3. QED
        BY <3>1, <3>2, <3>3, <4>1, <4>2 DEF Applied
    <3>8. throws' > 0 => \E j \in 1..threads : HoldsException(j)'
      BY <3>1, <3>2 DEF EachOK, HoldsException
    <3>9. EachOK'
      BY <1>2, <3>1, <3>3, <3>4, <3>6, <3>7, <3>8 DEF EachOK
    <3>10. QED
      BY <1>3, <3>2, <3>9 DEF Alive
  <2>7. CASE CollectThrows(k)
    <3>1. /\ Proceed(k, "thrown") /\ pc[k] = "collect" /\ k = Final
          /\ UNCHANGED <<visits, future, collected, throws>>
      BY <2>7 DEF CollectThrows, eachVars
    <3>2. pc'[k] = "thrown" /\ threads' = threads /\ Final' = Final /\ Block(k)' = Block(k)
      BY <2>3, <3>1
    <3>3. Applied(k)' /\ HoldsException(k)'
      BY <2>1, <3>1, <3>2 DEF Applied, HoldsException
    <3>4. EachOK'
      BY <1>2, <2>1, <3>1, <3>2, <3>3, EachProceeds DEF ApplyPlaces
    <3>5. QED
      BY <2>3, <3>1, <3>4
  <2>8. CASE CollectedAll(k)
    <3>1. /\ Proceed(k, "end") /\ pc[k] = "collect" /\ k = Final /\ collected = threads - 1
          /\ UNCHANGED <<visits, future, collected, throws>>
      BY <2>8 DEF CollectedAll, eachVars
    <3>2. pc'[k] = "end" /\ threads' = threads /\ Final' = Final /\ Block(k)' = Block(k)
      BY <2>3, <3>1
    <3>3. Applied(k)' /\ (HoldsException(k) => HoldsException(k)')
      BY <1>1, <1>2, <2>1, <3>1, <3>2 DEF Applied, HoldsException
    <3>4. EachOK'
      BY <1>2, <2>1, <3>1, <3>2, <3>3, EachProceeds DEF ApplyPlaces
    <3>5. QED
      BY <2>3, <3>1, <3>4
  <2>9. CASE ApplyThrows(k)
    <3> DEFINE l == IF k = Final THEN "thrown" ELSE "ready"
    <3>1. /\ pc[k] = "apply" /\ Proceed(k, l)
          /\ future' = IF k = Final THEN future ELSE [future EXCEPT ![k] = Kept]
          /\ collected' = collected /\ throws' = throws + 1
      BY <2>9 DEF ApplyThrows
    <3>2. PICK p \in Block(k) : Visit(begin(k), p)
      BY <2>9 DEF ApplyThrows
    <3>3. /\ visits' \in [Positions -> {0, 1}]
          /\ \A q \in Positions : q \notin Block(k) => visits'[q] = visits[q]
      <4>1. p \in Int /\ p <= end(k) - 1
        BY <2>2, <3>2 DEF Block
      <4>2. QED
        BY <2>1, <3>1, <3>2, <4>1, VisitBlock
    <3>4. /\ future' \in [Ids -> {Pending, Done, Kept}]
          /\ \A j \in Ids : j # k => future'[j] = future[j]
          /\ future'[k] = IF k = Final THEN Pending ELSE Kept
      BY <1>1, <1>2, <2>1, <3>1 DEF Applied
    <3>5. pc'[k] = l /\ threads' = threads /\ Final' = Final /\ Block(k)' = Block(k)
      BY <2>3, <3>1
    <3>6. Applied(k)' /\ HoldsException(k)'
      BY <2>1, <3>1, <3>4, <3>5 DEF Applied, HoldsException, Pending, Done, Kept
    <3>7. EachOK'
      <4>1. /\ l \in ApplyPlaces \cup {"end", "thrown"} /\ (l = "thrown" => k = Final)
            /\ throws' \in Nat /\ throws' >= throws
        BY <1>2, <3>1 DEF ApplyPlaces
      <4>2. pc[k] \notin {"off", "thrown"}
        BY <3>1
      <4> HIDE DEF l
      <4>3. QED
        BY <2>1, <3>1, <3>3, <3>4, <3>6, <4>1, <4>2, EachProceeds
    <3>8. QED
      BY <2>3, <3>1, <3>7
  <2>10. QED
    BY <1>8, <2>4, <2>5, <2>6, <2>7, <2>8, <2>9 DEF EachStep
<1>9. QED
  BY <1>4, <1>5, <1>6, <1>7, <1>8 DEF EachMove, EachTrouble
-----------------------------------------------------------------------------
(* The accumulate of raw threads.                                          *)

LEMMA Concat ==
  ASSUME NEW s \in Seq(Int), NEW t \in Seq(Int)
  PROVE  /\ s \o t \in Seq(Int) /\ Len(s \o t) = Len(s) + Len(t)
         /\ Len(s) \in Nat /\ Len(t) \in Nat
         /\ \A i \in 1..Len(s) : (s \o t)[i] = s[i]
         /\ \A i \in 1..Len(t) : (s \o t)[Len(s) + i] = t[i]
OBVIOUS

LEMMA ElementsConcat ==
  ASSUME NEW a \in Nat, NEW b \in Nat, NEW c \in Nat, a <= b, b <= c
  PROVE  ElementsOf(a, b) \o ElementsOf(b, c) = ElementsOf(a, c)
<1> DEFINE s == ElementsOf(a, b)
           t == ElementsOf(b, c)
<1>1. s \in Seq(Int) /\ Len(s) = b - a /\ \A i \in 1..(b - a) : s[i] = a + i - 1
  BY DEF ElementsOf
<1>2. t \in Seq(Int) /\ Len(t) = c - b /\ \A i \in 1..(c - b) : t[i] = b + i - 1
  BY DEF ElementsOf
<1> HIDE DEF s, t
<1> DEFINE u == s \o t
<1>3. /\ u \in Seq(Int) /\ Len(u) = c - a
      /\ \A i \in 1..(b - a) : u[i] = s[i]
      /\ \A i \in 1..(c - b) : u[(b - a) + i] = t[i]
  <2>1. /\ u \in Seq(Int) /\ Len(u) = Len(s) + Len(t)
        /\ \A i \in 1..Len(s) : u[i] = s[i]
        /\ \A i \in 1..Len(t) : u[Len(s) + i] = t[i]
    BY <1>1, <1>2, Concat
  <2> HIDE DEF u
  <2>2. (b - a) + (c - b) = c - a
    OBVIOUS
  <2>3. QED
    BY <1>1, <1>2, <2>1, <2>2
<1> HIDE DEF u
<1>4. \A i \in 1..(c - a) : u[i] = a + i - 1
  <2>1. SUFFICES ASSUME NEW i \in 1..(c - a) PROVE u[i] = a + i - 1
    OBVIOUS
  <2>2. CASE i <= b - a
    BY <1>1, <1>3, <2>2
  <2>3. CASE i > b - a
    <3>1. PICK j \in 1..(c - b) : i = (b - a) + j
      <4>1. i - (b - a) \in 1..(c - b) /\ i = (b - a) + (i - (b - a))
        BY <2>3
      <4>2. QED
        BY <4>1
    <3>2. u[i] = b + j - 1
      BY <1>2, <1>3, <3>1
    <3>3. QED
      BY <3>1, <3>2
  <2>4. QED
    BY <2>2, <2>3
<1>5. u = [i \in 1..(c - a) |-> a + i - 1]
  <2>1. DOMAIN u = 1..(c - a) /\ u = [i \in DOMAIN u |-> u[i]]
    BY <1>3
  <2>2. QED
    BY <1>4, <2>1
<1>6. QED
  BY <1>5 DEF s, t, u, ElementsOf

LEMMA BlocksOfRaw ==
  ASSUME SettingOK, IsRaw, threads > 0
  PROVE  /\ \A k \in 1..threads :
              begin(k) \in Nat /\ end(k) \in Nat /\ begin(k) <= end(k)
         /\ begin(1) = 0 /\ end(threads) = length
         /\ \A k \in 1..threads : k + 1 \in 1..threads => begin(k + 1) = end(k)
<1> DEFINE D == length + 1
           q == D \div MinBlockSize
           t == allowed_threads
           b == raw_block_size
<1>1. D \in Nat /\ MinBlockSize \in Nat \ {0} /\ length \in Nat /\ D = length + 1
  BY MinBlockSizeAssumption DEF SettingOK
<1>2. q \in Nat /\ q * MinBlockSize <= D
  BY <1>1, Quotient
<1>3. threads = t /\ t \in Nat \ {0} /\ t <= q
  <2>1. threads = t /\ threads \in Nat
    BY NumbersOfThreads DEF threads
  <2>2. Planned(hardware) \in Nat
    BY RangesAssumption DEF SettingOK, Planned
  <2>3. t <= q
    BY <1>2, <2>2 DEF allowed_threads
  <2>4. QED
    BY <2>1, <2>3
<1>4. t <= D
  <2> HIDE DEF q, t
  <2>1. 1 * q <= MinBlockSize * q
    BY <1>1, <1>2, ProductGrows
  <2>2. MinBlockSize * q = q * MinBlockSize /\ q * MinBlockSize \in Nat
    BY <1>1, <1>2, ProductNat
  <2>3. QED
    BY <1>1, <1>2, <1>3, <2>1, <2>2
<1>5. b \in Nat /\ b * t <= D /\ D < b * t + t
  BY <1>1, <1>3, Quotient DEF raw_block_size
<1>6. b >= 1
  <2>1. ASSUME b = 0 PROVE FALSE
    BY <1>1, <1>3, <1>4, <1>5, <2>1
  <2>2. QED
    BY <1>5, <2>1
<1>7. ASSUME NEW k \in 1..t
      PROVE  /\ (k - 1) * b \in Nat /\ k * b = (k - 1) * b + b /\ k * b <= D
             /\ begin(k) = (k - 1) * b /\ end(k) = IF k = t THEN length ELSE k * b
  <2>1. k \in Nat /\ k - 1 \in Nat /\ k <= t
    BY <1>3
  <2>2. begin(k) = (k - 1) * b
    BY DEF begin
  <2>3. end(k) = IF k = t THEN length ELSE k * b
    BY <1>3 DEF end
  <2> HIDE DEF b, t
  <2>4. (k - 1) * b \in Nat
    BY <1>5, <2>1, ProductNat
  <2>5. k * b = (k - 1) * b + b
    BY <1>5, <2>1
  <2>6. k * b <= t * b /\ t * b = b * t
    BY <1>3, <1>5, <2>1, ProductGrows
  <2>7. k * b \in Nat /\ b * t \in Nat
    BY <1>3, <1>5, <2>1, ProductNat
  <2>8. k * b <= D
    BY <1>1, <1>5, <2>6, <2>7
  <2>9. QED
    BY <2>2, <2>3, <2>4, <2>5, <2>8
<1> HIDE DEF D, q, t, b
<1>8. ASSUME NEW k \in 1..t
      PROVE  begin(k) \in Nat /\ end(k) \in Nat /\ begin(k) <= end(k)
  BY <1>1, <1>5, <1>6, <1>7
<1>9. begin(1) = 0
  <2>1. 1 \in 1..t /\ (1 - 1) * b = 0
    BY <1>3, <1>5
  <2>2. QED
    BY <1>7, <2>1
<1>10. end(t) = length
  BY <1>3, <1>7
<1>11. ASSUME NEW k \in 1..t, k + 1 \in 1..t PROVE begin(k + 1) = end(k)
  <2>1. k # t /\ (k + 1) - 1 = k
    BY <1>3, <1>11
  <2>2. QED
    BY <1>7, <1>11, <2>1
<1>12. QED
  BY <1>3, <1>8, <1>9, <1>10, <1>11

\* No thread is left to a range that is too short.
LEMMA NoThread ==
  ASSUME SettingOK, IsRaw, threads = 0
  PROVE  length < MinBlockSize - 1
<1>1. length + 1 \in Nat /\ MinBlockSize \in Nat \ {0} /\ length \in Nat
  BY MinBlockSizeAssumption DEF SettingOK
<1>2. Planned(hardware) \in Nat \ {0}
  BY RangesAssumption DEF SettingOK, Planned
<1> DEFINE q == (length + 1) \div MinBlockSize
<1>3. q \in Nat /\ length + 1 < q * MinBlockSize + MinBlockSize
  BY <1>1, Quotient
<1>4. q = 0
  BY <1>2, <1>3 DEF threads, allowed_threads
<1> HIDE DEF q
<1>5. q * MinBlockSize = 0
  BY <1>1, <1>4
<1>6. QED
  BY <1>1, <1>3, <1>5

RawPlaces == {"add", "join"}

\* The position behind the first n blocks.
Behind(n) == IF n = 0 THEN 0 ELSE end(n)

Summed(k) ==
  /\ pc[k] # "thrown"
  /\ results[k] = IF pc[k] \in {"off", "add"} THEN <<>> ELSE ElementsOf(begin(k), end(k))
  /\ pc[k] = "join" => k = Final /\ added < threads
  /\ k = Final /\ pc[k] = "end" => joined = started /\ added = threads
  /\ k = Final /\ added > 0 => pc[k] \in {"join", "end"} /\ joined = started

RawOK ==
  /\ FrameOK(RawPlaces) /\ throws = 0
  /\ DOMAIN results = Ids
  /\ joined \in 0..started /\ \A k \in 1..joined : pc[k] = "end"
  /\ added \in 0..threads /\ total = ElementsOf(0, Behind(added))
  /\ \A k \in 1..threads : Summed(k)

RawEnds ==
  /\ outcome \in {Running, Returned, Threw, Terminated, Undefined}
  /\ outcome = Undefined => length < MinBlockSize - 1
  /\ outcome = Terminated => throws > 0
  /\ outcome = Returned => TotalInOrder
  /\ outcome = Undefined \/ outcome = Returned => throws = 0
  /\ outcome \notin {Running, Terminated, Undefined} => NoBlockOutlivesCall

LEMMA RawStarts == Init /\ IsRaw => RawOK
<1> SUFFICES ASSUME Init PROVE RawOK
  OBVIOUS
<1>1. FrameOK(RawPlaces)
  BY FrameStarts
<1>2. 1..threads \subseteq Ids /\ threads \in Nat
  BY InitSetting, NumbersOfThreads
<1>3. /\ throws = 0 /\ results = [k \in Ids |-> <<>>] /\ joined = 0 /\ added = 0
      /\ total = <<>> /\ started = 0 /\ \A k \in Ids : pc[k] = "off"
  BY DEF Init, InitFrame, RawInit
<1>4. ElementsOf(0, 0) = <<>>
  <2>1. 1..(0 - 0) = {}
    OBVIOUS
  <2>2. QED
    BY <2>1 DEF ElementsOf
<1>5. QED
  BY <1>1, <1>2, <1>3, <1>4 DEF RawOK, Summed, Behind

\* The sum of a block is put behind those of the blocks before it.
LEMMA SumsInOrder ==
  ASSUME SettingOK, IsRaw, RawOK, Final \in Ids, pc[Final] = "join", joined = started
  PROVE  /\ added + 1 \in 1..threads
         /\ total \o results[added + 1] = ElementsOf(0, Behind(added + 1))
<1>1. /\ 1..threads \subseteq Ids /\ threads \in Nat \ {0} /\ started \in Nat
      /\ added \in Nat /\ started = threads - 1
  <2>1. threads \in Nat /\ Final > 0
    BY NumbersOfThreads
  <2>2. QED
    BY <2>1, NumbersOfThreads DEF RawOK, FrameOK, Final
<1>2. added < threads
  BY <1>1 DEF RawOK, Summed, Final
<1>3. added + 1 \in 1..threads
  BY <1>1, <1>2
<1>4. pc[added + 1] \in {"join", "end"}
  <2>1. added + 1 = Final \/ added + 1 \in 1..joined
    BY <1>1, <1>3 DEF Final
  <2>2. QED
    BY <2>1 DEF RawOK
<1>5. results[added + 1] = ElementsOf(begin(added + 1), end(added + 1))
  BY <1>3, <1>4 DEF RawOK, Summed
<1>6. begin(added + 1) \in Nat /\ end(added + 1) \in Nat /\ begin(added + 1) <= end(added + 1)
  BY <1>1, <1>3, BlocksOfRaw
<1>7. begin(added + 1) = Behind(added)
  <2>1. CASE added = 0
    BY <1>1, <2>1, BlocksOfRaw DEF Behind
  <2>2. CASE added # 0
    <3>1. added \in 1..threads
      BY <1>1, <1>2, <2>2
    <3>2. QED
      BY <1>1, <1>3, <2>2, <3>1, BlocksOfRaw DEF Behind
  <2>3. QED
    BY <2>1, <2>2
<1>8. Behind(added + 1) = end(added + 1)
  BY <1>1 DEF Behind
<1>9. total = ElementsOf(0, begin(added + 1)) /\ 0 <= begin(added + 1)
  BY <1>6, <1>7 DEF RawOK
<1>10. QED
  BY <1>3, <1>5, <1>6, <1>8, <1>9, ElementsConcat

RawMove ==
  \/ LaunchRaw \/ DivideByZero \/ ReturnRaw
  \/ \E k \in Ids : RawStep(k) \/ RawTrouble(k)

LEMMA RawMoves ==
  ASSUME SettingOK, IsRaw, RawOK, Alive, RawMove
  PROVE  RawEnds' /\ (Alive' => RawOK')
<1>1. /\ 1..threads \subseteq Ids /\ Ids \subseteq Nat \ {0}
      /\ threads \in Nat /\ length \in Nat
  BY NumbersOfThreads DEF SettingOK
<1>2. /\ FrameOK(RawPlaces) /\ throws = 0 /\ DOMAIN results = Ids
      /\ joined \in Nat /\ joined <= started /\ started \in Nat /\ added \in Nat
      /\ added <= threads /\ \A k \in 1..threads : Summed(k)
      /\ \A k \in 1..joined : pc[k] = "end"
  BY <1>1 DEF RawOK, FrameOK
<1>3. 1..joined \subseteq Ids
  <2>1. 1..joined \subseteq 1..threads
    BY <1>1, <1>2 DEF FrameOK
  <2>2. QED
    BY <1>1, <2>1
<1>4. ASSUME outcome' = Running PROVE RawEnds'
  BY <1>4 DEF RawEnds, Running, Returned, Terminated, Undefined
<1>5. CASE LaunchRaw
  <2>1. (StartThread("add") \/ StartFinal("add")) /\ UNCHANGED <<rawVars, throws>>
    BY <1>5 DEF LaunchRaw
  <2>2. UNCHANGED <<results, joined, added, total, throws>> /\ throws' \in Nat
    BY <1>2, <2>1 DEF rawVars
  <2>3. /\ FrameOK(RawPlaces)' /\ UNCHANGED setting /\ outcome' = outcome
        /\ \E k \in 1..threads : pc[k] = "off" /\ pc' = [pc EXCEPT ![k] = "add"]
    <3>1. "add" \in RawPlaces
      BY DEF RawPlaces
    <3>2. QED
      BY <1>2, <2>1, <2>2, <3>1, FrameLaunches
  <2>4. PICK k \in 1..threads : pc[k] = "off" /\ pc' = [pc EXCEPT ![k] = "add"]
    BY <2>3
  <2>5. /\ threads' = threads /\ Final' = Final
        /\ \A j : begin(j)' = begin(j) /\ end(j)' = end(j)
    BY <2>3, SameFrame
  <2>6. \A j \in Ids : pc'[j] = IF j = k THEN "add" ELSE pc[j]
    BY <1>2, <2>4 DEF FrameOK
  <2>7. pc[Final] = "off" /\ Final \in 1..threads /\ started' \in Nat /\ started' >= started
    <3>1. pc[Final] = "off" /\ threads > 0
      BY <2>1 DEF StartThread, StartFinal, Starting
    <3>2. started' = started + 1 \/ started' = started
      BY <2>1 DEF StartThread, StartFinal, Proceed
    <3>3. QED
      BY <1>1, <1>2, <3>1, <3>2 DEF Final
  <2>8. added = 0
    BY <1>2, <2>7 DEF Summed
  <2>9. \A j \in 1..threads : Summed(j)'
    BY <1>1, <1>2, <2>2, <2>4, <2>5, <2>6, <2>7, <2>8 DEF Summed
  <2>10. \A j \in 1..joined : pc'[j] = "end"
    BY <1>2, <1>3, <2>4, <2>6
  <2>11. total' = ElementsOf(0, Behind(added))
    BY <2>2 DEF RawOK
  <2>12. RawOK'
    BY <1>1, <1>2, <2>2, <2>3, <2>5, <2>7, <2>8, <2>9, <2>10, <2>11 DEF RawOK, Behind
  <2>13. QED
    BY <1>4, <2>3, <2>12 DEF Alive
<1>6. CASE DivideByZero
  <2>1. threads = 0 /\ outcome' = Undefined /\ throws' = throws /\ length' = length
    BY <1>6 DEF DivideByZero, setting
  <2>2. length < MinBlockSize - 1
    BY <2>1, NoThread
  <2>3. QED
    BY <1>2, <2>1, <2>2 DEF RawEnds, Alive, Running, Returned, Threw, Terminated, Undefined
<1>7. CASE ReturnRaw
  <2>1. /\ threads > 0 /\ pc[Final] = "end" /\ outcome' = Returned
        /\ UNCHANGED <<length, pc, started, total, throws>>
    BY <1>7 DEF ReturnRaw, rawVars, setting
  <2>2. Final \in 1..threads /\ Summed(Final)
    BY <1>1, <1>2, <2>1 DEF Final
  <2>3. joined = started /\ added = threads
    BY <2>1, <2>2 DEF Summed
  <2>4. \A k \in Ids : pc[k] \in {"off", "end", "thrown"}
    BY <1>2, <2>1, <2>3, FrameEnds DEF AllJoined
  <2>5. total = ElementsOf(0, length)
    BY <1>1, <2>1, <2>3, BlocksOfRaw DEF RawOK, Behind
  <2>6. QED
    BY <1>2, <2>1, <2>4, <2>5
    DEF RawEnds, TotalInOrder, NoBlockOutlivesCall, Alive, Running, Returned, Threw,
        Terminated, Undefined
\* An exception leaves the function: with no thread started, none is left.
<1>20. ASSUME LeaveUnjoined, throws' = throws + 1 PROVE RawEnds' /\ ~Alive'
  <2>1. /\ outcome' = IF started > 0 THEN Terminated ELSE Threw
        /\ pc' = [pc EXCEPT ![Final] = "thrown"]
    BY <1>20 DEF LeaveUnjoined, Goto
  <2>2. ASSUME started = 0, NEW k \in Ids PROVE pc'[k] \in {"off", "thrown"}
    <3>1. pc'[k] = IF k = Final THEN "thrown" ELSE pc[k]
      BY <1>2, <2>1 DEF FrameOK
    <3>2. k # Final => pc[k] = "off"
      <4>1. ~(k <= started)
        BY <1>1, <2>2
      <4>2. QED
        BY <1>2, <4>1 DEF FrameOK
    <3>3. QED
      BY <3>1, <3>2
  <2>3. QED
    BY <1>2, <1>20, <2>1, <2>2
    DEF RawEnds, NoBlockOutlivesCall, Alive, Running, Returned, Threw, Terminated, Undefined
<1>8. ASSUME LaunchRawFails PROVE RawEnds' /\ (Alive' => RawOK')
  BY <1>8, <1>20 DEF LaunchRawFails
<1>9. ASSUME NEW k \in Ids, RawStep(k) \/ SumUpThrows(k)
      PROVE  RawEnds' /\ (Alive' => RawOK')
  <2>1. k \in 1..threads /\ pc[k] \in RawPlaces /\ Summed(k) /\ threads > 0
    <3>1. pc[k] \in {"add", "join"}
      BY <1>9 DEF RawStep, SumUp, JoinThread, AddResult, SumUpThrows
    <3>2. k \in 1..threads
      BY <1>2, <3>1, InFrame
    <3>3. QED
      BY <1>1, <1>2, <3>1, <3>2 DEF RawPlaces
  <2>2. begin(k) \in Nat /\ end(k) \in Nat /\ begin(k) <= end(k)
    BY <2>1, BlocksOfRaw
  <2>3. CASE SumUp(k)
    <3> DEFINE l == IF k = Final THEN "join" ELSE "end"
    <3>1. /\ pc[k] = "add" /\ Proceed(k, l)
          /\ results' = [results EXCEPT ![k] = results[k] \o ElementsOf(begin(k), end(k))]
          /\ UNCHANGED <<joined, added, total, throws>>
      BY <2>3 DEF SumUp
    <3>2. \A j \in Ids : pc'[j] = IF j = k THEN l ELSE pc[j]
      BY <1>2, <3>1 DEF Proceed, Goto, FrameOK
    <3>3. /\ threads' = threads /\ Final' = Final /\ outcome' = outcome /\ started' = started
          /\ \A j : begin(j)' = begin(j) /\ end(j)' = end(j)
      BY <3>1, SameFrame DEF Proceed
    <3>4. FrameOK(RawPlaces)'
      <4>1. l \in RawPlaces \cup {"end"} /\ l \notin {"off", "thrown"} /\ throws' \in Nat
        BY <1>2, <3>1 DEF RawPlaces
      <4> HIDE DEF l
      <4>2. QED
        BY <1>2, <3>1, <4>1, FrameProceeds
    <3>5. results[k] \o ElementsOf(begin(k), end(k)) = ElementsOf(begin(k), end(k))
      <4>1. results[k] = <<>>
        BY <2>1, <3>1 DEF Summed
      <4>2. ElementsOf(begin(k), end(k)) \in Seq(Int)
        BY <2>2 DEF ElementsOf
      <4>3. QED
        BY <4>1, <4>2
    <3>6. \A j \in Ids : results'[j] = IF j = k THEN ElementsOf(begin(k), end(k)) ELSE results[j]
      BY <1>2, <3>1, <3>5
    <3>7. k = Final => added = 0
      BY <1>2, <2>1, <3>1 DEF Summed
    <3>8. \A j \in 1..threads : Summed(j)'
      BY <1>1, <1>2, <2>1, <3>1, <3>2, <3>3, <3>6, <3>7 DEF Summed
    <3>9. \A j \in 1..joined : pc'[j] = "end"
      BY <1>2, <1>3, <3>1, <3>2
    <3>10. total' = ElementsOf(0, Behind(added)) /\ Behind(added)' = Behind(added)
      BY <3>1, <3>3 DEF RawOK, Behind
    <3>11. RawOK'
      BY <1>1, <1>2, <3>1, <3>3, <3>4, <3>8, <3>9, <3>10 DEF RawOK
    <3>12. QED
      BY <1>4, <3>3, <3>11 DEF Alive
  <2>4. CASE JoinThread(k)
    <3>1. /\ UNCHANGED frame /\ UNCHANGED <<results, added, total, throws>>
          /\ pc[k] = "join" /\ k = Final /\ joined < started
          /\ pc[joined + 1] = "end" /\ joined' = joined + 1
      BY <2>4 DEF JoinThread
    <3>2. UNCHANGED <<setting, pc, started, outcome>>
      BY <3>1 DEF frame
    <3>3. /\ threads' = threads /\ Final' = Final
          /\ \A j : begin(j)' = begin(j) /\ end(j)' = end(j)
      BY <3>2, SameFrame
    <3>4. FrameOK(RawPlaces)'
      BY <1>2, <3>1, <3>2, <3>3 DEF FrameOK
    <3>5. \A j \in 1..joined' : pc'[j] = "end"
      <4>1. \A j \in 1..joined' : j = joined + 1 \/ j \in 1..joined
        BY <1>2, <3>1
      <4>2. QED
        BY <1>2, <3>1, <3>2, <4>1
    <3>6. added = 0
      BY <1>2, <2>1, <3>1 DEF Summed
    <3>7. \A j \in 1..threads : Summed(j)'
      BY <1>2, <3>1, <3>2, <3>3, <3>6 DEF Summed
    <3>8. total' = ElementsOf(0, Behind(added)) /\ Behind(added)' = Behind(added)
      BY <3>1, <3>3 DEF RawOK, Behind
    <3>9. RawOK'
      BY <1>1, <1>2, <3>1, <3>2, <3>3, <3>4, <3>5, <3>7, <3>8 DEF RawOK
    <3>10. QED
      BY <1>4, <3>2, <3>9 DEF Alive
  <2>5. CASE AddResult(k)
    <3>1. /\ UNCHANGED <<results, joined, throws>>
          /\ pc[k] = "join" /\ k = Final /\ joined = started /\ added' = added + 1
          /\ total' = total \o results[added + 1]
          /\ IF added + 1 = threads THEN Proceed(k, "end") ELSE UNCHANGED frame
      BY <2>5 DEF AddResult
    <3>2. UNCHANGED <<setting, started, outcome>>
      BY <3>1 DEF Proceed, frame
    <3>3. /\ threads' = threads /\ Final' = Final
          /\ \A j : begin(j)' = begin(j) /\ end(j)' = end(j)
      BY <3>2, SameFrame
    <3>4. \A j \in Ids : pc'[j] = IF j = k /\ added + 1 = threads THEN "end" ELSE pc[j]
      BY <1>2, <3>1 DEF Proceed, Goto, frame, FrameOK
    <3>5. FrameOK(RawPlaces)'
      <4>1. CASE added + 1 = threads
        <5>1. throws' \in Nat
          BY <1>2, <3>1
        <5>2. QED
          BY <1>2, <3>1, <4>1, <5>1, FrameProceeds
      <4>2. CASE added + 1 # threads
        <5>1. UNCHANGED <<pc, started>>
          BY <3>1, <4>2 DEF frame
        <5>2. QED
          BY <1>2, <3>1, <3>3, <5>1 DEF FrameOK
      <4>3. QED
        BY <4>1, <4>2
    <3>6. /\ added + 1 \in 1..threads
          /\ total \o results[added + 1] = ElementsOf(0, Behind(added + 1))
      BY <3>1, SumsInOrder
    <3>7. Behind(added)' = Behind(added + 1)
      BY <3>1, <3>3 DEF Behind
    <3>8. \A j \in 1..threads : Summed(j)'
      <4>1. k = Final /\ joined' = started' /\ added' > 0
        BY <1>2, <3>1, <3>2
      <4>2. added' = threads \/ added' < threads
        BY <1>1, <1>2, <3>1, <3>6
      <4>3. ASSUME NEW j \in 1..threads PROVE Summed(j)'
        <5>1. Summed(j) /\ j \in Ids
          BY <1>1, <1>2
        <5>2. CASE j = k
          BY <1>1, <1>2, <3>1, <3>2, <3>3, <3>4, <4>1, <4>2, <5>1, <5>2 DEF Summed
        <5>3. CASE j # k
          BY <3>1, <3>2, <3>3, <3>4, <5>1, <5>3 DEF Summed
        <5>4. QED
          BY <5>2, <5>3
      <4>4. QED
        BY <4>3
    <3>9. \A j \in 1..joined' : pc'[j] = "end"
      BY <1>2, <1>3, <3>1, <3>4
    <3>10. added' \in 0..threads /\ joined' \in 0..started'
      BY <1>1, <1>2, <3>1, <3>2, <3>6
    <3>11. RawOK'
      BY <1>2, <3>1, <3>3, <3>5, <3>6, <3>7, <3>8, <3>9, <3>10 DEF RawOK
    <3>12. QED
      BY <1>4, <3>2, <3>11 DEF Alive
  <2>6. CASE SumUpThrows(k)
    <3>1. CASE k = Final
      BY <1>20, <2>6, <3>1 DEF SumUpThrows
    <3>2. CASE k # Final
      <4>1. outcome' = Terminated /\ throws' = throws + 1
        BY <2>6, <3>2 DEF SumUpThrows, Escape
      <4>2. QED
        BY <1>2, <4>1 DEF RawEnds, Alive, Running, Returned, Threw, Terminated, Undefined
    <3>3. QED
      BY <3>1, <3>2
  <2>7. QED
    BY <1>9, <2>3, <2>4, <2>5, <2>6 DEF RawStep
<1>10. QED
  BY <1>5, <1>6, <1>7, <1>8, <1>9 DEF RawMove, RawTrouble
-----------------------------------------------------------------------------
(* Matrices.                                                               *)

\* What the sizes have in common whatever they are.
ShapeOK ==
  /\ Rows("results") \in Nat \ {0} /\ Columns("results") \in Nat
  /\ length = Rows("results") * Columns("results")
  /\ algorithm = "multiply" => /\ Columns("x") = Inner /\ Rows("x") \in Nat
                               /\ Rows("y") \in Nat /\ Columns("y") \in Nat

Computed(k) ==
  \A i \in Block(k) : cell[i] = IF pc[k] = "end" THEN Terms(i) ELSE <<>>

MatrixOK ==
  /\ FrameOK({"compute"}) /\ ShapeOK
  /\ DOMAIN cell = Positions
  /\ \A k \in 1..threads : Computed(k)
  /\ throws > 0 => threads > 0 /\ pc[Final] = "thrown"
  /\ algorithm = "transpose" /\ ~SizesFit => throws = 0 /\ \A k \in Ids : pc[k] = "off"

MatrixEnds ==
  /\ outcome \in {Running, Returned, Threw, Undefined}
  /\ outcome = Undefined => algorithm = "multiply" /\ OperandTooSmall
  /\ outcome = Returned => throws = 0 /\ MatrixIsRight
  /\ outcome \notin {Running, Undefined} => NoBlockOutlivesCall

\* A length that has a divisor is a product.
LEMMA Divides ==
  ASSUME NEW a \in Nat, NEW d \in Nat \ {0}, a % d = 0
  PROVE  a = d * (a \div d)
OBVIOUS

LEMMA ShapeStarts == Init /\ algorithm \in MatrixNames => ShapeOK
<1> SUFFICES ASSUME Init, algorithm \in MatrixNames PROVE ShapeOK
  OBVIOUS
<1>1. length \in Nat
  BY InitSetting DEF SettingOK
<1>2. Max({1, length}) \in {1, length}
  <2>1. \E m \in {1, length} : \A n \in {1, length} : m >= n
    <3>1. 1 >= length \/ length >= 1
      BY <1>1
    <3>2. 1 >= 1 /\ length >= length
      BY <1>1
    <3>3. QED
      BY <3>1, <3>2
  <2>2. QED
    BY <2>1 DEF Max
<1>3. PICK r \in 1..Max({1, length}) :
        /\ length % r = 0
        /\ LET c == length \div r IN
           sizes \in [x : IF algorithm = "multiply" THEN {r - 1, r} \X {Inner}
                          ELSE {<<c, r>>, <<r, c>>},
                      y : IF algorithm = "multiply" THEN {Inner - 1, Inner} \X Near(c)
                          ELSE {NoSize},
                      results : {<<r, c>>}]
  BY DEF Init, MatrixInit
<1> DEFINE c == length \div r
<1>4. r \in Nat \ {0}
  BY <1>1, <1>2
<1>5. c \in Nat /\ length = r * c
  <2>1. c \in Nat
    BY <1>1, <1>4, Quotient
  <2>2. QED
    BY <1>1, <1>3, <1>4, <2>1, Divides
<1> HIDE DEF c
<1>6. /\ sizes.results = <<r, c>>
      /\ algorithm = "multiply" => /\ sizes.x \in {r - 1, r} \X {Inner}
                                   /\ sizes.y \in {Inner - 1, Inner} \X Near(c)
  BY <1>3 DEF c
<1>7. Rows("results") = r /\ Columns("results") = c
  BY <1>6 DEF Rows, Columns
<1>8. ASSUME algorithm = "multiply"
      PROVE  /\ Columns("x") = Inner /\ Rows("x") \in Nat
             /\ Rows("y") \in Nat /\ Columns("y") \in Nat
  <2>1. \A m \in Near(c) : m \in Nat
    BY <1>5 DEF Near
  <2>2. {r - 1, r} \subseteq Nat /\ {Inner - 1, Inner} \subseteq Nat
    BY <1>4 DEF Inner
  <2>3. QED
    BY <1>6, <1>8, <2>1, <2>2 DEF Rows, Columns
<1>9. QED
  BY <1>4, <1>5, <1>7, <1>8 DEF ShapeOK

LEMMA MatrixStarts == Init /\ algorithm \in MatrixNames => MatrixOK
<1> SUFFICES ASSUME Init, algorithm \in MatrixNames PROVE MatrixOK
  OBVIOUS
<1>1. FrameOK({"compute"}) /\ ShapeOK /\ ~IsRaw
  BY FrameStarts, ShapeStarts DEF MatrixNames, IsRaw
<1>2. 1..threads \subseteq Ids
  BY InitSetting, NumbersOfThreads
<1>3. /\ throws = 0 /\ cell = [p \in Positions |-> <<>>] /\ \A k \in Ids : pc[k] = "off"
  BY DEF Init, InitFrame, MatrixInit
<1>4. \A k \in 1..threads : Block(k) \subseteq Positions
  BY <1>1, InitSetting, BlockInRange
<1>5. QED
  BY <1>1, <1>2, <1>3, <1>4 DEF MatrixOK, Computed

\* Index i of n rows of m columns, and the offset j in a row.
LEMMA RowInBounds ==
  ASSUME NEW n \in Nat, NEW a \in Nat, a < n, NEW j \in 1..2
  PROVE  a * 2 + (j - 1) < n * 2
OBVIOUS

\* No product is out of bounds when x has a row for each row of the result, and
\* y has a row for each column of x and a column for each row of the result.
LEMMA InBounds ==
  ASSUME SettingOK, ShapeOK, NEW i \in Positions, OutOfBounds(i)
  PROVE  algorithm = "multiply" /\ OperandTooSmall
<1> DEFINE r == Rows("results")
           c == Columns("results")
           n == Rows("x")
           h == Rows("y")
           w == Columns("y")
<1>1. /\ algorithm = "multiply"
      /\ \E t \in Range(Terms(i)) : t[1] >= n * Columns("x") \/ t[2] >= h * w
  BY DEF OutOfBounds
<1>2. /\ r \in Nat \ {0} /\ c \in Nat /\ n \in Nat /\ h \in Nat /\ w \in Nat
      /\ Columns("x") = 2 /\ i \in Nat /\ i < length /\ length = r * c
  BY <1>1 DEF ShapeOK, Inner, Positions, SettingOK
<1>3. PICK j \in 1..2 : Product(i, j - 1)[1] >= n * 2 \/ Product(i, j - 1)[2] >= h * w
  <2>1. Terms(i) = [j \in 1..2 |-> Product(i, j - 1)]
    BY <1>1, <1>2 DEF Terms
  <2>2. Range(Terms(i)) = {Product(i, j - 1) : j \in 1..2}
    BY <2>1 DEF Range
  <2>3. QED
    BY <1>1, <1>2, <2>2
<1>4. /\ Product(i, j - 1)[1] = (i \div c) * 2 + (j - 1)
      /\ Product(i, j - 1)[2] = (i % r) + (j - 1) * w
  BY <1>2 DEF Product
<1>5. i % r \in Nat /\ i % r < r
  BY <1>2
<1> HIDE DEF r, c, n, h, w
<1>6. (j - 1) * w <= w /\ (j - 1) * w \in Nat
  <2>1. j = 1 \/ j = 2
    OBVIOUS
  <2>2. QED
    BY <1>2, <2>1
<1>7. ASSUME r <= w, 2 <= h PROVE ~(Product(i, j - 1)[2] >= h * w)
  <2>1. 2 * w <= h * w /\ h * w \in Nat
    BY <1>2, <1>7, ProductGrows, ProductNat
  <2>2. 2 * w = w + w
    BY <1>2
  <2>3. QED
    BY <1>2, <1>4, <1>5, <1>6, <1>7, <2>1, <2>2
<1>8. ASSUME r <= n PROVE ~(Product(i, j - 1)[1] >= n * 2)
  <2>1. c \in Nat \ {0}
    BY <1>2
  <2>2. i \div c \in Nat /\ i \div c < r
    <3>1. i \div c \in Nat /\ i % c \in 0..(c - 1) /\ i = c * (i \div c) + (i % c)
      BY <1>2, <2>1
    <3> DEFINE a == i \div c
    <3>2. ASSUME r <= a PROVE FALSE
      <4>1. r * c <= a * c
        BY <1>2, <2>1, <3>1, <3>2, ProductGrows
      <4>2. a * c = c * a
        BY <2>1, <3>1
      <4> HIDE DEF a
      <4>3. r * c \in Nat /\ c * a \in Nat
        BY <1>2, <2>1, <3>1, ProductNat DEF a
      <4>4. QED
        BY <1>2, <2>1, <3>1, <4>1, <4>2, <4>3 DEF a
    <3>3. QED
      BY <1>2, <3>1, <3>2
  <2>3. QED
    <3> DEFINE a == i \div c
    <3>1. a \in Nat /\ a < n
      BY <1>2, <1>8, <2>2
    <3> HIDE DEF a
    <3>2. a * 2 + (j - 1) < n * 2
      BY <1>2, <3>1, RowInBounds
    <3>3. a * 2 + (j - 1) \in Nat /\ n * 2 \in Nat
      BY <1>2, <3>1
    <3>4. QED
      BY <1>4, <3>2, <3>3 DEF a
<1>9. n < r \/ h < 2 \/ w < r
  BY <1>2, <1>3, <1>7, <1>8
<1>10. QED
  BY <1>1, <1>2, <1>9 DEF OperandTooSmall, r, n, h, w

\* A cell that was computed is right, if the sizes fit.
LEMMA ComputedRight ==
  ASSUME SettingOK, ShapeOK, length > 0, NEW i \in Positions, cell[i] = Terms(i),
         \/ algorithm = "transpose" /\ SizesFit
         \/ algorithm = "multiply" /\ ProductFits /\ Rows("results") = Columns("results")
  PROVE  Right(i)
<1> DEFINE r == Rows("results")
           c == Columns("results")
<1>1. r \in Nat \ {0} /\ c \in Nat \ {0} /\ i \in Nat
  <2>1. r \in Nat \ {0} /\ c \in Nat /\ length = r * c /\ i \in Nat
    BY DEF ShapeOK, Positions, SettingOK
  <2> HIDE DEF r, c
  <2>2. c # 0
    BY <2>1
  <2>3. QED
    BY <2>1, <2>2
<1>2. i \div c \in Nat /\ i % c \in Nat
  BY <1>1, Quotient
<1>3. CASE algorithm = "transpose"
  <2>1. Columns("x") = r
    BY <1>3 DEF SizesFit
  <2>2. cell[i] = <<(i % c) * r + i \div c>>
    BY <1>3, <2>1 DEF Terms, Flipped
  <2>3. QED
    BY <1>3, <2>2 DEF Right
<1>4. CASE algorithm = "multiply"
  <2>1. Columns("x") = Inner /\ Columns("y") = c /\ r = c
    BY <1>4 DEF ShapeOK, ProductFits
  <2>2. cell[i] = [j \in 1..Inner |->
                     <<(i \div c) * Inner + (j - 1), (i % c) + (j - 1) * c>>]
    BY <1>4, <2>1 DEF Terms, Product
  <2>3. ASSUME NEW j \in 1..Inner
        PROVE  /\ (i \div c) * Inner + (j - 1) = (i \div c) * Inner + j - 1
               /\ (i % c) + (j - 1) * c = (j - 1) * c + (i % c)
    <3> DEFINE a == i \div c
               b == i % c
    <3>1. a \in Nat /\ b \in Nat /\ j \in Nat /\ c \in Nat
      BY <1>1, <1>2 DEF Inner
    <3> HIDE DEF a, b, c
    <3>2. a * Inner + (j - 1) = a * Inner + j - 1
      BY <3>1 DEF Inner
    <3>3. j - 1 \in Nat /\ (j - 1) * c \in Nat
      BY <3>1, ProductNat DEF Inner
    <3>4. b + (j - 1) * c = (j - 1) * c + b
      BY <3>1, <3>3
    <3>5. QED
      BY <3>2, <3>4 DEF a, b
  <2>4. QED
    BY <1>4, <2>2, <2>3 DEF Right
<1>5. QED
  BY <1>3, <1>4

MatrixMove ==
  \/ LaunchMatrix \/ RefuseSizes \/ ReturnMatrix \/ LaunchMatrixFails
  \/ \E k \in Ids : ComputeBlock(k)

\* All definitions of the sizes stay as they are.
LEMMA SameSizes ==
  ASSUME UNCHANGED setting, sizes' = sizes
  PROVE  /\ ShapeOK' = ShapeOK /\ SizesFit' = SizesFit
         /\ \A i : Terms(i)' = Terms(i)
BY DEF setting, ShapeOK, SizesFit, Rows, Columns, Terms, Product, Flipped

LEMMA MatrixMoves ==
  ASSUME SettingOK, algorithm \in MatrixNames, MatrixOK, Alive, MatrixMove
  PROVE  MatrixEnds' /\ (Alive' => MatrixOK')
<1>1. /\ ~IsRaw /\ 1..threads \subseteq Ids /\ Ids \subseteq Nat \ {0}
      /\ threads \in Nat /\ length \in Nat /\ (threads > 0 <=> length > 0)
  <2>1. ~IsRaw /\ length \in Nat /\ threads \in Nat
    BY NumbersOfThreads DEF SettingOK, MatrixNames, IsRaw
  <2>2. QED
    BY <2>1, NumbersOfThreads
<1>2. FrameOK({"compute"}) /\ throws \in Nat /\ DOMAIN cell = Positions /\ ShapeOK
  BY DEF MatrixOK, FrameOK
<1>3. ASSUME outcome' = Running PROVE MatrixEnds'
  BY <1>3 DEF MatrixEnds, Running, Returned, Undefined
<1>4. CASE LaunchMatrix
  <2>1. /\ StartThread("compute") \/ StartFinal("compute")
        /\ UNCHANGED <<sizes, cell, throws>> /\ throws' \in Nat
        /\ algorithm = "transpose" => SizesFit
    BY <1>2, <1>4 DEF LaunchMatrix, matrixVars
  <2>2. /\ FrameOK({"compute"})' /\ UNCHANGED setting /\ outcome' = outcome
        /\ \E k \in 1..threads : pc[k] = "off" /\ pc' = [pc EXCEPT ![k] = "compute"]
    BY <1>2, <2>1, FrameLaunches
  <2>3. PICK k \in 1..threads : pc[k] = "off" /\ pc' = [pc EXCEPT ![k] = "compute"]
    BY <2>2
  <2>4. /\ threads' = threads /\ Final' = Final /\ Positions' = Positions
        /\ algorithm' = algorithm /\ \A j : Block(j)' = Block(j)
    BY <2>2, SameFrame DEF setting
  <2>5. \A j \in Ids : pc'[j] = IF j = k THEN "compute" ELSE pc[j]
    BY <1>2, <2>3 DEF FrameOK
  <2>6. ShapeOK' /\ SizesFit' = SizesFit /\ \A i : Terms(i)' = Terms(i)
    BY <1>2, <2>1, <2>2, SameSizes
  <2>7. \A j \in 1..threads : Computed(j)'
    BY <1>1, <2>1, <2>3, <2>4, <2>5, <2>6 DEF MatrixOK, Computed
  <2>8. throws' = 0
    <3>1. pc[Final] = "off"
      BY <2>1 DEF StartThread, StartFinal, Starting
    <3>2. QED
      BY <1>2, <2>1, <3>1 DEF MatrixOK
  <2>9. MatrixOK'
    BY <1>2, <2>1, <2>2, <2>4, <2>6, <2>7, <2>8 DEF MatrixOK
  <2>10. QED
    BY <1>3, <2>2, <2>9 DEF Alive
<1>5. CASE LaunchMatrixFails
  <2>1. /\ StartFails /\ UNCHANGED <<sizes, cell>> /\ throws' = throws + 1
        /\ algorithm = "transpose" => SizesFit
    BY <1>5 DEF LaunchMatrixFails, matrixVars
  <2>2. /\ FrameOK({"compute"})' /\ UNCHANGED setting /\ outcome' = outcome
        /\ Final \in 1..threads /\ pc[Final] = "off"
        /\ pc' = [pc EXCEPT ![Final] = "thrown"]
    <3>1. throws' \in Nat
      BY <1>2, <2>1
    <3>2. QED
      BY <1>2, <2>1, <3>1, FrameFails
  <2>3. /\ threads' = threads /\ Final' = Final /\ Positions' = Positions
        /\ algorithm' = algorithm /\ \A j : Block(j)' = Block(j)
    BY <2>2, SameFrame DEF setting
  <2>4. \A j \in Ids : pc'[j] = IF j = Final THEN "thrown" ELSE pc[j]
    BY <1>2, <2>2 DEF FrameOK
  <2>5. ShapeOK' /\ SizesFit' = SizesFit /\ \A i : Terms(i)' = Terms(i)
    BY <1>2, <2>1, <2>2, SameSizes
  <2>6. \A j \in 1..threads : Computed(j)'
    BY <1>1, <2>1, <2>2, <2>3, <2>4, <2>5 DEF MatrixOK, Computed
  <2>7. threads' > 0 /\ pc'[Final] = "thrown"
    BY <1>1, <2>2, <2>3, <2>4
  <2>8. MatrixOK'
    BY <1>2, <2>1, <2>2, <2>3, <2>5, <2>6, <2>7 DEF MatrixOK
  <2>9. QED
    BY <1>3, <2>2, <2>8 DEF Alive
<1>6. CASE RefuseSizes
  <2>1. /\ algorithm = "transpose" /\ ~SizesFit /\ outcome' = Returned
        /\ UNCHANGED <<setting, pc, sizes, cell, throws>>
    BY <1>6 DEF RefuseSizes, matrixVars
  <2>2. throws = 0 /\ \A k \in Ids : pc[k] = "off"
    BY <2>1 DEF MatrixOK
  <2>3. \A i \in Positions : cell[i] = <<>>
    <3>1. SUFFICES ASSUME NEW i \in Positions PROVE cell[i] = <<>>
      OBVIOUS
    <3>2. length > 0
      BY <1>1 DEF Positions
    <3>3. PICK k \in 1..threads : i \in Block(k)
      BY <1>1, <3>2, BlocksOfCall
    <3>4. QED
      BY <1>1, <2>2, <3>3 DEF MatrixOK, Computed
  <2>4. MatrixIsRight
    BY <2>1, <2>3 DEF MatrixIsRight
  <2>5. MatrixIsRight' /\ NoBlockOutlivesCall'
    BY <2>1, <2>2, <2>3, SameSizes, SameFrame
    DEF MatrixIsRight, NoBlockOutlivesCall, setting
  <2>6. QED
    BY <2>1, <2>2, <2>5 DEF MatrixEnds, Alive, Running, Returned, Threw, Undefined
<1>7. CASE ReturnMatrix
  <2>1. UNCHANGED <<setting, pc, sizes, cell, throws>>
    BY <1>7 DEF ReturnMatrix, ReturnAtOnce, LeaveByException, Leave, matrixVars
  <2>2. MatrixIsRight => MatrixIsRight'
    BY <2>1 DEF MatrixIsRight, Right, SizesFit, ProductFits, Rows, Columns, Positions, setting
  <2>3. ASSUME length > 0, NEW v, Leave(v), pc[Final] \in {"end", "thrown"}
        PROVE  outcome' = v /\ AllJoined /\ NoBlockOutlivesCall'
    <3>1. outcome' = v /\ AllJoined
      BY <2>3 DEF Leave
    <3>2. \A k \in Ids : pc[k] \in {"off", "end", "thrown"}
      BY <1>2, <2>3, <3>1, FrameEnds
    <3>3. QED
      BY <2>1, <3>1, <3>2 DEF NoBlockOutlivesCall
  <2>4. CASE ReturnAtOnce(Returned)
    <3>1. outcome' = Returned /\ length = 0 /\ \A k \in Ids : pc[k] = "off"
      BY <1>1, <1>2, <2>4, NothingToDo DEF ReturnAtOnce
    <3>2. throws = 0
      BY <1>1, <1>2, <3>1 DEF MatrixOK
    <3>3. MatrixIsRight
      <4>1. Positions = {}
        BY <3>1 DEF Positions
      <4>2. QED
        BY <4>1 DEF MatrixIsRight
    <3>4. QED
      BY <2>1, <2>2, <3>1, <3>2, <3>3
      DEF MatrixEnds, NoBlockOutlivesCall, Alive, Running, Returned, Threw, Undefined
  <2>5. CASE length > 0 /\ pc[Final] = "end" /\ Leave(Returned)
    <3>1. outcome' = Returned /\ AllJoined /\ NoBlockOutlivesCall'
      BY <2>3, <2>5
    <3>2. throws = 0
      BY <1>2, <2>5 DEF MatrixOK
    <3>3. Final \in 1..threads /\ started = threads - 1 /\ started \in Nat
      BY <1>1, <1>2, <2>5 DEF Final, FrameOK
    <3>4. \A k \in 1..threads : pc[k] = "end"
      <4>1. \A k \in 1..threads : k = Final \/ k \in 1..started
        BY <1>1, <3>3 DEF Final
      <4>2. QED
        BY <2>5, <3>1, <4>1 DEF AllJoined
    <3>5. algorithm = "transpose" => SizesFit
      BY <1>1, <2>5, <3>3 DEF MatrixOK
    <3>6. ASSUME NEW i \in Positions
          PROVE  /\ \/ algorithm = "transpose"
                    \/ ProductFits /\ Rows("results") = Columns("results")
                    => Right(i)
                 /\ algorithm = "multiply" => Len(cell[i]) = Columns("x")
      <4>1. PICK k \in 1..threads : i \in Block(k)
        BY <1>1, <2>5, BlocksOfCall
      <4>2. cell[i] = Terms(i)
        BY <3>4, <4>1 DEF MatrixOK, Computed
      <4>3. ASSUME algorithm = "multiply" PROVE Len(cell[i]) = Columns("x")
        <5>1. cell[i] = [j \in 1..2 |-> Product(i, j - 1)] /\ Columns("x") = 2
          BY <1>2, <4>2, <4>3 DEF Terms, ShapeOK, Inner
        <5>2. cell[i] \in Seq({Product(i, j - 1) : j \in 1..2})
          BY <5>1
        <5>3. QED
          BY <5>1, <5>2
      <4>4. QED
        BY <1>2, <2>5, <3>5, <4>2, <4>3, ComputedRight DEF MatrixNames
    <3>7. MatrixIsRight
      BY <3>5, <3>6 DEF MatrixIsRight
    <3>8. QED
      BY <2>1, <2>2, <3>1, <3>2, <3>7 DEF MatrixEnds, Alive, Running, Returned, Undefined
  <2>6. CASE LeaveByException
    <3>1. outcome' = Threw /\ NoBlockOutlivesCall'
      BY <2>3, <2>6 DEF LeaveByException
    <3>2. QED
      BY <3>1 DEF MatrixEnds, Alive, Running, Returned, Threw, Undefined
  <2>7. QED
    BY <1>7, <2>4, <2>5, <2>6 DEF ReturnMatrix
<1>8. ASSUME NEW k \in Ids, ComputeBlock(k) PROVE MatrixEnds' /\ (Alive' => MatrixOK')
  <2>1. pc[k] = "compute" /\ UNCHANGED <<sizes, throws>> /\ UNCHANGED setting
    BY <1>8 DEF ComputeBlock, Proceed
  <2>2. k \in 1..threads /\ Computed(k) /\ threads > 0
    BY <1>1, <1>2, <2>1, InFrame DEF MatrixOK
  <2>3. Block(k) \subseteq Positions /\ length > 0
    BY <1>1, <2>2, BlockInRange
  <2>4. CASE \E i \in Block(k) : OutOfBounds(i)
    <3>1. outcome' = Undefined
      BY <1>8, <2>4 DEF ComputeBlock
    <3>2. algorithm = "multiply" /\ OperandTooSmall
      BY <1>2, <2>3, <2>4, InBounds
    <3>3. QED
      BY <2>1, <3>1, <3>2
      DEF MatrixEnds, Alive, OperandTooSmall, Rows, Columns, setting, Running, Returned,
          Threw, Undefined
  <2>5. CASE ~\E i \in Block(k) : OutOfBounds(i)
    <3>1. /\ Proceed(k, "end")
          /\ cell' = [i \in Positions |-> IF i \in Block(k) THEN After(i) ELSE cell[i]]
      BY <1>8, <2>5 DEF ComputeBlock
    <3>2. \A j \in Ids : pc'[j] = IF j = k THEN "end" ELSE pc[j]
      BY <1>2, <3>1 DEF Proceed, Goto, FrameOK
    <3>3. /\ threads' = threads /\ Final' = Final /\ Positions' = Positions
          /\ algorithm' = algorithm /\ outcome' = outcome /\ started' = started
          /\ \A j : Block(j)' = Block(j)
      BY <3>1, SameFrame DEF Proceed, setting
    <3>4. ShapeOK' /\ SizesFit' = SizesFit /\ \A i : Terms(i)' = Terms(i)
      BY <1>2, <2>1, SameSizes
    <3>5. FrameOK({"compute"})'
      BY <1>2, <2>1, <3>1, FrameProceeds
    \* What is added to an empty cell is all that is in it.
    <3>6. \A i \in Block(k) : After(i) = Terms(i)
      <4>1. ASSUME NEW i \in Block(k), algorithm = "multiply" PROVE cell[i] \o Terms(i) = Terms(i)
        <5>1. cell[i] = <<>>
          BY <2>1, <2>2 DEF Computed
        <5>2. Terms(i) = [j \in 1..2 |-> Product(i, j - 1)]
          BY <1>2, <4>1 DEF Terms, ShapeOK, Inner
        <5>3. Terms(i) \in Seq({Product(i, j - 1) : j \in 1..2})
          BY <5>2
        <5>4. QED
          BY <5>1, <5>3
      <4>2. QED
        BY <4>1 DEF After
    <3>7. ASSUME NEW j \in 1..threads PROVE Computed(j)'
      <4>1. Computed(j) /\ Block(j) \subseteq Positions
        BY <1>1, BlockInRange DEF MatrixOK
      <4>2. CASE j = k
        BY <1>1, <2>3, <3>1, <3>2, <3>3, <3>4, <3>6, <4>2 DEF Computed
      <4>3. CASE j # k
        <5>1. Block(j) \cap Block(k) = {}
          BY <1>1, <2>2, <2>3, <4>3, BlocksOfCall
        <5>2. \A i \in Block(j) : cell'[i] = cell[i]
          BY <3>1, <4>1, <5>1
        <5>3. pc'[j] = pc[j]
          BY <1>1, <3>2, <4>3
        <5>4. QED
          BY <3>3, <3>4, <4>1, <5>2, <5>3 DEF Computed
      <4>4. QED
        BY <4>2, <4>3
    <3>8. throws > 0 => pc'[Final] = "thrown"
      <4>1. throws > 0 => pc[Final] = "thrown" /\ Final \in Ids
        BY <1>2, <2>2, InFrame DEF MatrixOK
      <4>2. QED
        BY <2>1, <3>2, <4>1
    <3>9. algorithm = "transpose" => SizesFit
      BY <2>1 DEF MatrixOK
    <3>10. MatrixOK'
      BY <1>2, <2>1, <2>2, <3>1, <3>3, <3>4, <3>5, <3>7, <3>8, <3>9 DEF MatrixOK
    <3>11. QED
      BY <1>3, <3>3, <3>10 DEF Alive
  <2>6. QED
    BY <2>4, <2>5
<1>9. QED
  BY <1>4, <1>5, <1>6, <1>7, <1>8 DEF MatrixMove
-----------------------------------------------------------------------------
(* Asynchronous calls: their ranges make a tree.                           *)

Within(d, c) == c[1] <= d[1] /\ d[2] <= c[2]
Apart(c, d) == IF algorithm = "sort" THEN c[2] < d[1] \/ d[2] < c[1]
               ELSE c[2] <= d[1] \/ d[2] <= c[1]
Span(c) == c[1]..(c[2] - 1)

RangeOK(c) ==
  /\ c \in Nat \X Nat /\ c[1] <= c[2] /\ c[2] <= length
  /\ algorithm # "sort" /\ c # Root => c[1] < c[2]

LEMMA RootInRange == ASSUME SettingOK PROVE RangeOK(Root)
BY DEF SettingOK, RangeOK, Root

LEMMA InRoot == ASSUME SettingOK, NEW c, RangeOK(c) PROVE Within(c, Root)
BY DEF SettingOK, RangeOK, Root, Within

LEMMA WithinSelf == ASSUME NEW c, RangeOK(c) PROVE Within(c, c)
BY DEF RangeOK, Within

LEMMA WithinTrans ==
  ASSUME NEW c, NEW d, NEW e, RangeOK(c), RangeOK(d), RangeOK(e), Within(c, d), Within(d, e)
  PROVE  Within(c, e)
BY DEF RangeOK, Within

LEMMA WithinAnti ==
  ASSUME NEW c, NEW d, RangeOK(c), RangeOK(d), Within(c, d), Within(d, c)
  PROVE  c = d
<1>1. c[1] = d[1] /\ c[2] = d[2] /\ c = <<c[1], c[2]>> /\ d = <<d[1], d[2]>>
  BY DEF RangeOK, Within
<1>2. QED
  BY <1>1

LEMMA ApartParts ==
  ASSUME NEW c, NEW d, NEW e, RangeOK(c), RangeOK(d), RangeOK(e), Apart(c, d), Within(e, c)
  PROVE  Apart(e, d) /\ Apart(d, e)
BY DEF RangeOK, Apart, Within

LEMMA ApartSym ==
  ASSUME NEW c, NEW d, Apart(c, d) PROVE Apart(d, c)
BY DEF Apart

\* Two ranges that are apart share no range.
LEMMA ApartShareNone ==
  ASSUME SettingOK, NEW c, NEW d, NEW e, RangeOK(c), RangeOK(d), RangeOK(e),
         Apart(c, d), Within(e, c), Within(e, d), c # d
  PROVE  FALSE
<1>1. CASE e = Root
  <2>1. c = Root /\ d = Root
    BY <1>1, RootInRange, InRoot, WithinAnti
  <2>2. QED
    BY <2>1
<1>2. CASE e # Root
  BY <1>2 DEF RangeOK, Apart, Within
<1>3. QED
  BY <1>1, <1>2

LEMMA ApartSpans ==
  ASSUME NEW c, NEW d, RangeOK(c), RangeOK(d), Apart(c, d)
  PROVE  Span(c) \cap Span(d) = {}
BY DEF RangeOK, Apart, Span

LEMMA SpanInRange ==
  ASSUME SettingOK, NEW c, RangeOK(c) PROVE Span(c) \subseteq Positions
BY DEF RangeOK, Span, Positions, SettingOK

\* The halves of a range that is cut.
LEMMA CutInside ==
  ASSUME SettingOK, algorithm \in AsyncNames, NEW c, RangeOK(c), ~Short(c),
         NEW cut \in Cuts(c)
  PROVE  /\ cut \in Nat /\ c[1] <= cut /\ cut < c[2]
         /\ algorithm # "sort" => c[1] < cut
<1> DEFINE n == c[2] - c[1]
<1>1. c[1] \in Nat /\ c[2] \in Nat /\ n \in Nat /\ c[2] = c[1] + n
  BY DEF RangeOK
<1>2. CASE algorithm = "sort"
  <2>1. cut \in c[1]..(c[2] - 1)
    BY <1>2 DEF Cuts
  <2>2. QED
    BY <1>1, <1>2, <2>1
<1>3. ASSUME NEW h, cut = c[1] + h, h \in Nat, 1 <= h, h < n
      PROVE  c[1] < cut /\ cut < c[2] /\ cut \in Nat
  <2> HIDE DEF n
  <2>1. QED
    BY <1>1, <1>3
<1>4. CASE algorithm = "accumulate"
  <2>1. n >= 2
    <3>1. ~(n <= MinElements) /\ MinElements \in Nat \ {0}
      BY <1>4, MinElementsAssumption DEF Short, Size
    <3> HIDE DEF n
    <3>2. QED
      BY <1>1, <3>1
  <2>2. cut = c[1] + (n + 1) \div 2
    BY <1>4 DEF Cuts, Size
  <2> HIDE DEF n
  <2>3. (n + 1) \div 2 \in Nat /\ 1 <= (n + 1) \div 2 /\ (n + 1) \div 2 < n
    BY <1>1, <2>1
  <2>4. QED
    BY <1>1, <1>3, <1>4, <2>2, <2>3
<1>5. CASE algorithm \notin {"sort", "accumulate"}
  <2>1. n >= 2
    <3>1. ~(n < 2 * MinPerThread) /\ MinPerThread \in Nat \ {0}
      BY <1>5, MinPerThreadAssumption DEF Short, Size
    <3> HIDE DEF n
    <3>2. QED
      BY <1>1, <3>1
  <2>2. cut = c[1] + n \div 2
    BY <1>5 DEF Cuts, Size
  <2> HIDE DEF n
  <2>3. n \div 2 \in Nat /\ 1 <= n \div 2 /\ n \div 2 < n
    BY <1>1, <2>1
  <2>4. QED
    BY <1>1, <1>3, <1>5, <2>2, <2>3
<1>6. QED
  BY <1>2, <1>4, <1>5

\* The halves lie in the range, apart from each other, and are not the range.
LEMMA Halves ==
  ASSUME SettingOK, algorithm \in AsyncNames, NEW c, RangeOK(c), ~Short(c),
         NEW cut \in Cuts(c)
  PROVE  /\ RangeOK(OwnHalf(c, cut)) /\ RangeOK(OtherHalf(c, cut))
         /\ Within(OwnHalf(c, cut), c) /\ Within(OtherHalf(c, cut), c)
         /\ OwnHalf(c, cut) # c /\ OtherHalf(c, cut) # c
         /\ Apart(OwnHalf(c, cut), OtherHalf(c, cut))
         /\ OwnHalf(c, cut) # OtherHalf(c, cut)
<1>1. /\ cut \in Nat /\ c[1] <= cut /\ cut < c[2]
      /\ algorithm # "sort" => c[1] < cut
  BY CutInside
<1>2. c[1] \in Nat /\ c[2] \in Nat /\ c[2] <= length /\ c = <<c[1], c[2]>> /\ length \in Nat
  BY DEF RangeOK, SettingOK
<1> DEFINE l == <<c[1], cut>>
           u == <<cut + IF algorithm = "sort" THEN 1 ELSE 0, c[2]>>
<1>3. RangeOK(l) /\ Within(l, c) /\ l # c
  BY <1>1, <1>2 DEF RangeOK, Within, Root
<1>4. RangeOK(u) /\ Within(u, c) /\ u # c
  BY <1>1, <1>2 DEF RangeOK, Within, Root
<1>5. Apart(l, u) /\ Apart(u, l) /\ l # u
  BY <1>1, <1>2 DEF Apart
<1>6. {OwnHalf(c, cut), OtherHalf(c, cut)} = {l, u} /\ OwnHalf(c, cut) # OtherHalf(c, cut)
  BY <1>5 DEF OwnHalf, OtherHalf, LowerHalf, UpperHalf
<1> HIDE DEF l, u
<1>7. QED
  BY <1>3, <1>4, <1>5, <1>6
-----------------------------------------------------------------------------
(* What is true of the calls.                                              *)

AsyncPlaces == {"begin", "deferred", "own", "get", "leave", "unwind", "returned", "threw"}
Fields == {"at", "cut", "value"}

Settled(c) == calls[c].at \in {"returned", "threw", "deferred"}
OwnRange(c) == OwnHalf(c, calls[c].cut)

\* The ranges of the calls lie in each other or apart, and a call that is
\* settled has nothing under way.
TreeOK ==
  /\ Root \in DOMAIN calls
  /\ \A c \in DOMAIN calls :
       RangeOK(c) /\ DOMAIN calls[c] = Fields /\ calls[c].at \in AsyncPlaces
  /\ \A c, d \in DOMAIN calls : Within(c, d) \/ Within(d, c) \/ Apart(c, d)
  /\ \A c, d \in DOMAIN calls : Settled(c) /\ Within(d, c) => Settled(d)

\* A call that has not begun has no parts,
NoPart(c) == \A d \in DOMAIN calls : Within(d, c) => d = c

\* and one that has been cut has its halves, of which the sort makes the second
\* one when the first has returned.
Parts(c) ==
  /\ calls[c].cut \in Cuts(c) /\ ~Short(c) /\ OwnRange(c) \in DOMAIN calls
  /\ \A d \in DOMAIN calls :
       Within(d, c) => d = c \/ Within(d, OwnRange(c)) \/ Within(d, OtherRange(c))
  /\ IF algorithm = "sort" /\ calls[c].at = "own"
     THEN \A d \in DOMAIN calls : ~Within(d, OtherRange(c))
     ELSE OtherRange(c) \in DOMAIN calls

PlaceOK(c) ==
  /\ calls[c].at \in {"begin", "deferred"} => NoPart(c)
  /\ calls[c].at \in {"own", "get", "leave", "unwind"} => Parts(c)
  /\ calls[c].at \in {"get", "leave"} => Own(c).at = "returned"
  /\ calls[c].at = "unwind" => Own(c).at = "threw"
  /\ calls[c].at = "get" /\ algorithm = "find_async" => NotFound(c)
  /\ calls[c].at \in {"leave", "unwind"} => algorithm # "sort"
  /\ calls[c].at = "leave" => algorithm = "find_async" /\ ~NotFound(c)

\* The call has returned, and a find has not found the value.
WholeDone(c) ==
  /\ calls[c].at = "returned"
  /\ algorithm = "find_async" => calls[c].value = c[2]

\* What a call that has returned has done, and one that has not begun has not:
\* if all of its range was worked on, nothing was thrown there.
DoneOK(c) ==
  /\ algorithm = "find_async" /\ calls[c].at \in {"returned", "leave"} =>
       calls[c].value = Answer(c)
  /\ algorithm = "for_each_async" /\ calls[c].at = "returned" =>
       \A p \in Span(c) : visits[p] = 1
  /\ algorithm = "for_each_async" /\ calls[c].at \in {"begin", "deferred"} =>
       \A p \in Span(c) : visits[p] = 0
  /\ algorithm \in {"accumulate", "sort"} /\ calls[c].at = "returned" =>
       calls[c].value = Elements(c)
  /\ WholeDone(c) => \A d \in DOMAIN calls : Within(d, c) => calls[d].at # "threw"

AsyncOK ==
  /\ throws \in Nat /\ \A k \in Ids : pc[k] = "off"
  /\ visits \in [Positions -> {0, 1}]
  /\ TreeOK /\ \A c \in DOMAIN calls : PlaceOK(c) /\ DoneOK(c)
  /\ throws > 0 => \E c \in DOMAIN calls : calls[c].at = "threw"

AsyncEnds ==
  /\ throws > 0 => outcome # Returned \/ algorithm = "find_async"
  /\ algorithm = "find_async" =>
       \/ outcome \in {Running, Threw}
       \/ outcome = (IF matches = {} THEN length ELSE Min(matches))
  /\ algorithm = "find_async" /\ outcome = length => throws = 0
  /\ algorithm # "find_async" => outcome \in {Running, Returned, Threw}
  /\ \A p \in Positions : visits[p] <= 1
  /\ outcome = Returned =>
       /\ algorithm = "for_each_async" => \A p \in Positions : visits[p] = 1
       /\ algorithm \in {"accumulate", "sort"} => InOrder
  /\ outcome # Running => NoBlockOutlivesCall /\ NoCallOutlivesRoot

\* Ranges that have a part in common lie in each other.
LEMMA Nest ==
  ASSUME SettingOK, TreeOK, NEW c \in DOMAIN calls, NEW d \in DOMAIN calls, NEW e,
         RangeOK(e), Within(e, c), Within(e, d)
  PROVE  Within(c, d) \/ Within(d, c)
<1>1. SUFFICES ASSUME ~Within(c, d), ~Within(d, c) PROVE FALSE
  OBVIOUS
<1>2. RangeOK(c) /\ RangeOK(d) /\ Apart(c, d)
  BY <1>1 DEF TreeOK
<1>3. c # d
  BY <1>1, <1>2, WithinSelf
<1>4. QED
  BY <1>2, <1>3, ApartShareNone

\* The definitions that depend on the range alone stay as they are.
LEMMA SameRanges ==
  ASSUME UNCHANGED <<setting, matches>>
  PROVE  /\ Root' = Root /\ Positions' = Positions /\ algorithm' = algorithm
         /\ \A c : /\ RangeOK(c)' <=> RangeOK(c)
                   /\ Short(c)' <=> Short(c)
                   /\ Cuts(c)' = Cuts(c)
                   /\ Answer(c)' = Answer(c)
         /\ \A c, d : /\ Within(c, d)' <=> Within(c, d)
                      /\ Apart(c, d)' <=> Apart(c, d)
                      /\ OwnHalf(c, d)' = OwnHalf(c, d)
                      /\ OtherHalf(c, d)' = OtherHalf(c, d)
<1>1. UNCHANGED <<algorithm, length, matches>>
  BY DEF setting
<1>2. Root' = Root /\ Positions' = Positions /\ algorithm' = algorithm
  BY <1>1 DEF Root, Positions
<1>3. ASSUME NEW c PROVE (RangeOK(c)' <=> RangeOK(c)) /\ (Short(c)' <=> Short(c))
  BY <1>1 DEF RangeOK, Root, Short, Size
<1>4. ASSUME NEW c PROVE Cuts(c)' = Cuts(c) /\ Answer(c)' = Answer(c)
  BY <1>1 DEF Cuts, Size, Answer, Matches, Elements
<1>5. ASSUME NEW c, NEW d
      PROVE  /\ Within(c, d)' <=> Within(c, d)
             /\ Apart(c, d)' <=> Apart(c, d)
             /\ OwnHalf(c, d)' = OwnHalf(c, d)
             /\ OtherHalf(c, d)' = OtherHalf(c, d)
  BY <1>1 DEF Within, Apart, OwnHalf, OtherHalf, LowerHalf, UpperHalf
<1>6. QED
  BY <1>2, <1>3, <1>4, <1>5

\* One call goes on, and no call is made.
LEMMA CallMoves ==
  ASSUME SettingOK, algorithm \in AsyncNames, AsyncOK, UNCHANGED <<setting, matches, pc>>,
         NEW c \in DOMAIN calls, DOMAIN calls' = DOMAIN calls,
         \A d \in DOMAIN calls : d # c => calls'[d] = calls[d],
         calls[c].at \notin {"returned", "threw"},
         DOMAIN calls'[c] = Fields, calls'[c].at \in AsyncPlaces \ {"deferred"},
         Settled(c)' => \A d \in DOMAIN calls : Within(d, c) /\ d # c => Settled(d),
         calls[c].at = "deferred" =>
           \A e \in DOMAIN calls : Within(c, e) /\ e # c => ~Settled(e),
         PlaceOK(c)', DoneOK(c)',
         visits' \in [Positions -> {0, 1}],
         \A p \in Positions : visits[p] = 1 => visits'[p] = 1,
         visits' = visits \/
           (/\ calls[c].at = "begin"
            /\ \A p \in Positions : p \notin Span(c) => visits'[p] = visits[p]),
         throws' \in Nat, throws' > 0 => throws > 0 \/ calls'[c].at = "threw"
  PROVE  AsyncOK'
<1> USE SameRanges
<1>1. TreeOK /\ \A d \in DOMAIN calls : RangeOK(d) /\ PlaceOK(d) /\ DoneOK(d)
  BY DEF AsyncOK, TreeOK
<1>2. ASSUME NEW d \in DOMAIN calls, Settled(d), Within(c, d), d # c PROVE FALSE
  <2>1. Settled(c)
    BY <1>1, <1>2 DEF TreeOK
  <2>2. calls[c].at = "deferred"
    BY <2>1 DEF Settled
  <2>3. QED
    BY <1>2, <2>2
<1>3. TreeOK'
  <2>1. \A d \in DOMAIN calls :
          RangeOK(d)' /\ DOMAIN calls'[d] = Fields /\ calls'[d].at \in AsyncPlaces
    BY <1>1 DEF TreeOK
  <2>2. \A d, e \in DOMAIN calls : Within(d, e)' \/ Within(e, d)' \/ Apart(d, e)'
    BY <1>1 DEF TreeOK
  <2>3. ASSUME NEW d \in DOMAIN calls, NEW e \in DOMAIN calls, Settled(d)', Within(e, d)
        PROVE  Settled(e)'
    <3>1. CASE d = c
      BY <2>3, <3>1 DEF Settled
    <3>2. CASE d # c
      <4>1. Settled(d)
        BY <2>3, <3>2 DEF Settled
      <4>2. e # c /\ Settled(e)
        BY <1>1, <1>2, <2>3, <3>2, <4>1 DEF TreeOK
      <4>3. QED
        BY <4>2 DEF Settled
    <3>3. QED
      BY <3>1, <3>2
  <2>4. Root' \in DOMAIN calls'
    BY <1>1 DEF TreeOK
  <2>5. QED
    BY <2>1, <2>2, <2>3, <2>4 DEF TreeOK
<1>4. ASSUME NEW d \in DOMAIN calls, d # c PROVE PlaceOK(d)'
  <2>1. /\ calls'[d] = calls[d] /\ OwnRange(d)' = OwnRange(d) /\ OtherRange(d)' = OtherRange(d)
        /\ PlaceOK(d)
    BY <1>1, <1>4 DEF OwnRange, OtherRange
  <2>2. NoPart(d) => NoPart(d)'
    BY DEF NoPart
  <2>3. Parts(d) => Parts(d)'
    BY <2>1 DEF Parts
  <2>4. Parts(d) /\ Own(d).at \in {"returned", "threw"} => Own(d)' = Own(d)
    BY <2>1 DEF Own, Parts, OwnRange
  <2>5. Own(d)' = Own(d) => (NotFound(d)' <=> NotFound(d))
    BY <2>1 DEF NotFound
  <2>6. QED
    BY <2>1, <2>2, <2>3, <2>4, <2>5 DEF PlaceOK
<1>5. ASSUME NEW d \in DOMAIN calls, d # c PROVE DoneOK(d)'
  <2>1. calls'[d] = calls[d] /\ DoneOK(d) /\ PlaceOK(d) /\ RangeOK(d) /\ RangeOK(c)
    BY <1>1, <1>5
  <2>2. Span(d) \subseteq Positions /\ Span(d)' = Span(d)
    BY <2>1, SpanInRange DEF Span
  <2>3. ASSUME algorithm = "for_each_async", calls[d].at \in {"begin", "deferred"}
        PROVE  \A p \in Span(d) : visits'[p] = 0
    <3>1. CASE visits' = visits
      BY <2>1, <2>3, <3>1 DEF DoneOK
    <3>2. CASE visits' # visits
      <4>1. NoPart(c) /\ NoPart(d)
        BY <1>1, <2>1, <2>3, <3>2 DEF PlaceOK
      <4>2. Apart(c, d)
        BY <1>1, <1>5, <4>1 DEF NoPart, TreeOK
      <4>3. Span(c) \cap Span(d) = {}
        BY <2>1, <4>2, ApartSpans
      <4>4. \A p \in Span(d) : visits'[p] = visits[p]
        BY <2>2, <3>2, <4>3
      <4>5. QED
        BY <2>1, <2>3, <4>4 DEF DoneOK
    <3>3. QED
      BY <3>1, <3>2
  <2>4. WholeDone(d)' => \A e \in DOMAIN calls : Within(e, d) => calls'[e].at # "threw"
    <3>1. SUFFICES ASSUME WholeDone(d)', NEW e \in DOMAIN calls, Within(e, d)
                   PROVE  calls'[e].at # "threw"
      OBVIOUS
    <3>2. WholeDone(d) /\ Settled(d)
      BY <2>1, <3>1 DEF WholeDone, Settled
    <3>3. e # c
      BY <1>2, <1>5, <3>1, <3>2
    <3>4. QED
      BY <2>1, <3>1, <3>2, <3>3 DEF DoneOK
  <2>5. Elements(d)' = Elements(d)
    BY DEF Elements, Size
  <2>6. algorithm = "for_each_async" /\ calls[d].at = "returned" =>
          \A p \in Span(d) : visits'[p] = 1
    BY <2>1, <2>2 DEF DoneOK
  <2>7. QED
    BY <2>1, <2>2, <2>3, <2>4, <2>5, <2>6 DEF DoneOK
<1>6. throws' > 0 => \E d \in DOMAIN calls' : calls'[d].at = "threw"
  <2>1. ASSUME throws > 0 PROVE \E d \in DOMAIN calls' : calls'[d].at = "threw"
    <3>1. PICK d \in DOMAIN calls : calls[d].at = "threw"
      BY <2>1 DEF AsyncOK
    <3>2. QED
      BY <3>1
  <2>2. QED
    BY <2>1
<1>7. (\A k \in Ids : pc'[k] = "off") /\ visits' \in [Positions' -> {0, 1}]
  BY DEF AsyncOK
<1>8. \A d \in DOMAIN calls' : PlaceOK(d)' /\ DoneOK(d)'
  BY <1>4, <1>5
<1>9. QED
  BY <1>3, <1>6, <1>7, <1>8 DEF AsyncOK
-----------------------------------------------------------------------------
\* One call goes on, and calls are made for parts of its range.
LEMMA CallSplits ==
  ASSUME SettingOK, algorithm \in AsyncNames, AsyncOK,
         UNCHANGED <<setting, matches, pc, visits, throws>>,
         NEW c \in DOMAIN calls, ~Settled(c),
         NEW N, DOMAIN calls' = DOMAIN calls \cup N, N \cap DOMAIN calls = {},
         \A d \in DOMAIN calls : d # c => calls'[d] = calls[d],
         DOMAIN calls'[c] = Fields, calls'[c].at \in {"own", "get"}, PlaceOK(c)',
         \A n \in N : /\ RangeOK(n) /\ Within(n, c) /\ n # c
                      /\ calls'[n] \in {NewCall("begin"), NewCall("deferred")}
                      /\ algorithm = "for_each_async" => \A p \in Span(n) : visits[p] = 0,
         \A m, n \in N : m # n => Apart(m, n),
         \A n \in N, d \in DOMAIN calls : Within(d, c) /\ d # c => Apart(n, d)
  PROVE  AsyncOK'
<1> USE SameRanges
<1>1. TreeOK /\ \A d \in DOMAIN calls : RangeOK(d) /\ PlaceOK(d) /\ DoneOK(d)
  BY DEF AsyncOK, TreeOK
<1>2. ASSUME NEW n \in N, NEW d \in DOMAIN calls, Within(d, n) PROVE FALSE
  <2>1. RangeOK(n) /\ RangeOK(d) /\ RangeOK(c) /\ n # d
    BY <1>1
  <2>2. Within(d, c)
    BY <1>2, <2>1, WithinTrans
  <2>3. d # c
    BY <1>2, <2>1, WithinAnti
  <2>4. Apart(n, d) /\ Within(d, d)
    BY <2>1, <2>2, <2>3, WithinSelf
  <2>5. QED
    BY <1>2, <2>1, <2>4, ApartShareNone
<1>3. ASSUME NEW n \in N, NEW d \in DOMAIN calls, Within(n, d) PROVE Within(c, d)
  <2>1. RangeOK(n) /\ RangeOK(d) /\ RangeOK(c) /\ n # d
    BY <1>1
  <2>2. Within(c, d) \/ Within(d, c)
    BY <1>1, <1>3, <2>1, Nest
  <2>3. CASE d = c
    BY <2>1, <2>3, WithinSelf
  <2>4. CASE Within(d, c) /\ d # c
    <3>1. Apart(n, d) /\ Within(n, n)
      BY <2>1, <2>4, WithinSelf
    <3>2. QED
      BY <1>3, <2>1, <3>1, ApartShareNone
  <2>5. QED
    BY <2>2, <2>3, <2>4
<1>4. ASSUME NEW m \in N, NEW n \in N, Within(m, n) PROVE m = n
  <2>1. RangeOK(n) /\ RangeOK(m) /\ Within(m, m)
    BY WithinSelf
  <2>2. SUFFICES ASSUME m # n PROVE FALSE
    OBVIOUS
  <2>3. QED
    BY <1>4, <2>1, <2>2, ApartShareNone
<1>5. \A n \in N : /\ DOMAIN calls'[n] = Fields /\ calls'[n].at \in {"begin", "deferred"}
  BY DEF NewCall, Fields
<1>6. TreeOK'
  <2>1. \A d \in DOMAIN calls' :
          RangeOK(d)' /\ DOMAIN calls'[d] = Fields /\ calls'[d].at \in AsyncPlaces
    BY <1>1, <1>5 DEF TreeOK, AsyncPlaces
  <2>2. ASSUME NEW n \in N, NEW d \in DOMAIN calls PROVE Within(n, d) \/ Apart(n, d)
    <3>1. Within(c, d) \/ Within(d, c) \/ Apart(c, d)
      BY <1>1 DEF TreeOK
    <3>2. RangeOK(n) /\ RangeOK(d) /\ RangeOK(c)
      BY <1>1
    <3>3. CASE Within(c, d)
      BY <3>2, <3>3, WithinTrans
    <3>4. CASE Within(d, c)
      BY <3>4
    <3>5. CASE Apart(c, d)
      BY <3>2, <3>5, ApartParts
    <3>6. QED
      BY <3>1, <3>3, <3>4, <3>5
  <2>3. \A d, e \in DOMAIN calls' : Within(d, e)' \/ Within(e, d)' \/ Apart(d, e)'
    <3>1. SUFFICES ASSUME NEW d \in DOMAIN calls \cup N, NEW e \in DOMAIN calls \cup N
                   PROVE  Within(d, e) \/ Within(e, d) \/ Apart(d, e)
      OBVIOUS
    <3>2. CASE d \in DOMAIN calls /\ e \in DOMAIN calls
      BY <1>1, <3>2 DEF TreeOK
    <3>3. CASE d \in N /\ e \in DOMAIN calls
      BY <2>2, <3>3
    <3>4. CASE d \in DOMAIN calls /\ e \in N
      BY <2>2, <3>4, ApartSym
    <3>5. CASE d \in N /\ e \in N
      BY <3>5, WithinSelf
    <3>6. QED
      BY <3>2, <3>3, <3>4, <3>5
  <2>4. ASSUME NEW d \in DOMAIN calls \cup N, NEW e \in DOMAIN calls \cup N,
               Settled(d)', Within(e, d)
        PROVE  Settled(e)'
    <3>1. d # c
      BY <2>4 DEF Settled
    <3>2. CASE d \in N
      <4>1. e = d
        BY <1>2, <1>4, <2>4, <3>2
      <4>2. QED
        BY <2>4, <4>1
    <3>3. CASE d \in DOMAIN calls
      <4>1. Settled(d)
        BY <2>4, <3>1, <3>3 DEF Settled
      <4>2. ~Within(c, d)
        BY <1>1, <3>3, <4>1 DEF TreeOK
      <4>3. e \in DOMAIN calls /\ e # c
        BY <1>3, <2>4, <3>3, <4>2
      <4>4. Settled(e)
        BY <1>1, <2>4, <3>3, <4>1, <4>3 DEF TreeOK
      <4>5. QED
        BY <4>3, <4>4 DEF Settled
    <3>4. QED
      BY <3>2, <3>3
  <2>5. Root' \in DOMAIN calls'
    BY <1>1 DEF TreeOK
  <2>6. QED
    BY <2>1, <2>3, <2>4, <2>5 DEF TreeOK
<1>7. ASSUME NEW d \in DOMAIN calls, d # c PROVE PlaceOK(d)'
  <2>1. /\ calls'[d] = calls[d] /\ OwnRange(d)' = OwnRange(d) /\ OtherRange(d)' = OtherRange(d)
        /\ PlaceOK(d) /\ RangeOK(d) /\ RangeOK(c)
    BY <1>1, <1>7 DEF OwnRange, OtherRange
  <2>2. NoPart(d) => NoPart(d)'
    BY <1>3, <1>7 DEF NoPart
  <2>3. ASSUME Parts(d) PROVE Parts(d)'
    <3>1. RangeOK(OwnRange(d)) /\ RangeOK(OtherRange(d))
          /\ Within(OtherRange(d), d)
          /\ Apart(OwnRange(d), OtherRange(d)) /\ OwnRange(d) # OtherRange(d)
      BY <2>1, <2>3, Halves DEF Parts, OwnRange, OtherRange
    <3>2. ASSUME NEW n \in N, Within(n, d)
          PROVE  Within(c, OwnRange(d)) \/ Within(c, OtherRange(d))
      BY <1>3, <1>7, <2>3, <3>2 DEF Parts
    <3>3. ASSUME NEW n \in N, Within(n, d)
          PROVE  Within(n, OwnRange(d)) \/ Within(n, OtherRange(d))
      BY <2>1, <3>1, <3>2, <3>3, WithinTrans
    <3>4. ASSUME NEW n \in N, Within(n, OtherRange(d)), algorithm = "sort", calls[d].at = "own"
          PROVE  FALSE
      <4>1. RangeOK(n) /\ Within(n, d)
        BY <2>1, <3>1, <3>4, WithinTrans
      <4>2. Within(c, OwnRange(d))
        BY <2>3, <3>2, <3>4, <4>1 DEF Parts
      <4>3. Within(n, OwnRange(d))
        BY <2>1, <3>1, <4>1, <4>2, WithinTrans
      <4>4. QED
        BY <3>1, <3>4, <4>1, <4>3, ApartShareNone
    <3>5. \A e \in DOMAIN calls' :
            Within(e, d) => e = d \/ Within(e, OwnRange(d)) \/ Within(e, OtherRange(d))
      BY <2>3, <3>3 DEF Parts
    <3>6. IF algorithm = "sort" /\ calls[d].at = "own"
          THEN \A e \in DOMAIN calls' : ~Within(e, OtherRange(d))
          ELSE OtherRange(d) \in DOMAIN calls'
      BY <2>3, <3>4 DEF Parts
    <3>7. calls'[d].cut \in Cuts(d)' /\ ~Short(d)' /\ OwnRange(d) \in DOMAIN calls'
      BY <2>1, <2>3 DEF Parts
    <3>8. QED
      BY <2>1, <3>5, <3>6, <3>7 DEF Parts
  <2>4. Parts(d) /\ Own(d).at \in {"returned", "threw"} => Own(d)' = Own(d)
    BY <2>1 DEF Own, Parts, OwnRange, Settled
  <2>5. Own(d)' = Own(d) => (NotFound(d)' <=> NotFound(d))
    BY <2>1 DEF NotFound
  <2>6. QED
    BY <2>1, <2>2, <2>3, <2>4, <2>5 DEF PlaceOK
<1>8. ASSUME NEW n \in N PROVE PlaceOK(n)' /\ DoneOK(n)'
  <2>1. calls'[n].at \in {"begin", "deferred"} /\ Span(n)' = Span(n)
    BY <1>5 DEF Span
  <2>2. NoPart(n)'
    BY <1>2, <1>4 DEF NoPart
  <2>3. PlaceOK(n)'
    BY <2>1, <2>2 DEF PlaceOK
  <2>4. DoneOK(n)'
    BY <2>1 DEF DoneOK, WholeDone
  <2>5. QED
    BY <2>3, <2>4
<1>9. DoneOK(c)'
  BY DEF DoneOK, WholeDone
<1>10. ASSUME NEW d \in DOMAIN calls, d # c PROVE DoneOK(d)'
  <2>1. calls'[d] = calls[d] /\ DoneOK(d)
    BY <1>1, <1>10
  <2>2. Span(d)' = Span(d) /\ Elements(d)' = Elements(d)
    BY DEF Span, Elements, Size
  <2>3. WholeDone(d)' => \A e \in DOMAIN calls' : Within(e, d) => calls'[e].at # "threw"
    <3>1. WholeDone(d)' => WholeDone(d)
      BY <2>1 DEF WholeDone
    <3>2. QED
      BY <1>5, <2>1, <3>1 DEF DoneOK
  <2>4. QED
    BY <2>1, <2>2, <2>3 DEF DoneOK
<1>11. throws' > 0 => \E d \in DOMAIN calls' : calls'[d].at = "threw"
  <2>1. ASSUME throws > 0 PROVE \E d \in DOMAIN calls' : calls'[d].at = "threw"
    <3>1. PICK d \in DOMAIN calls : calls[d].at = "threw"
      BY <2>1 DEF AsyncOK
    <3>2. d # c
      BY <3>1 DEF Settled
    <3>3. QED
      BY <3>1, <3>2
  <2>2. QED
    BY <2>1
<1>12. /\ throws' \in Nat /\ (\A k \in Ids : pc'[k] = "off")
       /\ visits' \in [Positions' -> {0, 1}]
  BY DEF AsyncOK
<1>13. \A d \in DOMAIN calls' : PlaceOK(d)' /\ DoneOK(d)'
  BY <1>7, <1>8, <1>9, <1>10
<1>14. QED
  BY <1>6, <1>11, <1>12, <1>13 DEF AsyncOK

\* A call goes on at another place.
LEMMA GoesAlone ==
  ASSUME TreeOK, NEW c \in DOMAIN calls, NEW l, Goes(c, l)
  PROVE  /\ DOMAIN calls' = DOMAIN calls
         /\ \A d \in DOMAIN calls : d # c => calls'[d] = calls[d]
         /\ DOMAIN calls'[c] = Fields
         /\ calls'[c].at = l /\ calls'[c].cut = calls[c].cut /\ calls'[c].value = calls[c].value
<1>1. DOMAIN calls[c] = {"at", "cut", "value"}
  BY DEF TreeOK, Fields
<1>2. calls' = [calls EXCEPT ![c].at = l]
  BY DEF Goes
<1>3. calls'[c] = [calls[c] EXCEPT !.at = l]
  BY <1>2
<1>4. QED
  BY <1>1, <1>2, <1>3 DEF Fields

LEMMA ReturnsAlone ==
  ASSUME TreeOK, NEW c \in DOMAIN calls, NEW l, NEW v,
         calls' = [calls EXCEPT ![c].at = l, ![c].value = v]
  PROVE  /\ DOMAIN calls' = DOMAIN calls
         /\ \A d \in DOMAIN calls : d # c => calls'[d] = calls[d]
         /\ DOMAIN calls'[c] = Fields
         /\ calls'[c].at = l /\ calls'[c].cut = calls[c].cut /\ calls'[c].value = v
<1>1. DOMAIN calls[c] = {"at", "cut", "value"}
  BY DEF TreeOK, Fields
<1>2. calls'[c] = [calls[c] EXCEPT !.at = l, !.value = v]
  OBVIOUS
<1>4. QED
  BY <1>1, <1>2 DEF Fields

\* Another call is made.
LEMMA CallMade ==
  ASSUME NEW f, NEW g, NEW k, k \notin DOMAIN f, NEW v, g = WithCall(f, k, v)
  PROVE  /\ DOMAIN g = DOMAIN f \cup {k} /\ g[k] = NewCall(v)
         /\ \A d \in DOMAIN f : g[d] = f[d]
BY DEF WithCall

LEMMA LeastElement ==
  ASSUME NEW S, S \subseteq Nat, S # {}
  PROVE  Min(S) \in S /\ \A y \in S : Min(S) <= y
<1> DEFINE R == OpToRel(<, Nat)
<1>1. IsWellFoundedOn(R, Nat)
  BY NatLessThanWellFounded
<1>2. \A x, y \in Nat : <<y, x>> \notin R => x <= y
  BY DEF OpToRel
<1> HIDE DEF R
<1>3. \E x \in S : \A y \in S : <<y, x>> \notin R
  BY <1>1, WFMin
<1>4. \E x \in S : \A y \in S : x <= y
  BY <1>2, <1>3
<1>5. QED
  BY <1>4 DEF Min
-----------------------------------------------------------------------------
(* The steps of an asynchronous call.                                      *)

\* The matches of a range lie in its halves.
LEMMA MatchesOfHalves ==
  ASSUME SettingOK, algorithm = "find_async", matches \subseteq Positions,
         NEW c, RangeOK(c), NEW cut \in Cuts(c), ~Short(c)
  PROVE  /\ Answer(c) = IF Answer(LowerHalf(c, cut)) = cut THEN Answer(UpperHalf(c, cut))
                        ELSE Answer(LowerHalf(c, cut))
         /\ Answer(LowerHalf(c, cut)) # cut => Answer(c) # c[2]
<1> DEFINE l == LowerHalf(c, cut)
           u == UpperHalf(c, cut)
           M == Matches(c)
<1>1. c[1] \in Nat /\ c[2] \in Nat /\ cut \in Nat /\ c[1] <= cut /\ cut < c[2]
  BY CutInside DEF RangeOK, AsyncNames
<1>2. l[1] = c[1] /\ l[2] = cut /\ u[1] = cut /\ u[2] = c[2]
  BY <1>1 DEF LowerHalf, UpperHalf
<1>3. Matches(l) = {p \in M : p < cut} /\ Matches(u) = {p \in M : p >= cut} /\ M \subseteq Nat
      /\ \A p \in M : p < c[2]
  BY <1>1, <1>2 DEF Matches, Positions, SettingOK
<1>4. \A d : Answer(d) = IF Matches(d) = {} THEN d[2] ELSE Min(Matches(d))
  BY DEF Answer
<1> HIDE DEF l, u, M
<1>5. CASE Matches(l) = {}
  <2>1. Matches(u) = M
    <3>1. \A p \in M : p \in Nat /\ ~(p < cut)
      BY <1>3, <1>5
    <3>2. \A p \in M : p >= cut
      BY <1>1, <3>1
    <3>3. QED
      BY <1>3, <3>2
  <2>2. Answer(l) = cut /\ Answer(u) = Answer(c)
    BY <1>2, <1>4, <1>5, <2>1 DEF M
  <2>3. QED
    BY <2>2 DEF l, u
<1>6. CASE Matches(l) # {}
  <2>1. Min(Matches(l)) \in Matches(l) /\ \A y \in Matches(l) : Min(Matches(l)) <= y
    BY <1>3, <1>6, LeastElement
  <2>2. M # {} /\ Min(M) \in M /\ \A y \in M : Min(M) <= y
    BY <1>3, <1>6, LeastElement
  <2>3. Min(M) = Min(Matches(l))
    <3>1. Min(M) <= Min(Matches(l)) /\ Min(Matches(l)) \in Nat /\ Min(M) \in Nat
          /\ Min(Matches(l)) < cut
      BY <1>3, <2>1, <2>2
    <3>2. Min(M) \in Matches(l)
      BY <1>1, <1>3, <2>2, <3>1
    <3>3. QED
      BY <2>1, <3>1, <3>2
  <2>4. Min(M) < cut /\ Min(M) \in Nat /\ Min(M) < c[2]
    BY <1>3, <2>1, <2>2, <2>3
  <2>5. Answer(l) = Min(M) /\ Answer(c) = Min(M)
    BY <1>4, <1>6, <2>2, <2>3 DEF M
  <2>6. QED
    BY <1>1, <2>4, <2>5 DEF l, u
<1>7. QED
  BY <1>5, <1>6

\* The elements of a range are those of its halves in their order.
LEMMA ElementsOfHalves ==
  ASSUME SettingOK, algorithm \in AsyncNames, NEW c, RangeOK(c), NEW cut \in Cuts(c), ~Short(c)
  PROVE  IF algorithm = "sort"
         THEN Elements(LowerHalf(c, cut)) \o <<cut>> \o Elements(UpperHalf(c, cut)) = Elements(c)
         ELSE Elements(LowerHalf(c, cut)) \o Elements(UpperHalf(c, cut)) = Elements(c)
<1>1. c[1] \in Nat /\ c[2] \in Nat /\ cut \in Nat /\ c[1] <= cut /\ cut < c[2]
  BY CutInside DEF RangeOK
<1>2. /\ Elements(c) = ElementsOf(c[1], c[2])
      /\ Elements(LowerHalf(c, cut)) = ElementsOf(c[1], cut)
      /\ Elements(UpperHalf(c, cut)) =
           ElementsOf(cut + IF algorithm = "sort" THEN 1 ELSE 0, c[2])
  BY DEF Elements, ElementsOf, Size, LowerHalf, UpperHalf
<1>6. \A a, b, d \in Nat : a <= b /\ b <= d =>
        ElementsOf(a, b) \o ElementsOf(b, d) = ElementsOf(a, d)
  BY ElementsConcat
<1> DEFINE from == c[1]
           to == c[2]
<1>7. from \in Nat /\ to \in Nat /\ from <= cut /\ cut < to /\ cut + 1 \in Nat
      /\ cut <= cut + 1 /\ cut + 1 <= to /\ cut <= to /\ from <= cut + 1
  BY <1>1
<1>3. CASE algorithm = "sort"
  <2>1. <<cut>> = ElementsOf(cut, cut + 1)
    BY <1>1 DEF ElementsOf
  <2> HIDE DEF from, to
  <2>2. ElementsOf(from, cut) \o <<cut>> = ElementsOf(from, cut + 1)
    <3>1. ElementsOf(from, cut) \o ElementsOf(cut, cut + 1) = ElementsOf(from, cut + 1)
      BY <1>1, <1>6, <1>7
    <3>2. QED
      BY <2>1, <3>1, Zenon
  <2>3. ElementsOf(from, cut + 1) \o ElementsOf(cut + 1, to) = ElementsOf(from, to)
    BY <1>6, <1>7
  <2>4. QED
    BY <1>2, <1>3, <2>2, <2>3 DEF from, to
<1>4. CASE algorithm # "sort"
  <2> HIDE DEF from, to
  <2>1. ElementsOf(from, cut) \o ElementsOf(cut, to) = ElementsOf(from, to)
    BY <1>1, <1>6, <1>7
  <2>2. cut + 0 = cut
    BY <1>1
  <2>3. QED
    BY <1>2, <1>4, <2>1, <2>2 DEF from, to
<1>5. QED
  BY <1>3, <1>4

\* The range of a call that does not sort is that of its halves.
LEMMA SpanOfHalves ==
  ASSUME SettingOK, algorithm \in AsyncNames \ {"sort"}, NEW c, RangeOK(c),
         NEW cut \in Cuts(c), ~Short(c)
  PROVE  Span(c) = Span(OwnHalf(c, cut)) \cup Span(OtherHalf(c, cut))
<1>1. c[1] \in Nat /\ c[2] \in Nat /\ cut \in Nat /\ c[1] <= cut /\ cut < c[2]
  BY CutInside DEF RangeOK
<1>2. Span(c) = Span(LowerHalf(c, cut)) \cup Span(UpperHalf(c, cut))
  BY <1>1 DEF Span, LowerHalf, UpperHalf
<1>3. QED
  BY <1>2 DEF OwnHalf, OtherHalf

\* A call that works on its range alone.
LEMMA WorkMoves ==
  ASSUME SettingOK, algorithm \in AsyncNames, AsyncOK, matches \subseteq Positions,
         NEW c \in DOMAIN calls, Work(c)
  PROVE  AsyncOK'
<1> USE SameRanges
<1>1. TreeOK /\ RangeOK(c) /\ PlaceOK(c) /\ DoneOK(c)
  BY DEF AsyncOK, TreeOK
<1>2. /\ calls[c].at = "begin" /\ Returns(c, Answer(c))
      /\ UNCHANGED <<setting, matches, pc, throws>>
  BY DEF Work, At, quiet, frame, range
<1>3. /\ DOMAIN calls' = DOMAIN calls
      /\ \A d \in DOMAIN calls : d # c => calls'[d] = calls[d]
      /\ DOMAIN calls'[c] = Fields
      /\ calls'[c].at = "returned" /\ calls'[c].value = Answer(c)
  BY <1>1, <1>2, ReturnsAlone DEF Returns
<1>4. NoPart(c)
  BY <1>1, <1>2 DEF PlaceOK
<1>5. /\ algorithm = "for_each_async" => \A p \in Span(c) : visits'[p] = 1
      /\ visits' \in [Positions -> {0, 1}]
      /\ \A p \in Positions : visits[p] = 1 => visits'[p] = 1
      /\ \A p \in Positions : p \notin Span(c) => visits'[p] = visits[p]
  <2>1. visits \in [Positions -> {0, 1}] /\ Span(c) \subseteq Positions
    BY <1>1, SpanInRange DEF AsyncOK
  <2>2. CASE algorithm # "for_each_async"
    BY <2>1, <2>2 DEF Work
  <2>3. CASE algorithm = "for_each_async"
    <3>1. \A p \in Span(c) : visits[p] = 0
      BY <1>1, <1>2, <2>3 DEF DoneOK
    <3>2. visits' = [p \in Positions |-> visits[p] + IF p \in Span(c) THEN 1 ELSE 0]
      BY <2>3 DEF Work, Visit, Span
    <3>3. \A p \in Positions : visits'[p] = IF p \in Span(c) THEN 1 ELSE visits[p]
      BY <2>1, <3>1, <3>2
    <3>4. QED
      BY <2>1, <3>1, <3>2, <3>3
  <2>4. QED
    BY <2>2, <2>3
<1>6. PlaceOK(c)'
  BY <1>3 DEF PlaceOK
<1>7. DoneOK(c)'
  <2>1. Span(c)' = Span(c) /\ Elements(c)' = Elements(c)
    BY DEF Span, Elements, Size
  <2>2. algorithm \in {"accumulate", "sort"} => Answer(c) = Elements(c)
    BY DEF Answer
  <2>3. \A d \in DOMAIN calls : Within(d, c) => calls'[d].at # "threw"
    BY <1>3, <1>4 DEF NoPart
  <2>4. QED
    BY <1>2, <1>3, <1>5, <2>1, <2>2, <2>3 DEF DoneOK
<1>8. throws' \in Nat /\ (throws' > 0 => throws > 0)
  BY <1>2 DEF AsyncOK
<1>9. \A d \in DOMAIN calls : Within(d, c) /\ d # c => Settled(d)
  BY <1>4 DEF NoPart
<1>10. QED
  BY <1>2, <1>3, <1>5, <1>6, <1>7, <1>8, <1>9, CallMoves DEF AsyncPlaces

LEMMA ThrowMoves ==
  ASSUME SettingOK, algorithm \in AsyncNames, AsyncOK, matches \subseteq Positions,
         NEW c \in DOMAIN calls, WorkThrows(c)
  PROVE  AsyncOK'
<1> USE SameRanges
<1>1. TreeOK /\ RangeOK(c) /\ PlaceOK(c) /\ DoneOK(c)
  BY DEF AsyncOK, TreeOK
<1>2. /\ calls[c].at = "begin" /\ Goes(c, "threw") /\ throws' = throws + 1
      /\ UNCHANGED <<setting, matches, pc>>
  BY DEF WorkThrows, At, Throws, quiet, frame, range
<1>3. /\ DOMAIN calls' = DOMAIN calls
      /\ \A d \in DOMAIN calls : d # c => calls'[d] = calls[d]
      /\ DOMAIN calls'[c] = Fields
      /\ calls'[c].at = "threw"
  BY <1>1, <1>2, GoesAlone
<1>4. NoPart(c)
  BY <1>1, <1>2 DEF PlaceOK
<1>5. /\ visits' \in [Positions -> {0, 1}]
      /\ \A p \in Positions : visits[p] = 1 => visits'[p] = 1
      /\ \A p \in Positions : p \notin Span(c) => visits'[p] = visits[p]
  <2>1. visits \in [Positions -> {0, 1}] /\ Span(c) \subseteq Positions
    BY <1>1, SpanInRange DEF AsyncOK
  <2>2. CASE algorithm # "for_each_async"
    BY <2>1, <2>2 DEF WorkThrows
  <2>3. CASE algorithm = "for_each_async"
    <3>1. \A p \in Span(c) : visits[p] = 0
      BY <1>1, <1>2, <2>3 DEF DoneOK
    <3>2. PICK q \in Span(c) :
            visits' = [p \in Positions |-> visits[p] + IF p \in c[1]..q THEN 1 ELSE 0]
      BY <2>3 DEF WorkThrows, Visit, Span
    <3>3. c[1]..q \subseteq Span(c)
      BY <1>1, <3>2 DEF Span, RangeOK
    <3>4. \A p \in Positions : visits'[p] = IF p \in c[1]..q THEN 1 ELSE visits[p]
      BY <2>1, <3>1, <3>2, <3>3
    <3>5. QED
      BY <2>1, <3>1, <3>2, <3>3, <3>4
  <2>4. QED
    BY <2>2, <2>3
<1>6. PlaceOK(c)' /\ DoneOK(c)'
  BY <1>3 DEF PlaceOK, DoneOK, WholeDone
<1>7. throws' \in Nat
  BY <1>2 DEF AsyncOK
<1>8. \A d \in DOMAIN calls : Within(d, c) /\ d # c => Settled(d)
  BY <1>4 DEF NoPart
<1>9. QED
  BY <1>2, <1>3, <1>5, <1>6, <1>7, <1>8, CallMoves DEF AsyncPlaces
-----------------------------------------------------------------------------
\* The halves of a call that has been cut.
LEMMA PartsOfCall ==
  ASSUME SettingOK, algorithm \in AsyncNames, NEW c, RangeOK(c), Parts(c)
  PROVE  /\ RangeOK(OwnRange(c)) /\ RangeOK(OtherRange(c))
         /\ Within(OwnRange(c), c) /\ Within(OtherRange(c), c)
         /\ OwnRange(c) # c /\ OtherRange(c) # c
         /\ Apart(OwnRange(c), OtherRange(c)) /\ OwnRange(c) # OtherRange(c)
BY Halves DEF Parts, OwnRange, OtherRange

\* The range is cut, and the other half handed over at once.
LEMMA CutMoves ==
  ASSUME SettingOK, algorithm \in AsyncNames, AsyncOK, matches \subseteq Positions,
         NEW c \in DOMAIN calls, CutInHalves(c)
  PROVE  AsyncOK'
<1> USE SameRanges
<1>1. TreeOK /\ RangeOK(c) /\ PlaceOK(c) /\ DoneOK(c)
  BY DEF AsyncOK, TreeOK
<1>2. /\ calls[c].at = "begin" /\ ~Short(c) /\ algorithm # "sort"
      /\ UNCHANGED <<setting, matches, pc, visits, throws>>
  BY DEF CutInHalves, At, quiet, frame, range
<1>3. PICK cut \in Cuts(c), other \in {"begin", "deferred"} :
        calls' = WithCall(WithCall([calls EXCEPT ![c].at = "own", ![c].cut = cut],
                                   OwnHalf(c, cut), "begin"), OtherHalf(c, cut), other)
  BY DEF CutInHalves
<1> DEFINE own == OwnHalf(c, cut)
           oth == OtherHalf(c, cut)
           f == [calls EXCEPT ![c].at = "own", ![c].cut = cut]
           g == WithCall(f, own, "begin")
<1>4. /\ RangeOK(own) /\ RangeOK(oth) /\ Within(own, c) /\ Within(oth, c)
      /\ own # c /\ oth # c /\ Apart(own, oth) /\ own # oth
  BY <1>1, <1>2, <1>3, Halves
<1>5. NoPart(c)
  BY <1>1, <1>2 DEF PlaceOK
<1>6. own \notin DOMAIN calls /\ oth \notin DOMAIN calls
  BY <1>4, <1>5 DEF NoPart
<1>7. /\ DOMAIN f = DOMAIN calls /\ \A d \in DOMAIN calls : d # c => f[d] = calls[d]
      /\ DOMAIN f[c] = Fields /\ f[c].at = "own" /\ f[c].cut = cut
  <2>1. DOMAIN calls[c] = {"at", "cut", "value"}
    BY <1>1 DEF TreeOK, Fields
  <2>2. f[c] = [calls[c] EXCEPT !.at = "own", !.cut = cut]
    OBVIOUS
  <2>3. QED
    BY <2>1, <2>2 DEF Fields
<1> HIDE DEF own, oth, f
<1>8. /\ DOMAIN g = DOMAIN f \cup {own} /\ g[own] = NewCall("begin")
      /\ \A d \in DOMAIN f : g[d] = f[d]
  BY <1>6, <1>7, CallMade
<1> HIDE DEF g
<1>9. /\ DOMAIN calls' = DOMAIN g \cup {oth} /\ calls'[oth] = NewCall(other)
      /\ \A d \in DOMAIN g : calls'[d] = g[d]
  <2>1. calls' = WithCall(g, oth, other)
    BY <1>3 DEF g, f, own, oth
  <2>2. oth \notin DOMAIN g
    BY <1>4, <1>6, <1>7, <1>8
  <2>3. QED
    BY <2>1, <2>2 DEF WithCall
<1> DEFINE N == {own, oth}
<1>10. /\ DOMAIN calls' = DOMAIN calls \cup N /\ N \cap DOMAIN calls = {}
       /\ \A d \in DOMAIN calls : d # c => calls'[d] = calls[d]
       /\ DOMAIN calls'[c] = Fields /\ calls'[c].at = "own" /\ calls'[c].cut = cut
       /\ calls'[own] = NewCall("begin")
       /\ calls'[oth] \in {NewCall("begin"), NewCall("deferred")}
  BY <1>3, <1>6, <1>7, <1>8, <1>9
<1>11. \A n \in N : /\ RangeOK(n) /\ Within(n, c) /\ n # c
                    /\ calls'[n] \in {NewCall("begin"), NewCall("deferred")}
                    /\ algorithm = "for_each_async" => \A p \in Span(n) : visits[p] = 0
  <2>1. algorithm = "for_each_async" => \A p \in Span(c) : visits[p] = 0
    BY <1>1, <1>2 DEF DoneOK
  <2>2. Span(own) \subseteq Span(c) /\ Span(oth) \subseteq Span(c)
    BY <1>1, <1>2, <1>3, SpanOfHalves DEF own, oth
  <2>3. QED
    BY <1>4, <1>10, <2>1, <2>2
<1>12. PlaceOK(c)'
  <2>1. OwnRange(c)' = own /\ OtherRange(c)' = oth
    BY <1>2, <1>10 DEF OwnRange, OtherRange, OwnHalf, OtherHalf, LowerHalf, UpperHalf, own, oth
  <2>2. \A d \in DOMAIN calls' : Within(d, c) => d = c \/ Within(d, own) \/ Within(d, oth)
    <3>1. Within(own, own) /\ Within(oth, oth)
      BY <1>4, WithinSelf
    <3>2. QED
      BY <1>5, <1>10, <3>1 DEF NoPart
  <2>3. Parts(c)'
    BY <1>2, <1>3, <1>10, <2>1, <2>2 DEF Parts
  <2>4. QED
    BY <1>10, <2>3 DEF PlaceOK
<1>13. \A m, n \in N : m # n => Apart(m, n)
  BY <1>4, ApartSym
<1>14. \A n \in N, d \in DOMAIN calls : Within(d, c) /\ d # c => Apart(n, d)
  BY <1>5 DEF NoPart
<1>15. ~Settled(c)
  BY <1>2 DEF Settled
<1> HIDE DEF N
<1>16. QED
  BY <1>2, <1>10, <1>11, <1>12, <1>13, <1>14, <1>15, CallSplits

\* The sort cuts at a pivot, and first sorts what is below it.
LEMMA PivotMoves ==
  ASSUME SettingOK, algorithm \in AsyncNames, AsyncOK, matches \subseteq Positions,
         NEW c \in DOMAIN calls, CutAtPivot(c)
  PROVE  AsyncOK'
<1> USE SameRanges
<1>1. TreeOK /\ RangeOK(c) /\ PlaceOK(c) /\ DoneOK(c)
  BY DEF AsyncOK, TreeOK
<1>2. /\ calls[c].at = "begin" /\ ~Short(c) /\ algorithm = "sort"
      /\ UNCHANGED <<setting, matches, pc, visits, throws>>
  BY DEF CutAtPivot, At, quiet, frame, range
<1>3. PICK cut \in Cuts(c) :
        calls' = WithCall([calls EXCEPT ![c].at = "own", ![c].cut = cut],
                          OwnHalf(c, cut), "begin")
  BY DEF CutAtPivot
<1> DEFINE own == OwnHalf(c, cut)
           oth == OtherHalf(c, cut)
           f == [calls EXCEPT ![c].at = "own", ![c].cut = cut]
<1>4. /\ RangeOK(own) /\ RangeOK(oth) /\ Within(own, c) /\ Within(oth, c)
      /\ own # c /\ oth # c /\ Apart(own, oth) /\ own # oth
  BY <1>1, <1>2, <1>3, Halves
<1>5. NoPart(c)
  BY <1>1, <1>2 DEF PlaceOK
<1>6. own \notin DOMAIN calls
  BY <1>4, <1>5 DEF NoPart
<1>7. /\ DOMAIN f = DOMAIN calls /\ \A d \in DOMAIN calls : d # c => f[d] = calls[d]
      /\ DOMAIN f[c] = Fields /\ f[c].at = "own" /\ f[c].cut = cut
  <2>1. DOMAIN calls[c] = {"at", "cut", "value"}
    BY <1>1 DEF TreeOK, Fields
  <2>2. f[c] = [calls[c] EXCEPT !.at = "own", !.cut = cut]
    OBVIOUS
  <2>3. QED
    BY <2>1, <2>2 DEF Fields
<1> HIDE DEF own, oth, f
<1>8. /\ DOMAIN calls' = DOMAIN f \cup {own} /\ calls'[own] = NewCall("begin")
      /\ \A d \in DOMAIN f : calls'[d] = f[d]
  <2>1. calls' = WithCall(f, own, "begin")
    BY <1>3 DEF f, own
  <2>2. QED
    BY <1>6, <1>7, <2>1, CallMade
<1> DEFINE N == {own}
<1>10. /\ DOMAIN calls' = DOMAIN calls \cup N /\ N \cap DOMAIN calls = {}
       /\ \A d \in DOMAIN calls : d # c => calls'[d] = calls[d]
       /\ DOMAIN calls'[c] = Fields /\ calls'[c].at = "own" /\ calls'[c].cut = cut
       /\ calls'[own] = NewCall("begin")
  BY <1>6, <1>7, <1>8
<1>11. \A n \in N : /\ RangeOK(n) /\ Within(n, c) /\ n # c
                    /\ calls'[n] \in {NewCall("begin"), NewCall("deferred")}
                    /\ algorithm = "for_each_async" => \A p \in Span(n) : visits[p] = 0
  BY <1>2, <1>4, <1>10
<1>12. PlaceOK(c)'
  <2>1. OwnRange(c)' = own /\ OtherRange(c)' = oth
    BY <1>2, <1>10 DEF OwnRange, OtherRange, OwnHalf, OtherHalf, LowerHalf, UpperHalf, own, oth
  <2>2. \A d \in DOMAIN calls' : Within(d, c) => d = c \/ Within(d, own) \/ Within(d, oth)
    <3>1. Within(own, own)
      BY <1>4, WithinSelf
    <3>2. QED
      BY <1>5, <1>10, <3>1 DEF NoPart
  <2>3. ASSUME NEW d \in DOMAIN calls', Within(d, oth) PROVE FALSE
    <3>1. CASE d = own
      <4>1. Within(own, own)
        BY <1>4, WithinSelf
      <4>2. QED
        BY <1>4, <2>3, <3>1, <4>1, ApartShareNone
    <3>2. CASE d \in DOMAIN calls
      <4>1. RangeOK(d)
        BY <1>1, <3>2 DEF TreeOK
      <4>2. d = c
        BY <1>1, <1>4, <1>5, <2>3, <3>2, <4>1, WithinTrans DEF NoPart
      <4>3. QED
        BY <1>1, <1>4, <2>3, <4>2, WithinAnti
    <3>3. QED
      BY <1>10, <3>1, <3>2
  <2>4. Parts(c)'
    BY <1>2, <1>3, <1>10, <2>1, <2>2, <2>3 DEF Parts
  <2>5. QED
    BY <1>10, <2>4 DEF PlaceOK
<1>13. \A m, n \in N : m # n => Apart(m, n)
  OBVIOUS
<1>14. \A n \in N, d \in DOMAIN calls : Within(d, c) /\ d # c => Apart(n, d)
  BY <1>5 DEF NoPart
<1>15. ~Settled(c)
  BY <1>2 DEF Settled
<1> HIDE DEF N
<1>16. QED
  BY <1>2, <1>10, <1>11, <1>12, <1>13, <1>14, <1>15, CallSplits

\* The sort hands over what is above the pivot.
LEMMA HandOverMoves ==
  ASSUME SettingOK, algorithm \in AsyncNames, AsyncOK, matches \subseteq Positions,
         NEW c \in DOMAIN calls, HandOver(c)
  PROVE  AsyncOK'
<1> USE SameRanges
<1>1. TreeOK /\ RangeOK(c) /\ PlaceOK(c)
  BY DEF AsyncOK, TreeOK
<1>2. /\ calls[c].at = "own" /\ Own(c).at = "returned" /\ algorithm = "sort"
      /\ UNCHANGED <<setting, matches, pc, visits, throws>>
  BY DEF HandOver, At, quiet, frame, range
<1>3. PICK other \in {"begin", "deferred"} :
        calls' = WithCall([calls EXCEPT ![c].at = "get"], OtherRange(c), other)
  BY DEF HandOver
<1> DEFINE own == OwnRange(c)
           oth == OtherRange(c)
           f == [calls EXCEPT ![c].at = "get"]
<1>4. Parts(c)
  BY <1>1, <1>2 DEF PlaceOK
<1>5. /\ RangeOK(own) /\ RangeOK(oth) /\ Within(own, c) /\ Within(oth, c)
      /\ own # c /\ oth # c /\ Apart(own, oth) /\ own # oth /\ own \in DOMAIN calls
      /\ calls[c].cut \in Cuts(c) /\ ~Short(c)
  BY <1>1, <1>4, PartsOfCall DEF Parts
<1>6. oth \notin DOMAIN calls
  BY <1>2, <1>4, <1>5, WithinSelf DEF Parts
<1>7. /\ DOMAIN f = DOMAIN calls /\ \A d \in DOMAIN calls : d # c => f[d] = calls[d]
      /\ DOMAIN f[c] = Fields /\ f[c].at = "get" /\ f[c].cut = calls[c].cut
  <2>1. DOMAIN calls[c] = {"at", "cut", "value"}
    BY <1>1 DEF TreeOK, Fields
  <2>2. f[c] = [calls[c] EXCEPT !.at = "get"]
    OBVIOUS
  <2>3. QED
    BY <2>1, <2>2 DEF Fields
<1> HIDE DEF own, oth, f
<1>8. /\ DOMAIN calls' = DOMAIN f \cup {oth} /\ calls'[oth] = NewCall(other)
      /\ \A d \in DOMAIN f : calls'[d] = f[d]
  <2>1. calls' = WithCall(f, oth, other)
    BY <1>3 DEF f, oth
  <2>2. oth \notin DOMAIN f
    BY <1>6, <1>7
  <2>3. QED
    BY <2>1, <2>2 DEF WithCall
<1> DEFINE N == {oth}
<1>10. /\ DOMAIN calls' = DOMAIN calls \cup N /\ N \cap DOMAIN calls = {}
       /\ \A d \in DOMAIN calls : d # c => calls'[d] = calls[d]
       /\ DOMAIN calls'[c] = Fields /\ calls'[c].at = "get" /\ calls'[c].cut = calls[c].cut
       /\ calls'[oth] \in {NewCall("begin"), NewCall("deferred")}
  BY <1>3, <1>6, <1>7, <1>8
<1>11. \A n \in N : /\ RangeOK(n) /\ Within(n, c) /\ n # c
                    /\ calls'[n] \in {NewCall("begin"), NewCall("deferred")}
                    /\ algorithm = "for_each_async" => \A p \in Span(n) : visits[p] = 0
  BY <1>2, <1>5, <1>10
<1>12. PlaceOK(c)'
  <2>1. OwnRange(c)' = own /\ OtherRange(c)' = oth
    BY <1>2, <1>10 DEF OwnRange, OtherRange, OwnHalf, OtherHalf, LowerHalf, UpperHalf, own, oth
  <2>2. \A d \in DOMAIN calls' : Within(d, c) => d = c \/ Within(d, own) \/ Within(d, oth)
    <3>1. Within(oth, oth)
      BY <1>5, WithinSelf
    <3>2. QED
      BY <1>4, <1>10, <3>1 DEF Parts, own, oth
  <2>3. Parts(c)'
    BY <1>2, <1>5, <1>10, <2>1, <2>2 DEF Parts
  <2>4. Own(c)' = Own(c)
    <3>1. Own(c) = calls[own] /\ Own(c)' = calls'[OwnRange(c)']
      BY DEF Own, OwnRange, own
    <3>2. QED
      BY <1>5, <1>10, <2>1, <3>1
  <2>5. QED
    BY <1>2, <1>10, <2>3, <2>4 DEF PlaceOK
<1>13. \A m, n \in N : m # n => Apart(m, n)
  OBVIOUS
<1>14. \A n \in N, d \in DOMAIN calls : Within(d, c) /\ d # c => Apart(n, d)
  <2>1. SUFFICES ASSUME NEW d \in DOMAIN calls, Within(d, c), d # c PROVE Apart(oth, d)
    OBVIOUS
  <2>2. RangeOK(d)
    BY <1>1 DEF TreeOK
  <2>3. Within(d, own)
    BY <1>2, <1>4, <2>1 DEF Parts, own, oth
  <2>4. QED
    BY <1>5, <2>2, <2>3, ApartParts
<1>15. ~Settled(c)
  BY <1>2 DEF Settled
<1> HIDE DEF N
<1>16. QED
  BY <1>2, <1>10, <1>11, <1>12, <1>13, <1>14, <1>15, CallSplits
-----------------------------------------------------------------------------
\* When both halves are settled, so is all that lies in them.
LEMMA PartsSettled ==
  ASSUME TreeOK, NEW c \in DOMAIN calls, Parts(c), Settled(OwnRange(c)),
         OtherRange(c) \in DOMAIN calls => Settled(OtherRange(c))
  PROVE  \A d \in DOMAIN calls : Within(d, c) /\ d # c => Settled(d)
<1> SUFFICES ASSUME NEW d \in DOMAIN calls, Within(d, c), d # c PROVE Settled(d)
  OBVIOUS
<1>1. CASE Within(d, OwnRange(c))
  BY <1>1 DEF TreeOK, Parts
<1>2. CASE ~Within(d, OwnRange(c))
  <2>1. Within(d, OtherRange(c)) /\ OtherRange(c) \in DOMAIN calls
    BY <1>2 DEF Parts
  <2>2. QED
    BY <2>1 DEF TreeOK
<1>3. QED
  BY <1>1, <1>2

\* A call that is cut keeps its parts when no call is made.
LEMMA SameParts ==
  ASSUME SettingOK, algorithm \in AsyncNames, AsyncOK, UNCHANGED <<setting, matches>>,
         NEW c \in DOMAIN calls, Parts(c), calls'[c].cut = calls[c].cut,
         DOMAIN calls' = DOMAIN calls,
         \A d \in DOMAIN calls : d # c => calls'[d] = calls[d],
         algorithm = "sort" => (calls'[c].at = "own" <=> calls[c].at = "own")
  PROVE  /\ OwnRange(c)' = OwnRange(c) /\ OtherRange(c)' = OtherRange(c)
         /\ OwnRange(c) \in DOMAIN calls
         /\ Parts(c)' /\ Own(c)' = Own(c) /\ Own(c) = calls[OwnRange(c)]
         /\ Other(c) = calls[OtherRange(c)]
<1> USE SameRanges
<1>1. OwnRange(c)' = OwnRange(c) /\ OtherRange(c)' = OtherRange(c)
  BY DEF OwnRange, OtherRange, OwnHalf, OtherHalf, LowerHalf, UpperHalf
<1>2. Own(c) = calls[OwnRange(c)] /\ Other(c) = calls[OtherRange(c)]
      /\ Own(c)' = calls'[OwnRange(c)']
  BY DEF Own, OwnRange, Other
<1>3. /\ calls[c].cut \in Cuts(c) /\ ~Short(c) /\ OwnRange(c) \in DOMAIN calls
      /\ \A d \in DOMAIN calls :
           Within(d, c) => d = c \/ Within(d, OwnRange(c)) \/ Within(d, OtherRange(c))
      /\ IF algorithm = "sort" /\ calls[c].at = "own"
         THEN \A d \in DOMAIN calls : ~Within(d, OtherRange(c))
         ELSE OtherRange(c) \in DOMAIN calls
  BY DEF Parts
<1>4. RangeOK(c)
  BY DEF AsyncOK, TreeOK
<1>5. OwnRange(c) # c
  BY <1>4, PartsOfCall
<1>6. Parts(c)'
  BY <1>1, <1>3 DEF Parts
<1>7. QED
  BY <1>1, <1>2, <1>3, <1>5, <1>6

\* The own half has returned: the future is got, unless a find has found.
LEMMA OwnReturnMoves ==
  ASSUME SettingOK, algorithm \in AsyncNames, AsyncOK, matches \subseteq Positions,
         NEW c \in DOMAIN calls, OwnReturns(c)
  PROVE  AsyncOK'
<1> USE SameRanges
<1>1. TreeOK /\ RangeOK(c) /\ PlaceOK(c) /\ DoneOK(c)
  BY DEF AsyncOK, TreeOK
<1>2. /\ calls[c].at = "own" /\ Own(c).at = "returned" /\ algorithm # "sort"
      /\ UNCHANGED <<setting, matches, pc, visits, throws>>
  BY DEF OwnReturns, At, quiet, frame, range
<1>3. Parts(c)
  BY <1>1, <1>2 DEF PlaceOK
<1>4. /\ DOMAIN calls' = DOMAIN calls
      /\ \A d \in DOMAIN calls : d # c => calls'[d] = calls[d]
      /\ DOMAIN calls'[c] = Fields /\ calls'[c].cut = calls[c].cut
      /\ IF algorithm = "find_async" /\ ~NotFound(c)
         THEN calls'[c].at = "leave" /\ calls'[c].value = Own(c).value
         ELSE calls'[c].at = "get"
  <2>1. CASE algorithm = "find_async" /\ ~NotFound(c)
    <3>1. calls' = [calls EXCEPT ![c].at = "leave", ![c].value = Own(c).value]
      BY <2>1 DEF OwnReturns
    <3>2. PICK v : v = Own(c).value
      OBVIOUS
    <3>3. calls' = [calls EXCEPT ![c].at = "leave", ![c].value = v]
      BY <3>1, <3>2
    <3>4. DOMAIN calls' = DOMAIN calls /\ DOMAIN calls'[c] = Fields
          /\ (\A d \in DOMAIN calls : d # c => calls'[d] = calls[d])
          /\ calls'[c].at = "leave" /\ calls'[c].cut = calls[c].cut /\ calls'[c].value = v
      <4>1. DOMAIN calls[c] = {"at", "cut", "value"}
        BY <1>1 DEF TreeOK, Fields
      <4>2. calls'[c] = [calls[c] EXCEPT !.at = "leave", !.value = v]
        BY <3>3
      <4>3. QED
        BY <3>3, <4>1, <4>2 DEF Fields
    <3>5. QED
      BY <2>1, <3>2, <3>4
  <2>2. CASE ~(algorithm = "find_async" /\ ~NotFound(c))
    <3>1. Goes(c, "get")
      BY <2>2 DEF OwnReturns
    <3>2. QED
      BY <1>1, <2>2, <3>1, GoesAlone
  <2>3. QED
    BY <2>1, <2>2
<1>5. /\ OwnRange(c) \in DOMAIN calls
      /\ Parts(c)' /\ Own(c)' = Own(c) /\ Own(c) = calls[OwnRange(c)]
  BY <1>2, <1>3, <1>4, SameParts
<1>6. NotFound(c)' <=> NotFound(c)
  BY <1>4, <1>5 DEF NotFound
<1>7. PlaceOK(c)'
  BY <1>2, <1>4, <1>5, <1>6 DEF PlaceOK
<1>8. calls'[c].at = "leave" => calls'[c].value = Answer(c)
  <2>1. SUFFICES ASSUME algorithm = "find_async", ~NotFound(c) PROVE Own(c).value = Answer(c)
    BY <1>4
  <2>2. Own(c).value = Answer(OwnRange(c))
    BY <1>1, <1>2, <1>5, <2>1 DEF AsyncOK, DoneOK
  <2>3. OwnRange(c) = LowerHalf(c, calls[c].cut)
    BY <2>1 DEF OwnRange, OwnHalf
  <2>4. Own(c).value # calls[c].cut
    BY <2>1 DEF NotFound
  <2>5. QED
    BY <1>1, <1>3, <2>1, <2>2, <2>3, <2>4, MatchesOfHalves DEF Parts
<1>9. DoneOK(c)'
  BY <1>2, <1>4, <1>8 DEF DoneOK, WholeDone
<1>10. throws \in Nat /\ visits \in [Positions -> {0, 1}]
  BY DEF AsyncOK
<1>11. calls'[c].at \in {"leave", "get"}
  BY <1>4
<1>12. QED
  BY <1>2, <1>4, <1>7, <1>9, <1>10, <1>11, CallMoves DEF AsyncPlaces, Settled

LEMMA OwnThrowMoves ==
  ASSUME SettingOK, algorithm \in AsyncNames, AsyncOK, matches \subseteq Positions,
         NEW c \in DOMAIN calls, OwnThrows(c)
  PROVE  AsyncOK'
<1> USE SameRanges
<1>1. TreeOK /\ RangeOK(c) /\ PlaceOK(c)
  BY DEF AsyncOK, TreeOK
<1>2. /\ calls[c].at = "own" /\ Own(c).at = "threw"
      /\ UNCHANGED <<setting, matches, pc, visits, throws>>
  BY DEF OwnThrows, At, quiet, frame, range
<1>3. Parts(c)
  BY <1>1, <1>2 DEF PlaceOK
<1>4. /\ DOMAIN calls' = DOMAIN calls
      /\ \A d \in DOMAIN calls : d # c => calls'[d] = calls[d]
      /\ DOMAIN calls'[c] = Fields /\ calls'[c].cut = calls[c].cut
      /\ calls'[c].at = IF algorithm = "sort" THEN "threw" ELSE "unwind"
  <2>1. Goes(c, IF algorithm = "sort" THEN "threw" ELSE "unwind")
    BY DEF OwnThrows, Throws
  <2>2. QED
    BY <1>1, <2>1, GoesAlone
<1>5. OwnRange(c) \in DOMAIN calls /\ Own(c) = calls[OwnRange(c)]
  BY <1>3 DEF Parts, Own, OwnRange
<1>6. throws \in Nat /\ visits \in [Positions -> {0, 1}]
  BY DEF AsyncOK
<1>7. calls[c].at \notin {"returned", "threw", "deferred"}
  BY <1>2
<1>8. CASE algorithm = "sort"
  <2>1. PlaceOK(c)' /\ DoneOK(c)'
    BY <1>2, <1>4, <1>8 DEF PlaceOK, DoneOK, WholeDone
  <2>2. \A d \in DOMAIN calls : Within(d, c) /\ d # c => Settled(d)
    <3>1. Settled(OwnRange(c))
      BY <1>2, <1>5 DEF Settled
    <3>2. RangeOK(OtherRange(c))
      BY <1>1, <1>3, PartsOfCall
    <3>3. OtherRange(c) \notin DOMAIN calls
      BY <1>2, <1>3, <1>8, <3>2, WithinSelf DEF Parts
    <3>4. QED
      BY <1>1, <1>3, <3>1, <3>3, PartsSettled
  <2>3. calls'[c].at \in AsyncPlaces \ {"deferred"}
    BY <1>4, <1>8 DEF AsyncPlaces
  <2>4. QED
    BY <1>2, <1>4, <1>6, <1>7, <2>1, <2>2, <2>3, CallMoves
<1>9. CASE algorithm # "sort"
  <2>1. Parts(c)' /\ Own(c)' = Own(c)
    BY <1>2, <1>3, <1>4, <1>9, SameParts
  <2>2. PlaceOK(c)' /\ DoneOK(c)'
    BY <1>2, <1>4, <1>9, <2>1 DEF PlaceOK, DoneOK, WholeDone
  <2>3. calls'[c].at \in AsyncPlaces \ {"deferred"} /\ ~Settled(c)'
    BY <1>4, <1>9 DEF AsyncPlaces, Settled
  <2>4. QED
    BY <1>2, <1>4, <1>6, <1>7, <2>2, <2>3, CallMoves
<1>10. QED
  BY <1>8, <1>9

\* get runs the deferred call: nothing that lies around it is settled.
LEMMA RunMoves ==
  ASSUME SettingOK, algorithm \in AsyncNames, AsyncOK, matches \subseteq Positions,
         NEW c \in DOMAIN calls, RunDeferred(c)
  PROVE  AsyncOK'
<1> USE SameRanges
<1>0. PICK o, own : o = OtherRange(c) /\ own = OwnRange(c)
  OBVIOUS
<1>1. TreeOK /\ RangeOK(c) /\ PlaceOK(c)
  BY DEF AsyncOK, TreeOK
<1>2. /\ calls[c].at = "get" /\ calls[o].at = "deferred" /\ Goes(o, "begin")
      /\ UNCHANGED <<setting, matches, pc, visits, throws>>
  BY <1>0 DEF RunDeferred, At, quiet, frame, range, Other
<1>3. Parts(c) /\ o \in DOMAIN calls /\ own \in DOMAIN calls
  BY <1>0, <1>1, <1>2 DEF PlaceOK, Parts
<1>4. /\ RangeOK(own) /\ RangeOK(o) /\ Within(o, c)
      /\ o # c /\ Apart(own, o) /\ own # o
  BY <1>0, <1>1, <1>3, PartsOfCall
<1>5. PlaceOK(o) /\ DoneOK(o)
  BY <1>3 DEF AsyncOK
<1>6. /\ DOMAIN calls' = DOMAIN calls
      /\ \A d \in DOMAIN calls : d # o => calls'[d] = calls[d]
      /\ DOMAIN calls'[o] = Fields /\ calls'[o].at = "begin"
  BY <1>1, <1>2, <1>3, GoesAlone
<1>7. NoPart(o)
  BY <1>2, <1>5 DEF PlaceOK
<1>8. PlaceOK(o)'
  <2>1. NoPart(o)'
    BY <1>6, <1>7, <1>2 DEF NoPart
  <2>2. QED
    BY <1>6, <2>1 DEF PlaceOK
<1>9. DoneOK(o)'
  <2>1. Span(o)' = Span(o)
    BY <1>2 DEF Span
  <2>2. QED
    BY <1>2, <1>5, <1>6, <2>1 DEF DoneOK, WholeDone
<1>10. ASSUME NEW e \in DOMAIN calls, Within(o, e), e # o, Settled(e) PROVE FALSE
  <2>1. RangeOK(e)
    BY <1>1 DEF TreeOK
  <2>2. Within(c, e) \/ Within(e, c)
    BY <1>1, <1>4, <1>10, Nest
  <2>3. ~Within(c, e)
    BY <1>1, <1>2, <1>10 DEF TreeOK, Settled
  <2>4. e # c
    BY <1>1, <2>3, WithinSelf
  <2>5. CASE Within(e, o)
    BY <1>4, <1>10, <2>1, <2>5, WithinAnti
  <2>6. CASE Within(e, own)
    <3>1. Within(o, own) /\ Within(o, o)
      BY <1>4, <1>10, <2>1, <2>6, WithinTrans, WithinSelf
    <3>2. QED
      BY <1>4, <3>1, ApartShareNone
  <2>7. QED
    BY <1>0, <1>3, <2>2, <2>3, <2>4, <2>5, <2>6 DEF Parts
<1>11. throws \in Nat /\ visits \in [Positions -> {0, 1}]
  BY DEF AsyncOK
<1>12. calls'[o].at \in AsyncPlaces \ {"deferred"} /\ ~Settled(o)'
  BY <1>6 DEF AsyncPlaces, Settled
<1>13. calls[o].at \notin {"returned", "threw"}
  BY <1>2
<1>14. QED
  BY <1>2, <1>3, <1>6, <1>8, <1>9, <1>10, <1>11, <1>12, <1>13, CallMoves
-----------------------------------------------------------------------------
\* What is got is what the whole range gives.
LEMMA JoinRight ==
  ASSUME SettingOK, algorithm \in AsyncNames, AsyncOK, matches \subseteq Positions,
         NEW c \in DOMAIN calls, calls[c].at = "get", Parts(c),
         Own(c).at = "returned", Other(c).at = "returned",
         Own(c) = calls[OwnRange(c)], Other(c) = calls[OtherRange(c)],
         OtherRange(c) \in DOMAIN calls
  PROVE  /\ algorithm = "find_async" => Join(c) = Answer(c)
         /\ algorithm = "find_async" /\ Join(c) = c[2] =>
              WholeDone(OwnRange(c)) /\ WholeDone(OtherRange(c))
         /\ algorithm \in {"accumulate", "sort"} => Join(c) = Elements(c)
<1>1. /\ RangeOK(c) /\ PlaceOK(c) /\ OwnRange(c) \in DOMAIN calls
      /\ DoneOK(OwnRange(c)) /\ DoneOK(OtherRange(c))
      /\ calls[c].cut \in Cuts(c) /\ ~Short(c)
  BY DEF AsyncOK, TreeOK, Parts
<1>2. /\ algorithm = "find_async" =>
           Own(c).value = Answer(OwnRange(c)) /\ Other(c).value = Answer(OtherRange(c))
      /\ algorithm \in {"accumulate", "sort"} =>
           Own(c).value = Elements(OwnRange(c)) /\ Other(c).value = Elements(OtherRange(c))
  BY <1>1 DEF DoneOK
<1>3. algorithm # "for_each_async" =>
        /\ OwnRange(c) = LowerHalf(c, calls[c].cut)
        /\ OtherRange(c) = UpperHalf(c, calls[c].cut)
  BY DEF OwnRange, OtherRange, OwnHalf, OtherHalf
<1>4. CASE algorithm = "find_async"
  <2>1. Own(c).value = calls[c].cut
    BY <1>1, <1>4 DEF PlaceOK, NotFound
  <2>2. Join(c) = Answer(OtherRange(c))
    BY <1>2, <1>4 DEF Join
  <2>3. Answer(c) = Answer(OtherRange(c))
    BY <1>1, <1>2, <1>3, <1>4, <2>1, MatchesOfHalves
  <2>4. OwnRange(c)[2] = calls[c].cut /\ OtherRange(c)[2] = c[2]
    BY <1>3, <1>4 DEF LowerHalf, UpperHalf
  <2>5. QED
    BY <1>2, <1>4, <2>1, <2>2, <2>3, <2>4 DEF WholeDone
<1>5. CASE algorithm \in {"accumulate", "sort"}
  BY <1>1, <1>2, <1>3, <1>5, ElementsOfHalves DEF Join
<1>6. QED
  BY <1>4, <1>5 DEF AsyncNames

\* The other half has returned as well.
LEMMA GetMoves ==
  ASSUME SettingOK, algorithm \in AsyncNames, AsyncOK, matches \subseteq Positions,
         NEW c \in DOMAIN calls, GetReturnsHalf(c)
  PROVE  AsyncOK'
<1> USE SameRanges
<1>0. PICK o, own : o = OtherRange(c) /\ own = OwnRange(c)
  OBVIOUS
<1>1. TreeOK /\ RangeOK(c) /\ PlaceOK(c)
  BY DEF AsyncOK, TreeOK
<1>2. /\ calls[c].at = "get" /\ Other(c).at = "returned" /\ Returns(c, Join(c))
      /\ UNCHANGED <<setting, matches, pc, visits, throws>>
  BY DEF GetReturnsHalf, At, quiet, frame, range
<1>3. Parts(c) /\ Own(c).at = "returned"
  BY <1>1, <1>2 DEF PlaceOK
<1>4. /\ own \in DOMAIN calls /\ o \in DOMAIN calls
      /\ Own(c) = calls[own] /\ Other(c) = calls[o]
      /\ \A d \in DOMAIN calls : Within(d, c) => d = c \/ Within(d, own) \/ Within(d, o)
  BY <1>0, <1>2, <1>3 DEF Parts, Own, OwnRange, Other
<1>5. /\ DOMAIN calls' = DOMAIN calls
      /\ \A d \in DOMAIN calls : d # c => calls'[d] = calls[d]
      /\ DOMAIN calls'[c] = Fields
      /\ calls'[c].at = "returned" /\ calls'[c].value = Join(c)
  <2>1. PICK v : v = Join(c)
    OBVIOUS
  <2>2. calls' = [calls EXCEPT ![c].at = "returned", ![c].value = v]
    BY <1>2, <2>1 DEF Returns
  <2>3. DOMAIN calls[c] = {"at", "cut", "value"}
    BY <1>1 DEF TreeOK, Fields
  <2>4. calls'[c] = [calls[c] EXCEPT !.at = "returned", !.value = v]
    BY <2>2
  <2>5. QED
    BY <2>1, <2>2, <2>3, <2>4 DEF Fields
<1>6. PlaceOK(c)'
  BY <1>5 DEF PlaceOK
<1>7. \A d \in DOMAIN calls : Within(d, c) /\ d # c => Settled(d)
  <2>1. Settled(own) /\ Settled(o)
    BY <1>2, <1>3, <1>4 DEF Settled
  <2>2. QED
    BY <1>0, <1>1, <1>3, <2>1, PartsSettled
<1>8. /\ algorithm = "find_async" => Join(c) = Answer(c)
      /\ algorithm = "find_async" /\ Join(c) = c[2] => WholeDone(own) /\ WholeDone(o)
      /\ algorithm \in {"accumulate", "sort"} => Join(c) = Elements(c)
  BY <1>0, <1>2, <1>3, <1>4, JoinRight
<1>9. DoneOK(own) /\ DoneOK(o)
  BY <1>4 DEF AsyncOK
<1>10. algorithm = "for_each_async" => \A p \in Span(c) : visits[p] = 1
  <2>1. SUFFICES ASSUME algorithm = "for_each_async" PROVE \A p \in Span(c) : visits[p] = 1
    OBVIOUS
  <2>2. Span(c) = Span(own) \cup Span(o)
    BY <1>0, <1>1, <1>3, <2>1, SpanOfHalves DEF Parts, OwnRange, OtherRange
  <2>3. QED
    BY <1>2, <1>3, <1>4, <1>9, <2>1, <2>2 DEF DoneOK
<1>11. WholeDone(c)' => \A d \in DOMAIN calls : Within(d, c) => calls'[d].at # "threw"
  <2>1. SUFFICES ASSUME WholeDone(c)', NEW d \in DOMAIN calls, Within(d, c), d # c
                 PROVE  calls[d].at # "threw"
    BY <1>5
  <2>2. WholeDone(own) /\ WholeDone(o)
    <3>1. CASE algorithm = "find_async"
      BY <1>2, <1>5, <1>8, <2>1, <3>1 DEF WholeDone
    <3>2. CASE algorithm # "find_async"
      BY <1>2, <1>3, <1>4, <3>2 DEF WholeDone
    <3>3. QED
      BY <3>1, <3>2
  <2>3. Within(d, own) \/ Within(d, o)
    BY <1>4, <2>1
  <2>4. QED
    BY <1>9, <2>2, <2>3 DEF DoneOK
<1>12. DoneOK(c)'
  <2>1. Span(c)' = Span(c) /\ Elements(c)' = Elements(c)
    BY DEF Span, Elements, Size
  <2>2. QED
    BY <1>2, <1>5, <1>8, <1>10, <1>11, <2>1 DEF DoneOK
<1>13. throws \in Nat /\ visits \in [Positions -> {0, 1}]
  BY DEF AsyncOK
<1>14. calls'[c].at \in AsyncPlaces \ {"deferred"}
  BY <1>5 DEF AsyncPlaces
<1>15. calls[c].at \notin {"returned", "threw", "deferred"}
  BY <1>2
<1>16. QED
  BY <1>2, <1>5, <1>6, <1>7, <1>12, <1>13, <1>14, <1>15, CallMoves

\* or has thrown.
LEMMA GetThrowMoves ==
  ASSUME SettingOK, algorithm \in AsyncNames, AsyncOK, matches \subseteq Positions,
         NEW c \in DOMAIN calls, GetThrowsHalf(c)
  PROVE  AsyncOK'
<1> USE SameRanges
<1>1. TreeOK /\ RangeOK(c) /\ PlaceOK(c)
  BY DEF AsyncOK, TreeOK
<1>2. /\ calls[c].at = "get" /\ Other(c).at = "threw" /\ Goes(c, "threw")
      /\ UNCHANGED <<setting, matches, pc, visits, throws>>
  BY DEF GetThrowsHalf, At, quiet, frame, range, Throws
<1>3. Parts(c) /\ Own(c).at = "returned"
  BY <1>1, <1>2 DEF PlaceOK
<1>4. Own(c) = calls[OwnRange(c)] /\ Other(c) = calls[OtherRange(c)]
  BY DEF Own, OwnRange, Other
<1>5. /\ DOMAIN calls' = DOMAIN calls
      /\ \A d \in DOMAIN calls : d # c => calls'[d] = calls[d]
      /\ DOMAIN calls'[c] = Fields /\ calls'[c].at = "threw"
  BY <1>1, <1>2, GoesAlone
<1>6. PlaceOK(c)' /\ DoneOK(c)'
  BY <1>5 DEF PlaceOK, DoneOK, WholeDone
<1>7. \A d \in DOMAIN calls : Within(d, c) /\ d # c => Settled(d)
  <2>1. Settled(OwnRange(c)) /\ Settled(OtherRange(c))
    BY <1>2, <1>3, <1>4 DEF Settled
  <2>2. QED
    BY <1>1, <1>3, <2>1, PartsSettled
<1>8. throws \in Nat /\ visits \in [Positions -> {0, 1}]
  BY DEF AsyncOK
<1>9. calls'[c].at \in AsyncPlaces \ {"deferred"}
  BY <1>5 DEF AsyncPlaces
<1>10. calls[c].at \notin {"returned", "threw", "deferred"}
  BY <1>2
<1>11. QED
  BY <1>2, <1>5, <1>6, <1>7, <1>8, <1>9, <1>10, CallMoves

\* The future is destroyed without having been got.
LEMMA DestroyMoves ==
  ASSUME SettingOK, algorithm \in AsyncNames, AsyncOK, matches \subseteq Positions,
         NEW c \in DOMAIN calls, DestroyFuture(c)
  PROVE  AsyncOK'
<1> USE SameRanges
<1>1. TreeOK /\ RangeOK(c) /\ PlaceOK(c) /\ DoneOK(c)
  BY DEF AsyncOK, TreeOK
<1>2. /\ calls[c].at \in {"leave", "unwind"} /\ FutureIdle(c)
      /\ Goes(c, IF calls[c].at = "leave" THEN "returned" ELSE "threw")
      /\ UNCHANGED <<setting, matches, pc, visits, throws>>
  BY DEF DestroyFuture, At, quiet, frame, range, Throws
<1>3. Parts(c) /\ Own(c).at \in {"returned", "threw"}
  BY <1>1, <1>2 DEF PlaceOK
<1>4. /\ Own(c) = calls[OwnRange(c)] /\ Other(c) = calls[OtherRange(c)]
      /\ OwnRange(c) \in DOMAIN calls
  BY <1>3 DEF Own, OwnRange, Other, Parts
<1>5. /\ DOMAIN calls' = DOMAIN calls
      /\ \A d \in DOMAIN calls : d # c => calls'[d] = calls[d]
      /\ DOMAIN calls'[c] = Fields
      /\ calls'[c].at = (IF calls[c].at = "leave" THEN "returned" ELSE "threw")
      /\ calls'[c].value = calls[c].value
  <2>1. PICK l : l = IF calls[c].at = "leave" THEN "returned" ELSE "threw"
    OBVIOUS
  <2>2. Goes(c, l)
    BY <1>2, <2>1
  <2>3. QED
    BY <1>1, <2>1, <2>2, GoesAlone
<1>6. PlaceOK(c)'
  BY <1>2, <1>5 DEF PlaceOK
<1>7. \A d \in DOMAIN calls : Within(d, c) /\ d # c => Settled(d)
  <2>1. Settled(OwnRange(c)) /\ Settled(OtherRange(c))
    BY <1>2, <1>3, <1>4 DEF Settled, FutureIdle
  <2>2. QED
    BY <1>1, <1>3, <2>1, PartsSettled
<1>8. DoneOK(c)'
  <2>1. CASE calls[c].at = "unwind"
    BY <1>5, <2>1 DEF DoneOK, WholeDone
  <2>2. CASE calls[c].at = "leave"
    <3>1. algorithm = "find_async" /\ ~NotFound(c) /\ calls[c].value = Answer(c)
      BY <1>1, <2>2 DEF PlaceOK, DoneOK
    <3>2. Own(c).value = Answer(OwnRange(c))
      <4>1. Own(c).at = "returned" /\ DoneOK(OwnRange(c))
        BY <1>1, <1>4, <2>2 DEF PlaceOK, AsyncOK
      <4>2. QED
        BY <1>4, <3>1, <4>1 DEF DoneOK
    <3>3. Answer(c) # c[2]
      <4>1. OwnRange(c) = LowerHalf(c, calls[c].cut)
        BY <3>1 DEF OwnRange, OwnHalf
      <4>2. calls[c].cut \in Cuts(c) /\ ~Short(c) /\ Own(c).value # calls[c].cut
        BY <1>3, <3>1 DEF Parts, NotFound
      <4>3. QED
        BY <1>1, <3>1, <3>2, <4>1, <4>2, MatchesOfHalves
    <3>4. QED
      BY <1>2, <1>5, <2>2, <3>1, <3>3 DEF DoneOK, WholeDone
  <2>3. QED
    BY <1>2, <2>1, <2>2
<1>9. throws \in Nat /\ visits \in [Positions -> {0, 1}]
  BY DEF AsyncOK
<1>10. calls'[c].at \in AsyncPlaces \ {"deferred"}
  BY <1>5 DEF AsyncPlaces
<1>11. calls[c].at \notin {"returned", "threw", "deferred"}
  BY <1>2
<1>12. QED
  BY <1>2, <1>5, <1>6, <1>7, <1>8, <1>9, <1>10, <1>11, CallMoves
-----------------------------------------------------------------------------
LEMMA AsyncStarts == Init /\ algorithm \in AsyncNames => AsyncOK
<1> SUFFICES ASSUME Init, algorithm \in AsyncNames PROVE AsyncOK
  OBVIOUS
<1>1. SettingOK /\ throws = 0 /\ \A k \in Ids : pc[k] = "off"
  BY InitSetting DEF Init, InitFrame
<1>2. visits = [p \in Positions |-> 0]
  BY DEF Init, EachInit
<1>3. DOMAIN calls = {Root} /\ calls[Root] = NewCall("begin")
  BY DEF Init, AsyncInit
<1>4. /\ RangeOK(Root) /\ Within(Root, Root)
      /\ DOMAIN calls[Root] = Fields /\ calls[Root].at = "begin"
  BY <1>1, <1>3, RootInRange, WithinSelf DEF NewCall, Fields
<1>5. TreeOK
  BY <1>3, <1>4 DEF TreeOK, AsyncPlaces
<1>6. PlaceOK(Root)
  BY <1>3, <1>4 DEF PlaceOK, NoPart
<1>7. DoneOK(Root)
  <2>1. Span(Root) \subseteq Positions
    BY <1>1, <1>4, SpanInRange
  <2>2. QED
    BY <1>2, <1>4, <2>1 DEF DoneOK, WholeDone
<1>8. QED
  BY <1>1, <1>2, <1>3, <1>5, <1>6, <1>7 DEF AsyncOK

\* The outermost call is over.
LEMMA AsyncReturns ==
  ASSUME SettingOK, algorithm \in AsyncNames, AsyncOK, matches \subseteq Positions, ReturnAsync
  PROVE  AsyncEnds' /\ ~Alive'
<1>1. /\ UNCHANGED <<algorithm, length, hardware, pc, calls, visits, throws, matches>>
      /\ \/ /\ calls[Root].at = "returned"
            /\ outcome' = IF algorithm = "find_async" THEN calls[Root].value ELSE Returned
         \/ calls[Root].at = "threw" /\ outcome' = Threw
  <2>1. UNCHANGED setting /\ UNCHANGED eachVars /\ UNCHANGED range
        /\ UNCHANGED <<pc, calls, throws>>
    BY DEF ReturnAsync
  <2>2. /\ \/ /\ calls[Root].at = "returned"
              /\ outcome' = IF algorithm = "find_async" THEN calls[Root].value ELSE Returned
           \/ calls[Root].at = "threw" /\ outcome' = Threw
    BY DEF ReturnAsync, At
  <2>3. QED
    BY <2>1, <2>2 DEF setting, eachVars, range
<1>2. Positions' = Positions /\ Root' = Root
  BY <1>1 DEF Positions, Root
<1>3. /\ Root \in DOMAIN calls /\ RangeOK(Root) /\ DoneOK(Root)
      /\ \A d \in DOMAIN calls : RangeOK(d) /\ Within(d, Root)
      /\ throws \in Nat /\ visits \in [Positions -> {0, 1}] /\ length \in Nat
  BY InRoot DEF AsyncOK, TreeOK, SettingOK
<1>4. \A d \in DOMAIN calls : Settled(d)
  <2>1. Settled(Root)
    BY <1>1 DEF Settled
  <2>2. QED
    BY <1>3, <2>1 DEF AsyncOK, TreeOK
<1>5. NoBlockOutlivesCall' /\ NoCallOutlivesRoot'
  <2>1. NoBlockOutlivesCall'
    BY <1>1 DEF AsyncOK, NoBlockOutlivesCall, Ids
  <2>2. NoCallOutlivesRoot'
    BY <1>1, <1>4 DEF NoCallOutlivesRoot, Settled
  <2>3. QED
    BY <2>1, <2>2
<1>6. WholeDone(Root) => throws = 0
  <2>1. SUFFICES ASSUME WholeDone(Root), throws # 0 PROVE FALSE
    OBVIOUS
  <2>2. PICK d \in DOMAIN calls : calls[d].at = "threw"
    BY <1>3, <2>1 DEF AsyncOK
  <2>3. QED
    BY <1>3, <2>1, <2>2 DEF DoneOK
<1>7. ASSUME algorithm = "find_async"
      PROVE  Answer(Root) = IF matches = {} THEN length ELSE Min(matches)
  <2>2. Root[1] = 0 /\ Root[2] = length /\ 0..(length - 1) = Positions
    BY DEF Root, Positions
  <2>3. Matches(Root) = matches
    BY <2>2 DEF Matches
  <2>4. QED
    BY <1>7, <2>2, <2>3 DEF Answer
<1>8. CASE calls[Root].at = "threw"
  <2>1. outcome' = Threw
    BY <1>1, <1>8
  <2>2. QED
    BY <1>1, <1>2, <1>3, <1>5, <2>1
       DEF AsyncEnds, Alive, Running, Threw, Returned
<1>9. CASE calls[Root].at = "returned" /\ algorithm # "find_async"
  <2>1. outcome' = Returned
    BY <1>1, <1>9
  <2>2. throws = 0
    BY <1>6, <1>9 DEF WholeDone
  <2>3. algorithm = "for_each_async" => \A p \in Positions : visits[p] = 1
    <3>1. Span(Root) = Positions
      BY DEF Span, Root, Positions
    <3>2. QED
      BY <1>3, <1>9, <3>1 DEF DoneOK
  <2>4. algorithm \in {"accumulate", "sort"} => InOrder'
    <3>1. algorithm \in {"accumulate", "sort"} => calls[Root].value = Elements(Root)
      BY <1>3, <1>9 DEF DoneOK
    <3>2. Elements(Root)' = Elements(Root)
      BY <1>1 DEF Elements, Size, Root
    <3>3. QED
      BY <1>1, <1>2, <3>1, <3>2 DEF InOrder
  <2>5. QED
    BY <1>1, <1>2, <1>3, <1>5, <1>9, <2>1, <2>2, <2>3, <2>4
       DEF AsyncEnds, Alive, Running, Threw, Returned
<1>10. CASE calls[Root].at = "returned" /\ algorithm = "find_async"
  <2>1. outcome' = Answer(Root) /\ outcome' = calls[Root].value
    BY <1>1, <1>3, <1>10 DEF DoneOK
  <2>2. outcome' = IF matches = {} THEN length ELSE Min(matches)
    BY <1>7, <1>10, <2>1
  <2>3. outcome' \in Nat
    <3>1. matches # {} => Min(matches) \in matches
      <4>1. matches \subseteq Nat
        BY <1>3 DEF Positions
      <4>2. QED
        BY <4>1, LeastElement
    <3>2. QED
      BY <1>3, <2>2, <3>1 DEF Positions
  <2>4. outcome' = length => throws = 0
    <3>1. Root[2] = length
      BY DEF Root
    <3>2. QED
      BY <1>6, <1>10, <2>1, <3>1 DEF WholeDone
  <2>5. outcome' # Running
    BY <2>3 DEF Running
  <2>6. QED
    BY <1>1, <1>2, <1>3, <1>5, <1>10, <2>2, <2>4, <2>5 DEF AsyncEnds, Alive
<1>11. QED
  BY <1>1, <1>8, <1>9, <1>10

AsyncMove == AsyncStep \/ AsyncTrouble

LEMMA AsyncMoves ==
  ASSUME SettingOK, algorithm \in AsyncNames, AsyncOK, matches \subseteq Positions, Alive,
         AsyncMove
  PROVE  AsyncEnds' /\ (Alive' => AsyncOK')
<1>1. CASE ReturnAsync
  BY <1>1, AsyncReturns
<1>2. ASSUME NEW c \in DOMAIN calls, CallStep(c) \/ WorkThrows(c)
      PROVE  AsyncEnds' /\ (Alive' => AsyncOK')
  <2>1. AsyncOK'
    BY <1>2, WorkMoves, ThrowMoves, CutMoves, PivotMoves, HandOverMoves, OwnReturnMoves,
       OwnThrowMoves, RunMoves, GetMoves, GetThrowMoves, DestroyMoves DEF CallStep
  <2>2. outcome' = Running /\ length' \in Nat
    <3>1. UNCHANGED quiet
      BY <1>2 DEF CallStep, Work, WorkThrows, CutInHalves, CutAtPivot, HandOver,
           OwnReturns, OwnThrows, RunDeferred, GetReturnsHalf, GetThrowsHalf, DestroyFuture
    <3>2. QED
      BY <3>1 DEF Alive, quiet, frame, setting, SettingOK
  <2>3. AsyncEnds'
    <3>1. outcome' = -1 /\ \A p \in Positions' : visits'[p] \in {0, 1}
      BY <2>1, <2>2 DEF AsyncOK, Running
    <3>2. outcome' # 0 /\ outcome' # length'
      BY <2>2, <3>1
    <3>3. \A p \in Positions' : visits'[p] <= 1
      BY <3>1
    <3>4. QED
      BY <2>2, <3>2, <3>3 DEF AsyncEnds, Running, Returned
  <2>4. QED
    BY <2>1, <2>3
<1>3. QED
  BY <1>1, <1>2 DEF AsyncMove, AsyncStep, AsyncTrouble
-----------------------------------------------------------------------------
(* All algorithms.                                                         *)

\* What is true while the call goes on, and of how it ended.
LiveOK ==
  /\ algorithm = "partial_sum" => SumOK
  /\ algorithm = "find" => FindOK
  /\ algorithm = "for_each" => EachOK
  /\ IsRaw => RawOK
  /\ algorithm \in MatrixNames => MatrixOK
  /\ algorithm \in AsyncNames => AsyncOK

EndsOK ==
  /\ algorithm = "partial_sum" => SumEnds
  /\ algorithm = "find" => FindEnds
  /\ algorithm = "for_each" => EachEnds
  /\ IsRaw => RawEnds
  /\ algorithm \in MatrixNames => MatrixEnds
  /\ algorithm \in AsyncNames => AsyncEnds

\* What an algorithm does not use stays as it is.
Unused ==
  /\ algorithm \in BlockwiseNames \cup AsyncNames
  /\ algorithm \notin {"for_each", "for_each_async"} => visits = [p \in Positions |-> 0]
  /\ algorithm \in {"find", "find_async"} => RangeInPositions
  /\ algorithm \in AsyncNames => matches \subseteq Positions
  /\ algorithm \notin AsyncNames => calls = <<>>

CallInv == SettingOK /\ Unused /\ EndsOK /\ (Alive => LiveOK)

LEMMA Names ==
  /\ IsRaw <=> algorithm = "raw_accumulate"
  /\ algorithm = "partial_sum" => ~IsRaw /\ algorithm \notin MatrixNames \cup AsyncNames
  /\ algorithm = "find" => ~IsRaw /\ algorithm \notin MatrixNames \cup AsyncNames
  /\ algorithm = "for_each" => ~IsRaw /\ algorithm \notin MatrixNames \cup AsyncNames
  /\ IsRaw => algorithm \notin MatrixNames \cup AsyncNames
  /\ algorithm \in MatrixNames => algorithm \notin AsyncNames
BY DEF IsRaw, MatrixNames, AsyncNames

LEMMA CallStarts == Init => CallInv
<1> SUFFICES ASSUME Init PROVE CallInv
  OBVIOUS
<1>1. SettingOK /\ length \in Nat
  BY InitSetting DEF SettingOK
<1>2. /\ outcome = Running /\ throws = 0 /\ \A k \in Ids : pc[k] = "off"
      /\ visits = [p \in Positions |-> 0]
  BY DEF Init, InitFrame, EachInit
<1>3. LiveOK
  BY SumStarts, FindStarts, EachStarts, RawStarts, MatrixStarts, AsyncStarts DEF LiveOK
<1>4. EndsOK
  <2>1. outcome = -1 /\ outcome # length /\ \A p \in Positions : visits[p] = 0
    BY <1>1, <1>2 DEF Running
  <2>2. visits \in [Positions -> {0, 1}] /\ \A p \in Positions : visits[p] <= 1
    BY <1>2, <2>1
  <2>3. SumEnds /\ FindEnds /\ EachEnds /\ RawEnds /\ MatrixEnds
    BY <1>2, <2>1, <2>2 DEF SumEnds, FindEnds, EachEnds, RawEnds, MatrixEnds,
         Running, Returned, Threw, Terminated, Undefined
  <2>4. AsyncEnds
    BY <1>2, <2>1, <2>2 DEF AsyncEnds, Running, Returned
  <2>5. QED
    BY <2>3, <2>4 DEF EndsOK
<1>5. Unused
  <2>1. algorithm \in BlockwiseNames \cup AsyncNames
    BY DEF Init, InitFrame
  <2>2. /\ matches \in IF algorithm \in {"find", "find_async"} THEN SUBSET Positions ELSE {{}}
        /\ throwing \in IF algorithm = "find" THEN SUBSET (Positions \ matches) ELSE {{}}
    BY DEF Init, FindInit
  <2>3. matches \subseteq Positions /\ throwing \subseteq Positions
    BY <2>2
  <2>4. algorithm \notin AsyncNames => calls = <<>>
    BY DEF Init, AsyncInit
  <2>5. QED
    BY <1>2, <2>1, <2>3, <2>4 DEF Unused, RangeInPositions
<1>6. QED
  BY <1>1, <1>3, <1>4, <1>5 DEF CallInv

\* Every step is one of the algorithm that is called,
LEMMA StepOfAlgorithm ==
  Next => \/ InSum(SumMove) \/ InFind(FindMove) \/ InEach(EachMove)
          \/ InRaw(RawMove) \/ InMatrix(MatrixMove) \/ InAsync(AsyncMove)
<1> SUFFICES ASSUME Next
             PROVE  \/ InSum(SumMove) \/ InFind(FindMove) \/ InEach(EachMove)
                    \/ InRaw(RawMove) \/ InMatrix(MatrixMove) \/ InAsync(AsyncMove)
  OBVIOUS
<1> USE DEF InSum, InFind, InEach, InRaw, InMatrix, InAsync
<1>1. CASE CallerStep
  BY <1>1 DEF CallerStep, SumMove, FindMove, EachMove, RawMove, MatrixMove
<1>2. CASE InAsync(AsyncStep)
  BY <1>2 DEF AsyncMove
<1>3. CASE Trouble
  BY <1>3 DEF Trouble, SumMove, FindMove, EachMove, RawMove, MatrixMove, AsyncMove
<1>4. CASE \E k \in Ids : Step(k)
  BY <1>4 DEF Step, SumMove, FindMove, EachMove, RawMove, MatrixMove
<1>5. QED
  BY <1>1, <1>2, <1>3, <1>4 DEF Next

\* and none is taken when the call is over.
LEMMA OverStays == Next => Alive
<1> SUFFICES ASSUME Next PROVE Alive
  OBVIOUS
<1> USE DEF StartThread, StartFails, StartFinal, Starting, Leave, LeaveByException,
            ReturnAtOnce
<1>1. SumMove => Alive
  BY DEF SumMove, LaunchSum, ReturnSum, SumStep, SumTrouble, SumBlock, SetFirst, Get,
         GetThrows, AddToLast, AddToRest, HandleInThread, HandleInCaller, LaunchSumFails,
         AdditionThrows
<1>2. FindMove => Alive
  BY DEF FindMove, LaunchSearch, ReturnFound, LaunchSearchFails, SearchStep,
         StopLooking, Look, SetValue, RaiseFlag, Catch, CatchThrows
<1>3. EachMove => Alive
  BY DEF EachMove, LaunchApply, IndexEmpty, ReturnEach, EachStep, EachTrouble, ApplyBlock,
         ThreadEnds, Collect, CollectThrows, CollectedAll, LaunchApplyFails, ApplyThrows
<1>4. RawMove => Alive
  BY DEF RawMove, LaunchRaw, DivideByZero, ReturnRaw, RawStep, RawTrouble, SumUp,
         JoinThread, AddResult, LaunchRawFails, SumUpThrows
<1>5. MatrixMove => Alive
  BY DEF MatrixMove, LaunchMatrix, RefuseSizes, ReturnMatrix, LaunchMatrixFails, ComputeBlock
<1>6. AsyncMove => Alive
  BY DEF AsyncMove, AsyncStep, AsyncTrouble, ReturnAsync, CallStep, At, Work, WorkThrows,
         CutInHalves, CutAtPivot, HandOver, OwnReturns, OwnThrows, RunDeferred,
         GetReturnsHalf, GetThrowsHalf, DestroyFuture
<1>7. QED
  BY <1>1, <1>2, <1>3, <1>4, <1>5, <1>6, StepOfAlgorithm
     DEF InSum, InFind, InEach, InRaw, InMatrix, InAsync

\* The call goes on, or ends as it should.
LEMMA CallSteps ==
  ASSUME CallInv, Next PROVE CallInv'
<1>1. SettingOK /\ Unused /\ LiveOK /\ Alive
  BY OverStays DEF CallInv
<1>2. SettingOK'
  BY <1>1, NextSetting
<1>3. UNCHANGED setting
  BY SettingStays DEF vars
<1>4. algorithm' = algorithm /\ IsRaw' = IsRaw /\ Positions' = Positions
  BY <1>3, SameFrame DEF setting
<1> USE Names DEF CallInv, LiveOK, EndsOK, Unused, RangeInPositions
<1>5. CASE InSum(SumMove)
  <2>1. algorithm = "partial_sum" /\ SumMove /\ UNCHANGED <<visits, matches, throwing, calls>>
    BY <1>5 DEF InSum, eachVars, findVars, range
  <2>2. SumEnds' /\ (Alive' => SumOK')
    BY <1>1, <2>1, SumMoves
  <2>3. QED
    BY <1>1, <1>2, <1>4, <2>1, <2>2
<1>6. CASE InFind(FindMove)
  <2>1. algorithm = "find" /\ FindMove /\ UNCHANGED <<visits, calls>>
    BY <1>6 DEF InFind, eachVars
  <2>2. UNCHANGED <<matches, throwing>>
    BY <2>1 DEF FindMove, LaunchSearch, ReturnFound, LaunchSearchFails, SearchStep,
         StopLooking, Look, SetValue, RaiseFlag, Catch, CatchThrows, range, findVars
  <2>3. FindEnds' /\ (Alive' => FindOK')
    BY <1>1, <2>1, FindMoves
  <2>4. QED
    BY <1>1, <1>2, <1>4, <2>1, <2>2, <2>3
<1>7. CASE InEach(EachMove)
  <2>1. algorithm = "for_each" /\ EachMove /\ UNCHANGED <<matches, throwing, calls>>
    BY <1>7 DEF InEach, findVars, range
  <2>2. EachEnds' /\ (Alive' => EachOK')
    BY <1>1, <2>1, EachMoves
  <2>3. QED
    BY <1>1, <1>2, <1>4, <2>1, <2>2
<1>8. CASE InRaw(RawMove)
  <2>1. IsRaw /\ RawMove /\ UNCHANGED <<visits, matches, throwing, calls>>
    BY <1>8 DEF InRaw, eachVars, findVars, range
  <2>2. RawEnds' /\ (Alive' => RawOK')
    BY <1>1, <2>1, RawMoves
  <2>3. QED
    BY <1>1, <1>2, <1>4, <2>1, <2>2
<1>9. CASE InMatrix(MatrixMove)
  <2>1. algorithm \in MatrixNames /\ MatrixMove /\ UNCHANGED <<visits, matches, throwing, calls>>
    BY <1>9 DEF InMatrix, eachVars, findVars, range
  <2>2. MatrixEnds' /\ (Alive' => MatrixOK')
    BY <1>1, <2>1, MatrixMoves
  <2>3. /\ ~IsRaw
        /\ algorithm \notin {"partial_sum", "find", "for_each", "find_async", "for_each_async"}
    BY <2>1 DEF MatrixNames, IsRaw
  <2>4. QED
    BY <1>1, <1>2, <1>4, <2>1, <2>2, <2>3
<1>10. CASE InAsync(AsyncMove)
  <2>1. algorithm \in AsyncNames /\ AsyncMove
    BY <1>10 DEF InAsync
  <2>2. UNCHANGED matches
    BY <2>1 DEF AsyncMove, AsyncStep, AsyncTrouble, CallStep, ReturnAsync, Work, WorkThrows,
         CutInHalves, CutAtPivot, HandOver, OwnReturns, OwnThrows, RunDeferred,
         GetReturnsHalf, GetThrowsHalf, DestroyFuture, quiet, range
  <2>3. AsyncEnds' /\ (Alive' => AsyncOK')
    BY <1>1, <2>1, AsyncMoves
  <2>4. algorithm # "for_each_async" => UNCHANGED visits
    BY <2>1 DEF AsyncMove, AsyncStep, AsyncTrouble, CallStep, ReturnAsync, Work, WorkThrows,
         CutInHalves, CutAtPivot, HandOver, OwnReturns, OwnThrows, RunDeferred,
         GetReturnsHalf, GetThrowsHalf, DestroyFuture, eachVars
  <2>5. /\ algorithm \notin {"partial_sum", "find", "for_each"}
        /\ ~IsRaw /\ algorithm \notin MatrixNames
    BY <2>1 DEF AsyncNames, IsRaw, MatrixNames
  <2>6. UNCHANGED throwing
    BY <2>1 DEF AsyncMove, AsyncStep, AsyncTrouble, CallStep, ReturnAsync, Work, WorkThrows,
         CutInHalves, CutAtPivot, HandOver, OwnReturns, OwnThrows, RunDeferred,
         GetReturnsHalf, GetThrowsHalf, DestroyFuture, quiet, range
  <2>7. QED
    BY <1>1, <1>2, <1>4, <2>1, <2>2, <2>3, <2>4, <2>5, <2>6
<1>11. QED
  BY <1>5, <1>6, <1>7, <1>8, <1>9, <1>10, StepOfAlgorithm
-----------------------------------------------------------------------------
LEMMA CallSafety == CallInv => CallSafe
<1> SUFFICES ASSUME CallInv PROVE CallSafe
  OBVIOUS
<1>1. SettingOK /\ Unused /\ EndsOK
  BY DEF CallInv
<1> USE Names DEF Running, Returned, Threw, Terminated, Undefined
<1>2. length \in Nat /\ Positions \subseteq Nat
  BY <1>1 DEF SettingOK, Positions
<1>3. algorithm \notin AsyncNames => NoCallOutlivesRoot
  BY <1>1 DEF Unused, NoCallOutlivesRoot
<1>4. algorithm \notin {"for_each", "for_each_async"} => \A p \in Positions : visits[p] <= 1
  BY <1>1 DEF Unused
<1>5. algorithm \notin MatrixNames => MatrixIsRight
  BY DEF MatrixIsRight, MatrixNames
<1> USE DEF CallSafe, ThrownIsReported, FoundIsMatch, DiesOnlyOf, EveryElementOnce,
            NothingOutlivesCall
<1>6. CASE algorithm = "partial_sum"
  BY <1>1, <1>2, <1>3, <1>4, <1>5, <1>6 DEF EndsOK, SumEnds
<1>7. CASE algorithm = "find"
  <2>1. FindEnds /\ matches \subseteq Positions
    BY <1>1, <1>7 DEF EndsOK, Unused, RangeInPositions
  <2>2. PositionMatches
    BY <1>2, <2>1 DEF FindEnds, PositionMatches, Positions
  <2>3. outcome # -4
    BY <1>2, <2>1 DEF FindEnds
  <2>4. QED
    BY <1>2, <1>3, <1>4, <1>5, <1>7, <2>1, <2>2, <2>3 DEF FindEnds
<1>8. CASE algorithm = "for_each"
  <2>1. EachEnds
    BY <1>1, <1>8 DEF EndsOK
  <2>2. \A p \in Positions : visits[p] <= 1
    BY <2>1 DEF EachEnds
  <2>3. QED
    BY <1>2, <1>3, <1>5, <1>8, <2>1, <2>2 DEF EachEnds
<1>9. CASE IsRaw
  BY <1>1, <1>2, <1>3, <1>4, <1>5, <1>9 DEF EndsOK, RawEnds
<1>10. CASE algorithm \in MatrixNames
  <2>1. MatrixEnds /\ algorithm \in {"multiply", "transpose"}
    BY <1>1, <1>10 DEF EndsOK, MatrixNames
  <2>2. QED
    BY <1>2, <1>3, <1>4, <1>10, <2>1 DEF MatrixEnds
<1>11. CASE algorithm \in AsyncNames
  <2>1. AsyncEnds /\ matches \subseteq Positions
    BY <1>1, <1>11 DEF EndsOK, Unused
  <2>2. algorithm \in {"find_async", "for_each_async", "accumulate", "sort"}
    BY <1>11 DEF AsyncNames
  <2>3. algorithm = "find_async" => FirstIsFound /\ outcome \notin {-3, -4}
    <3>1. SUFFICES ASSUME algorithm = "find_async" PROVE FirstIsFound /\ outcome \notin {-3, -4}
      OBVIOUS
    <3>2. matches # {} => Min(matches) \in matches
      BY <1>2, <2>1, LeastElement
    <3>3. outcome \in {-1, -2} \/ outcome = (IF matches = {} THEN length ELSE Min(matches))
      BY <2>1, <3>1 DEF AsyncEnds
    <3>4. \A p \in Positions : p \in Nat /\ p # length /\ p \notin {-1, -2, -3, -4}
      BY <1>2 DEF Positions
    <3>5. length \notin Positions /\ length \notin {-1, -2, -3, -4}
      BY <1>2, <3>4
    <3>6. CASE matches = {}
      BY <3>3, <3>4, <3>5, <3>6 DEF FirstIsFound
    <3>7. CASE matches # {}
      BY <2>1, <3>2, <3>3, <3>4, <3>5, <3>7 DEF FirstIsFound
    <3>8. QED
      BY <3>6, <3>7
  <2>4. QED
    BY <1>2, <1>5, <1>11, <2>1, <2>2, <2>3 DEF AsyncEnds
<1>12. QED
  BY <1>1, <1>6, <1>7, <1>8, <1>9, <1>10, <1>11 DEF Unused, BlockwiseNames, MatrixNames

\* What an algorithm knows does not depend on anything but the variables.
LEMMA CallStutters == CallInv /\ UNCHANGED vars => CallInv'
<1> SUFFICES ASSUME CallInv, UNCHANGED vars PROVE CallInv'
  OBVIOUS
<1>1. /\ UNCHANGED <<algorithm, length, hardware, pc, started, outcome, throws>>
      /\ UNCHANGED <<list, promise, addend, matches, throwing, result, done_flag, pos>>
      /\ UNCHANGED <<visits, future, collected, results, joined, added, total, sizes, cell, calls>>
  BY DEF vars, frame, setting, sumVars, findVars, range, eachVars, rawVars, matrixVars
<1>2. /\ threads' = threads /\ Final' = Final /\ IsRaw' = IsRaw /\ Positions' = Positions
      /\ \A k : begin(k)' = begin(k) /\ end(k)' = end(k) /\ Block(k)' = Block(k)
  BY <1>1, SameFrame DEF setting
<1>3. SumOK => SumOK'
  BY <1>1, <1>2 DEF SumOK, FrameOK, Unhanded, HandedOn, UnderWay, HasValue, SumPlaces
<1>4. FindOK => FindOK'
  BY <1>1, <1>2 DEF FindOK, FrameOK, Searched, Decided, Stops, SearchPlaces, ThrownKept
<1>5. EachOK => EachOK'
  BY <1>1, <1>2 DEF EachOK, FrameOK, Applied, HoldsException, ApplyPlaces
<1>6. RawOK => RawOK'
  BY <1>1, <1>2 DEF RawOK, FrameOK, Summed, Behind, RawPlaces
<1>7. MatrixOK => MatrixOK'
  <2>1. \A i : Terms(i)' = Terms(i)
    BY <1>1 DEF Terms, Product, Flipped, Rows, Columns
  <2>2. (ShapeOK <=> ShapeOK') /\ (SizesFit <=> SizesFit')
    BY <1>1 DEF ShapeOK, SizesFit, Rows, Columns
  <2>3. FrameOK({"compute"}) => FrameOK({"compute"})'
    BY <1>1, <1>2 DEF FrameOK
  <2>4. QED
    BY <1>1, <1>2, <2>1, <2>2, <2>3 DEF MatrixOK, Computed
<1>8. AsyncOK => AsyncOK'
  <2> USE SameRanges
  <2>1. UNCHANGED <<setting, matches>>
    BY <1>1 DEF setting
  <2>2. TreeOK => TreeOK'
    BY <1>1, <2>1 DEF TreeOK, Settled
  <2>3. \A d : OwnRange(d)' = OwnRange(d) /\ OtherRange(d)' = OtherRange(d)
    BY <1>1, <2>1 DEF OwnRange, OtherRange, OwnHalf, OtherHalf, LowerHalf, UpperHalf
  <2>4. \A d : /\ NoPart(d) <=> NoPart(d)'
               /\ Parts(d) <=> Parts(d)'
    BY <1>1, <2>1, <2>3 DEF NoPart, Parts
  <2>5. \A d : Own(d)' = Own(d) /\ (NotFound(d) <=> NotFound(d)')
    <3>1. \A d : Own(d) = calls[OwnRange(d)] /\ Own(d)' = calls'[OwnRange(d)']
      BY DEF Own, OwnRange
    <3>2. QED
      BY <1>1, <2>3, <3>1 DEF NotFound
  <2>6. \A d : PlaceOK(d) => PlaceOK(d)'
    BY <1>1, <2>1, <2>4, <2>5 DEF PlaceOK
  <2>7. \A d : DoneOK(d) => DoneOK(d)'
    BY <1>1, <2>1 DEF DoneOK, WholeDone, Span, Elements, Size
  <2>8. QED
    BY <1>1, <1>2, <2>2, <2>6, <2>7 DEF AsyncOK
<1>9. /\ Alive <=> Alive'
      /\ SettingOK => SettingOK'
      /\ Unused => Unused'
  BY <1>1, <1>2 DEF Alive, SettingOK, Unused, RangeInPositions
<1>10. LiveOK => LiveOK'
  BY <1>1, <1>2, <1>3, <1>4, <1>5, <1>6, <1>7, <1>8 DEF LiveOK
<1>11. NoBlockOutlivesCall <=> NoBlockOutlivesCall'
  BY <1>1 DEF NoBlockOutlivesCall
<1>12. NoCallOutlivesRoot <=> NoCallOutlivesRoot'
  BY <1>1 DEF NoCallOutlivesRoot
<1>13. (SumEnds => SumEnds') /\ (FindEnds => FindEnds') /\ (EachEnds => EachEnds')
  BY <1>1, <1>2, <1>11 DEF SumEnds, FindEnds, EachEnds, TwoMatch
<1>14. RawEnds => RawEnds'
  BY <1>1, <1>2, <1>11 DEF RawEnds, TotalInOrder
<1>15. MatrixEnds => MatrixEnds'
  <2>1. MatrixIsRight <=> MatrixIsRight'
    BY <1>1, <1>2 DEF MatrixIsRight, Right, SizesFit, ProductFits, Rows, Columns
  <2>2. QED
    BY <1>1, <1>2, <1>11, <2>1 DEF MatrixEnds, OperandTooSmall, Rows, Columns
<1>16. AsyncEnds => AsyncEnds'
  <2>1. InOrder <=> InOrder'
    BY <1>1 DEF InOrder, Elements, Size, Root
  <2>2. QED
    BY <1>1, <1>2, <1>11, <1>12, <2>1 DEF AsyncEnds
<1>17. EndsOK => EndsOK'
  BY <1>1, <1>2, <1>13, <1>14, <1>15, <1>16 DEF EndsOK
<1>18. QED
  BY <1>9, <1>10, <1>17 DEF CallInv

LEMMA CallAlways == Spec => []CallInv
<1>1. CallInv /\ [Next]_vars => CallInv'
  BY CallSteps, CallStutters
<1>2. QED
  BY <1>1, CallStarts, PTL DEF Spec

-----------------------------------------------------------------------------
(* Sums of a list.                                                         *)

\* The function f sums up the elements a..b of l.
Sums(f, l, a, b) ==
  \A i \in a..b : f[i] = IF i = a THEN l[a] ELSE f[i - 1] + l[i]

FunctionOn(f, S) == f = [i \in S |-> f[i]]

\* Only one function does.
LEMMA SumsAreUnique ==
  ASSUME NEW f, NEW g, NEW l, NEW a \in Int, NEW b \in Int, Sums(f, l, a, b), Sums(g, l, a, b)
  PROVE  \A i \in a..b : f[i] = g[i]
<1> DEFINE S == {n \in Nat : a + n <= b /\ f[a + n] # g[a + n]}
<1>1. S = {}
  <2>1. SUFFICES ASSUME S # {} PROVE FALSE
    OBVIOUS
  <2>2. PICK n \in S : \A m \in S : n <= m
    BY <2>1, LeastElement
  <2>3. n \in Nat /\ a + n \in a..b /\ f[a + n] # g[a + n]
    BY <2>2
  <2>4. n # 0
    BY <2>3 DEF Sums
  <2>5. n - 1 \in Nat /\ n - 1 \notin S /\ a + (n - 1) <= b
    BY <2>2, <2>3, <2>4
  <2>6. f[a + (n - 1)] = g[a + (n - 1)]
    BY <2>5
  <2>7. a + n # a /\ a + n - 1 = a + (n - 1)
    BY <2>3, <2>4
  <2>8. QED
    BY <2>3, <2>6, <2>7 DEF Sums
<1>2. ASSUME NEW i \in a..b PROVE f[i] = g[i]
  <2>1. i - a \in Nat /\ a + (i - a) = i /\ i <= b
    OBVIOUS
  <2>2. QED
    BY <1>1, <2>1
<1>3. QED
  BY <1>2

\* There is one: up to any number of elements the recursion ends.
LEMMA SumsExist ==
  ASSUME NEW l, NEW a \in Int, NEW b \in Int
  PROVE  \E f : f = [i \in a..b |-> IF i = a THEN l[a] ELSE f[i - 1] + l[i]]
<1> DEFINE Has(n) == \E f : f = [i \in a..(a + n - 1) |-> IF i = a THEN l[a] ELSE f[i - 1] + l[i]]
           S == {n \in Nat : ~Has(n)}
<1>1. Has(0)
  <2>1. a..(a + 0 - 1) = {}
    OBVIOUS
  <2> DEFINE f == [i \in {} |-> l[a]]
  <2>2. f = [i \in a..(a + 0 - 1) |-> IF i = a THEN l[a] ELSE f[i - 1] + l[i]]
    BY <2>1
  <2>3. QED
    BY <2>2
<1>2. ASSUME NEW n \in Nat, Has(n) PROVE Has(n + 1)
  <2>1. PICK f : f = [i \in a..(a + n - 1) |-> IF i = a THEN l[a] ELSE f[i - 1] + l[i]]
    BY <1>2
  <2> DEFINE D == a..(a + (n + 1) - 1)
             g == [i \in D |-> IF i = a THEN l[a]
                               ELSE IF i = a + n THEN f[i - 1] + l[i] ELSE f[i]]
  <2>2. \A i \in D : i # a => i - 1 \in a..(a + n - 1) /\ i - 1 \in D /\ i - 1 # a + n
    OBVIOUS
  <2>3. \A i \in D : i # a + n => i \in a..(a + n - 1)
    OBVIOUS
  <2>4. \A i \in a..(a + n - 1) : f[i] = IF i = a THEN l[a] ELSE f[i - 1] + l[i]
    BY <2>1
  <2>5. \A i \in a..(a + n - 1) : g[i] = f[i]
    <3>1. \A i \in a..(a + n - 1) : i \in D /\ i # a + n
      OBVIOUS
    <3>2. QED
      BY <2>4, <3>1
  <2>6. ASSUME NEW i \in D PROVE g[i] = IF i = a THEN l[a] ELSE g[i - 1] + l[i]
    <3>1. CASE i = a
      BY <3>1
    <3>2. CASE i # a /\ i = a + n
      <4>1. g[i] = f[i - 1] + l[i]
        BY <3>2
      <4>2. g[i - 1] = f[i - 1]
        BY <2>2, <2>5, <3>2
      <4> HIDE DEF g
      <4>3. QED
        BY <3>2, <4>1, <4>2
    <3>3. CASE i # a /\ i # a + n
      <4>1. i \in a..(a + n - 1) /\ i - 1 \in a..(a + n - 1)
        BY <2>2, <2>3, <3>3
      <4>2. g[i] = f[i] /\ g[i - 1] = f[i - 1]
        BY <2>5, <4>1
      <4> HIDE DEF g
      <4>3. QED
        BY <2>4, <3>3, <4>1, <4>2
    <3>4. QED
      BY <3>1, <3>2, <3>3
  <2>7. g = [i \in D |-> g[i]]
    OBVIOUS
  <2> HIDE DEF g
  <2>8. g = [i \in D |-> IF i = a THEN l[a] ELSE g[i - 1] + l[i]]
    BY <2>6, <2>7
  <2>9. QED
    BY <2>8
<1> HIDE DEF Has
<1>3. S = {}
  <2>1. SUFFICES ASSUME S # {} PROVE FALSE
    OBVIOUS
  <2>2. PICK n \in S : \A m \in S : n <= m
    BY <2>1, LeastElement
  <2>3. n \in Nat /\ ~Has(n)
    BY <2>2
  <2>4. n # 0
    BY <1>1, <2>3
  <2>5. n - 1 \in Nat /\ ~(n <= n - 1) /\ n - 1 + 1 = n
    BY <2>3, <2>4
  <2>6. Has(n - 1)
    BY <2>2, <2>5
  <2>7. QED
    BY <1>2, <2>3, <2>5, <2>6
<1>4. \A n \in Nat : Has(n)
  BY <1>3
<1>5. CASE a <= b
  <2>1. b - a + 1 \in Nat /\ a + (b - a + 1) - 1 = b
    BY <1>5
  <2>2. Has(b - a + 1)
    BY <1>4, <2>1
  <2>3. QED
    BY <2>1, <2>2 DEF Has
<1>6. CASE ~(a <= b)
  <2>1. a..b = a..(a + 0 - 1)
    BY <1>6
  <2>2. Has(0)
    BY <1>4
  <2>3. QED
    BY <2>1, <2>2 DEF Has
<1>7. QED
  BY <1>5, <1>6

\* std::partial_sum does.
LEMMA PartialSumSums ==
  ASSUME NEW l, NEW a \in Int, NEW b \in Int
  PROVE  Sums(partial_sum(l, a, b), l, a, b) /\ FunctionOn(partial_sum(l, a, b), a..b)
<1> DEFINE f == partial_sum(l, a, b)
<1>1. f = CHOOSE g : g = [i \in a..b |-> IF i = a THEN l[a] ELSE g[i - 1] + l[i]]
  BY DEF partial_sum
<1> HIDE DEF f
<1>2. f = [i \in a..b |-> IF i = a THEN l[a] ELSE f[i - 1] + l[i]]
  BY <1>1, SumsExist
<1>3. Sums(f, l, a, b) /\ FunctionOn(f, a..b)
  BY <1>2 DEF Sums, FunctionOn
<1>4. QED
  BY <1>3 DEF f

LEMMA SumsAreInt ==
  ASSUME NEW f, NEW l, NEW a \in Int, NEW b \in Int, Sums(f, l, a, b),
         \A i \in a..b : l[i] \in Int
  PROVE  \A i \in a..b : f[i] \in Int
<1> DEFINE S == {n \in Nat : a + n <= b /\ f[a + n] \notin Int}
<1>1. S = {}
  <2>1. SUFFICES ASSUME S # {} PROVE FALSE
    OBVIOUS
  <2>2. PICK n \in S : \A m \in S : n <= m
    BY <2>1, LeastElement
  <2>3. n \in Nat /\ a + n \in a..b /\ f[a + n] \notin Int
    BY <2>2
  <2>4. n # 0
    BY <2>3 DEF Sums
  <2>5. n - 1 \in Nat /\ n - 1 \notin S /\ a + (n - 1) <= b
    BY <2>2, <2>3, <2>4
  <2>6. f[a + (n - 1)] \in Int
    BY <2>5
  <2>7. a + n # a /\ a + n - 1 = a + (n - 1)
    BY <2>3, <2>4
  <2>8. f[a + n] = f[a + (n - 1)] + l[a + n]
    BY <2>3, <2>7 DEF Sums
  <2>9. QED
    BY <2>3, <2>6, <2>8
<1>2. ASSUME NEW i \in a..b PROVE f[i] \in Int
  <2>1. i - a \in Nat /\ a + (i - a) = i /\ i <= b
    OBVIOUS
  <2>2. QED
    BY <1>1, <2>1
<1>3. QED
  BY <1>2
-----------------------------------------------------------------------------
(* The values of partial sums.  A block's own sums lack what comes before  *)
(* it, which is what it is handed.                                         *)

AllSums == partial_sum(Element, 0, length - 1)
Before(k) == IF begin(k) = 0 THEN 0 ELSE AllSums[begin(k) - 1]

Untouched(k) == \A i \in Block(k) : list[i] = Element[i]
OwnSums(k) == \A i \in Block(k) : list[i] = AllSums[i] - Before(k)
LastIsDone(k) ==
  /\ list[last(k)] = AllSums[last(k)]
  /\ \A i \in Block(k) \ {last(k)} : list[i] = AllSums[i] - Before(k)
Complete(k) == \A i \in Block(k) : list[i] = AllSums[i]

ValueOK(k) ==
  /\ pc[k] \in {"off", "sum"} => Untouched(k)
  /\ pc[k] \in {"set", "get", "last"} => OwnSums(k)
  /\ pc[k] \in {"last", "rest"} => addend[k] = Before(k)
  /\ pc[k] = "rest" => LastIsDone(k)
  /\ pc[k] = "end" /\ promise[k] # Failed => Complete(k)
  /\ HasValue(k) => promise[k].sum = AllSums[last(k)]

ValuesOK ==
  /\ FunctionOn(list, Positions) /\ DOMAIN addend = Ids
  /\ \A k \in 1..threads : ValueOK(k)

SumsInv ==
  algorithm = "partial_sum" =>
    /\ length \in Lengths
    /\ Alive => ValuesOK
    /\ PrefixSums

\* The sums are integers, and each adds its element.
LEMMA AllSumsAdd ==
  ASSUME SettingOK, length \in Lengths
  PROVE  \A i \in Positions :
           /\ AllSums[i] \in Int /\ Element[i] \in Int
           /\ AllSums[i] = IF i = 0 THEN Element[0] ELSE AllSums[i - 1] + Element[i]
<1>1. length - 1 \in Int
  BY DEF SettingOK
<1>2. \A i \in 0..(length - 1) : Element[i] \in Int
  BY ElementAssumption
<1>3. Sums(AllSums, Element, 0, length - 1)
  BY <1>1, PartialSumSums DEF AllSums
<1>4. \A i \in 0..(length - 1) : AllSums[i] \in Int
  <2> HIDE DEF AllSums
  <2>1. QED
    BY <1>1, <1>2, <1>3, SumsAreInt
<1>5. QED
  BY <1>2, <1>3, <1>4 DEF Sums, Positions

\* Where blocks lie.
LEMMA BlockInList ==
  ASSUME SettingOK, ~IsRaw, NEW k \in 1..threads
  PROVE  /\ length > 0 /\ k \in Ids /\ k \in Nat
         /\ begin(k) \in Nat /\ end(k) \in Nat /\ last(k) \in Block(k)
         /\ \A i \in Block(k) : i \in Positions /\ i \in Nat /\ i <= last(k) /\ begin(k) <= i
         /\ k = 1 => begin(k) = 0
         /\ k > 1 => /\ k - 1 \in 1..threads /\ begin(k) > 0
                     /\ begin(k) - 1 = last(k - 1) /\ begin(k) - 1 \in Positions
<1>1. threads \in Nat /\ 1..threads \subseteq Ids /\ k \in Nat \ {0} /\ length \in Nat
  BY NumbersOfThreads DEF SettingOK
<1>2. length > 0
  BY <1>1, NumbersOfThreads
<1>3. \A j \in 1..threads : begin(j) \in Nat /\ end(j) \in Nat /\ begin(j) < end(j)
                            /\ end(j) <= length
  BY <1>2, BlocksOfCall
<1>4. last(k) \in Block(k) /\ Block(k) = begin(k)..last(k)
  BY <1>3 DEF last, Block
<1>5. \A i \in Block(k) : i \in Positions /\ i \in Nat /\ i <= last(k) /\ begin(k) <= i
  BY <1>1, <1>3 DEF last, Block, Positions
<1>6. begin(k) = (k - 1) * block_size(length, hardware)
  BY DEF begin, block_start
<1>7. k > 1 => k - 1 \in 1..threads /\ end(k - 1) = (k - 1) * block_size(length, hardware)
  <2>1. k > 1 => k - 1 \in 1..threads /\ k - 1 # threads
    BY <1>1
  <2>2. QED
    BY <2>1 DEF end, block_end, threads
<1>8. block_size(length, hardware) \in Nat
  BY <1>1, <1>2, NumbersOfThreads, Quotient DEF block_size, threads
<1>9. k = 1 => begin(k) = 0
  <2>1. 0 * block_size(length, hardware) = 0
    BY <1>8
  <2>2. QED
    BY <1>6, <2>1
<1>10. k > 1 => begin(k) = end(k - 1)
  BY <1>6, <1>7
<1>11. k > 1 => begin(k) > 0 /\ begin(k) - 1 \in Positions
  BY <1>1, <1>3, <1>7, <1>10 DEF Positions
<1>12. QED
  BY <1>1, <1>2, <1>3, <1>4, <1>5, <1>7, <1>9, <1>10, <1>11 DEF last

LEMMA BeforeIsInt ==
  ASSUME SettingOK, ~IsRaw, length \in Lengths, NEW k \in 1..threads
  PROVE  Before(k) \in Int /\ (k > 1 => Before(k) = AllSums[last(k - 1)])
<1>1. CASE k = 1
  BY <1>1, BlockInList DEF Before
<1>2. CASE k # 1
  <2>1. k > 1
    BY <1>2, BlockInList
  <2>2. begin(k) # 0 /\ begin(k) - 1 = last(k - 1) /\ begin(k) - 1 \in Positions
    BY <2>1, BlockInList
  <2>3. QED
    BY <2>2, AllSumsAdd DEF Before
<1>3. QED
  BY <1>1, <1>2

\* std::partial_sum of a block.
LEMMA SumsOfBlock ==
  ASSUME SettingOK, ~IsRaw, length \in Lengths, NEW k \in 1..threads, Untouched(k)
  PROVE  \A i \in Block(k) :
           partial_sum(list, begin(k), last(k))[i] = AllSums[i] - Before(k)
<1> DEFINE f == [i \in Block(k) |-> AllSums[i] - Before(k)]
           a == begin(k)
           b == last(k)
<1>1. a \in Nat /\ b \in Nat /\ b \in Block(k) /\ Block(k) = a..b /\ a..b \subseteq Positions
  BY BlockInList DEF Block, last
<1>2. Before(k) \in Int /\ Before(k) = IF a = 0 THEN 0 ELSE AllSums[a - 1]
  BY BeforeIsInt DEF Before
<1> HIDE DEF a, b
<1>3. Sums(f, list, a, b)
  <2> SUFFICES ASSUME NEW i \in a..b
               PROVE  f[i] = IF i = a THEN list[a] ELSE f[i - 1] + list[i]
    BY DEF Sums
  <2>1. /\ i \in Positions /\ i \in Nat /\ AllSums[i] \in Int /\ Element[i] \in Int
        /\ AllSums[i] = IF i = 0 THEN Element[0] ELSE AllSums[i - 1] + Element[i]
    BY <1>1, AllSumsAdd
  <2>2. f[i] = AllSums[i] - Before(k) /\ list[i] = Element[i]
    BY <1>1 DEF Untouched
  <2>3. CASE i = a
    <3>1. CASE a = 0
      BY <1>2, <2>1, <2>2, <2>3, <3>1
    <3>2. CASE a # 0
      <4>1. a - 1 \in Positions
        BY <1>1, <2>1, <2>3, <3>2 DEF Positions, SettingOK
      <4>2. AllSums[a - 1] \in Int
        BY <4>1, AllSumsAdd
      <4> HIDE DEF f
      <4>3. QED
        BY <1>2, <2>1, <2>2, <2>3, <3>2, <4>2
    <3>3. QED
      BY <3>1, <3>2
  <2>4. CASE i # a
    <3>1. i - 1 \in a..b /\ i # 0 /\ i - 1 \in Positions
      BY <1>1, <2>1, <2>4 DEF Positions
    <3>2. f[i - 1] = AllSums[i - 1] - Before(k) /\ AllSums[i - 1] \in Int
      BY <1>1, <3>1, AllSumsAdd
    <3> HIDE DEF f
    <3>3. QED
      BY <1>2, <2>1, <2>2, <2>4, <3>1, <3>2
  <2>5. QED
    BY <2>3, <2>4
<1>4. Sums(partial_sum(list, a, b), list, a, b)
  BY <1>1, PartialSumSums
<1>5. \A i \in a..b : partial_sum(list, a, b)[i] = f[i]
  <2> HIDE DEF f
  <2>1. QED
    BY <1>1, <1>3, <1>4, SumsAreUnique
<1>6. QED
  BY <1>1, <1>5 DEF a, b

\* The work on block k changes what belongs to it and nothing else.
LEMMA OneBlock ==
  ASSUME SettingOK, ~IsRaw, ValuesOK, NEW k \in 1..threads, UNCHANGED setting,
         FunctionOn(list', Positions), DOMAIN addend' = Ids,
         \A i \in Positions \ Block(k) : list'[i] = list[i],
         \A j \in Ids \ {k} : /\ pc'[j] = pc[j] /\ promise'[j] = promise[j]
                              /\ addend'[j] = addend[j],
         ValueOK(k)'
  PROVE  ValuesOK'
<1>1. /\ threads' = threads /\ Positions' = Positions /\ Ids' = Ids
      /\ \A j : begin(j)' = begin(j) /\ Block(j)' = Block(j) /\ last(j)' = last(j)
  BY SameFrame DEF last, Ids
<1>2. AllSums' = AllSums /\ \A j : Before(j)' = Before(j)
  BY <1>1 DEF AllSums, Before, setting
<1>3. ASSUME NEW j \in 1..threads, j # k PROVE ValueOK(j)'
  <2>1. ValueOK(j) /\ j \in Ids
    BY NumbersOfThreads DEF ValuesOK
  <2>2. Block(j) \cap Block(k) = {} /\ Block(j) \subseteq Positions /\ last(j) \in Block(j)
    BY <1>3, BlocksOfCall, BlockInList
  <2>3. /\ \A i \in Block(j) : list'[i] = list[i] 
        /\ pc'[j] = pc[j] /\ promise'[j] = promise[j] /\ addend'[j] = addend[j]
    BY <1>3, <2>1, <2>2
  <2>4. /\ Untouched(j) => Untouched(j)'
        /\ OwnSums(j) => OwnSums(j)'
        /\ LastIsDone(j) => LastIsDone(j)'
        /\ Complete(j) => Complete(j)'
    BY <1>1, <1>2, <2>2, <2>3 DEF Untouched, OwnSums, LastIsDone, Complete
  <2>5. HasValue(j)' <=> HasValue(j)
    BY <2>3 DEF HasValue
  <2>6. AllSums[last(j)]' = AllSums[last(j)]
    BY <1>1, <1>2
  <2>7. QED
    BY <1>2, <2>1, <2>3, <2>4, <2>5, <2>6 DEF ValueOK
<1>4. QED
  BY <1>1, <1>3 DEF ValuesOK

LEMMA SameValues ==
  ASSUME UNCHANGED setting
  PROVE  /\ AllSums' = AllSums /\ Positions' = Positions /\ threads' = threads
         /\ \A j : /\ Before(j)' = Before(j) /\ begin(j)' = begin(j)
                  /\ Block(j)' = Block(j) /\ last(j)' = last(j)
<1>1. /\ Positions' = Positions /\ threads' = threads
      /\ \A j : begin(j)' = begin(j) /\ Block(j)' = Block(j) /\ last(j)' = last(j)
  BY SameFrame DEF last
<1>2. AllSums' = AllSums
  BY DEF AllSums, setting
<1>3. \A j : Before(j)' = Before(j)
  BY <1>1, <1>2 DEF Before
<1>4. QED
  BY <1>1, <1>2, <1>3

\* A step of a block or of the caller keeps the values right.
LEMMA ValuesMove ==
  ASSUME SettingOK, ~IsRaw, length \in Lengths, SumOK, ValuesOK, Alive, SumMove, Alive'
  PROVE  ValuesOK'
<1> USE Outcomes
<1>1. /\ 1..threads \subseteq Ids /\ DOMAIN promise = Ids
      /\ pc \in [Ids -> SumPlaces \cup {"off", "end", "thrown"}]
      /\ \A k \in Ids : pc[k] # "off" => k \in 1..threads
  BY NumbersOfThreads, InFrame DEF SumOK, FrameOK
\* Where only the place of a block changes, its values have to fit there.
<1>2. ASSUME UNCHANGED <<setting, list, promise, addend>>, NEW k \in 1..threads,
             NEW l, pc' = [pc EXCEPT ![k] = l],
             l = "sum" => Untouched(k),
             l \in {"set", "get", "last"} => OwnSums(k),
             l \in {"last", "rest"} => addend[k] = Before(k),
             l = "rest" => LastIsDone(k),
             l = "end" /\ promise[k] # Failed => Complete(k), l # "off"
      PROVE  ValuesOK'
  <2>1. /\ UNCHANGED setting /\ k \in Ids /\ pc'[k] = l
        /\ list' = list /\ promise' = promise /\ addend' = addend
        /\ \A j \in Ids \ {k} : pc'[j] = pc[j]
    BY <1>1, <1>2
  <2>2. Positions' = Positions /\ FunctionOn(list', Positions) /\ DOMAIN addend = Ids /\ ValueOK(k)
    BY <2>1, SameValues DEF ValuesOK
  <2>3. /\ Untouched(k) => Untouched(k)'
        /\ OwnSums(k) => OwnSums(k)'
        /\ LastIsDone(k) => LastIsDone(k)'
        /\ Complete(k) => Complete(k)'
    BY <2>1, SameValues DEF Untouched, OwnSums, LastIsDone, Complete
  <2>4. HasValue(k)' => promise'[k].sum = AllSums'[last(k)']
    BY <2>1, <2>2, SameValues DEF HasValue, ValueOK
  <2>5. Before(k)' = Before(k)
    BY <2>1, SameValues
  <2>6. ValueOK(k)'
    BY <1>2, <2>1, <2>3, <2>4, <2>5 DEF ValueOK
  <2>7. QED
    BY <2>1, <2>2, <2>6, OneBlock
<1>3. CASE LaunchSum
  <2>1. FrameOK(SumPlaces) /\ "sum" \in SumPlaces /\ throws' \in Nat
    BY <1>3 DEF SumOK, FrameOK, LaunchSum, SumPlaces
  <2>2. StartThread("sum") \/ StartFinal("sum")
    BY <1>3 DEF LaunchSum
  <2>3. UNCHANGED setting
    BY <2>1, <2>2, FrameLaunches
  <2>4. PICK k \in 1..threads : pc[k] = "off" /\ pc' = [pc EXCEPT ![k] = "sum"]
    BY <2>1, <2>2, FrameLaunches
  <2>5. Untouched(k)
    BY <2>4 DEF ValuesOK, ValueOK
  <2>6. QED
    BY <1>2, <1>3, <2>3, <2>4, <2>5 DEF LaunchSum
<1>4. CASE ReturnSum
  BY <1>4, RangesAssumption DEF ReturnSum, ReturnAtOnce, LeaveByException, Leave, Alive, Returned,
     Running, Threw
<1>5. ASSUME LaunchSumFails PROVE ValuesOK'
  <2>1. FrameOK(SumPlaces) /\ StartFails /\ throws' \in Nat
    BY <1>5, ThrowsAssumption DEF SumOK, FrameOK, LaunchSumFails
  <2>2. /\ UNCHANGED setting /\ Final \in 1..threads
        /\ pc' = [pc EXCEPT ![Final] = "thrown"]
    BY <2>1, FrameFails
  <2>3. QED
    BY <1>2, <1>5, <2>2 DEF LaunchSumFails
<1>6. ASSUME NEW k \in Ids, SumStep(k) \/ AdditionThrows(k) PROVE ValuesOK'
  <2>1. k \in 1..threads /\ pc[k] # "off" /\ ValueOK(k)
    <3>1. pc[k] # "off"
      BY <1>6 DEF SumStep, SumBlock, SetFirst, Get, GetThrows, AddToLast, AddToRest,
         HandleInThread, HandleInCaller, AdditionThrows
    <3>2. QED
      BY <1>1, <1>6, <3>1 DEF ValuesOK
  <2>2. /\ \A i \in Block(k) : i \in Positions /\ AllSums[i] \in Int
        /\ last(k) \in Block(k) /\ Before(k) \in Int
        /\ k > 1 => k - 1 \in 1..threads /\ Before(k) = AllSums[last(k - 1)]
        /\ k = 1 => Before(k) = 0
    BY <2>1, BlockInList, BeforeIsInt, AllSumsAdd DEF Before
  <2>3. ASSUME NEW l, Proceed(k, l)
        PROVE  UNCHANGED setting /\ pc' = [pc EXCEPT ![k] = l]
    BY <2>3 DEF Proceed, Goto
  <2>4. FunctionOn(list, Positions) /\ DOMAIN list = Positions /\ DOMAIN addend = Ids
    BY DEF ValuesOK, FunctionOn
  <2>5. CASE SumBlock(k)
    <3> DEFINE l == IF k = 1 THEN "set" ELSE "get"
    <3>1. /\ Proceed(k, l) /\ pc[k] = "sum" /\ UNCHANGED <<promise, addend>>
          /\ list' = [i \in DOMAIN list |->
                         IF i \in Block(k) THEN partial_sum(list, begin(k), last(k))[i]
                         ELSE list[i]]
      BY <2>5 DEF SumBlock
    <3>2. /\ UNCHANGED setting /\ pc'[k] = l /\ l \in {"set", "get"}
          /\ promise' = promise /\ addend' = addend
          /\ \A j \in Ids \ {k} : pc'[j] = pc[j]
      BY <1>1, <2>3, <3>1
    <3> HIDE DEF l
    <3>3. FunctionOn(list', Positions) /\ \A i \in Positions \ Block(k) : list'[i] = list[i]
      BY <2>4, <3>1 DEF FunctionOn
    <3>4. \A i \in Block(k) : list'[i] = AllSums[i] - Before(k)
      <4>1. Untouched(k)
        BY <2>1, <3>1 DEF ValueOK
      <4>2. \A i \in Block(k) : list'[i] = partial_sum(list, begin(k), last(k))[i]
        BY <2>2, <2>4, <3>1
      <4>3. QED
        BY <2>1, <4>1, <4>2, SumsOfBlock
    <3>5. OwnSums(k)'
      BY <3>2, <3>4, SameValues DEF OwnSums
    <3>6. HasValue(k)' => promise'[k].sum = AllSums'[last(k)']
      BY <2>1, <3>2, SameValues DEF HasValue, ValueOK
    <3>7. ValueOK(k)'
      BY <3>2, <3>5, <3>6 DEF ValueOK
    <3>8. QED
      BY <2>1, <2>4, <3>2, <3>3, <3>7, OneBlock
  <2>6. CASE SetFirst(k)
    <3>1. /\ Proceed(k, "end") /\ pc[k] = "set" /\ UNCHANGED <<list, addend>>
          /\ promise' = IF k = Final THEN promise
                        ELSE [promise EXCEPT ![k] = Value(list[last(k)])]
      BY <2>6 DEF SetFirst
    <3>2. /\ UNCHANGED setting /\ pc'[k] = "end" /\ list' = list /\ addend' = addend
          /\ \A j \in Ids \ {k} : pc'[j] = pc[j] /\ promise'[j] = promise[j]
          /\ promise'[k] = promise[k] \/ promise'[k] = Value(list[last(k)])
      BY <1>1, <2>3, <3>1
    <3>3. k = 1 /\ Before(k) = 0
      BY <2>2, <3>1 DEF SumOK, HandedOn
    <3>4. Complete(k)
      BY <2>1, <2>2, <3>1, <3>3 DEF ValueOK, OwnSums, Complete
    <3>5. Complete(k)'
      BY <3>2, <3>4, SameValues DEF Complete
    <3>6. HasValue(k)' => promise'[k].sum = AllSums'[last(k)']
      <4>1. list[last(k)] = AllSums[last(k)]
        BY <2>2, <3>4 DEF Complete
      <4>2. CASE promise'[k] = promise[k]
        BY <2>1, <3>2, <4>2, SameValues DEF HasValue, ValueOK
      <4>3. CASE promise'[k] = Value(list[last(k)])
        BY <3>2, <4>1, <4>3, SameValues DEF Value
      <4>4. QED
        BY <3>2, <4>2, <4>3
    <3>7. ValueOK(k)'
      BY <3>2, <3>5, <3>6 DEF ValueOK
    <3>8. FunctionOn(list', Positions)
      BY <2>4, <3>2
    <3>9. QED
      BY <2>1, <2>4, <3>2, <3>7, <3>8, OneBlock
  \* The block is handed what the one before it has passed on.
  <2>7. CASE Get(k)
    <3>1. /\ Proceed(k, "last") /\ pc[k] = "get" /\ UNCHANGED <<list, promise>>
          /\ HasValue(k - 1) /\ addend' = [addend EXCEPT ![k] = promise[k - 1].sum]
      BY <2>7 DEF Get, HasValue
    <3>2. /\ UNCHANGED setting /\ pc'[k] = "last" /\ list' = list /\ promise' = promise
          /\ \A j \in Ids \ {k} : pc'[j] = pc[j] /\ addend'[j] = addend[j]
          /\ addend'[k] = promise[k - 1].sum /\ DOMAIN addend' = Ids
      BY <1>1, <2>3, <2>4, <3>1
    <3>3. k > 1
      BY <3>1 DEF SumOK, HandedOn
    <3>4. addend'[k] = Before(k)'
      BY <2>2, <3>1, <3>2, <3>3, SameValues DEF ValuesOK, ValueOK
    <3>5. OwnSums(k)'
      BY <2>1, <3>1, <3>2, SameValues DEF ValueOK, OwnSums
    <3>6. HasValue(k)' => promise'[k].sum = AllSums'[last(k)']
      BY <2>1, <3>2, SameValues DEF HasValue, ValueOK
    <3>7. ValueOK(k)'
      BY <3>2, <3>4, <3>5, <3>6 DEF ValueOK
    <3>8. FunctionOn(list', Positions)
      BY <2>4, <3>2
    <3>9. QED
      BY <2>1, <3>2, <3>7, <3>8, OneBlock
  <2>8. CASE GetThrows(k)
    <3>1. Proceed(k, "catch") /\ UNCHANGED <<list, promise, addend>>
      BY <2>8 DEF GetThrows
    <3>2. QED
      BY <1>2, <2>1, <2>3, <3>1
  <2>9. CASE AddToLast(k)
    <3>1. /\ Proceed(k, "rest") /\ pc[k] = "last" /\ addend' = addend
          /\ list' = [list EXCEPT ![last(k)] = @ + addend[k]]
          /\ promise' = IF k = Final THEN promise
                        ELSE [promise EXCEPT ![k] = Value(list'[last(k)])]
      BY <2>9 DEF AddToLast
    <3>2. /\ UNCHANGED setting /\ pc'[k] = "rest"
          /\ \A j \in Ids \ {k} : pc'[j] = pc[j] /\ promise'[j] = promise[j]
          /\ promise'[k] = promise[k] \/ promise'[k] = Value(list'[last(k)])
      BY <1>1, <2>3, <3>1
    <3>3. addend[k] = Before(k) /\ OwnSums(k)
      BY <2>1, <3>1 DEF ValueOK
    <3>4. /\ FunctionOn(list', Positions)
          /\ \A i \in Positions \ {last(k)} : list'[i] = list[i]
          /\ list'[last(k)] = list[last(k)] + addend[k]
      BY <2>2, <2>4, <3>1 DEF FunctionOn
    <3>5. list'[last(k)] = AllSums[last(k)]
      BY <2>2, <3>3, <3>4 DEF OwnSums
    <3>6. \A i \in Block(k) \ {last(k)} : list'[i] = AllSums[i] - Before(k)
      BY <2>2, <3>3, <3>4 DEF OwnSums
    <3>7. LastIsDone(k)'
      BY <3>2, <3>5, <3>6, SameValues DEF LastIsDone
    <3>8. HasValue(k)' => promise'[k].sum = AllSums'[last(k)']
      <4>1. CASE promise'[k] = promise[k]
        BY <2>1, <3>2, <4>1, SameValues DEF HasValue, ValueOK
      <4>2. CASE promise'[k] = Value(list'[last(k)])
        BY <3>2, <3>5, <4>2, SameValues DEF Value
      <4>3. QED
        BY <3>2, <4>1, <4>2
    <3>9. addend'[k] = Before(k)'
      BY <3>1, <3>2, <3>3, SameValues
    <3>10. ValueOK(k)'
      BY <3>2, <3>7, <3>8, <3>9 DEF ValueOK
    <3>11. \A i \in Positions \ Block(k) : list'[i] = list[i]
      BY <2>2, <3>4
    <3>12. QED
      BY <2>1, <2>4, <3>1, <3>2, <3>4, <3>10, <3>11, OneBlock
  <2>10. CASE AddToRest(k)
    <3>1. /\ Proceed(k, "end") /\ pc[k] = "rest" /\ UNCHANGED <<promise, addend>>
          /\ list' = [i \in DOMAIN list |->
                         IF i \in Block(k) \ {last(k)} THEN list[i] + addend[k] ELSE list[i]]
      BY <2>10 DEF AddToRest
    <3>2. /\ UNCHANGED setting /\ pc'[k] = "end" /\ promise' = promise /\ addend' = addend
          /\ \A j \in Ids \ {k} : pc'[j] = pc[j]
      BY <1>1, <2>3, <3>1
    <3>3. addend[k] = Before(k) /\ LastIsDone(k)
      BY <2>1, <3>1 DEF ValueOK
    <3>4. /\ FunctionOn(list', Positions)
          /\ \A i \in Positions \ Block(k) : list'[i] = list[i]
          /\ \A i \in Block(k) \ {last(k)} : list'[i] = list[i] + addend[k]
          /\ list'[last(k)] = list[last(k)]
      BY <2>2, <2>4, <3>1 DEF FunctionOn
    <3>5. \A i \in Block(k) : list'[i] = AllSums[i]
      BY <2>2, <3>3, <3>4 DEF LastIsDone
    <3>6. Complete(k)'
      BY <3>2, <3>5, SameValues DEF Complete
    <3>7. HasValue(k)' => promise'[k].sum = AllSums'[last(k)']
      BY <2>1, <3>2, SameValues DEF HasValue, ValueOK
    <3>8. ValueOK(k)'
      BY <3>2, <3>6, <3>7 DEF ValueOK
    <3>9. QED
      BY <2>1, <2>4, <3>2, <3>4, <3>8, OneBlock
  <2>11. CASE HandleInThread(k)
    <3>1. promise[k] = Unset
      BY <2>11 DEF HandleInThread, Escape, Alive, Running, Terminated
    <3>2. /\ Proceed(k, "end") /\ promise' = [promise EXCEPT ![k] = Failed]
          /\ UNCHANGED <<list, addend>>
      BY <2>11, <3>1 DEF HandleInThread
    <3>3. /\ UNCHANGED setting /\ pc'[k] = "end" /\ promise'[k] = Failed
          /\ list' = list /\ addend' = addend
          /\ \A j \in Ids \ {k} : pc'[j] = pc[j] /\ promise'[j] = promise[j]
      BY <1>1, <2>3, <3>2
    <3>4. ValueOK(k)'
      BY <3>3 DEF ValueOK, HasValue
    <3>5. FunctionOn(list', Positions)
      BY <2>4, <3>3
    <3>6. QED
      BY <2>1, <2>4, <3>3, <3>4, <3>5, OneBlock
  <2>12. CASE HandleInCaller(k)
    <3>1. Proceed(k, "thrown") /\ UNCHANGED <<list, promise, addend>>
      BY <2>12 DEF HandleInCaller
    <3>2. QED
      BY <1>2, <2>1, <2>3, <3>1
  <2>13. CASE AdditionThrows(k)
    <3>1. Proceed(k, "catch") /\ UNCHANGED <<list, promise, addend>>
      BY <2>13 DEF AdditionThrows
    <3>2. QED
      BY <1>2, <2>1, <2>3, <3>1
  <2>14. QED
    BY <1>6, <2>5, <2>6, <2>7, <2>8, <2>9, <2>10, <2>11, <2>12, <2>13 DEF SumStep
<1>7. QED
  BY <1>3, <1>4, <1>5, <1>6 DEF SumMove, SumTrouble

\* When the call returns, all blocks are complete.
LEMMA SumsReturned ==
  ASSUME SettingOK, ~IsRaw, length \in Lengths, SumOK, ValuesOK, Alive, SumMove,
         outcome' = Returned
  PROVE  list' = AllSums /\ UNCHANGED setting
<1>1. Running # Returned /\ Threw # Returned /\ Terminated # Returned
  BY DEF Running, Returned, Threw, Terminated
<1>2. ReturnSum
  <2>1. ~LaunchSum /\ ~LaunchSumFails
    BY <1>1 DEF LaunchSum, LaunchSumFails, StartThread, StartFinal, StartFails, Proceed, Alive
  <2>2. \A k \in Ids : ~SumStep(k) /\ ~AdditionThrows(k)
    BY <1>1 DEF SumStep, SumBlock, SetFirst, Get, GetThrows, AddToLast, AddToRest,
       HandleInThread, HandleInCaller, AdditionThrows, Escape, Proceed, Alive
  <2>3. QED
    BY <2>1, <2>2 DEF SumMove, SumTrouble
<1>3. UNCHANGED setting /\ list' = list
  BY <1>2 DEF ReturnSum, ReturnAtOnce, Leave, LeaveByException
<1>4. FunctionOn(AllSums, Positions)
  <2>1. length - 1 \in Int
    BY DEF SettingOK
  <2>2. QED
    BY <2>1, PartialSumSums DEF AllSums, Positions
<1>5. ASSUME NEW i \in Positions PROVE list[i] = AllSums[i]
  <2>1. length > 0
    BY <1>5 DEF Positions, SettingOK
  <2>2. PICK k \in 1..threads : i \in Block(k)
    BY <2>1, BlocksOfCall
  <2>3. pc[Final] = "end" /\ AllJoined
    BY <1>1, <1>2, <2>1 DEF ReturnSum, ReturnAtOnce, LeaveByException, Leave
  <2>4. threads \in Nat /\ threads > 0 /\ 1..threads \subseteq Ids
    BY <2>2, NumbersOfThreads
  <2>5. throws = 0
    BY <2>3, <2>4, SumReturns
  <2>6. pc[k] = "end"
    <3>1. started = threads - 1
      BY <2>3, <2>4 DEF SumOK, FrameOK
    <3>2. k = Final \/ k \in 1..started
      BY <2>4, <3>1 DEF Final
    <3>3. QED
      BY <2>3, <3>2 DEF AllJoined
  <2>7. promise[k] # Failed
    BY <2>4, <2>5 DEF SumOK
  <2>8. QED
    BY <2>2, <2>6, <2>7 DEF ValuesOK, ValueOK, Complete
<1>6. list = AllSums
  BY <1>4, <1>5 DEF ValuesOK, FunctionOn
<1>7. QED
  BY <1>3, <1>6

LEMMA SumsSteps == CallInv /\ SumsInv /\ [Next]_vars => SumsInv'
<1> SUFFICES ASSUME CallInv, SumsInv, [Next]_vars, algorithm' = "partial_sum"
             PROVE  SumsInv'
  BY DEF SumsInv
<1>1. UNCHANGED setting
  BY SettingStays DEF vars
<1>2. /\ algorithm = "partial_sum" /\ ~IsRaw /\ SettingOK /\ length \in Lengths
      /\ length' = length
  BY <1>1, Names DEF setting, CallInv, SumsInv
<1>3. AllSums' = AllSums
  BY <1>1, SameValues
<1>4. CASE UNCHANGED vars
  <2>1. UNCHANGED <<list, promise, addend, pc, outcome>>
    BY <1>4 DEF vars, frame, sumVars
  <2>2. ValuesOK => ValuesOK'
    <3>1. Ids' = Ids
      BY DEF Ids
    <3>2. ASSUME NEW k, ValueOK(k) PROVE ValueOK(k)'
      BY <1>1, <2>1, <3>2, SameValues
      DEF ValueOK, HasValue, Untouched, OwnSums, LastIsDone, Complete
    <3>3. QED
      BY <1>1, <2>1, <3>1, <3>2, SameValues DEF ValuesOK
  <2>3. QED
    BY <1>2, <1>3, <2>1, <2>2 DEF SumsInv, PrefixSums, Alive, AllSums
<1>5. CASE Next
  <2>1. Alive /\ SumOK /\ ValuesOK
    BY <1>2, <1>5, OverStays DEF CallInv, LiveOK, SumsInv
  <2>2. SumMove
    BY <1>2, <1>5, Names, StepOfAlgorithm DEF InSum, InFind, InEach, InRaw, InMatrix, InAsync
  <2>3. Alive' => ValuesOK'
    BY <1>2, <2>1, <2>2, ValuesMove
  <2>4. PrefixSums'
    <3>1. outcome' = Returned => list' = AllSums
      BY <1>2, <2>1, <2>2, SumsReturned
    <3>2. QED
      BY <1>3, <3>1 DEF PrefixSums, AllSums
  <2>5. QED
    BY <1>2, <2>3, <2>4 DEF SumsInv
<1>6. QED
  BY <1>4, <1>5

LEMMA SumsStart == Init => SumsInv
<1> SUFFICES ASSUME Init, algorithm = "partial_sum" PROVE SumsInv
  BY DEF SumsInv
<1>1. length \in Lengths /\ outcome = Running /\ \A k \in Ids : pc[k] = "off"
  BY DEF Init, InitFrame, AsyncNames
<1>2. /\ list = [i \in Positions |-> Element[i]] /\ promise = [k \in Ids |-> Unset]
      /\ DOMAIN addend = Ids
  BY DEF Init, SumInit
<1>3. SettingOK /\ ~IsRaw
  BY InitSetting, Names
<1>4. ASSUME NEW k \in 1..threads PROVE ValueOK(k)
  <2>1. k \in Ids /\ \A i \in Block(k) : i \in Positions
    BY <1>3, BlockInList
  <2>2. Untouched(k) /\ ~HasValue(k) /\ pc[k] = "off"
    BY <1>1, <1>2, <2>1, Outcomes DEF Untouched, HasValue
  <2>3. QED
    BY <2>2 DEF ValueOK
<1>5. PrefixSums
  BY <1>1 DEF PrefixSums, Running, Returned
<1>6. QED
  BY <1>1, <1>2, <1>4, <1>5 DEF SumsInv, ValuesOK, FunctionOn
-----------------------------------------------------------------------------
(* The theorems.                                                           *)

\* In every call of parallel_partial_sum, parallel_find_pt,
\* parallel_for_each_pt, parallel_multiply and parallel_transpose the blocks
\* partition the range.
THEOREM BlocksAlwaysCover == Spec => []BlocksCover
<1>1. SettingOK => BlocksCover
  BY PartitionAlways, RangesAssumption DEF SettingOK, BlocksCover
<1>2. QED
  BY <1>1, InitSetting, NextSetting, PTL DEF Spec

\* An exception that is thrown while elements are worked on, or when a thread
\* cannot be started, is never lost, in none of the ten algorithms and whatever
\* the range and the hardware: a call during which one was thrown does not
\* return as if nothing had happened.
THEOREM ThrownAlwaysReported == Spec => []ThrownIsReported
BY CallAlways, CallSafety, PTL DEF CallSafe

\* parallel_find_pt returns a position of the value, parallel_find_async the
\* first one, and both the end of the range only if the value is nowhere.
THEOREM FoundAlwaysMatches == Spec => []FoundIsMatch
BY CallAlways, CallSafety, PTL DEF CallSafe

\* A call ends the program, or is undefined, for the listed reasons only.
THEOREM DiesOnlyOfThose == Spec => []DiesOnlyOf
BY CallAlways, CallSafety, PTL DEF CallSafe

\* A call that returns has worked on every element once: parallel_for_each_pt
\* and _async have applied f to each, the sums and the sort hold all elements
\* in their order, products and transposed matrices are complete.
THEOREM EveryElementAlwaysOnce == Spec => []EveryElementOnce
BY CallAlways, CallSafety, PTL DEF CallSafe

\* When a call is over no thread works on a block, and no asynchronous call is
\* under way, that was started for it.
THEOREM NothingEverOutlivesCall == Spec => []NothingOutlivesCall
BY CallAlways, CallSafety, PTL DEF CallSafe

\* parallel_partial_sum returns the prefix sums of its list, as one
\* std::partial_sum over the whole would, for every list of integers.
THEOREM SumsArePrefixes == Spec => []PrefixSums
<1>1. Spec => [](CallInv /\ SumsInv)
  <2>1. (CallInv /\ SumsInv) /\ [Next]_vars => (CallInv /\ SumsInv)'
    BY CallSteps, CallStutters, SumsSteps
  <2>2. QED
    BY <2>1, CallStarts, SumsStart, PTL DEF Spec
<1>2. SumsInv => PrefixSums
  BY DEF SumsInv, PrefixSums
<1>3. QED
  BY <1>1, <1>2, PTL
=============================================================================
