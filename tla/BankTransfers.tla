--------------------------- MODULE BankTransfers ---------------------------
(***************************************************************************)
(* bank_account of section 2, in two versions.  That of s2_dead_locks      *)
(* locks the two accounts of a transfer one after the other, that of       *)
(* s2_unique_locks both by std::lock; its withdraw adds the amount, as the *)
(* code has it.  The functions m1 and m2 of s2_dead_locks lock as transfers *)
(* do, and change nothing.                                                 *)
(*                                                                         *)
(* A thread has one job: the accounts it locks, in their order, and the    *)
(* changes it makes once it has them.  A change reads a balance and writes *)
(* it, two steps that only the mutexes keep together.                      *)
(***************************************************************************)
EXTENDS ProgramThreads

VARIABLES balance,     \* account -> what is in it
          job,         \* thread -> what it is called to do
          change,      \* thread -> how many of its changes it has made
          read         \* thread -> the balance it has read

bankVars == <<balance, job, change, read>>

InBank == program \in {"dead_locks", "unique_locks"}

\* By how much a call of withdraw(1) changes the balance.
Withdrawn == IF program = "unique_locks" THEN 1 ELSE -1

Change(a, by) == [account |-> a, by |-> by]

deposite(a) == [name |-> "deposite", locks |-> <<a>>, changes |-> <<Change(a, 1)>>]
withdraw(a) == [name |-> "withdraw", locks |-> <<a>>, changes |-> <<Change(a, Withdrawn)>>]
transfer(from, to) ==
  [name |-> "transfer", locks |-> <<from, to>>,
   changes |-> <<Change(from, -1), Change(to, 1)>>]
nothing == [name |-> "nothing", locks |-> <<>>, changes |-> <<>>]

Jobs ==
  {transfer(a, b) : a, b \in Accounts}
    \cup {deposite(a) : a \in Accounts} \cup {withdraw(a) : a \in Accounts}

BankInit ==
  /\ balance = [a \in Accounts |-> 0]
  /\ job \in [Threads -> IF InBank THEN Jobs ELSE {nothing}]
  /\ change = [t \in Threads |-> 0]
  /\ read = [t \in Threads |-> 0]

Locks(t) == job[t].locks
Held(t) == {a \in Accounts : mut[a] = t}

\* The account whose mutex thread t waits for, if it takes one after the other.
NextLock(t) == IF pc[t] = "idle" THEN Locks(t)[1] ELSE Locks(t)[2]

\* Mutant: the second account is not locked.
LocksOne(t) == "read"

\* What it does when it has it.
AfterLock(t) == IF pc[t] = "idle" /\ Len(Locks(t)) = 2 THEN "second" ELSE "read"

\* std::lock_guard: one mutex, then the other.
LockNext(t) ==
  /\ program = "dead_locks" \/ Len(Locks(t)) = 1
  /\ pc[t] \in {"idle", "second"}
  /\ Lock(t, NextLock(t), pc[t], AfterLock(t))
  /\ UNCHANGED bankVars

\* std::lock holds no mutex while it waits for another.
LockBoth(t) ==
  /\ program = "unique_locks" /\ Len(Locks(t)) = 2
  /\ Locks(t)[1] # Locks(t)[2]
  /\ pc[t] = "idle" /\ \A a \in Range(Locks(t)) : mut[a] = Free
  /\ Goto(t, "read")
  /\ mut' = [m \in Mutexes |-> IF m \in Range(Locks(t)) THEN t ELSE mut[m]]
  /\ UNCHANGED <<program, calls, wakeups, broken, bankVars>>

Changes(t) == job[t].changes
NextChange(t) == Changes(t)[change[t] + 1]

ReadBalance(t) ==
  /\ change[t] < Len(Changes(t))
  /\ Move(t, "read", "write")
  /\ read' = [read EXCEPT ![t] = balance[NextChange(t).account]]
  /\ UNCHANGED <<balance, job, change>>

\* balance += amount, or -=
WriteBalance(t) ==
  /\ Move(t, "write", "read")
  /\ balance' = [balance EXCEPT ![NextChange(t).account] = read[t] + NextChange(t).by]
  /\ change' = [change EXCEPT ![t] = @ + 1]
  /\ read' = [read EXCEPT ![t] = 0]
  /\ UNCHANGED job

\* The guards are destroyed.
LeaveBank(t) ==
  /\ change[t] = Len(Changes(t))
  /\ Unlock(t, Accounts, "read", "done") /\ UNCHANGED bankVars

BankStep(t) ==
  LockNext(t) \/ LockBoth(t) \/ ReadBalance(t) \/ WriteBalance(t) \/ LeaveBank(t)
-----------------------------------------------------------------------------
(* Properties.                                                             *)

\* How many changes c have been made.
Made(c) ==
  Cardinality({p \in Threads \X {1, 2} :
                 p[2] <= change[p[1]] /\ Changes(p[1])[p[2]] = c})

\* Every change that was made is in the balance: no update of a balance is lost.
NoUpdateLost == \A a \in Accounts : balance[a] = Made(Change(a, 1)) - Made(Change(a, -1))

\* No update is lost, and transfers move money but make none.
MoneyKept ==
  InBank =>
    /\ NoUpdateLost
    /\ (\A t \in Threads : job[t].name = "transfer" /\ change[t] # 1) =>
         MapThenSumSet(LAMBDA a : balance[a], Accounts) = 0

\* Threads each of which waits for a mutex that one of them holds.
Circle ==
  \E S \in SUBSET Threads \ {{}} :
    \A t \in S : pc[t] = "second" /\ mut[NextLock(t)] \in S

\* The jobs lock some accounts in a circular order.
OppositeOrders ==
  \E A \in SUBSET Accounts \ {{}} :
    \A b \in A : \E t \in Threads : \E a \in A : Locks(t) = <<a, b>>

\* All calls return, but for jobs that lock accounts in opposite orders, and
\* then they stop in a circle; with std::lock only a transfer from an account
\* to itself does not return, and nobody waits for it.
BankEnds ==
  IF program = "dead_locks"
  THEN (\A t \in Threads : pc[t] = "done") \/ (OppositeOrders /\ Circle)
  ELSE \A t \in Threads : pc[t] = "done" \/ Locks(t) \in {<<a, a>> : a \in Accounts}
=============================================================================
