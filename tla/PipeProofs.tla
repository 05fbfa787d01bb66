----------------------------- MODULE PipeProofs -----------------------------
(***************************************************************************)
(* Proofs about a pipe, for any processes on its two ends, any size of the *)
(* buffer and any width of the counters: no wakeup is lost, the page is    *)
(* not used once freed, and the pipe implements ByteQueue.                 *)
(*                                                                         *)
(* PInv says who holds which lock at which place, who has still to close,  *)
(* and why a thread may sleep: the pipe is as it found it, or somebody on  *)
(* the other side is inside a call that ends with a wakeup.                *)
(***************************************************************************)
EXTENDS Pipe, SequenceTheorems, TLAPS

\* Places with p->lock held, and with ptable.lock held.
InPipe == {"loop", "copy", "wake", "sleep1", "sleep2", "done"}
InPtable == {"sleep2", "sleep3"}

LocksRight ==
    /\ \A t \in Threads : pc[t] \in InPipe <=> plock = t
    /\ \A t \in Threads : pc[t] \in InPtable <=> ptlock = t
    /\ \A t \in Threads : pc[t] = "copy" => t \in Readers
    /\ \A t \in Threads : pc[t] = "wake" => t \in Writers

\* The last of a side closes it, and the page goes with the second side.
ClosedRight ==
    /\ \A t \in Threads : open[t] <=> pc[t] \notin {"close", "gone"}
    /\ ~readopen => \A r \in Readers : pc[r] = "gone"
    /\ ~writeopen => \A w \in Writers : pc[w] = "gone"
    /\ \A r, s \in Readers : pc[r] = "close" /\ r # s => pc[s] = "gone"
    /\ \A v, w \in Writers : pc[v] = "close" /\ v # w => pc[w] = "gone"
    /\ alloc <=> readopen \/ writeopen

\* Why a reader may sleep.
ReadersWait ==
    \A r \in Readers :
        /\ pc[r] \in {"sleep1", "sleep2"} => Empty /\ writeopen
        /\ pc[r] \in {"sleep3", "asleep"} =>
            /\ writeopen
            /\ \/ Empty
               \/ \E w \in Writers :
                    killed[w] \/ pc[w] \in {"loop", "wake", "done"}

\* Why a writer may sleep.
WritersWait ==
    \A w \in Writers :
        /\ pc[w] \in {"wake", "sleep1", "sleep2"} => Full /\ readopen
        /\ pc[w] \in {"sleep3", "asleep"} =>
            /\ readopen
            /\ Full \/ \E r \in Readers : pc[r] \in {"copy", "done"}

PInv == TypeOK /\ LocksRight /\ ClosedRight /\ ReadersWait /\ WritersWait

-----------------------------------------------------------------------------
(* Remainders.                                                             *)

LEMMA DivMod ==
    ASSUME NEW a \in Nat, NEW m \in Nat \ {0}
    PROVE  /\ a \div m \in Nat
           /\ a % m \in 0..(m - 1)
           /\ a = m * (a \div m) + (a % m)
OBVIOUS

\* A larger factor makes a product larger by m at least.
LEMMA Multiples ==
    ASSUME NEW x \in Int, NEW y \in Int, NEW m \in Nat \ {0}, x >= y + 1
    PROVE  m * x >= m * y + m
OBVIOUS

\* Quotient and remainder are unique.
LEMMA RemainderUnique ==
    ASSUME NEW x \in Int, NEW y \in Int, NEW m \in Nat \ {0},
           NEW r \in 0..(m - 1), NEW s \in 0..(m - 1), m * x + r = m * y + s
    PROVE  x = y /\ r = s
<1>1. CASE x = y
    BY <1>1
<1>2. CASE x >= y + 1
  <2>1. m * x >= m * y + m
    BY <1>2, Multiples
  <2> QED
    BY <2>1
<1>3. CASE y >= x + 1
  <2>1. m * y >= m * x + m
    BY <1>3, Multiples
  <2> QED
    BY <2>1
<1> QED
    BY <1>1, <1>2, <1>3

\* A multiple of m added does not change the remainder.
LEMMA AddMultiple ==
    ASSUME NEW a \in Nat, NEW b \in Nat, NEW m \in Nat \ {0}, b % m = 0
    PROVE  (a + b) % m = a % m
<1> DEFINE x == (a + b) \div m
           y == a \div m
           z == b \div m
<1>1. /\ x \in Nat /\ (a + b) % m \in 0..(m - 1)
      /\ a + b = m * x + ((a + b) % m)
  <2>1. a + b \in Nat
    OBVIOUS
  <2> QED
    BY <2>1, DivMod
<1>2. y \in Nat /\ a % m \in 0..(m - 1) /\ a = m * y + (a % m)
    BY DivMod
<1>3. z \in Nat /\ b = m * z + 0
    BY DivMod
<1> HIDE DEF x, y, z
<1>4. m * (y + z) = m * y + m * z
    BY <1>2, <1>3
<1>5. m * x + ((a + b) % m) = m * (y + z) + (a % m)
    BY <1>1, <1>2, <1>3, <1>4
<1> DEFINE w == y + z
           r == (a + b) % m
           s == a % m
<1>6. w \in Int /\ x \in Int
    BY <1>1, <1>2, <1>3
<1>7. r \in 0..(m - 1) /\ s \in 0..(m - 1) /\ m * x + r = m * w + s
    BY <1>1, <1>2, <1>5
<1> HIDE DEF r, s, w
<1>8. r = s
    BY <1>6, <1>7, RemainderUnique
<1> QED
    BY <1>8 DEF r, s

\* Numbers less than m apart have different remainders.
LEMMA NearDiffer ==
    ASSUME NEW a \in Nat, NEW b \in Nat, NEW m \in Nat \ {0}, a < b, b < a + m
    PROVE  a % m # b % m
<1> DEFINE x == a \div m
           y == b \div m
<1>1. /\ x \in Nat /\ y \in Nat /\ a % m \in 0..(m - 1) /\ b % m \in 0..(m - 1)
      /\ a = m * x + (a % m) /\ b = m * y + (b % m)
    BY DivMod
<1> HIDE DEF x, y
<1> SUFFICES ASSUME a % m = b % m
             PROVE  FALSE
    OBVIOUS
<1>2. m * x < m * y /\ m * y < m * x + m
    BY <1>1
<1>3. CASE y >= x + 1
    BY <1>1, <1>2, <1>3, Multiples
<1>4. CASE x >= y
  <2>1. CASE x = y
    BY <1>1, <1>2, <2>1
  <2>2. CASE x >= y + 1
    BY <1>1, <1>2, <2>2, Multiples
  <2> QED
    BY <1>1, <1>4, <2>1, <2>2
<1> QED
    BY <1>1, <1>3, <1>4

\* A counter that has wrapped around once.
LEMMA WrappedOnce ==
    ASSUME NEW a \in Nat, NEW m \in Nat \ {0}, m <= a, a < m + m
    PROVE  a % m = a - m
OBVIOUS

LEMMA NotWrapped ==
    ASSUME NEW a \in Nat, NEW m \in Nat \ {0}, a < m
    PROVE  a % m = a
OBVIOUS

-----------------------------------------------------------------------------
(* The invariant, one lemma per action.                                    *)

\* A read() or write() begins.
LEMMA CallInv ==
    ASSUME PInv, NEW t \in Threads, NEW k \in 0..MaxN, Call(t, k)
    PROVE  PInv'
<1> USE PipeAssumption DEF PInv, TypeOK, Places, Threads, InPipe, InPtable
<1>1. TypeOK'
    BY DEF Call, Goto
<1>2. LocksRight'
    BY DEF Call, Goto, LocksRight
<1>3. ClosedRight'
    BY DEF Call, Goto, LocksRight, ClosedRight
<1>4. ReadersWait'
    BY DEF Call, Goto, LocksRight, ClosedRight, ReadersWait, Empty
<1>5. WritersWait'
    BY DEF Call, Goto, LocksRight, ClosedRight, WritersWait, Full
<1> QED
    BY <1>1, <1>2, <1>3, <1>4, <1>5

\* acquire(&p->lock).
LEMMA AcquirePipeInv ==
    ASSUME PInv, NEW t \in Threads, AcquirePipe(t)
    PROVE  PInv'
<1> USE PipeAssumption DEF PInv, TypeOK, Places, Threads, InPipe, InPtable
<1>1. TypeOK'
    BY DEF AcquirePipe, Goto
<1>2. LocksRight'
    BY DEF AcquirePipe, Goto, LocksRight
<1>3. ClosedRight'
    BY DEF AcquirePipe, Goto, LocksRight, ClosedRight
<1>4. ReadersWait'
    BY DEF AcquirePipe, Goto, LocksRight, ClosedRight, ReadersWait, Empty
<1>5. WritersWait'
    BY DEF AcquirePipe, Goto, LocksRight, ClosedRight, WritersWait, Full
<1> QED
    BY <1>1, <1>2, <1>3, <1>4, <1>5

\* A byte is stored.
LEMMA WriteByteInv ==
    ASSUME PInv, NEW t \in Threads, NEW b \in Bytes, WriteByte(t, b)
    PROVE  PInv'
<1> USE PipeAssumption DEF PInv, TypeOK, Places, Threads, InPipe, InPtable
<1>1. TypeOK'
    BY DEF WriteByte, Inc
<1>2. LocksRight'
    BY DEF WriteByte, Inc, LocksRight
<1>3. ClosedRight'
    BY DEF WriteByte, Inc, LocksRight, ClosedRight
<1>4. ReadersWait'
    BY DEF WriteByte, Inc, LocksRight, ClosedRight, ReadersWait, Empty
<1>5. WritersWait'
    BY DEF WriteByte, Inc, LocksRight, ClosedRight, WritersWait, Full
<1> QED
    BY <1>1, <1>2, <1>3, <1>4, <1>5

\* pipewrite() returns -1.
LEMMA WriteFailInv ==
    ASSUME PInv, NEW t \in Threads, WriteFail(t)
    PROVE  PInv'
<1> USE PipeAssumption DEF PInv, TypeOK, Places, Threads, InPipe, InPtable
<1>1. TypeOK'
    BY DEF WriteFail, Return
<1>2. LocksRight'
    BY DEF WriteFail, Return, LocksRight
<1>3. ClosedRight'
    BY DEF WriteFail, Return, LocksRight, ClosedRight
<1>4. ReadersWait'
    BY DEF WriteFail, Return, LocksRight, ClosedRight, ReadersWait, Empty
<1>5. WritersWait'
    BY DEF WriteFail, Return, LocksRight, ClosedRight, WritersWait, Full
<1> QED
    BY <1>1, <1>2, <1>3, <1>4, <1>5

\* pipewrite() finds the pipe full.
LEMMA WriteFullInv ==
    ASSUME PInv, NEW t \in Threads, WriteFull(t)
    PROVE  PInv'
<1> USE PipeAssumption DEF PInv, TypeOK, Places, Threads, InPipe, InPtable
<1>1. TypeOK'
    BY DEF WriteFull, Goto
<1>2. LocksRight'
    BY DEF WriteFull, Goto, LocksRight
<1>3. ClosedRight'
    BY DEF WriteFull, Goto, LocksRight, ClosedRight
<1>4. ReadersWait'
    BY DEF WriteFull, Goto, LocksRight, ClosedRight, ReadersWait, Empty
<1>5. WritersWait'
    BY DEF WriteFull, Goto, LocksRight, ClosedRight, WritersWait, Full
<1> QED
    BY <1>1, <1>2, <1>3, <1>4, <1>5

\* pipewrite() wakes the readers before it sleeps.
LEMMA WriteWakeInv ==
    ASSUME PInv, NEW t \in Threads, WriteWake(t)
    PROVE  PInv'
<1> USE PipeAssumption DEF PInv, TypeOK, Places, Threads, InPipe, InPtable
<1>1. TypeOK'
    BY DEF WriteWake, Woken
<1>2. LocksRight'
    BY DEF WriteWake, Woken, LocksRight
<1>3. ClosedRight'
    BY DEF WriteWake, Woken, LocksRight, ClosedRight
<1>4. ReadersWait'
    BY DEF WriteWake, Woken, LocksRight, ClosedRight, ReadersWait, Empty
<1>5. WritersWait'
    BY DEF WriteWake, Woken, LocksRight, ClosedRight, WritersWait, Full
<1> QED
    BY <1>1, <1>2, <1>3, <1>4, <1>5

\* pipewrite() has stored its bytes.
LEMMA WriteEndInv ==
    ASSUME PInv, NEW t \in Threads, WriteEnd(t)
    PROVE  PInv'
<1> USE PipeAssumption DEF PInv, TypeOK, Places, Threads, InPipe, InPtable
<1>1. TypeOK'
    BY DEF WriteEnd, Goto
<1>2. LocksRight'
    BY DEF WriteEnd, Goto, LocksRight
<1>3. ClosedRight'
    BY DEF WriteEnd, Goto, LocksRight, ClosedRight
<1>4. ReadersWait'
    BY DEF WriteEnd, Goto, LocksRight, ClosedRight, ReadersWait, Empty
<1>5. WritersWait'
    BY DEF WriteEnd, Goto, LocksRight, ClosedRight, WritersWait, Full
<1> QED
    BY <1>1, <1>2, <1>3, <1>4, <1>5

\* piperead() finds the pipe empty.
LEMMA ReadEmptyInv ==
    ASSUME PInv, NEW t \in Threads, ReadEmpty(t)
    PROVE  PInv'
<1>1. /\ t \in Readers /\ pc[t] = "loop" /\ Empty /\ writeopen
      /\ UNCHANGED <<data, nread, nwrite, readopen, writeopen, alloc, ptlock,
                     killed, open>>
    BY DEF ReadEmpty
<1>2. Return(t, pc) \/ (Goto(t, "sleep1") /\ UNCHANGED <<plock, i, n>>)
    BY DEF ReadEmpty
<1> USE <1>1, PipeAssumption DEF PInv, TypeOK, Places, Threads, InPipe, InPtable
<1>3. CASE Return(t, pc)
  <2>1. TypeOK'
    BY <1>3 DEF Return
  <2>2. LocksRight' /\ ClosedRight'
    <3>1. LocksRight'
      BY <1>3 DEF Return, LocksRight
    <3>2. ClosedRight'
      BY <1>3 DEF Return, ClosedRight, LocksRight
    <3> QED BY <3>1, <3>2
  <2>3. ReadersWait' /\ WritersWait'
    BY <1>3 DEF Return, LocksRight, ReadersWait, WritersWait, Empty, Full
  <2> QED
    BY <2>1, <2>2, <2>3
<1>4. CASE Goto(t, "sleep1") /\ UNCHANGED <<plock, i, n>>
  <2>1. TypeOK'
    BY <1>4 DEF Goto
  <2>2. LocksRight' /\ ClosedRight'
    BY <1>4 DEF Goto, LocksRight, ClosedRight
  <2>3. ReadersWait' /\ WritersWait'
    BY <1>4 DEF Goto, LocksRight, ReadersWait, WritersWait, Empty, Full
  <2> QED
    BY <2>1, <2>2, <2>3
<1> QED
    BY <1>2, <1>3, <1>4

\* piperead() finds bytes, or no writer left.
LEMMA ReadStartInv ==
    ASSUME PInv, NEW t \in Threads, ReadStart(t)
    PROVE  PInv'
<1> USE PipeAssumption DEF PInv, TypeOK, Places, Threads, InPipe, InPtable
<1>1. TypeOK'
    BY DEF ReadStart, Goto
<1>2. LocksRight'
    BY DEF ReadStart, Goto, LocksRight
<1>3. ClosedRight'
    BY DEF ReadStart, Goto, LocksRight, ClosedRight
<1>4. ReadersWait'
    BY DEF ReadStart, Goto, LocksRight, ClosedRight, ReadersWait, Empty
<1>5. WritersWait'
    BY DEF ReadStart, Goto, LocksRight, ClosedRight, WritersWait, Full
<1> QED
    BY <1>1, <1>2, <1>3, <1>4, <1>5

\* A byte is taken.
LEMMA ReadByteInv ==
    ASSUME PInv, NEW t \in Threads, ReadByte(t)
    PROVE  PInv'
<1> USE PipeAssumption DEF PInv, TypeOK, Places, Threads, InPipe, InPtable
<1>1. TypeOK'
  <2>1. nread' \in 0..(Modulus - 1)
    BY DEF ReadByte, Inc
  <2>2. i[t] + 1 \in 0..MaxN /\ i' = [i EXCEPT ![t] = i[t] + 1]
    BY DEF ReadByte
  <2>3. i' \in [Threads -> 0..MaxN]
    BY <2>2
  <2> QED BY <2>1, <2>3 DEF ReadByte
<1>2. LocksRight'
    BY DEF ReadByte, Inc, LocksRight
<1>3. ClosedRight'
    BY DEF ReadByte, Inc, LocksRight, ClosedRight
<1>4. ReadersWait'
    BY DEF ReadByte, Inc, LocksRight, ClosedRight, ReadersWait, Empty
<1>5. WritersWait'
    BY DEF ReadByte, Inc, LocksRight, ClosedRight, WritersWait, Full
<1> QED
    BY <1>1, <1>2, <1>3, <1>4, <1>5

\* piperead() has its bytes.
LEMMA ReadEndInv ==
    ASSUME PInv, NEW t \in Threads, ReadEnd(t)
    PROVE  PInv'
<1> USE PipeAssumption DEF PInv, TypeOK, Places, Threads, InPipe, InPtable
<1>1. TypeOK'
    BY DEF ReadEnd, Goto
<1>2. LocksRight'
    BY DEF ReadEnd, Goto, LocksRight
<1>3. ClosedRight'
    BY DEF ReadEnd, Goto, LocksRight, ClosedRight
<1>4. ReadersWait'
    BY DEF ReadEnd, Goto, LocksRight, ClosedRight, ReadersWait, Empty
<1>5. WritersWait'
    BY DEF ReadEnd, Goto, LocksRight, ClosedRight, WritersWait, Full
<1> QED
    BY <1>1, <1>2, <1>3, <1>4, <1>5

\* The last wakeup() of a call.
LEMMA DoneInv ==
    ASSUME PInv, NEW t \in Threads, Done(t)
    PROVE  PInv'
<1> USE PipeAssumption DEF PInv, TypeOK, Places, Threads, InPipe, InPtable
<1>1. TypeOK'
    BY DEF Done, Return, Woken, Opposite
<1>2. LocksRight'
    BY DEF Done, Return, Woken, Opposite, LocksRight
<1>3. ClosedRight'
    BY DEF Done, Return, Woken, Opposite, LocksRight, ClosedRight
<1>4. ReadersWait'
  <2>1. /\ pc' = [Woken(Opposite(t)) EXCEPT ![t] = "user"]
        /\ UNCHANGED <<nread, nwrite, writeopen>>
    BY DEF Done, Return
  <2>2. \A r \in Threads : pc'[r] = IF r = t THEN "user"
                           ELSE IF r \in Opposite(t) /\ pc[r] = "asleep" THEN "woken"
                           ELSE pc[r]
    BY <2>1 DEF Woken
  <2>3. CASE t \in Readers
    <3>1. \A r \in Readers : r # t => pc'[r] = pc[r]
      BY <2>2, <2>3 DEF Opposite
    <3>2. \A w \in Writers : pc[w] # "asleep" => pc'[w] = pc[w]
      BY <2>2, <2>3
    <3> QED BY <2>1, <2>2, <3>1, <3>2 DEF Done, ReadersWait, Empty
  <2>4. CASE t \in Writers
    <3>1. \A r \in Readers : pc[r] # "sleep3"
      BY DEF Done, LocksRight
    <3>2. \A r \in Readers : pc'[r] \notin {"sleep3", "asleep"}
      BY <2>2, <2>4, <3>1 DEF Opposite
    <3>3. \A r \in Readers : pc'[r] \in {"sleep1", "sleep2"} => pc'[r] = pc[r]
      BY <2>2
    <3> QED BY <2>1, <3>2, <3>3 DEF ReadersWait, Empty
  <2> QED BY <2>3, <2>4
<1>5. WritersWait'
    BY DEF Done, Return, Woken, Opposite, LocksRight, ClosedRight, WritersWait, Full
<1> QED
    BY <1>1, <1>2, <1>3, <1>4, <1>5

\* sleep() takes ptable.lock.
LEMMA SleepAcquireInv ==
    ASSUME PInv, NEW t \in Threads, SleepAcquire(t)
    PROVE  PInv'
<1> USE PipeAssumption DEF PInv, TypeOK, Places, Threads, InPipe, InPtable
<1>1. TypeOK'
    BY DEF SleepAcquire, Goto
<1>2. LocksRight'
    BY DEF SleepAcquire, Goto, LocksRight
<1>3. ClosedRight'
    BY DEF SleepAcquire, Goto, LocksRight, ClosedRight
<1>4. ReadersWait'
    BY DEF SleepAcquire, Goto, LocksRight, ClosedRight, ReadersWait, Empty
<1>5. WritersWait'
    BY DEF SleepAcquire, Goto, LocksRight, ClosedRight, WritersWait, Full
<1> QED
    BY <1>1, <1>2, <1>3, <1>4, <1>5

\* sleep() releases p->lock.
LEMMA SleepReleaseInv ==
    ASSUME PInv, NEW t \in Threads, SleepRelease(t)
    PROVE  PInv'
<1> USE PipeAssumption DEF PInv, TypeOK, Places, Threads, InPipe, InPtable
<1>1. TypeOK'
    BY DEF SleepRelease, Goto
<1>2. LocksRight'
    BY DEF SleepRelease, Goto, LocksRight
<1>3. ClosedRight'
    BY DEF SleepRelease, Goto, LocksRight, ClosedRight
<1>4. ReadersWait'
    BY DEF SleepRelease, Goto, LocksRight, ClosedRight, ReadersWait, Empty
<1>5. WritersWait'
    BY DEF SleepRelease, Goto, LocksRight, ClosedRight, WritersWait, Full
<1> QED
    BY <1>1, <1>2, <1>3, <1>4, <1>5

\* sleep() switches to the scheduler.
LEMMA SleepSwitchInv ==
    ASSUME PInv, NEW t \in Threads, SleepSwitch(t)
    PROVE  PInv'
<1> USE PipeAssumption DEF PInv, TypeOK, Places, Threads, InPipe, InPtable
<1>1. TypeOK'
    BY DEF SleepSwitch, Goto
<1>2. LocksRight'
    BY DEF SleepSwitch, Goto, LocksRight
<1>3. ClosedRight'
    BY DEF SleepSwitch, Goto, LocksRight, ClosedRight
<1>4. ReadersWait'
    BY DEF SleepSwitch, Goto, LocksRight, ClosedRight, ReadersWait, Empty
<1>5. WritersWait'
    BY DEF SleepSwitch, Goto, LocksRight, ClosedRight, WritersWait, Full
<1> QED
    BY <1>1, <1>2, <1>3, <1>4, <1>5

\* kill() wakes the thread.
LEMMA KillInv ==
    ASSUME PInv, NEW t \in Threads, Kill(t)
    PROVE  PInv'
<1> USE PipeAssumption DEF PInv, TypeOK, Places, Threads, InPipe, InPtable
<1>1. TypeOK'
    BY DEF Kill, Woken
<1>2. LocksRight'
    BY DEF Kill, Woken, LocksRight
<1>3. ClosedRight'
    BY DEF Kill, Woken, LocksRight, ClosedRight
<1>4. ReadersWait'
    BY DEF Kill, Woken, LocksRight, ClosedRight, ReadersWait, Empty
<1>5. WritersWait'
    BY DEF Kill, Woken, LocksRight, ClosedRight, WritersWait, Full
<1> QED
    BY <1>1, <1>2, <1>3, <1>4, <1>5

\* fileclose().
LEMMA CloseFileInv ==
    ASSUME PInv, NEW t \in Threads, CloseFile(t)
    PROVE  PInv'
<1> USE PipeAssumption DEF PInv, TypeOK, Places, Threads, InPipe, InPtable
<1>1. TypeOK'
    BY DEF CloseFile, Goto
<1>2. LocksRight'
    BY DEF CloseFile, Goto, LocksRight
<1>3. ClosedRight'
    BY DEF CloseFile, Goto, LocksRight, ClosedRight
<1>4. ReadersWait'
    BY DEF CloseFile, Goto, LocksRight, ClosedRight, ReadersWait, Empty
<1>5. WritersWait'
    BY DEF CloseFile, Goto, LocksRight, ClosedRight, WritersWait, Full
<1> QED
    BY <1>1, <1>2, <1>3, <1>4, <1>5

\* pipeclose().
LEMMA PipeCloseInv ==
    ASSUME PInv, NEW t \in Threads, PipeClose(t)
    PROVE  PInv'
<1> USE PipeAssumption DEF PInv, TypeOK, Places, Threads, InPipe, InPtable
<1>1. TypeOK'
    BY DEF PipeClose, Woken, Opposite
<1>2. LocksRight'
    BY DEF PipeClose, Woken, Opposite, LocksRight
<1>3. ClosedRight'
    BY DEF PipeClose, Woken, Opposite, LocksRight, ClosedRight
<1>4. ReadersWait'
    BY DEF PipeClose, Woken, Opposite, LocksRight, ClosedRight, ReadersWait, Empty
<1>5. WritersWait'
    BY DEF PipeClose, Woken, Opposite, LocksRight, ClosedRight, WritersWait, Full
<1> QED
    BY <1>1, <1>2, <1>3, <1>4, <1>5

\* The pipe pipealloc() makes.
LEMMA InitPInv == Init => PInv
<1> SUFFICES ASSUME Init
             PROVE  PInv
    OBVIOUS
<1> USE PipeAssumption DEF Init, Threads
<1>1. TypeOK
    BY DEF TypeOK, Places
<1>2. LocksRight /\ ClosedRight
    BY DEF LocksRight, ClosedRight, InPipe, InPtable
<1>3. ReadersWait /\ WritersWait
    BY DEF ReadersWait, WritersWait
<1> QED
    BY <1>1, <1>2, <1>3 DEF PInv

\* Every step keeps the invariant.
LEMMA NextPInv == PInv /\ [Next]_vars => PInv'
<1> SUFFICES ASSUME PInv, [Next]_vars
             PROVE  PInv'
    OBVIOUS
<1>1. CASE UNCHANGED vars
    BY <1>1 DEF vars, PInv, TypeOK, LocksRight, ClosedRight, ReadersWait,
       WritersWait, Empty, Full
<1>2. ASSUME NEW t \in Threads, Kernel(t)
      PROVE  PInv'
  <2>1. CASE AcquirePipe(t) \/ Done(t) \/ PipeClose(t)
    BY <2>1, AcquirePipeInv, DoneInv, PipeCloseInv
  <2>2. CASE \/ \E b \in Bytes : WriteByte(t, b)
             \/ WriteFail(t) \/ WriteFull(t) \/ WriteWake(t) \/ WriteEnd(t)
    BY <2>2, WriteByteInv, WriteFailInv, WriteFullInv, WriteWakeInv, WriteEndInv
  <2>3. CASE ReadEmpty(t) \/ ReadStart(t) \/ ReadByte(t) \/ ReadEnd(t)
    BY <2>3, ReadEmptyInv, ReadStartInv, ReadByteInv, ReadEndInv
  <2>4. CASE SleepAcquire(t) \/ SleepRelease(t) \/ SleepSwitch(t)
    BY <2>4, SleepAcquireInv, SleepReleaseInv, SleepSwitchInv
  <2> QED
    BY <1>2, <2>1, <2>2, <2>3, <2>4 DEF Kernel
<1>3. ASSUME NEW t \in Threads,
             (\E k \in 0..MaxN : Call(t, k)) \/ CloseFile(t) \/ Kill(t)
      PROVE  PInv'
    BY <1>3, CallInv, CloseFileInv, KillInv
<1> QED
    BY <1>1, <1>2, <1>3 DEF Next, Finished

\* The invariant holds in every reachable state.
THEOREM PipeInvariance == Spec => []PInv
BY InitPInv, NextPInv, PTL DEF Spec

\* No wakeup of pipe.c is lost: with nobody in a critical section of the pipe,
\* a sleeping reader has nothing to read and a writer left, a sleeping writer
\* no room and a reader left, however sleep(), kill() and pipeclose() on other
\* CPUs fall between the steps (one case apart, the killed writer).
THEOREM NoWakeupIsLost == Spec => []NoLostWakeup
<1>1. PInv => NoLostWakeup
    BY PipeAssumption DEF PInv, LocksRight, ReadersWait, WritersWait,
       NoLostWakeup, Threads, InPipe
<1> QED
    BY <1>1, PipeInvariance, PTL

\* pipeclose() frees the page when nobody can use it any more.
THEOREM FreedIsUnused == Spec => []NoUseAfterFree
<1>1. PInv => NoUseAfterFree
    BY DEF PInv, ClosedRight, NoUseAfterFree, Threads
<1> QED
    BY <1>1, PipeInvariance, PTL

-----------------------------------------------------------------------------
(* The pipe as a queue.  HeldRange is the one fact about the counters that *)
(* the queue needs: they are never more than PIPESIZE apart.               *)

HeldRange == Held \in 0..PIPESIZE

\* The distance of two counters.
LEMMA HeldIs ==
    TypeOK => Held = IF nread <= nwrite THEN nwrite - nread
                                        ELSE nwrite + Modulus - nread
<1> SUFFICES ASSUME TypeOK
             PROVE  Held = IF nread <= nwrite THEN nwrite - nread
                                              ELSE nwrite + Modulus - nread
    OBVIOUS
<1> DEFINE d == nwrite + Modulus - nread
<1>1. /\ nread \in Nat /\ nread < Modulus /\ nwrite \in Nat /\ nwrite < Modulus
      /\ Modulus \in Nat \ {0}
    BY PipeAssumption DEF TypeOK
<1>2. d \in Nat /\ d < Modulus + Modulus
    BY <1>1
<1>3. CASE nread <= nwrite
  <2>1. Modulus <= d
    BY <1>1, <1>3
  <2>2. d % Modulus = d - Modulus
    BY <1>1, <1>2, <2>1, WrappedOnce
  <2> QED
    BY <1>1, <1>3, <2>2 DEF Held
<1>4. CASE nread > nwrite
  <2>1. d < Modulus
    BY <1>1, <1>4
  <2>2. d % Modulus = d
    BY <1>1, <1>2, <2>1, NotWrapped
  <2> QED
    BY <1>1, <1>4, <2>2 DEF Held
<1> QED
    BY <1>1, <1>3, <1>4

\* A counter counts by one, modulo Modulus.
LEMMA IncIs ==
    ASSUME NEW x \in 0..(Modulus - 1)
    PROVE  Inc(x) = IF x = Modulus - 1 THEN 0 ELSE x + 1
<1>1. Modulus \in Nat \ {0}
    BY PipeAssumption
<1>2. CASE x = Modulus - 1
    BY <1>1, <1>2, WrappedOnce DEF Inc
<1>3. CASE x # Modulus - 1
  <2>1. x + 1 \in Nat /\ x + 1 < Modulus
    BY <1>1, <1>3
  <2>2. (x + 1) % Modulus = x + 1
    BY <1>1, <2>1, NotWrapped
  <2> QED
    BY <1>3, <2>2 DEF Inc
<1> QED
    BY <1>2, <1>3

\* Full is what its name says.
LEMMA FullIs ==
    ASSUME TypeOK, HeldRange
    PROVE  Full <=> Held = PIPESIZE
<1> DEFINE e == nread + PIPESIZE
<1>1. /\ nread \in Nat /\ nread < Modulus /\ nwrite \in Nat /\ nwrite < Modulus
      /\ Modulus \in Nat \ {0} /\ PIPESIZE \in Nat \ {0} /\ PIPESIZE < Modulus
    BY PipeAssumption DEF TypeOK
<1>2. CASE e < Modulus
  <2>1. e % Modulus = e
    BY <1>1, <1>2, NotWrapped
  <2> QED
    BY <1>1, <1>2, <2>1, HeldIs DEF Full, HeldRange
<1>3. CASE e >= Modulus
  <2>1. e \in Nat /\ e < Modulus + Modulus
    BY <1>1
  <2>a. e % Modulus = e - Modulus
    BY <1>1, <1>3, <2>1, WrappedOnce
  <2> QED
    BY <1>1, <1>3, <2>a, HeldIs DEF Full, HeldRange
<1> QED
    BY <1>1, <1>2, <1>3

LEMMA EmptyIs ==
    ASSUME TypeOK
    PROVE  Empty <=> Held = 0
BY HeldIs, PipeAssumption DEF TypeOK, Empty

\* A sequence given by its elements.
LEMMA SeqOf ==
    ASSUME NEW S, NEW m \in Nat, NEW f \in [1..m -> S]
    PROVE  f \in Seq(S) /\ Len(f) = m
<1>1. f \in Seq(S)
    BY SeqDef
<1>2. Len(f) \in Nat /\ 1..Len(f) = 1..m
    BY <1>1, LenProperties
<1>3. Len(f) <= m
  <2>1. CASE Len(f) = 0
    BY <2>1
  <2>2. CASE Len(f) # 0
    BY <1>2, <2>2
  <2> QED
    BY <2>1, <2>2
<1>4. m <= Len(f)
  <2>1. CASE m = 0
    BY <1>2, <2>1
  <2>2. CASE m # 0
    BY <1>2, <2>2
  <2> QED
    BY <2>1, <2>2
<1> QED
    BY <1>1, <1>2, <1>3, <1>4

\* The bytes in the pipe are a sequence as long as the counters say.
LEMMA ContentSeq ==
    TypeOK /\ HeldRange =>
        /\ Content \in Seq(Bytes)
        /\ Len(Content) = Held
        /\ \A k \in 1..Held : Content[k] = data[(nread + k - 1) % PIPESIZE]
<1> SUFFICES ASSUME TypeOK, HeldRange
             PROVE  /\ Content \in Seq(Bytes)
                    /\ Len(Content) = Held
                    /\ \A k \in 1..Held :
                            Content[k] = data[(nread + k - 1) % PIPESIZE]
    OBVIOUS
<1>1. Held \in Nat /\ PIPESIZE \in Nat \ {0} /\ nread \in Nat
    BY PipeAssumption DEF HeldRange, TypeOK
<1>2. ASSUME NEW k \in 1..Held
      PROVE  data[(nread + k - 1) % PIPESIZE] \in Bytes
  <2>1. nread + k - 1 \in Nat
    BY <1>1
  <2>2. (nread + k - 1) % PIPESIZE \in 0..(PIPESIZE - 1)
    BY <1>1, <2>1, DivMod
  <2> QED
    BY <2>2 DEF TypeOK
<1>3. Content \in [1..Held -> Bytes]
    BY <1>2 DEF Content
<1> QED
    BY <1>1, <1>3, SeqOf DEF Content

\* pipewrite() stores a byte where the sequence ends, over none that is held.
LEMMA WriteByteIsPut ==
    ASSUME PInv, HeldRange, NEW t \in Threads, NEW b \in Bytes, WriteByte(t, b)
    PROVE  HeldRange' /\ Queue!Put(b)
<1>1. /\ nread \in Nat /\ nread < Modulus /\ nwrite \in Nat /\ nwrite < Modulus
      /\ Modulus \in Nat \ {0} /\ PIPESIZE \in Nat \ {0} /\ PIPESIZE < Modulus
      /\ Modulus % PIPESIZE = 0
    BY PipeAssumption DEF PInv, TypeOK
<1>2. /\ nread' = nread /\ nwrite' = Inc(nwrite) /\ ~Full
      /\ data' = [data EXCEPT ![nwrite % PIPESIZE] = b]
      /\ UNCHANGED <<readopen, writeopen>> /\ t \in Writers /\ pc[t] = "loop"
    BY DEF WriteByte
<1>3. PInv' /\ TypeOK /\ TypeOK'
    BY WriteByteInv DEF PInv
<1>4. Held \in 0..(PIPESIZE - 1)
    BY <1>1, <1>2, <1>3, FullIs DEF HeldRange
<1>5. Held' = Held + 1
  <2>1. (Held = IF nread <= nwrite THEN nwrite - nread
                                   ELSE nwrite + Modulus - nread)'
    BY <1>3, HeldIs, PTL
  <2>2. Held = IF nread <= nwrite THEN nwrite - nread
                                  ELSE nwrite + Modulus - nread
    BY <1>3, HeldIs
  <2>3. nwrite' = IF nwrite = Modulus - 1 THEN 0 ELSE nwrite + 1
    BY <1>1, <1>2, IncIs
  <2> QED
    BY <1>1, <1>2, <1>4, <2>1, <2>2, <2>3
<1>6. HeldRange'
    BY <1>1, <1>4, <1>5 DEF HeldRange
<1>7. (nread + Held) % PIPESIZE = nwrite % PIPESIZE
  <2>1. CASE nread <= nwrite
    BY <1>1, <1>3, <2>1, HeldIs
  <2>2. CASE nread > nwrite
    <3>1. nread + Held = nwrite + Modulus
      BY <1>1, <1>3, <2>2, HeldIs
    <3>2. (nwrite + Modulus) % PIPESIZE = nwrite % PIPESIZE
      BY <1>1, AddMultiple
    <3> QED
      BY <3>1, <3>2
  <2> QED
    BY <1>1, <2>1, <2>2
<1>8. ASSUME NEW k \in 1..Held
      PROVE  (nread + k - 1) % PIPESIZE # nwrite % PIPESIZE
  <2> DEFINE x == nread + k - 1
             y == nread + Held
  <2>1. x \in Nat /\ y \in Nat /\ x < y /\ y < x + PIPESIZE
    BY <1>1, <1>4
  <2>2. x % PIPESIZE # y % PIPESIZE
    BY <1>1, <2>1, NearDiffer
  <2> QED
    BY <1>7, <2>2
<1>9. Content' = Append(Content, b)
  <2>1. /\ Content \in Seq(Bytes) /\ Len(Content) = Held
        /\ \A k \in 1..Held : Content[k] = data[(nread + k - 1) % PIPESIZE]
    BY <1>3, ContentSeq
  <2>a. (/\ Content \in Seq(Bytes)
         /\ Len(Content) = Held
         /\ \A k \in 1..Held : Content[k] = data[(nread + k - 1) % PIPESIZE])'
    BY <1>3, <1>6, ContentSeq, PTL
  <2>2. /\ Content' \in Seq(Bytes) /\ Len(Content') = Held'
        /\ \A k \in 1..Held' : Content'[k] = data'[(nread' + k - 1) % PIPESIZE]
    BY <2>a
  <2>3. /\ Append(Content, b) \in Seq(Bytes)
        /\ Len(Append(Content, b)) = Held + 1
        /\ \A k \in 1..Held : Append(Content, b)[k] = Content[k]
        /\ Append(Content, b)[Held + 1] = b
    BY <1>4, <2>1, AppendProperties
  <2>4. ASSUME NEW k \in 1..Held
        PROVE  Content'[k] = Append(Content, b)[k]
    <3>1. k \in 1..Held' /\ nread + k - 1 \in Nat
      BY <1>1, <1>4, <1>5
    <3>2. (nread + k - 1) % PIPESIZE \in 0..(PIPESIZE - 1)
      BY <1>1, <3>1, DivMod
    <3>3. Content'[k] = data[(nread + k - 1) % PIPESIZE]
      BY <1>2, <1>3, <1>8, <2>2, <3>1, <3>2 DEF TypeOK
    <3> QED
      BY <2>1, <2>3, <3>3
  <2>5. Content'[Held + 1] = b
    <3>1. Held + 1 \in 1..Held' /\ nread + (Held + 1) - 1 = nread + Held
      BY <1>1, <1>4, <1>5
    <3>2. nwrite % PIPESIZE \in 0..(PIPESIZE - 1)
      BY <1>1, DivMod
    <3>3. Content'[Held + 1] = data'[nwrite % PIPESIZE]
      BY <1>2, <1>7, <2>2, <3>1
    <3> QED
      BY <1>2, <1>3, <3>2, <3>3 DEF TypeOK
  <2>6. ASSUME NEW k \in 1..Len(Content')
        PROVE  Content'[k] = Append(Content, b)[k]
    <3>1. k \in 1..Held \/ k = Held + 1
      BY <1>4, <1>5, <2>2
    <3>2. CASE k \in 1..Held
      BY <2>4, <3>2
    <3>3. CASE k = Held + 1
      BY <2>3, <2>5, <3>3
    <3> QED
      BY <3>1, <3>2, <3>3
  <2>7. Len(Content') = Len(Append(Content, b))
    BY <1>5, <2>2, <2>3
  <2> QED
    BY <2>2, <2>3, <2>6, <2>7, SeqEqual
<1>10. writeopen /\ Len(Content) < PIPESIZE
  <2>1. writeopen
    BY <1>2 DEF PInv, ClosedRight, TypeOK
  <2>2. Len(Content) = Held
    BY <1>3, ContentSeq
  <2> QED
    BY <1>1, <1>4, <2>1, <2>2
<1> QED
    BY <1>2, <1>6, <1>9, <1>10 DEF Queue!Put

\* piperead() takes the first byte of the sequence.
LEMMA ReadByteIsGet ==
    ASSUME PInv, HeldRange, NEW t \in Threads, ReadByte(t)
    PROVE  HeldRange' /\ Queue!Get
<1>1. /\ nread \in Nat /\ nread < Modulus /\ nwrite \in Nat /\ nwrite < Modulus
      /\ Modulus \in Nat \ {0} /\ PIPESIZE \in Nat \ {0} /\ PIPESIZE < Modulus
      /\ Modulus % PIPESIZE = 0
    BY PipeAssumption DEF PInv, TypeOK
<1>2. /\ nwrite' = nwrite /\ nread' = Inc(nread) /\ ~Empty /\ data' = data
      /\ UNCHANGED <<readopen, writeopen>> /\ pc[t] = "copy"
    BY DEF ReadByte
<1>3. PInv' /\ TypeOK /\ TypeOK'
    BY ReadByteInv DEF PInv
<1>4. Held \in 1..PIPESIZE
    BY <1>1, <1>2, <1>3, EmptyIs DEF HeldRange
<1>a. nread' = IF nread = Modulus - 1 THEN 0 ELSE nread + 1
    BY <1>1, <1>2, IncIs
<1>5. Held' = Held - 1
  <2>1. (Held = IF nread <= nwrite THEN nwrite - nread
                                   ELSE nwrite + Modulus - nread)'
    BY <1>3, HeldIs, PTL
  <2>2. Held = IF nread <= nwrite THEN nwrite - nread
                                  ELSE nwrite + Modulus - nread
    BY <1>3, HeldIs
  <2> QED
    BY <1>1, <1>2, <1>4, <1>a, <2>1, <2>2
<1>6. HeldRange'
    BY <1>1, <1>4, <1>5 DEF HeldRange
<1>7. ASSUME NEW k \in 1..Held'
      PROVE  (nread' + k - 1) % PIPESIZE = (nread + (k + 1) - 1) % PIPESIZE
  <2>1. CASE nread = Modulus - 1
    <3>1. k - 1 \in Nat /\ nread' + k - 1 = k - 1
      BY <1>4, <1>5, <1>a, <2>1
    <3>2. nread + (k + 1) - 1 = (k - 1) + Modulus
      BY <1>1, <1>4, <1>5, <2>1
    <3>3. ((k - 1) + Modulus) % PIPESIZE = (k - 1) % PIPESIZE
      BY <1>1, <3>1, AddMultiple
    <3> QED
      BY <3>1, <3>2, <3>3
  <2>2. CASE nread # Modulus - 1
    <3>1. nread' + k - 1 = nread + (k + 1) - 1
      BY <1>1, <1>4, <1>5, <1>a, <2>2
    <3> QED
      BY <3>1
  <2> QED
    BY <2>1, <2>2
<1>8. Content # <<>>
  <2>1. Content \in Seq(Bytes) /\ Len(Content) = Held
    BY <1>3, ContentSeq
  <2> QED
    BY <1>4, <2>1, EmptySeq
<1>9. Content' = Tail(Content)
  <2>1. /\ Content \in Seq(Bytes) /\ Len(Content) = Held
        /\ \A k \in 1..Held : Content[k] = data[(nread + k - 1) % PIPESIZE]
    BY <1>3, ContentSeq
  <2>a. (/\ Content \in Seq(Bytes)
         /\ Len(Content) = Held
         /\ \A k \in 1..Held : Content[k] = data[(nread + k - 1) % PIPESIZE])'
    BY <1>3, <1>6, ContentSeq, PTL
  <2>2. /\ Content' \in Seq(Bytes) /\ Len(Content') = Held'
        /\ \A k \in 1..Held' : Content'[k] = data'[(nread' + k - 1) % PIPESIZE]
    BY <2>a
  <2>3. /\ Tail(Content) \in Seq(Bytes) /\ Len(Tail(Content)) = Held - 1
        /\ \A k \in 1..(Held - 1) : Tail(Content)[k] = Content[k + 1]
    BY <1>8, <2>1, HeadTailProperties
  <2>4. ASSUME NEW k \in 1..Held'
        PROVE  Content'[k] = Tail(Content)[k]
    <3>1. k + 1 \in 1..Held /\ k \in 1..(Held - 1)
      BY <1>4, <1>5
    <3>2. Content'[k] = data[(nread + (k + 1) - 1) % PIPESIZE]
      BY <1>2, <1>7, <2>2
    <3> QED
      BY <2>1, <2>3, <3>1, <3>2
  <2>5. Len(Content') = Len(Tail(Content))
    BY <1>5, <2>2, <2>3
  <2> QED
    BY <2>2, <2>3, <2>4, <2>5, SeqEqual
<1>10. readopen
    BY <1>2 DEF PInv, ClosedRight, LocksRight, TypeOK
<1> QED
    BY <1>2, <1>6, <1>8, <1>9, <1>10 DEF Queue!Get

\* What changes neither a counter, a byte nor an end is no step of the queue.
LEMMA QuietIsStutter ==
    ASSUME HeldRange, UNCHANGED <<data, nread, nwrite, readopen, writeopen>>
    PROVE  HeldRange' /\ UNCHANGED Queue!queueVars
BY DEF HeldRange, Held, Content, Queue!queueVars

\* pipeclose() closes one end, and that end once.
LEMMA PipeCloseIsClose ==
    ASSUME PInv, HeldRange, NEW t \in Threads, PipeClose(t)
    PROVE  HeldRange' /\ (Queue!CloseWrite \/ Queue!CloseRead)
<1>1. /\ readopen' = (readopen /\ t \in Writers)
      /\ writeopen' = (writeopen /\ t \in Readers)
      /\ UNCHANGED <<data, nread, nwrite>> /\ pc[t] = "close"
    BY DEF PipeClose
<1>2. HeldRange' /\ Content' = Content
    BY <1>1 DEF HeldRange, Held, Content
<1>3. readopen \in BOOLEAN /\ writeopen \in BOOLEAN
    BY DEF PInv, TypeOK
<1>4. CASE t \in Writers
  <2>1. t \notin Readers /\ writeopen = TRUE
    BY <1>1, <1>3, <1>4, PipeAssumption DEF PInv, ClosedRight
  <2> QED
    BY <1>1, <1>2, <1>3, <1>4, <2>1 DEF Queue!CloseWrite
<1>5. CASE t \in Readers
  <2>1. t \notin Writers /\ readopen = TRUE
    BY <1>1, <1>3, <1>5, PipeAssumption DEF PInv, ClosedRight
  <2> QED
    BY <1>1, <1>2, <1>3, <1>5, <2>1 DEF Queue!CloseRead
<1> QED
    BY <1>4, <1>5 DEF Threads

LEMMA NextIsQueue ==
    PInv /\ HeldRange /\ [Next]_vars =>
        HeldRange' /\ [Queue!QNext]_Queue!queueVars
<1> SUFFICES ASSUME PInv, HeldRange, [Next]_vars
             PROVE  HeldRange' /\ [Queue!QNext]_Queue!queueVars
    OBVIOUS
<1> USE DEF Queue!QNext
<1>1. CASE UNCHANGED <<data, nread, nwrite, readopen, writeopen>>
    BY <1>1, QuietIsStutter
<1>2. ASSUME NEW t \in Threads, NEW b \in Bytes, WriteByte(t, b)
      PROVE  HeldRange' /\ [Queue!QNext]_Queue!queueVars
    BY <1>2, WriteByteIsPut
<1>3. ASSUME NEW t \in Threads, ReadByte(t)
      PROVE  HeldRange' /\ [Queue!QNext]_Queue!queueVars
    BY <1>3, ReadByteIsGet
<1>4. ASSUME NEW t \in Threads, PipeClose(t)
      PROVE  HeldRange' /\ [Queue!QNext]_Queue!queueVars
    BY <1>4, PipeCloseIsClose
<1>5. ASSUME NEW t \in Threads, Kernel(t)
      PROVE  HeldRange' /\ [Queue!QNext]_Queue!queueVars
  <2>1. \/ UNCHANGED <<data, nread, nwrite, readopen, writeopen>>
        \/ \E b \in Bytes : WriteByte(t, b)
        \/ ReadByte(t)
        \/ PipeClose(t)
    BY <1>5 DEF Kernel, AcquirePipe, WriteFail, WriteFull, WriteWake, WriteEnd,
       ReadEmpty, ReadStart, ReadEnd, Done, SleepAcquire, SleepRelease,
       SleepSwitch
  <2>2. CASE \E b \in Bytes : WriteByte(t, b)
    BY <1>2, <2>2
  <2> QED
    BY <1>1, <1>3, <1>4, <2>1, <2>2
<1>6. ASSUME NEW t \in Threads,
             (\E k \in 0..MaxN : Call(t, k)) \/ CloseFile(t) \/ Kill(t)
      PROVE  HeldRange' /\ [Queue!QNext]_Queue!queueVars
    BY <1>1, <1>6 DEF Call, CloseFile, Kill
<1>7. CASE UNCHANGED vars \/ Finished
    BY <1>1, <1>7 DEF vars, Finished
<1> QED
    BY <1>5, <1>6, <1>7 DEF Next

\* pipe.c implements the bounded queue: bytes come out in the order in which
\* they went in, none is lost, doubled or overwritten, at most PIPESIZE are
\* held, also when nread and nwrite wrap around, and an end is closed once.
THEOREM PipeIsQueue == Spec => ImplementsQueue
<1>1. Init => HeldRange /\ Queue!QInit
  <2> SUFFICES ASSUME Init
               PROVE  HeldRange /\ Queue!QInit
    OBVIOUS
  <2>1. TypeOK /\ nread = 0 /\ nwrite = 0 /\ readopen = TRUE /\ writeopen = TRUE
    BY InitPInv DEF PInv, Init
  <2>2. Held = 0
    BY <2>1, HeldIs
  <2>3. HeldRange
    BY <2>2, PipeAssumption DEF HeldRange
  <2>4. Content = <<>>
    BY <2>1, <2>2, <2>3, ContentSeq, EmptySeq
  <2> QED
    BY <2>1, <2>3, <2>4 DEF Queue!QInit
<1> QED
    BY <1>1, PipeInvariance, NextIsQueue, PTL
       DEF Spec, ImplementsQueue, Queue!QSpec
=============================================================================
