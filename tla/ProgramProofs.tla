--------------------------- MODULE ProgramProofs ---------------------------
(***************************************************************************)
(* Proofs about the vaccination drive and the concert, for any number of   *)
(* threads, stages, slots and doses, about the file transfer, for any      *)
(* files, arguments of get and chunk, and about the jobs of the shell, for *)
(* any lines, processes and job table.                                     *)
(*                                                                         *)
(* DriveInv says at which place of its loop a zone has slots, registered   *)
(* students and a list to work off, and that the lists of all zones and    *)
(* the students who wait are two views of the same thing.  ConcertInv adds *)
(* to the counts of the concert what keeps them right: who has been woken, *)
(* and whose names are in the singers' queue.  TransferInv says at which   *)
(* places of a get client and server can be together, how many             *)
(* acknowledgements the places call for, and that the bytes on their way   *)
(* are those between what the client has and what the server has sent; it  *)
(* speaks of the time before the first fault, see the variable of Transfer.*)
(* JobInv adds to the table of the jobs that the child the shell waits for *)
(* is there.                                                               *)
(***************************************************************************)
EXTENDS MCThreads, Transfer, Shell, FiniteSetTheorems, SequenceTheorems,
        WellFoundedInduction, TLAPS

\* The students a zone has a slot taken or a dose put aside for.
Lists(z) == students[z] \cup registered[z]

Waiting == {"check", "asleep"}

DriveTypes ==
    /\ vaccineQueue \in Seq([company : Companies, count : Doses])
    /\ waitingStudents \in Int
    /\ vaccinated \in [Students -> BOOLEAN]
    /\ slots \in [Zones -> Nat]
    /\ students \in [Zones -> SUBSET Students]
    /\ cpc \in [Companies -> {"make", "check", "asleep"}]
    /\ zpc \in [Zones -> {"get", "asleep", "offer", "open", "collect",
                          "vaccinate", "phase", "used"}]
    /\ vaccines \in [Zones -> Nat]
    /\ newSlots \in [Zones -> Nat]
    /\ registered \in [Zones -> SUBSET Students]
    /\ spc \in [Students -> {"gate", "seek", "check", "asleep", "test", "done"}]

\* What a zone has at which place, and the doses that back it.
ZoneRight(z) ==
    /\ IsFiniteSet(students[z]) /\ IsFiniteSet(registered[z])
    /\ zpc[z] # "collect" => slots[z] = 0 /\ students[z] = {}
    /\ zpc[z] = "vaccinate" <=> registered[z] # {}
    /\ zpc[z] = "open" => newSlots[z] <= vaccines[z]
    /\ slots[z] + Cardinality(students[z]) <= vaccines[z]
    /\ Cardinality(registered[z]) <= vaccines[z]

ZonesRight == \A z \in Zones : ZoneRight(z)

\* Who waits is on one list or has had the jab, and nobody else.
StudentsRight ==
    /\ \A s \in Students, z \in Zones :
            s \in Lists(z) => spc[s] \in Waiting /\ ~vaccinated[s]
    /\ \A s \in Students : vaccinated[s] => spc[s] \in Waiting
    /\ \A s \in Students : spc[s] \in Waiting =>
            vaccinated[s] \/ \E z \in Zones : s \in Lists(z)
    /\ \A y, z \in Zones, s \in Students : s \in Lists(y) /\ s \in Lists(z) => y = z

DriveInv == DriveTypes /\ ZonesRight /\ StudentsRight

StagePlaces == {"perform", "called", "overtime", "duet"}
PlacesOfMusicians == StagePlaces \cup
    {"arrive", "wait", "signalled", "expired", "tshirt", "collect", "done"}

ConcertTypes ==
    /\ pc \in [Musicians -> PlacesOfMusicians]
    /\ free \in [Kinds -> Int]
    /\ DOMAIN stageNo = Kinds
    /\ \A k \in Kinds : stageNo[k] \in [1..Num(k) -> BOOLEAN]
    /\ stage \in [Musicians -> Kinds \X Int]
    /\ performanceNoSigner \in Int
    /\ singersQueue \in Seq(Singers)
    /\ qReadPos \in Nat
    /\ with \in [Musicians -> Singers \cup {NoName}]

\* With f the places of the threads: those of S who were woken, and the rule
\* that v vacant stages have as many of them on the way if somebody waits.
Sig(f, S) == {n \in S : f[n] = "signalled"}
Offered(f, S, v) ==
    /\ IsFiniteSet(Sig(f, S))
    /\ (\E n \in S : f[n] = "wait") => Cardinality(Sig(f, S)) >= v

OffersRight ==
    /\ Offered(pc, Acoustic, free["acoustic"])
    /\ Offered(pc, Electric, free["electric"])
    /\ Offered(pc, Either, free["electric"] + free["acoustic"])

AloneIn(f) == {m \in Musicians : f[m] \in {"perform", "called", "overtime"}}
CalledIn(f) == {m \in Musicians : f[m] = "called"}

\* A performer who was called has a name waiting in the queue.
CountsRight ==
    /\ IsFiniteSet(AloneIn(pc)) /\ IsFiniteSet(CalledIn(pc))
    /\ performanceNoSigner = Cardinality(AloneIn(pc))
    /\ qReadPos + Cardinality(CalledIn(pc)) <= Len(singersQueue)

\* Names in the queue are those of singers who left, each there once.
NamesRight ==
    /\ \A i \in 1..Len(singersQueue) : pc[singersQueue[i]] = "done"
    /\ \A i, j \in 1..Len(singersQueue) :
            singersQueue[i] = singersQueue[j] => i = j
    /\ \A m \in Musicians : with[m] # NoName =>
            \E i \in 1..qReadPos : with[m] = singersQueue[i]
    /\ \A m, n \in Musicians : with[m] = with[n] /\ with[m] # NoName => m = n

ConcertInv ==
    ConcertTypes /\ StagesExclusive /\ OffersRight /\ CountsRight /\ NamesRight

-----------------------------------------------------------------------------
(* The vaccination drive, one lemma per action.                            *)

\* Equal sets have as many elements.
LEMMA CardEqual ==
    ASSUME NEW S, NEW T, S = T
    PROVE  /\ Cardinality(S) = Cardinality(T)
           /\ IsFiniteSet(S) <=> IsFiniteSet(T)
BY Zenon

\* The number of slots is at most the doses at hand.
LEMMA SlotsToOpenIs ==
    ASSUME DriveInv, NEW z \in Zones, SlotsToOpen(z) > 0
    PROVE  SlotsToOpen(z) \in Nat /\ SlotsToOpen(z) <= vaccines[z]
<1> DEFINE S == {MaxSlots, waitingStudents, vaccines[z]}
<1>1. MaxSlots \in Int /\ waitingStudents \in Int /\ vaccines[z] \in Int
    BY VaccineAssumption DEF DriveInv, DriveTypes
<1>2. \E m \in S : \A k \in S : m <= k
    BY <1>1
<1>3. SlotsToOpen(z) \in S /\ \A k \in S : SlotsToOpen(z) <= k
    BY <1>2 DEF SlotsToOpen
<1> QED
    BY <1>1, <1>3

\* A company looks whether its batches are used.
LEMMA CompanyCheckInv ==
    ASSUME DriveInv, NEW c \in Companies, CompanyCheck(c)
    PROVE  DriveInv'
<1> USE VaccineAssumption DEF DriveInv, DriveTypes, companyVars, zoneVars, studentVars
<1>1. DriveTypes'
    BY DEF CompanyCheck
<1>2. ZonesRight'
    BY FS_EmptySet DEF CompanyCheck, ZonesRight, ZoneRight
<1>3. StudentsRight'
    BY DEF CompanyCheck, ZonesRight, ZoneRight, StudentsRight, Lists, Waiting
<1> QED
    BY <1>1, <1>2, <1>3

\* A zone chooses its slots.
LEMMA ReadWaitingInv ==
    ASSUME DriveInv, NEW z \in Zones, ReadWaiting(z)
    PROVE  DriveInv'
<1> USE VaccineAssumption DEF DriveInv, DriveTypes, companyVars, zoneVars, studentVars
<1>1. DriveTypes'
    BY SlotsToOpenIs DEF ReadWaiting
<1>2. ASSUME NEW y \in Zones
      PROVE  ZoneRight(y)'
  <2>1. CASE y # z
    BY <2>1 DEF ReadWaiting, ZonesRight, ZoneRight
  <2>2. /\ IsFiniteSet({}) /\ Cardinality({}) = 0
        /\ Cardinality(students[z]) \in Nat
        /\ students[z] = {} => Cardinality(students[z]) = 0
        /\ registered[z] = {} => Cardinality(registered[z]) = 0
    BY FS_EmptySet, FS_CardinalityType DEF ZonesRight, ZoneRight
  <2>3. CASE y = z
    BY SlotsToOpenIs, <2>2, <2>3 DEF ReadWaiting, ZonesRight, ZoneRight
  <2> QED
    BY <2>1, <2>3
<1>3. StudentsRight'
    BY SlotsToOpenIs DEF ReadWaiting, ZonesRight, ZoneRight, StudentsRight, Lists, Waiting
<1> QED
    BY <1>1, <1>2, <1>3 DEF ZonesRight

\* A zone opens its slots.
LEMMA AddToSlotsQueueInv ==
    ASSUME DriveInv, NEW z \in Zones, AddToSlotsQueue(z)
    PROVE  DriveInv'
<1> USE VaccineAssumption DEF DriveInv, DriveTypes, companyVars, zoneVars, studentVars
<1>1. DriveTypes'
    BY DEF AddToSlotsQueue
<1>2. ASSUME NEW y \in Zones
      PROVE  ZoneRight(y)'
  <2>1. CASE y # z
    BY <2>1 DEF AddToSlotsQueue, ZonesRight, ZoneRight
  <2>2. /\ IsFiniteSet({}) /\ Cardinality({}) = 0
        /\ Cardinality(students[z]) \in Nat
        /\ students[z] = {} => Cardinality(students[z]) = 0
        /\ registered[z] = {} => Cardinality(registered[z]) = 0
    BY FS_EmptySet, FS_CardinalityType DEF ZonesRight, ZoneRight
  <2>3. CASE y = z
    <3>1. /\ slots'[z] = newSlots[z] /\ newSlots'[z] = 0 /\ zpc[z] = "open"
          /\ zpc'[z] = "collect" /\ vaccines'[z] = vaccines[z]
          /\ students'[z] = students[z] /\ registered'[z] = registered[z]
      BY DEF AddToSlotsQueue
    <3>2. ZoneRight(z) /\ newSlots[z] \in Nat /\ vaccines[z] \in Nat
      BY DEF ZonesRight
    <3> HIDE DEF DriveInv
    <3> QED
      BY <2>2, <2>3, <3>1, <3>2 DEF ZoneRight
  <2> QED
    BY <2>1, <2>3
<1>3. StudentsRight'
    BY DEF AddToSlotsQueue, ZonesRight, ZoneRight, StudentsRight, Lists, Waiting
<1> QED
    BY <1>1, <1>2, <1>3 DEF ZonesRight

\* A zone collects who has registered.
LEMMA CollectInv ==
    ASSUME DriveInv, NEW z \in Zones, Collect(z)
    PROVE  DriveInv'
<1> USE VaccineAssumption DEF DriveInv, DriveTypes, companyVars, zoneVars, studentVars
<1>1. DriveTypes'
    BY DEF Collect, Collected
<1>2. ASSUME NEW y \in Zones
      PROVE  ZoneRight(y)'
  <2>1. CASE y # z
    BY <2>1 DEF Collect, Collected, ZonesRight, ZoneRight
  <2>2. /\ IsFiniteSet({}) /\ Cardinality({}) = 0
        /\ Cardinality(students[z]) \in Nat
        /\ students[z] = {} => Cardinality(students[z]) = 0
        /\ registered[z] = {} => Cardinality(registered[z]) = 0
    BY FS_EmptySet, FS_CardinalityType DEF ZonesRight, ZoneRight
  <2>3. CASE y = z
    BY <2>2, <2>3 DEF Collect, Collected, ZonesRight, ZoneRight
  <2> QED
    BY <2>1, <2>3
<1>3. StudentsRight'
  <2>1. \A y \in Zones, t \in Students : t \in Lists(y)' <=> t \in Lists(y)
    BY DEF Collect, Collected, ZonesRight, ZoneRight, Lists
  <2>2. spc' = spc /\ vaccinated' = vaccinated
    BY DEF Collect
  <2> QED
    BY <2>1, <2>2 DEF StudentsRight
<1> QED
    BY <1>1, <1>2, <1>3 DEF ZonesRight

\* A phase of vaccinations is over.
LEMMA PhaseEndInv ==
    ASSUME DriveInv, NEW z \in Zones, PhaseEnd(z)
    PROVE  DriveInv'
<1> USE VaccineAssumption DEF DriveInv, DriveTypes, companyVars, zoneVars, studentVars
<1>1. DriveTypes'
    BY DEF PhaseEnd, AfterJab, Broadcast
<1>2. ASSUME NEW y \in Zones
      PROVE  ZoneRight(y)'
  <2>1. CASE y # z
    BY <2>1 DEF PhaseEnd, AfterJab, Broadcast, ZonesRight, ZoneRight
  <2>2. /\ IsFiniteSet({}) /\ Cardinality({}) = 0
        /\ Cardinality(students[z]) \in Nat
        /\ students[z] = {} => Cardinality(students[z]) = 0
        /\ registered[z] = {} => Cardinality(registered[z]) = 0
    BY FS_EmptySet, FS_CardinalityType DEF ZonesRight, ZoneRight
  <2>3. CASE y = z
    BY <2>2, <2>3 DEF PhaseEnd, AfterJab, Broadcast, ZonesRight, ZoneRight
  <2> QED
    BY <2>1, <2>3
<1>3. StudentsRight'
    BY DEF PhaseEnd, AfterJab, Broadcast, ZonesRight, ZoneRight, StudentsRight, Lists, Waiting
<1> QED
    BY <1>1, <1>2, <1>3 DEF ZonesRight

\* A batch has been used.
LEMMA BatchUsedInv ==
    ASSUME DriveInv, NEW z \in Zones, BatchUsed(z)
    PROVE  DriveInv'
<1> USE VaccineAssumption DEF DriveInv, DriveTypes, companyVars, zoneVars, studentVars
<1>1. DriveTypes'
    BY DEF BatchUsed
<1>2. ASSUME NEW y \in Zones
      PROVE  ZoneRight(y)'
  <2>1. CASE y # z
    BY <2>1 DEF BatchUsed, ZonesRight, ZoneRight
  <2>2. /\ IsFiniteSet({}) /\ Cardinality({}) = 0
        /\ Cardinality(students[z]) \in Nat
        /\ students[z] = {} => Cardinality(students[z]) = 0
        /\ registered[z] = {} => Cardinality(registered[z]) = 0
    BY FS_EmptySet, FS_CardinalityType DEF ZonesRight, ZoneRight
  <2>3. CASE y = z
    BY <2>2, <2>3 DEF BatchUsed, ZonesRight, ZoneRight
  <2> QED
    BY <2>1, <2>3
<1>3. StudentsRight'
    BY DEF BatchUsed, ZonesRight, ZoneRight, StudentsRight, Lists, Waiting
<1> QED
    BY <1>1, <1>2, <1>3 DEF ZonesRight

\* A student comes to the gate.
LEMMA ArriveInv ==
    ASSUME DriveInv, NEW s \in Students, Arrive(s)
    PROVE  DriveInv'
<1> USE VaccineAssumption DEF DriveInv, DriveTypes, companyVars, zoneVars, studentVars
<1>1. DriveTypes'
    BY DEF Arrive
<1>2. ZonesRight'
    BY FS_EmptySet DEF Arrive, ZonesRight, ZoneRight
<1>3. StudentsRight'
    BY DEF Arrive, ZonesRight, ZoneRight, StudentsRight, Lists, Waiting
<1> QED
    BY <1>1, <1>2, <1>3

\* A student looks whether it was vaccinated.
LEMMA StudentCheckInv ==
    ASSUME DriveInv, NEW s \in Students, StudentCheck(s)
    PROVE  DriveInv'
<1> USE VaccineAssumption DEF DriveInv, DriveTypes, companyVars, zoneVars, studentVars
<1>1. DriveTypes'
    BY DEF StudentCheck
<1>2. ZonesRight'
    BY FS_EmptySet DEF StudentCheck, ZonesRight, ZoneRight
<1>3. StudentsRight'
    BY DEF StudentCheck, ZonesRight, ZoneRight, StudentsRight, Lists, Waiting
<1> QED
    BY <1>1, <1>2, <1>3

\* The antibody test passes.
LEMMA TestPassedInv ==
    ASSUME DriveInv, NEW s \in Students, TestPassed(s)
    PROVE  DriveInv'
<1> USE VaccineAssumption DEF DriveInv, DriveTypes, companyVars, zoneVars, studentVars
<1>1. DriveTypes'
    BY DEF TestPassed
<1>2. ZonesRight'
    BY FS_EmptySet DEF TestPassed, ZonesRight, ZoneRight
<1>3. StudentsRight'
    BY DEF TestPassed, ZonesRight, ZoneRight, StudentsRight, Lists, Waiting
<1> QED
    BY <1>1, <1>2, <1>3

\* The antibody test fails.
LEMMA TestFailedInv ==
    ASSUME DriveInv, NEW s \in Students, TestFailed(s)
    PROVE  DriveInv'
<1> USE VaccineAssumption DEF DriveInv, DriveTypes, companyVars, zoneVars, studentVars
<1>1. DriveTypes'
    BY DEF TestFailed
<1>2. ZonesRight'
    BY FS_EmptySet DEF TestFailed, ZonesRight, ZoneRight
<1>3. StudentsRight'
    BY DEF TestFailed, ZonesRight, ZoneRight, StudentsRight, Lists, Waiting
<1> QED
    BY <1>1, <1>2, <1>3

\* A company puts batches into the queue.
LEMMA AddToVaccineQueueInv ==
    ASSUME DriveInv, NEW c \in Companies, NEW b \in Batches,
           NEW counts \in [1..b -> Doses], AddToVaccineQueue(c, b, counts)
    PROVE  DriveInv'
<1> USE VaccineAssumption DEF DriveInv, DriveTypes, companyVars, zoneVars, studentVars
<1>1. vaccineQueue' \in Seq([company : Companies, count : Doses])
  <2> DEFINE new == [k \in 1..b |-> [company |-> c, count |-> counts[k]]]
  <2>1. b \in Nat /\ new \in [1..b -> [company : Companies, count : Doses]]
    OBVIOUS
  <2>2. new \in Seq([company : Companies, count : Doses])
    BY <2>1, SeqDef
  <2>3. vaccineQueue' = vaccineQueue \o new
    BY DEF AddToVaccineQueue
  <2> HIDE DEF new
  <2> QED
    BY <2>2, <2>3, ConcatProperties
<1>2. DriveTypes'
    BY <1>1 DEF AddToVaccineQueue, Broadcast
<1>3. ZonesRight'
    BY DEF AddToVaccineQueue, Broadcast, ZonesRight, ZoneRight
<1>4. StudentsRight'
    BY DEF AddToVaccineQueue, StudentsRight, Lists
<1> QED
    BY <1>2, <1>3, <1>4

\* A zone takes a batch, or waits for one.
LEMMA GetFromVaccineQueueInv ==
    ASSUME DriveInv, NEW z \in Zones, GetFromVaccineQueue(z)
    PROVE  DriveInv'
<1> USE VaccineAssumption DEF DriveInv, DriveTypes, companyVars, zoneVars, studentVars
<1>1. CASE vaccineQueue = <<>>
  <2>1. DriveTypes'
    <3>1. /\ cpc' = Broadcast(cpc, "check") /\ zpc' = [zpc EXCEPT ![z] = "asleep"]
          /\ UNCHANGED <<vaccineQueue, vaccines, waitingStudents, vaccinated,
                         slots, students, newSlots, registered, spc>>
      BY <1>1 DEF GetFromVaccineQueue
    <3> QED
      BY <3>1 DEF Broadcast
  <2>2. ZonesRight'
    BY <1>1 DEF GetFromVaccineQueue, ZonesRight, ZoneRight
  <2>3. StudentsRight'
    BY <1>1 DEF GetFromVaccineQueue, StudentsRight, Lists
  <2> QED
    BY <2>1, <2>2, <2>3
<1>2. CASE vaccineQueue # <<>>
  <2>1. /\ Head(vaccineQueue) \in [company : Companies, count : Doses]
        /\ Tail(vaccineQueue) \in Seq([company : Companies, count : Doses])
    BY <1>2, HeadTailProperties
  <2>2. Head(vaccineQueue).count \in Nat
    BY <2>1
  <2>3. DriveTypes'
    BY <1>2, <2>1, <2>2 DEF GetFromVaccineQueue
  <2>4. ASSUME NEW y \in Zones
        PROVE  ZoneRight(y)'
    <3>1. CASE y # z
      BY <1>2, <3>1 DEF GetFromVaccineQueue, ZonesRight, ZoneRight
    <3>2. /\ students[z] = {} => Cardinality(students[z]) = 0
          /\ registered[z] = {} => Cardinality(registered[z]) = 0
      BY FS_EmptySet DEF ZonesRight, ZoneRight
    <3>3. CASE y = z
      <4>1. /\ vaccines'[z] = Head(vaccineQueue).count /\ zpc[z] = "get"
            /\ zpc'[z] = "offer" /\ UNCHANGED <<slots, students, registered>>
        BY <1>2 DEF GetFromVaccineQueue
      <4>2. ZoneRight(z) /\ slots[z] \in Nat
        BY DEF ZonesRight
      <4> HIDE DEF DriveInv
      <4> QED
        BY <2>2, <3>2, <3>3, <4>1, <4>2 DEF ZoneRight
    <3> QED
      BY <3>1, <3>3
  <2>5. StudentsRight'
    BY <1>2 DEF GetFromVaccineQueue, StudentsRight, Lists
  <2> QED
    BY <2>3, <2>4, <2>5 DEF ZonesRight
<1> QED
    BY <1>1, <1>2

\* A zone vaccinates the first student on its list.
LEMMA VaccinateInv ==
    ASSUME DriveInv, NEW z \in Zones, Vaccinate(z)
    PROVE  DriveInv'
<1> USE VaccineAssumption DEF DriveInv, DriveTypes, companyVars, zoneVars, studentVars
<1>1. PICK s \in registered[z] :
        /\ vaccinated' = [vaccinated EXCEPT ![s] = TRUE]
        /\ registered' = [registered EXCEPT ![z] = @ \ {s}]
    BY DEF Vaccinate
<1>2. s \in Students
    BY <1>1
<1>3. /\ IsFiniteSet(registered[z] \ {s})
      /\ Cardinality(registered[z] \ {s}) = Cardinality(registered[z]) - 1
      /\ Cardinality(registered[z]) \in Nat
    BY <1>1, FS_RemoveElement, FS_CardinalityType DEF ZonesRight, ZoneRight
<1>4. /\ Cardinality(registered[z]) > 0
      /\ vaccines[z] \in Nat /\ vaccines[z] >= Cardinality(registered[z])
    BY <1>1, <1>3, FS_EmptySet DEF ZonesRight, ZoneRight
<1>5. DriveTypes'
    BY <1>1, <1>2, <1>3, <1>4 DEF Vaccinate, AfterJab, Broadcast
<1>6. ASSUME NEW y \in Zones
      PROVE  ZoneRight(y)'
  <2>1. CASE y # z
    BY <1>1, <2>1 DEF Vaccinate, ZonesRight, ZoneRight
  <2>2. CASE y = z
    <3>1. /\ zpc[z] = "vaccinate" /\ slots[z] = 0 /\ students[z] = {}
          /\ IsFiniteSet(students[z]) /\ Cardinality(students[z]) = 0
      BY FS_EmptySet DEF Vaccinate, ZonesRight, ZoneRight
    <3>2. /\ registered'[z] = registered[z] \ {s}
          /\ vaccines'[z] = vaccines[z] - 1
          /\ slots' = slots /\ students' = students /\ newSlots' = newSlots
          /\ zpc'[z] = IF registered'[z] # {} THEN "vaccinate" ELSE "phase"
      BY <1>1 DEF Vaccinate
    <3>3. /\ IsFiniteSet(registered'[z])
          /\ Cardinality(registered'[z]) = Cardinality(registered[z]) - 1
      BY <1>3, <3>2, CardEqual
    <3> HIDE DEF DriveInv
    <3>4. /\ slots'[z] = 0 /\ Cardinality(students'[z]) = 0
          /\ IsFiniteSet(students'[z]) /\ students'[z] = {}
      BY <3>1, <3>2
    <3>5. vaccines'[z] >= 0 /\ vaccines'[z] >= Cardinality(registered[z]) - 1
      BY <1>3, <1>4, <3>2
    <3>6. /\ zpc'[z] \in {"vaccinate", "phase"}
          /\ zpc'[z] = "vaccinate" <=> registered'[z] # {}
      BY <3>2
    <3> QED
      BY <2>2, <3>3, <3>4, <3>5, <3>6 DEF ZoneRight
  <2> QED
    BY <2>1, <2>2
<1>7. ZonesRight'
    BY <1>6 DEF ZonesRight
<1>8. StudentsRight'
  <2> DEFINE New(y) == students'[y] \cup registered'[y]
  <2>1. students[z] = {}
    BY DEF Vaccinate, ZonesRight, ZoneRight
  <2>2. \A y \in Zones, t \in Students :
            t \in New(y) <=> t \in Lists(y) /\ ~(y = z /\ t = s)
    BY <1>1, <2>1 DEF Vaccinate, Lists
  <2> HIDE DEF New
  <2>3. \A t \in Students : spc'[t] \in Waiting <=> spc[t] \in Waiting
    BY DEF Vaccinate, AfterJab, Broadcast, Waiting
  <2>4. s \in Lists(z)
    BY <1>1 DEF Lists
  <2>5. ASSUME NEW t \in Students, NEW y \in Zones, t \in New(y)
        PROVE  spc'[t] \in Waiting /\ ~vaccinated'[t]
    <3>1. t \in Lists(y) /\ t # s
      BY <2>2, <2>4, <2>5 DEF StudentsRight
    <3> QED
      BY <1>1, <2>3, <3>1 DEF StudentsRight
  <2>6. ASSUME NEW t \in Students
        PROVE  /\ vaccinated'[t] => spc'[t] \in Waiting
               /\ spc'[t] \in Waiting =>
                        vaccinated'[t] \/ \E y \in Zones : t \in New(y)
    <3>1. CASE t = s
      BY <1>1, <1>2, <2>3, <2>4, <3>1 DEF StudentsRight
    <3>2. CASE t # s
      BY <1>1, <2>2, <2>3, <3>2 DEF StudentsRight
    <3> QED
      BY <3>1, <3>2
  <2>7. ASSUME NEW x \in Zones, NEW y \in Zones, NEW t \in Students,
               t \in New(x), t \in New(y)
        PROVE  x = y
    BY <2>2, <2>7 DEF StudentsRight
  <2> QED
    BY <2>5, <2>6, <2>7 DEF StudentsRight, Lists, New
<1> QED
    BY <1>5, <1>7, <1>8

\* A student takes a slot.
LEMMA GetRegisteredInv ==
    ASSUME DriveInv, NEW s \in Students, NEW z \in Zones, GetRegistered(s, z)
    PROVE  DriveInv'
<1> USE VaccineAssumption DEF DriveInv, DriveTypes, companyVars, zoneVars, studentVars
<1>1. s \notin students[z] /\ spc[s] = "seek" /\ slots[z] > 0 /\ zpc[z] = "collect"
  <2>1. spc[s] = "seek" /\ slots[z] > 0
    BY DEF GetRegistered
  <2>2. s \notin Lists(z)
    BY <2>1 DEF StudentsRight, Waiting
  <2>3. zpc[z] = "collect"
    <3>1. ZoneRight(z)
      BY DEF ZonesRight
    <3> QED
      BY <2>1, <3>1 DEF ZoneRight
  <2> QED
    BY <2>1, <2>2, <2>3 DEF Lists
<1>2. /\ IsFiniteSet(students[z] \cup {s})
      /\ Cardinality(students[z] \cup {s}) = Cardinality(students[z]) + 1
      /\ Cardinality(students[z]) \in Nat
    BY <1>1, FS_AddElement, FS_CardinalityType DEF ZonesRight, ZoneRight
<1>3. DriveTypes'
    BY <1>1 DEF GetRegistered
<1>4. ASSUME NEW y \in Zones
      PROVE  ZoneRight(y)'
  <2>1. CASE y # z
    BY <2>1 DEF GetRegistered, ZonesRight, ZoneRight
  <2>2. CASE y = z
    <3>1. /\ students'[z] = students[z] \cup {s} /\ slots'[z] = slots[z] - 1
          /\ registered' = registered /\ zpc' = zpc /\ vaccines' = vaccines
      BY DEF GetRegistered
    <3>2. /\ IsFiniteSet(students'[z])
          /\ Cardinality(students'[z]) = Cardinality(students[z]) + 1
      BY <1>2, <3>1, CardEqual
    <3>3. ZoneRight(z) /\ slots[z] \in Nat /\ vaccines[z] \in Nat
      BY DEF ZonesRight
    <3> HIDE DEF DriveInv
    <3> QED
      BY <1>1, <1>2, <2>2, <3>1, <3>2, <3>3 DEF ZoneRight
  <2> QED
    BY <2>1, <2>2
<1>5. ZonesRight'
    BY <1>4 DEF ZonesRight
<1>6. StudentsRight'
  <2> DEFINE New(y) == students'[y] \cup registered'[y]
  <2>1. /\ spc' = [spc EXCEPT ![s] = "check"] /\ vaccinated' = vaccinated
        /\ \A y \in Zones, t \in Students :
            t \in New(y) <=> t \in Lists(y) \/ (y = z /\ t = s)
    BY DEF GetRegistered, Lists
  <2> HIDE DEF New
  <2>2. \A y \in Zones : s \notin Lists(y)
    BY <1>1 DEF StudentsRight, Waiting
  <2>3. ASSUME NEW t \in Students, NEW y \in Zones, t \in New(y)
        PROVE  spc'[t] \in Waiting /\ ~vaccinated'[t]
    BY <1>1, <2>1, <2>3 DEF StudentsRight, Waiting
  <2>4. ASSUME NEW t \in Students
        PROVE  /\ vaccinated'[t] => spc'[t] \in Waiting
               /\ spc'[t] \in Waiting =>
                        vaccinated'[t] \/ \E y \in Zones : t \in New(y)
    <3>1. CASE t = s
      BY <2>1, <3>1 DEF StudentsRight, Waiting
    <3>2. CASE t # s
      BY <2>1, <3>2 DEF StudentsRight
    <3> QED
      BY <3>1, <3>2
  <2>5. ASSUME NEW x \in Zones, NEW y \in Zones, NEW t \in Students,
               t \in New(x), t \in New(y)
        PROVE  x = y
    BY <2>1, <2>2, <2>5 DEF StudentsRight
  <2> QED
    BY <2>3, <2>4, <2>5 DEF StudentsRight, Lists, New
<1> QED
    BY <1>3, <1>5, <1>6

\* The drive as main() starts it.
LEMMA InitDriveInv == DriveInit => DriveInv
BY FS_EmptySet DEF DriveInit, DriveInv, DriveTypes, ZonesRight, ZoneRight,
   StudentsRight, Lists, Waiting

LEMMA NextDriveInv == DriveInv /\ [DriveNext]_driveVars => DriveInv'
<1> SUFFICES ASSUME DriveInv, [DriveNext]_driveVars
             PROVE  DriveInv'
    OBVIOUS
<1>1. CASE UNCHANGED driveVars
    BY <1>1 DEF driveVars, companyVars, zoneVars, studentVars, DriveInv,
       DriveTypes, ZonesRight, ZoneRight, StudentsRight, Lists
<1>2. ASSUME NEW c \in Companies, Company(c)
      PROVE  DriveInv'
    BY <1>2, AddToVaccineQueueInv, CompanyCheckInv DEF Company
<1>3. ASSUME NEW z \in Zones, Zone(z)
      PROVE  DriveInv'
    BY <1>3, GetFromVaccineQueueInv, ReadWaitingInv, AddToSlotsQueueInv,
       CollectInv, VaccinateInv, PhaseEndInv, BatchUsedInv DEF Zone
<1>4. ASSUME NEW s \in Students, Student(s)
      PROVE  DriveInv'
    BY <1>4, ArriveInv, StudentCheckInv, TestPassedInv, TestFailedInv,
       GetRegisteredInv DEF Student
<1> QED
    BY <1>1, <1>2, <1>3, <1>4 DEF DriveNext

\* The cardinality of a set with at most one element.
LEMMA AtMostOne ==
    ASSUME NEW S, \A x, y \in S : x = y
    PROVE  Cardinality(S) = IF S = {} THEN 0 ELSE 1
<1>1. CASE S = {}
    BY <1>1, FS_EmptySet
<1>2. CASE S # {}
  <2>1. PICK x \in S : TRUE
    BY <1>2
  <2>2. S = {x}
    BY <2>1
  <2> QED
    BY <1>2, <2>2, FS_Singleton
<1> QED
    BY <1>1, <1>2

LEMMA DriveInvOneJab == DriveInv => OneJab
<1> SUFFICES ASSUME DriveInv
             PROVE  OneJab
    OBVIOUS
<1>1. SlotsBacked
  <2> SUFFICES ASSUME NEW z \in Zones
               PROVE  vaccines[z] >= slots[z]
                            + Cardinality(students[z] \cup registered[z])
    BY DEF SlotsBacked
  <2>1. /\ slots[z] \in Nat /\ vaccines[z] \in Nat
        /\ slots[z] + Cardinality(students[z]) <= vaccines[z]
        /\ Cardinality(registered[z]) <= vaccines[z]
        /\ zpc[z] # "collect" => slots[z] = 0 /\ students[z] = {}
        /\ zpc[z] # "vaccinate" => registered[z] = {}
    BY DEF DriveInv, DriveTypes, ZonesRight, ZoneRight
  <2>2. CASE zpc[z] = "vaccinate"
    <3>1. students[z] \cup registered[z] = registered[z] /\ slots[z] = 0
      BY <2>1, <2>2
    <3>2. Cardinality(registered[z]) \in Nat
      BY FS_CardinalityType DEF DriveInv, ZonesRight, ZoneRight
    <3>3. Cardinality(students[z] \cup registered[z]) = Cardinality(registered[z])
      BY <3>1, CardEqual
    <3> QED
      BY <2>1, <3>1, <3>2, <3>3
  <2>3. CASE zpc[z] # "vaccinate"
    <3>1. students[z] \cup registered[z] = students[z]
      BY <2>1, <2>3
    <3>2. Cardinality(students[z]) \in Nat
      BY FS_CardinalityType DEF DriveInv, ZonesRight, ZoneRight
    <3>3. Cardinality(students[z] \cup registered[z]) = Cardinality(students[z])
      BY <3>1, CardEqual
    <3> QED
      BY <2>1, <3>2, <3>3
  <2> QED
    BY <2>2, <2>3
<1>2. ASSUME NEW s \in Students
      PROVE  LET waits == {z \in Zones : s \in students[z]}
                 called == {z \in Zones : s \in registered[z]}
             IN  Cardinality(waits) + Cardinality(called)
                     + (IF vaccinated[s] THEN 1 ELSE 0)
                     = (IF spc[s] \in {"check", "asleep"} THEN 1 ELSE 0)
  <2> DEFINE waits == {z \in Zones : s \in students[z]}
             called == {z \in Zones : s \in registered[z]}
  <2>1. \A y, z \in waits \cup called : y = z
    BY DEF DriveInv, StudentsRight, Lists
  <2>2. waits = {} \/ called = {}
    <3> SUFFICES ASSUME NEW y \in waits, NEW z \in called
                 PROVE  FALSE
      OBVIOUS
    <3>1. y = z
      BY <2>1
    <3>2. students[z] # {} /\ registered[z] # {} /\ z \in Zones
      BY <3>1
    <3> QED
      BY <3>2 DEF DriveInv, ZonesRight, ZoneRight
  <2>3. /\ Cardinality(waits) = IF waits = {} THEN 0 ELSE 1
        /\ Cardinality(called) = IF called = {} THEN 0 ELSE 1
    BY <2>1, AtMostOne
  <2>4. waits # {} \/ called # {} => spc[s] \in Waiting /\ ~vaccinated[s]
    BY DEF DriveInv, StudentsRight, Lists
  <2>5. spc[s] \in Waiting => vaccinated[s] \/ waits # {} \/ called # {}
    BY DEF DriveInv, StudentsRight, Lists
  <2>6. vaccinated[s] => spc[s] \in Waiting
    BY DEF DriveInv, StudentsRight
  <2> HIDE DEF waits, called
  <2>7. Cardinality(waits) + Cardinality(called)
                     + (IF vaccinated[s] THEN 1 ELSE 0)
                     = (IF spc[s] \in {"check", "asleep"} THEN 1 ELSE 0)
    BY <2>2, <2>3, <2>4, <2>5, <2>6 DEF Waiting
  <2> QED
    BY <2>7 DEF waits, called
<1> QED
    BY <1>1, <1>2 DEF OneJab

\* A registration is backed by a dose and gives one vaccination, for any
\* number of companies, zones and students: the count a zone reads without a
\* lock may be wrong, what it does with it is not.
THEOREM OneJabEach == Spec => []OneJab
<1>1. Init => DriveInv
    BY InitDriveInv DEF Init
<1>2. DriveInv /\ [Next]_<<program, driveVars, concertVars, sortVars>> => DriveInv'
    BY NextDriveInv DEF Next
<1> QED
    BY <1>1, <1>2, DriveInvOneJab, PTL DEF Spec

-----------------------------------------------------------------------------
(* Counting: how the sets of the concert grow and shrink.                  *)

LEMMA AddOne ==
    ASSUME NEW S, NEW T, NEW x, IsFiniteSet(S), x \notin S,
           \A y : y \in T <=> y \in S \/ y = x
    PROVE  IsFiniteSet(T) /\ Cardinality(T) = Cardinality(S) + 1
<1>1. T = S \cup {x}
    OBVIOUS
<1>2. IsFiniteSet(S \cup {x}) /\ Cardinality(S \cup {x}) = Cardinality(S) + 1
    BY FS_AddElement
<1> QED
    BY <1>1, <1>2, CardEqual

LEMMA RemoveOne ==
    ASSUME NEW S, NEW T, NEW x \in S, IsFiniteSet(S),
           \A y : y \in T <=> y \in S /\ y # x
    PROVE  IsFiniteSet(T) /\ Cardinality(T) = Cardinality(S) - 1
<1>1. T = S \ {x}
    OBVIOUS
<1>2. IsFiniteSet(S \ {x}) /\ Cardinality(S \ {x}) = Cardinality(S) - 1
    BY FS_RemoveElement
<1> QED
    BY <1>1, <1>2, CardEqual

\* A signal wakes one of those who wait, if there is one.
LEMMA CondSignalIs ==
    ASSUME NEW S, NEW U \in CondSignal(S)
    PROVE  /\ \A u \in U : u \in S
           /\ S # {} => \E u \in S : U = {u}
BY DEF CondSignal

\* Nobody of S was woken, or began to wait, and no stage more is vacant.
LEMMA OfferKept ==
    ASSUME NEW S, NEW f, NEW g, NEW v \in Int, NEW w \in Int,
           Offered(f, S, v), w <= v,
           \A n \in S : g[n] = "signalled" <=> f[n] = "signalled",
           \A n \in S : g[n] = "wait" => f[n] = "wait"
    PROVE  Offered(g, S, w)
<1>1. Sig(g, S) = Sig(f, S)
    BY DEF Sig
<1>2. /\ Cardinality(Sig(g, S)) = Cardinality(Sig(f, S))
      /\ IsFiniteSet(Sig(g, S)) <=> IsFiniteSet(Sig(f, S))
    BY <1>1, CardEqual
<1>3. Cardinality(Sig(f, S)) \in Nat
    BY FS_CardinalityType DEF Offered
<1> QED
    BY <1>2, <1>3 DEF Offered

\* With no stage vacant there is nothing to offer.
LEMMA OfferNone ==
    ASSUME NEW S, NEW f, NEW g, NEW v \in Int, NEW m,
           Offered(f, S, v), v <= 0, g[m] # "signalled",
           \A n \in S : n # m => g[n] = f[n]
    PROVE  Offered(g, S, v)
<1>1. Sig(g, S) \in SUBSET Sig(f, S)
    BY DEF Sig
<1>2. IsFiniteSet(Sig(g, S))
    BY <1>1, FS_Subset DEF Offered
<1>3. Cardinality(Sig(g, S)) \in Nat
    BY <1>2, FS_CardinalityType
<1> QED
    BY <1>2, <1>3 DEF Offered

\* One thread moves; if it gives up a wakeup or begins to wait, for a reason.
LEMMA OfferMoved ==
    ASSUME NEW S, NEW f, NEW g, NEW v \in Int, NEW m, Offered(f, S, v),
           \A n \in S : n # m => g[n] = f[n], g[m] # "signalled",
           m \in S /\ (g[m] = "wait" \/ f[m] = "signalled") => v <= 0
    PROVE  Offered(g, S, v)
<1>1. CASE v <= 0
    BY <1>1, OfferNone
<1>2. CASE ~(v <= 0)
  <2>1. /\ \A n \in S : g[n] = "signalled" <=> f[n] = "signalled"
        /\ \A n \in S : g[n] = "wait" => f[n] = "wait"
        /\ v <= v
    BY <1>2
  <2> QED
    BY <2>1, OfferKept
<1> QED
    BY <1>1, <1>2

\* One of S has taken a stage; it may have been woken for it.
LEMMA OfferTaken ==
    ASSUME NEW S, NEW f, NEW g, NEW v \in Int, NEW w \in Int, NEW m,
           Offered(f, S, v), w <= v - 1, g[m] # "signalled", g[m] # "wait",
           \A n \in S : n # m => g[n] = f[n]
    PROVE  Offered(g, S, w)
<1>1. Sig(g, S) = Sig(f, S) \ {m}
    BY DEF Sig
<1>2. IsFiniteSet(Sig(f, S))
    BY DEF Offered
<1>3. /\ IsFiniteSet(Sig(f, S) \ {m})
      /\ Cardinality(Sig(f, S) \ {m}) =
            IF m \in Sig(f, S) THEN Cardinality(Sig(f, S)) - 1
                               ELSE Cardinality(Sig(f, S))
    BY <1>2, FS_RemoveElement
<1>4. Cardinality(Sig(f, S)) \in Nat
    BY <1>2, FS_CardinalityType
<1>5. Cardinality(Sig(f, S) \ {m}) >= Cardinality(Sig(f, S)) - 1
    BY <1>3, <1>4
<1>6. /\ Cardinality(Sig(g, S)) >= Cardinality(Sig(f, S)) - 1
      /\ Cardinality(Sig(g, S)) \in Int
      /\ IsFiniteSet(Sig(g, S))
    BY <1>1, <1>3, <1>4, <1>5, CardEqual
<1> QED
    BY <1>4, <1>6 DEF Offered

\* A stage has become vacant and one who waits was woken.
LEMMA OfferMade ==
    ASSUME NEW S, NEW f, NEW g, NEW v \in Int, NEW w \in Int, w <= v + 1,
           NEW U \in CondSignal({n \in S : f[n] = "wait"}),
           Offered(f, S, v),
           \A n \in S : g[n] = "signalled" <=> n \in U \/ f[n] = "signalled",
           \A n \in S : g[n] = "wait" => f[n] = "wait"
    PROVE  Offered(g, S, w)
<1> DEFINE Wt == {n \in S : f[n] = "wait"}
<1>1. CASE Wt = {}
  <2>1. U = {}
    BY <1>1, CondSignalIs
  <2>2. \A n \in S : g[n] = "signalled" <=> f[n] = "signalled"
    BY <2>1
  <2>3. Sig(g, S) = Sig(f, S)
    BY <2>2 DEF Sig
  <2>4. IsFiniteSet(Sig(g, S))
    BY <2>3, CardEqual DEF Offered
  <2> QED
    BY <1>1, <2>4 DEF Offered
<1>2. CASE Wt # {}
  <2>1. PICK u \in Wt : U = {u}
    BY <1>2, CondSignalIs
  <2>2. u \notin Sig(f, S) /\ \A y : y \in Sig(g, S) <=> y \in Sig(f, S) \/ y = u
    BY <2>1 DEF Sig
  <2>3. /\ IsFiniteSet(Sig(g, S))
        /\ Cardinality(Sig(g, S)) = Cardinality(Sig(f, S)) + 1
        /\ Cardinality(Sig(f, S)) \in Nat
    BY <2>2, AddOne, FS_CardinalityType DEF Offered
  <2>4. Cardinality(Sig(f, S)) >= v
    BY <2>1 DEF Offered
  <2> QED
    BY <2>3, <2>4 DEF Offered
<1> QED
    BY <1>1, <1>2

\* Nobody plays the instrument.
LEMMA EmptyOffer ==
    ASSUME NEW S, NEW f, NEW v, S = {}
    PROVE  Offered(f, S, v)
<1>1. Sig(f, S) = {}
    BY DEF Sig
<1>2. IsFiniteSet(Sig(f, S))
    BY <1>1, CardEqual, FS_EmptySet
<1> QED
    BY <1>2 DEF Offered

\* The least of a set of numbers.
LEMMA LeastOf ==
    ASSUME NEW S, S \subseteq Nat, S # {}
    PROVE  \E x \in S : \A y \in S : x <= y
<1>1. IsWellFoundedOn(OpToRel(<, Nat), Nat)
    BY NatLessThanWellFounded
<1>2. PICK x \in S : \A y \in S : <<y, x>> \notin OpToRel(<, Nat)
    BY <1>1, WFMin
<1>3. \A y \in S : ~(y < x)
    BY <1>2 DEF OpToRel
<1> QED
    BY <1>3

-----------------------------------------------------------------------------
(* The concert, one lemma per action.                                      *)

\* A step of one thread that neither enters nor leaves a stage, calls nobody
\* and is not woken; who gives up a wakeup, or begins to wait, found nothing.
LEMMA MoveInv ==
    ASSUME ConcertInv, NEW m \in Musicians, NEW q \in PlacesOfMusicians,
           pc' = [pc EXCEPT ![m] = q], UNCHANGED <<stageVars, singerVars>>,
           pc[m] \in StagePlaces <=> q \in StagePlaces,
           pc[m] = "duet" <=> q = "duet", pc[m] = "called" <=> q = "called",
           pc[m] = "done" => q = "done", q # "signalled",
           q = "wait" \/ pc[m] = "signalled" => Vacant(m) <= 0 /\ q = "wait"
    PROVE  ConcertInv'
<1> USE DEF ConcertInv, stageVars, singerVars
<1>1. ConcertTypes'
    BY DEF ConcertTypes
<1>2. StagesExclusive'
  <2>1. OnStage' = OnStage
    BY DEF OnStage, ConcertTypes, StagePlaces
  <2> QED
    BY <2>1 DEF StagesExclusive
<1>3. OffersRight'
  <2>1. \A n \in Musicians : n # m => pc'[n] = pc[n]
    BY DEF ConcertTypes
  <2>2. pc'[m] = q /\ free["acoustic"] \in Int /\ free["electric"] \in Int
    BY DEF ConcertTypes, Kinds
  <2>3. ASSUME NEW S, S \subseteq Musicians, NEW v \in Int, Offered(pc, S, v),
               m \in S /\ (q = "wait" \/ pc[m] = "signalled") => v <= 0
        PROVE  Offered(pc', S, v)
    <3>1. /\ \A n \in S : n # m => pc'[n] = pc[n]
          /\ pc'[m] # "signalled"
          /\ m \in S /\ (pc'[m] = "wait" \/ pc[m] = "signalled") => v <= 0
      BY <2>1, <2>2, <2>3
    <3> QED
      BY ONLY Offered(pc, S, v), v \in Int, <3>1, OfferMoved
  <2>4. /\ m \in Acoustic => Vacant(m) = free["acoustic"]
        /\ m \in Electric => Vacant(m) = free["electric"]
        /\ m \in Either => Vacant(m) = free["electric"] + free["acoustic"]
    BY ConcertAssumption DEF Vacant
  <2>5. Offered(pc', Acoustic, free["acoustic"])
    BY <2>2, <2>3, <2>4 DEF OffersRight, Musicians
  <2>6. Offered(pc', Electric, free["electric"])
    BY <2>2, <2>3, <2>4 DEF OffersRight, Musicians
  <2>7. Offered(pc', Either, free["electric"] + free["acoustic"])
    <3> DEFINE v == free["electric"] + free["acoustic"]
    <3>1. v \in Int /\ Offered(pc, Either, v) /\ Either \subseteq Musicians
      BY <2>2 DEF OffersRight, Musicians
    <3>2. m \in Either /\ (q = "wait" \/ pc[m] = "signalled") => v <= 0
      BY <2>4
    <3> HIDE DEF v
    <3>3. Offered(pc', Either, v)
      BY <2>3, <3>1, <3>2
    <3> QED
      BY <3>3 DEF v
  <2> QED
    BY <2>5, <2>6, <2>7 DEF OffersRight, Offered, Sig
<1>4. CountsRight'
  <2>1. AloneIn(pc') = AloneIn(pc) /\ CalledIn(pc') = CalledIn(pc)
    BY DEF AloneIn, CalledIn, ConcertTypes, StagePlaces
  <2>2. /\ Cardinality(AloneIn(pc')) = Cardinality(AloneIn(pc))
        /\ Cardinality(CalledIn(pc')) = Cardinality(CalledIn(pc))
        /\ IsFiniteSet(AloneIn(pc')) <=> IsFiniteSet(AloneIn(pc))
        /\ IsFiniteSet(CalledIn(pc')) <=> IsFiniteSet(CalledIn(pc))
    BY <2>1, CardEqual
  <2> QED
    BY <2>2 DEF CountsRight, AloneIn, CalledIn
<1>5. NamesRight'
  <2>1. \A i \in 1..Len(singersQueue) : singersQueue[i] \in Musicians
    BY ElementOfSeq DEF ConcertTypes, Musicians
  <2> QED
    BY <2>1 DEF NamesRight, ConcertTypes
<1> QED
    BY <1>1, <1>2, <1>3, <1>4, <1>5

\* A timed wait runs out.
LEMMA TimeoutInv ==
    ASSUME ConcertInv, NEW m \in Musicians, Timeout(m)
    PROVE  ConcertInv'
<1> DEFINE q == IF pc[m] = "wait" THEN "expired" ELSE "overtime"
<1>1. /\ pc[m] \in {"wait", "perform"} /\ pc' = [pc EXCEPT ![m] = q]
      /\ UNCHANGED <<stageVars, singerVars>>
    BY DEF Timeout
<1>2. q \in PlacesOfMusicians
    BY DEF PlacesOfMusicians, StagePlaces
<1> QED
    BY <1>1, <1>2, MoveInv DEF StagePlaces

\* A thread finds no stage, and no performance to join.
LEMMA WaitForStageInv ==
    ASSUME ConcertInv, NEW m \in Musicians, WaitForStage(m)
    PROVE  ConcertInv'
BY MoveInv DEF WaitForStage, Looking, StagePlaces, PlacesOfMusicians

\* A thread gives up.
LEMMA ImpatientInv ==
    ASSUME ConcertInv, NEW m \in Musicians, Impatient(m)
    PROVE  ConcertInv'
BY MoveInv DEF Impatient, StagePlaces, PlacesOfMusicians

\* The t-shirts.
LEMMA TShirtInv ==
    ASSUME ConcertInv, NEW m \in Musicians, CollectTShirt(m) \/ GotTShirt(m)
    PROVE  ConcertInv'
<1>1. CASE CollectTShirt(m)
    BY <1>1, MoveInv DEF CollectTShirt, StagePlaces, PlacesOfMusicians
<1>2. CASE GotTShirt(m)
  <2> DEFINE q == IF shirts[m] = 1 THEN "done" ELSE "tshirt"
  <2>1. /\ pc[m] = "collect" /\ pc' = [pc EXCEPT ![m] = q]
        /\ UNCHANGED <<stageVars, singerVars>>
    BY <1>2 DEF GotTShirt
  <2>2. q \in PlacesOfMusicians
    BY DEF PlacesOfMusicians, StagePlaces
  <2> QED
    BY <2>1, <2>2, MoveInv DEF StagePlaces
<1> QED
    BY <1>1, <1>2

\* The names in the queue are musicians' names.
LEMMA QueueOfMusicians ==
    ASSUME ConcertTypes
    PROVE  \A i \in 1..Len(singersQueue) :
                singersQueue[i] \in Singers /\ singersQueue[i] \in Musicians
BY ElementOfSeq DEF ConcertTypes, Musicians

\* getStageNo() finds a stage when the count says there is one.
LEMMA GetStageNoIs ==
    ASSUME ConcertInv, NEW k \in Kinds, free[k] > 0
    PROVE  /\ GetStageNo(k) \in 1..Num(k)
           /\ ~stageNo[k][GetStageNo(k)]
<1> DEFINE S == {n \in 1..Num(k) : ~stageNo[k][n]}
<1>1. free[k] = Cardinality(S) /\ Num(k) \in Nat
    BY ConcertAssumption DEF ConcertInv, StagesExclusive, Num
<1>2. S # {}
  <2> SUFFICES ASSUME S = {}
               PROVE  FALSE
    OBVIOUS
  <2>1. Cardinality(S) = Cardinality({}) /\ Cardinality({}) = 0
    BY CardEqual, FS_EmptySet
  <2> QED
    BY <1>1, <2>1
<1>3. \E x \in S : \A y \in S : x <= y
  <2>1. S \subseteq Nat
    BY <1>1
  <2> HIDE DEF S
  <2> QED
    BY <1>2, <2>1, LeastOf
<1>4. GetStageNo(k) \in S
    BY <1>2, <1>3 DEF GetStageNo
<1> QED
    BY <1>4

\* performanceHandler() up to the performance.
LEMMA GoOnStageInv ==
    ASSUME ConcertInv, NEW m \in Musicians, NEW k \in Kinds, GoOnStage(m, k)
    PROVE  ConcertInv'
<1> DEFINE x == GetStageNo(k)
<1>1. /\ pc[m] \in {"arrive", "signalled"} /\ Vacant(m) > 0 /\ k \in StagesFor(m)
      /\ stageNo' = [stageNo EXCEPT ![k] = [i \in 1..Num(k) |-> @[i] \/ i = x]]
      /\ stage' = [stage EXCEPT ![m] = <<k, x>>]
      /\ free' = [free EXCEPT ![k] = @ - 1]
      /\ performanceNoSigner' = performanceNoSigner + 1
      /\ UNCHANGED <<singersQueue, qReadPos, with, tShirtGuys, shirts>>
    BY DEF GoOnStage, Looking
<1>2. ConcertTypes /\ StagesExclusive /\ OffersRight /\ CountsRight /\ NamesRight
    BY DEF ConcertInv
<1>3. /\ free[k] > 0 /\ free[k] \in Int
      /\ free["acoustic"] \in Int /\ free["electric"] \in Int
    BY <1>1, <1>2, ConcertAssumption DEF StagesFor, Vacant, Kinds, ConcertTypes
<1>4. x \in 1..Num(k) /\ ~stageNo[k][x]
    BY <1>3, GetStageNoIs
<1>5. /\ pc'[m] = "perform"
      /\ \A n \in Musicians : n # m =>
            pc'[n] = pc[n] \/ (n \in Singers /\ pc[n] = "wait" /\ pc'[n] = "signalled")
      /\ pc' \in [Musicians -> PlacesOfMusicians]
  <2>1. PICK W \in CondSignal(Waiters(Singers)) :
            pc' = Awake([pc EXCEPT ![m] = "perform"], W)
    BY DEF GoOnStage
  <2>2. \A n \in W : n \in Singers /\ pc[n] = "wait"
    BY <2>1, CondSignalIs DEF Waiters
  <2> QED
    BY <1>1, <1>2, <2>1, <2>2 DEF Awake, ConcertTypes, PlacesOfMusicians, StagePlaces
<1> HIDE DEF x
<1>6. ConcertTypes'
  <2>1. stage' \in [Musicians -> Kinds \X Int]
    BY <1>1, <1>2, <1>4 DEF ConcertTypes
  <2>2. DOMAIN stageNo' = Kinds
    BY <1>1, <1>2 DEF ConcertTypes
  <2>3. ASSUME NEW j \in Kinds
        PROVE  stageNo'[j] \in [1..Num(j) -> BOOLEAN]
    <3>1. CASE j = k
      BY <1>1, <1>2, <3>1 DEF ConcertTypes
    <3>2. CASE j # k
      BY <1>1, <1>2, <3>2 DEF ConcertTypes
    <3> QED
      BY <3>1, <3>2
  <2>4. free' \in [Kinds -> Int]
    BY <1>1, <1>2, <1>3 DEF ConcertTypes
  <2> QED
    BY <1>1, <1>2, <1>5, <2>1, <2>2, <2>3, <2>4 DEF ConcertTypes
<1>7. OnStage' = OnStage \cup {m} /\ m \notin OnStage
    BY <1>1, <1>5 DEF OnStage
<1>8. /\ \A j \in Kinds : j # k => stageNo'[j] = stageNo[j] /\ free'[j] = free[j]
      /\ free'[k] = free[k] - 1
      /\ \A i \in 1..Num(k) : stageNo'[k][i] <=> stageNo[k][i] \/ i = x
    BY <1>1, <1>2 DEF ConcertTypes
<1>9. StagesExclusive'
  <2>1. ASSUME NEW j \in Kinds
        PROVE  free'[j] = Cardinality({n \in 1..Num(j) : ~stageNo'[j][n]})
    <3>1. CASE j # k
      <4>1. {n \in 1..Num(j) : ~stageNo'[j][n]} = {n \in 1..Num(j) : ~stageNo[j][n]}
        BY <1>8, <3>1
      <4>2. free[j] = Cardinality({n \in 1..Num(j) : ~stageNo[j][n]})
        BY <1>2 DEF StagesExclusive
      <4> QED
        BY <1>8, <3>1, <4>1, <4>2, CardEqual
    <3>2. CASE j = k
      <4> DEFINE S == {n \in 1..Num(k) : ~stageNo[k][n]}
                 T == {n \in 1..Num(k) : ~stageNo'[k][n]}
      <4>1. IsFiniteSet(S)
        <5>1. Num(k) \in Int
          BY ConcertAssumption DEF Num
        <5>2. IsFiniteSet(1..Num(k)) /\ S \in SUBSET (1..Num(k))
          BY <5>1, FS_Interval
        <5> QED
          BY <5>2, FS_Subset
      <4>2. x \in S /\ \A y : y \in T <=> y \in S /\ y # x
        BY <1>4, <1>8
      <4>3. free[k] = Cardinality(S)
        BY <1>2 DEF StagesExclusive
      <4> HIDE DEF S, T
      <4>4. Cardinality(T) = Cardinality(S) - 1
        BY <4>1, <4>2, RemoveOne
      <4>5. free'[k] = Cardinality(T)
        BY <1>8, <4>3, <4>4
      <4> QED
        BY <3>2, <4>5 DEF T
    <3> QED
      BY <3>1, <3>2
  <2>2. /\ stage'[m] = <<k, x>>
        /\ \A n \in Musicians : n # m => stage'[n] = stage[n]
    BY <1>1, <1>2 DEF ConcertTypes
  <2>3. ASSUME NEW n \in OnStage
        PROVE  /\ n # m /\ n \in Musicians /\ stage[n][1] \in Kinds
               /\ stage[n][2] \in 1..Num(stage[n][1])
               /\ stageNo[stage[n][1]][stage[n][2]]
    BY <1>2, <1>7 DEF StagesExclusive, OnStage, ConcertTypes
  <2>4. ASSUME NEW n \in OnStage
        PROVE  /\ stage'[n][2] \in 1..Num(stage'[n][1])
               /\ stageNo'[stage'[n][1]][stage'[n][2]]
               /\ stage'[n] # <<k, x>>
    <3>1. stage'[n] = stage[n]
      BY <2>2, <2>3
    <3>2. CASE stage[n][1] = k
      BY <1>4, <1>8, <2>3, <3>1, <3>2
    <3>3. CASE stage[n][1] # k
      BY <1>8, <2>3, <3>1, <3>3
    <3> QED
      BY <3>2, <3>3
  <2>5. \A n \in OnStage' : stage'[n][2] \in 1..Num(stage'[n][1])
    BY <1>4, <1>7, <2>2, <2>4
  <2>6. \A n \in OnStage' : stageNo'[stage'[n][1]][stage'[n][2]]
    BY <1>4, <1>7, <1>8, <2>2, <2>4
  <2>7. ASSUME NEW n \in OnStage', NEW o \in OnStage', stage'[n] = stage'[o]
        PROVE  n = o
    <3>1. CASE n = m \/ o = m
      BY <1>7, <2>2, <2>4, <2>7, <3>1
    <3>2. CASE n # m /\ o # m
      BY <1>2, <1>7, <2>2, <2>3, <2>7, <3>2 DEF StagesExclusive
    <3> QED
      BY <3>1, <3>2
  <2> QED
    BY <2>1, <2>5, <2>6, <2>7 DEF StagesExclusive
<1>10. OffersRight'
  <2>1. /\ free'["acoustic"] \in Int /\ free'["electric"] \in Int
        /\ free'["acoustic"] <= free["acoustic"]
        /\ free'["electric"] <= free["electric"]
        /\ free'["electric"] + free'["acoustic"] =
                free["electric"] + free["acoustic"] - 1
        /\ k = "acoustic" => free'["acoustic"] = free["acoustic"] - 1
        /\ k = "electric" => free'["electric"] = free["electric"] - 1
    BY <1>3, <1>8 DEF Kinds
  <2>2. ASSUME NEW S, S \in {Acoustic, Electric, Either}
        PROVE  /\ \A n \in S : n # m => pc'[n] = pc[n]
               /\ pc'[m] # "signalled" /\ pc'[m] # "wait"
    BY <1>5, <2>2, ConcertAssumption DEF Musicians
  <2>3. ASSUME NEW S, S \in {Acoustic, Electric, Either}, m \notin S,
               NEW v \in Int, NEW w \in Int, Offered(pc, S, v), w <= v
        PROVE  Offered(pc', S, w)
    <3>1. /\ \A n \in S : pc'[n] = "signalled" <=> pc[n] = "signalled"
          /\ \A n \in S : pc'[n] = "wait" => pc[n] = "wait"
      BY <2>2, <2>3
    <3> QED
      BY <2>3, <3>1, OfferKept
  <2>4. ASSUME NEW S, S \in {Acoustic, Electric, Either},
               NEW v \in Int, NEW w \in Int, Offered(pc, S, v), w <= v - 1
        PROVE  Offered(pc', S, w)
    BY <2>2, <2>4, OfferTaken
  <2>5. Offered(pc', Acoustic, free'["acoustic"])
    <3>1. m \in Acoustic => k = "acoustic"
      BY <1>1 DEF StagesFor
    <3> QED
      BY <1>2, <1>3, <2>1, <2>3, <2>4, <3>1 DEF OffersRight
  <2>6. Offered(pc', Electric, free'["electric"])
    <3>1. m \in Electric => k = "electric"
      BY <1>1, ConcertAssumption DEF StagesFor
    <3> QED
      BY <1>2, <1>3, <2>1, <2>3, <2>4, <3>1 DEF OffersRight
  <2>7. Offered(pc', Either, free'["electric"] + free'["acoustic"])
    <3> DEFINE v == free["electric"] + free["acoustic"]
               w == free'["electric"] + free'["acoustic"]
    <3>1. v \in Int /\ w \in Int /\ w <= v - 1 /\ Offered(pc, Either, v)
      BY <1>2, <1>3, <2>1 DEF OffersRight
    <3> HIDE DEF v, w
    <3>2. Offered(pc', Either, w)
      BY <2>4, <3>1
    <3> QED
      BY <3>2 DEF w
  <2> QED
    BY <2>5, <2>6, <2>7 DEF OffersRight, Offered, Sig
<1>11. CountsRight'
  <2>1. \A y : y \in CalledIn(pc') <=> y \in CalledIn(pc)
    BY <1>1, <1>5 DEF CalledIn
  <2>2. m \notin AloneIn(pc) /\ \A y : y \in AloneIn(pc') <=> y \in AloneIn(pc) \/ y = m
    BY <1>1, <1>5 DEF AloneIn
  <2>3. /\ IsFiniteSet(AloneIn(pc'))
        /\ Cardinality(AloneIn(pc')) = Cardinality(AloneIn(pc)) + 1
    BY <1>2, <2>2, AddOne DEF CountsRight
  <2>4. CalledIn(pc') = CalledIn(pc)
    BY <2>1
  <2>5. /\ Cardinality(CalledIn(pc')) = Cardinality(CalledIn(pc))
        /\ IsFiniteSet(CalledIn(pc')) <=> IsFiniteSet(CalledIn(pc))
    BY <2>4, CardEqual
  <2> QED
    BY <1>1, <1>2, <2>3, <2>5 DEF CountsRight, AloneIn, CalledIn
<1>12. NamesRight'
  <2>1. \A i \in 1..Len(singersQueue) : singersQueue[i] \in Musicians
    BY <1>2, QueueOfMusicians
  <2>2. \A i \in 1..Len(singersQueue) : pc'[singersQueue[i]] = "done"
    BY <1>1, <1>2, <1>5, <2>1 DEF NamesRight
  <2> QED
    BY <1>1, <1>2, <2>2 DEF NamesRight
<1> QED
    BY <1>6, <1>9, <1>10, <1>11, <1>12 DEF ConcertInv

\* A singer joins: the name is queued and one performer is called.
LEMMA JoinAMusicianInv ==
    ASSUME ConcertInv, NEW m \in Musicians, JoinAMusician(m)
    PROVE  ConcertInv'
<1>1. /\ pc[m] \in {"arrive", "signalled"} /\ m \in Singers
      /\ singersQueue' = Append(singersQueue, m)
      /\ UNCHANGED <<free, stageNo, stage, performanceNoSigner, qReadPos, with>>
    BY DEF JoinAMusician, Looking, stageVars
<1>2. ConcertTypes /\ StagesExclusive /\ OffersRight /\ CountsRight /\ NamesRight
    BY DEF ConcertInv
<1> DEFINE Performing == {n \in Musicians : pc[n] = "perform"}
<1>3. PICK W \in CondSignal(Performing) : pc' = Awake([pc EXCEPT ![m] = "done"], W)
    BY DEF JoinAMusician
<1>4. /\ \A n \in W : n \in Performing
      /\ W = {} \/ \E n \in Performing : W = {n}
    BY <1>3, CondSignalIs DEF CondSignal
<1>5. /\ pc'[m] = "done"
      /\ \A n \in Musicians : n # m => pc'[n] = IF n \in W THEN "called" ELSE pc[n]
      /\ pc' \in [Musicians -> PlacesOfMusicians]
    BY <1>1, <1>2, <1>3, <1>4
       DEF Awake, ConcertTypes, PlacesOfMusicians, StagePlaces
<1>6. /\ singersQueue \in Seq(Singers) /\ singersQueue' \in Seq(Singers)
      /\ Len(singersQueue) \in Nat
      /\ Len(singersQueue') = Len(singersQueue) + 1
      /\ \A i \in 1..Len(singersQueue) : singersQueue'[i] = singersQueue[i]
      /\ singersQueue'[Len(singersQueue) + 1] = m
    BY <1>1, <1>2, AppendProperties, LenProperties DEF ConcertTypes
<1>7. ConcertTypes'
    BY <1>1, <1>2, <1>5, <1>6 DEF ConcertTypes
<1>8. StagesExclusive'
  <2>1. OnStage' = OnStage
    BY <1>1, <1>4, <1>5 DEF OnStage
  <2> QED
    BY <1>1, <1>2, <2>1 DEF StagesExclusive
<1>9. OffersRight'
  <2>1. /\ free["acoustic"] \in Int /\ free["electric"] \in Int
        /\ free["electric"] + free["acoustic"] \in Int
    BY <1>2 DEF ConcertTypes, Kinds
  <2>2. ASSUME NEW S, S \in {Acoustic, Electric, Either}, NEW v \in Int,
               Offered(pc, S, v)
        PROVE  Offered(pc', S, v)
    <3>1. \A n \in S : n \in Musicians /\ n # m
      BY <1>1, <2>2, ConcertAssumption DEF Musicians
    <3>2. /\ \A n \in S : pc'[n] = "signalled" <=> pc[n] = "signalled"
          /\ \A n \in S : pc'[n] = "wait" => pc[n] = "wait"
          /\ v <= v
      BY <1>4, <1>5, <3>1
    <3> QED
      BY <2>2, <3>2, OfferKept
  <2>3. /\ Offered(pc', Acoustic, free["acoustic"])
        /\ Offered(pc', Electric, free["electric"])
    BY <1>2, <2>1, <2>2 DEF OffersRight
  <2>4. Offered(pc', Either, free["electric"] + free["acoustic"])
    BY <1>2, <2>1, <2>2 DEF OffersRight
  <2> QED
    BY <1>1, <2>3, <2>4 DEF OffersRight, Offered, Sig
<1>10. CountsRight'
  <2>1. \A y : y \in AloneIn(pc') <=> y \in AloneIn(pc)
    BY <1>1, <1>4, <1>5 DEF AloneIn
  <2>2. AloneIn(pc') = AloneIn(pc)
    BY <2>1
  <2>3. /\ Cardinality(AloneIn(pc')) = Cardinality(AloneIn(pc))
        /\ IsFiniteSet(AloneIn(pc')) <=> IsFiniteSet(AloneIn(pc))
    BY <2>2, CardEqual
  <2>4. Cardinality(CalledIn(pc)) \in Nat /\ qReadPos \in Nat
    BY <1>2, FS_CardinalityType DEF CountsRight, ConcertTypes
  <2>5. /\ IsFiniteSet(CalledIn(pc'))
        /\ qReadPos + Cardinality(CalledIn(pc')) <= Len(singersQueue) + 1
    <3>1. CASE W = {}
      <4>1. CalledIn(pc') = CalledIn(pc)
        BY <1>1, <1>5, <3>1 DEF CalledIn
      <4>2. /\ Cardinality(CalledIn(pc')) = Cardinality(CalledIn(pc))
            /\ IsFiniteSet(CalledIn(pc')) <=> IsFiniteSet(CalledIn(pc))
        BY <4>1, CardEqual
      <4> QED
        BY <1>2, <1>6, <2>4, <4>2 DEF CountsRight
    <3>2. CASE W # {}
      <4>1. PICK c \in Performing : W = {c}
        BY <1>4, <3>2
      <4>2. /\ c \notin CalledIn(pc)
            /\ \A y : y \in CalledIn(pc') <=> y \in CalledIn(pc) \/ y = c
        BY <1>1, <1>5, <4>1 DEF CalledIn
      <4>3. /\ IsFiniteSet(CalledIn(pc'))
            /\ Cardinality(CalledIn(pc')) = Cardinality(CalledIn(pc)) + 1
        BY <1>2, <4>2, AddOne DEF CountsRight
      <4> QED
        BY <1>2, <1>6, <2>4, <4>3 DEF CountsRight
    <3> QED
      BY <3>1, <3>2
  <2> QED
    BY <1>1, <1>2, <1>6, <2>3, <2>5 DEF CountsRight, AloneIn, CalledIn
<1>11. NamesRight'
  <2>1. \A i \in 1..Len(singersQueue) : singersQueue[i] \in Musicians
    BY <1>2, QueueOfMusicians
  <2>2. ASSUME NEW i \in 1..Len(singersQueue')
        PROVE  pc'[singersQueue'[i]] = "done"
    <3>1. CASE i = Len(singersQueue) + 1
      BY <1>5, <1>6, <3>1
    <3>2. CASE i \in 1..Len(singersQueue)
      BY <1>1, <1>2, <1>4, <1>5, <1>6, <2>1, <3>2 DEF NamesRight
    <3> QED
      BY <1>6, <3>1, <3>2
  <2>3. \A i \in 1..Len(singersQueue) : singersQueue[i] # m
    BY <1>1, <1>2 DEF NamesRight
  <2>4. ASSUME NEW i \in 1..Len(singersQueue'), NEW j \in 1..Len(singersQueue'),
               singersQueue'[i] = singersQueue'[j]
        PROVE  i = j
    <3>1. /\ i \in 1..Len(singersQueue) \/ i = Len(singersQueue) + 1
          /\ j \in 1..Len(singersQueue) \/ j = Len(singersQueue) + 1
      BY <1>6
    <3> QED
      BY <1>2, <1>6, <2>3, <2>4, <3>1 DEF NamesRight
  <2>5. ASSUME NEW n \in Musicians, with[n] # NoName
        PROVE  \E i \in 1..qReadPos : with[n] = singersQueue'[i]
    <3>1. PICK i \in 1..qReadPos : with[n] = singersQueue[i]
      BY <1>2, <2>5 DEF NamesRight
    <3>2. Cardinality(CalledIn(pc)) \in Nat /\ qReadPos \in Nat
      BY <1>2, FS_CardinalityType DEF CountsRight, ConcertTypes
    <3>3. i \in 1..Len(singersQueue)
      BY <1>2, <1>6, <3>2 DEF CountsRight
    <3> QED
      BY <1>6, <3>1, <3>3
  <2> QED
    BY <1>1, <1>2, <2>2, <2>4, <2>5 DEF NamesRight
<1> QED
    BY <1>7, <1>8, <1>9, <1>10, <1>11 DEF ConcertInv

\* A performer who was called takes the next name.
LEMMA JoinedInv ==
    ASSUME ConcertInv, NEW m \in Musicians, Joined(m)
    PROVE  ConcertInv'
<1>1. /\ pc[m] = "called" /\ pc' = [pc EXCEPT ![m] = "duet"]
      /\ with' = [with EXCEPT ![m] = IF qReadPos < Len(singersQueue)
                                     THEN singersQueue[qReadPos + 1] ELSE NoName]
      /\ qReadPos' = qReadPos + 1
      /\ performanceNoSigner' = performanceNoSigner - 1
      /\ UNCHANGED <<free, stageNo, stage, singersQueue>>
    BY DEF Joined, stageVars
<1>2. ConcertTypes /\ StagesExclusive /\ OffersRight /\ CountsRight /\ NamesRight
    BY DEF ConcertInv
<1>3. pc'[m] = "duet" /\ \A n \in Musicians : n # m => pc'[n] = pc[n]
    BY <1>1, <1>2 DEF ConcertTypes
<1>4. /\ IsFiniteSet(CalledIn(pc'))
      /\ Cardinality(CalledIn(pc')) = Cardinality(CalledIn(pc)) - 1
      /\ Cardinality(CalledIn(pc)) \in Nat /\ Cardinality(CalledIn(pc')) \in Nat
  <2>1. m \in CalledIn(pc) /\ \A y : y \in CalledIn(pc') <=> y \in CalledIn(pc) /\ y # m
    BY <1>1, <1>3 DEF CalledIn
  <2> QED
    BY <1>2, <2>1, RemoveOne, FS_CardinalityType DEF CountsRight
<1>5. qReadPos \in Nat /\ Len(singersQueue) \in Nat /\ qReadPos < Len(singersQueue)
    BY <1>2, <1>4, LenProperties DEF CountsRight, ConcertTypes
<1>6. /\ qReadPos + 1 \in 1..Len(singersQueue)
      /\ singersQueue[qReadPos + 1] \in Singers
      /\ with'[m] = singersQueue[qReadPos + 1]
      /\ \A n \in Musicians : n # m => with'[n] = with[n]
  <2>1. qReadPos + 1 \in 1..Len(singersQueue)
    BY <1>5
  <2> QED
    BY <1>1, <1>2, <1>5, <2>1, QueueOfMusicians DEF ConcertTypes
<1>7. ConcertTypes'
    BY <1>1, <1>2, <1>5, <1>6 DEF ConcertTypes, PlacesOfMusicians, StagePlaces
<1>8. StagesExclusive'
  <2>1. OnStage' = OnStage
    BY <1>1, <1>3 DEF OnStage
  <2> QED
    BY <1>1, <1>2, <2>1 DEF StagesExclusive
<1>9. OffersRight'
  <2>1. /\ free["acoustic"] \in Int /\ free["electric"] \in Int
        /\ free["electric"] + free["acoustic"] \in Int
    BY <1>2 DEF ConcertTypes, Kinds
  <2>2. ASSUME NEW S, S \in {Acoustic, Electric, Either}, NEW v \in Int,
               Offered(pc, S, v)
        PROVE  Offered(pc', S, v)
    <3>1. /\ \A n \in S : pc'[n] = "signalled" <=> pc[n] = "signalled"
          /\ \A n \in S : pc'[n] = "wait" => pc[n] = "wait"
          /\ v <= v
      BY <1>1, <1>3, <2>2 DEF Musicians
    <3> QED
      BY <2>2, <3>1, OfferKept
  <2>3. /\ Offered(pc', Acoustic, free["acoustic"])
        /\ Offered(pc', Electric, free["electric"])
    BY <1>2, <2>1, <2>2 DEF OffersRight
  <2>4. Offered(pc', Either, free["electric"] + free["acoustic"])
    BY <1>2, <2>1, <2>2 DEF OffersRight
  <2> QED
    BY <1>1, <2>3, <2>4 DEF OffersRight, Offered, Sig
<1>10. CountsRight'
  <2>1. m \in AloneIn(pc) /\ \A y : y \in AloneIn(pc') <=> y \in AloneIn(pc) /\ y # m
    BY <1>1, <1>3 DEF AloneIn
  <2>2. /\ IsFiniteSet(AloneIn(pc'))
        /\ Cardinality(AloneIn(pc')) = Cardinality(AloneIn(pc)) - 1
    BY <1>2, <2>1, RemoveOne DEF CountsRight
  <2>3. qReadPos' + Cardinality(CalledIn(pc')) <= Len(singersQueue')
    BY <1>1, <1>2, <1>4, <1>5 DEF CountsRight
  <2>4. performanceNoSigner' = Cardinality(AloneIn(pc'))
    BY <1>1, <1>2, <2>2 DEF CountsRight
  <2> QED
    BY <1>4, <2>2, <2>3, <2>4 DEF CountsRight, AloneIn, CalledIn
<1>11. NamesRight'
  <2>1. \A i \in 1..Len(singersQueue) : singersQueue[i] \in Musicians
    BY <1>2, QueueOfMusicians
  <2>2. \A i \in 1..Len(singersQueue) : pc'[singersQueue[i]] = "done"
    BY <1>1, <1>2, <1>3, <2>1 DEF NamesRight
  <2>3. ASSUME NEW n \in Musicians, with'[n] # NoName
        PROVE  \E i \in 1..(qReadPos + 1) : with'[n] = singersQueue[i]
    <3>1. CASE n = m
      BY <1>5, <1>6, <3>1
    <3>2. CASE n # m
      BY <1>2, <1>5, <1>6, <2>3, <3>2 DEF NamesRight
    <3> QED
      BY <3>1, <3>2
  <2>4. ASSUME NEW n \in Musicians, with[n] # NoName
        PROVE  with[n] # singersQueue[qReadPos + 1]
    <3>1. PICK i \in 1..qReadPos : with[n] = singersQueue[i]
      BY <1>2, <2>4 DEF NamesRight
    <3>2. i \in 1..Len(singersQueue) /\ i # qReadPos + 1
      BY <1>5
    <3> QED
      BY <1>2, <1>6, <3>1, <3>2 DEF NamesRight
  <2>5. ASSUME NEW n \in Musicians, NEW o \in Musicians,
               with'[n] = with'[o], with'[n] # NoName
        PROVE  n = o
    BY <1>2, <1>6, <2>4, <2>5 DEF NamesRight
  <2> QED
    BY <1>1, <1>2, <2>2, <2>3, <2>5 DEF NamesRight
<1> QED
    BY <1>7, <1>8, <1>9, <1>10, <1>11 DEF ConcertInv

\* performanceHandler() after the performance.
LEMMA EndPerformanceInv ==
    ASSUME ConcertInv, NEW m \in Musicians, EndPerformance(m)
    PROVE  ConcertInv'
<1> DEFINE k == stage[m][1]
           x == stage[m][2]
<1>1. /\ pc[m] \in {"overtime", "duet"}
      /\ stageNo' = [stageNo EXCEPT ![k] = [i \in 1..Num(k) |-> @[i] /\ i # x]]
      /\ stage' = [stage EXCEPT ![m] = NoStage]
      /\ free' = [free EXCEPT ![k] = @ + 1]
      /\ performanceNoSigner' = LessAlone(m)
      /\ UNCHANGED <<singersQueue, qReadPos, with>>
    BY DEF EndPerformance
<1>2. ConcertTypes /\ StagesExclusive /\ OffersRight /\ CountsRight /\ NamesRight
    BY DEF ConcertInv
<1>3. PICK U \in CondSignal(Waiters(Told(k))), V \in CondSignal(Waiters(Either)),
           W \in CondSignal(Waiters(Singers)) :
              pc' = Awake([pc EXCEPT ![m] = "tshirt"], U \cup V \cup W)
    BY DEF EndPerformance
<1>4. /\ k \in Kinds /\ x \in 1..Num(k) /\ stageNo[k][x] /\ m \in OnStage
    BY <1>1, <1>2 DEF StagesExclusive, OnStage, ConcertTypes
<1> HIDE DEF k, x
<1>5. /\ \A n \in U : n \in Told(k) /\ n \in Musicians /\ pc[n] = "wait"
      /\ \A n \in V : n \in Either /\ n \in Musicians /\ pc[n] = "wait"
      /\ \A n \in W : n \in Singers /\ n \in Musicians /\ pc[n] = "wait"
  <2>1. /\ \A n \in U : n \in Waiters(Told(k))
        /\ \A n \in V : n \in Waiters(Either)
        /\ \A n \in W : n \in Waiters(Singers)
    BY <1>3, CondSignalIs
  <2> QED
    BY <2>1 DEF Waiters, Told, Musicians
<1>6. /\ pc'[m] = "tshirt"
      /\ \A n \in Musicians : n # m =>
            pc'[n] = IF n \in U \cup V \cup W THEN "signalled" ELSE pc[n]
      /\ pc' \in [Musicians -> PlacesOfMusicians]
    BY <1>1, <1>2, <1>3, <1>5
       DEF Awake, ConcertTypes, PlacesOfMusicians, StagePlaces
<1>7. /\ \A j \in Kinds : j # k => stageNo'[j] = stageNo[j] /\ free'[j] = free[j]
      /\ free'[k] = free[k] + 1
      /\ \A i \in 1..Num(k) : stageNo'[k][i] <=> stageNo[k][i] /\ i # x
    BY <1>1, <1>2, <1>4 DEF ConcertTypes
<1>8. ConcertTypes'
  <2>1. stage' \in [Musicians -> Kinds \X Int]
    BY <1>1, <1>2 DEF ConcertTypes, NoStage, Kinds
  <2>2. DOMAIN stageNo' = Kinds
    BY <1>1, <1>2 DEF ConcertTypes
  <2>3. ASSUME NEW j \in Kinds
        PROVE  stageNo'[j] \in [1..Num(j) -> BOOLEAN]
    <3>1. CASE j = k
      BY <1>1, <1>2, <1>4, <3>1 DEF ConcertTypes
    <3>2. CASE j # k
      BY <1>1, <1>2, <3>2 DEF ConcertTypes
    <3> QED
      BY <3>1, <3>2
  <2>4. free' \in [Kinds -> Int] /\ performanceNoSigner' \in Int
    BY <1>1, <1>2, <1>4 DEF ConcertTypes, LessAlone
  <2> QED
    BY <1>1, <1>2, <1>6, <2>1, <2>2, <2>3, <2>4 DEF ConcertTypes
<1>9. \A n : n \in OnStage' <=> n \in OnStage /\ n # m
    BY <1>1, <1>5, <1>6 DEF OnStage
<1>10. StagesExclusive'
  <2>1. ASSUME NEW j \in Kinds
        PROVE  free'[j] = Cardinality({n \in 1..Num(j) : ~stageNo'[j][n]})
    <3>1. CASE j # k
      <4>1. {n \in 1..Num(j) : ~stageNo'[j][n]} = {n \in 1..Num(j) : ~stageNo[j][n]}
        BY <1>7, <3>1
      <4>2. free[j] = Cardinality({n \in 1..Num(j) : ~stageNo[j][n]})
        BY <1>2 DEF StagesExclusive
      <4> QED
        BY <1>7, <3>1, <4>1, <4>2, CardEqual
    <3>2. CASE j = k
      <4> DEFINE S == {n \in 1..Num(k) : ~stageNo[k][n]}
                 T == {n \in 1..Num(k) : ~stageNo'[k][n]}
      <4>1. IsFiniteSet(S)
        <5>1. Num(k) \in Int
          BY ConcertAssumption DEF Num
        <5>2. IsFiniteSet(1..Num(k)) /\ S \in SUBSET (1..Num(k))
          BY <5>1, FS_Interval
        <5> QED
          BY <5>2, FS_Subset
      <4>2. x \notin S /\ \A y : y \in T <=> y \in S \/ y = x
        BY <1>4, <1>7
      <4>3. free[k] = Cardinality(S)
        BY <1>2, <1>4 DEF StagesExclusive
      <4> HIDE DEF S, T
      <4>4. Cardinality(T) = Cardinality(S) + 1
        BY <4>1, <4>2, AddOne
      <4>5. free'[k] = Cardinality(T)
        BY <1>7, <4>3, <4>4
      <4> QED
        BY <3>2, <4>5 DEF T
    <3> QED
      BY <3>1, <3>2
  <2>2. ASSUME NEW n \in OnStage'
        PROVE  /\ n \in OnStage /\ n # m /\ n \in Musicians
               /\ stage'[n] = stage[n] /\ stage[n][1] \in Kinds
               /\ stage[n][2] \in 1..Num(stage[n][1])
               /\ stageNo[stage[n][1]][stage[n][2]]
               /\ stage[n] # stage[m]
    BY <1>1, <1>2, <1>4, <1>9 DEF StagesExclusive, OnStage, ConcertTypes
  <2>3. ASSUME NEW n \in OnStage'
        PROVE  stageNo'[stage'[n][1]][stage'[n][2]]
    <3>1. CASE stage[n][1] = k
      <4>1. stage[n] \in Kinds \X Int /\ stage[m] \in Kinds \X Int
        BY <1>2, <2>2 DEF ConcertTypes
      <4>2. stage[n][2] # x
        BY <2>2, <3>1, <4>1 DEF k, x
      <4> QED
        BY <1>7, <2>2, <3>1, <4>2
    <3>2. CASE stage[n][1] # k
      BY <1>7, <2>2, <3>2
    <3> QED
      BY <3>1, <3>2
  <2>4. ASSUME NEW n \in OnStage'
        PROVE  stage'[n][2] \in 1..Num(stage'[n][1])
    BY <2>2
  <2>5. ASSUME NEW n \in OnStage', NEW o \in OnStage', stage'[n] = stage'[o]
        PROVE  n = o
    BY <1>2, <2>2, <2>5 DEF StagesExclusive
  <2> QED
    BY <2>1, <2>3, <2>4, <2>5 DEF StagesExclusive
<1>11. OffersRight'
  <2>1. /\ free["acoustic"] \in Int /\ free["electric"] \in Int
        /\ free'["acoustic"] \in Int /\ free'["electric"] \in Int
        /\ free'["electric"] + free'["acoustic"] =
                free["electric"] + free["acoustic"] + 1
        /\ k = "acoustic" => /\ free'["acoustic"] = free["acoustic"] + 1
                             /\ free'["electric"] = free["electric"]
        /\ k = "electric" => /\ free'["electric"] = free["electric"] + 1
                             /\ free'["acoustic"] = free["acoustic"]
        /\ k = "acoustic" \/ k = "electric"
    <3>1. /\ free["acoustic"] \in Int /\ free["electric"] \in Int
          /\ k = "acoustic" \/ k = "electric"
      BY <1>2, <1>4 DEF Kinds, ConcertTypes
    <3>2. CASE k = "acoustic"
      BY <1>7, <3>1, <3>2 DEF Kinds
    <3>3. CASE k = "electric"
      BY <1>7, <3>1, <3>3 DEF Kinds
    <3> QED
      BY <3>1, <3>2, <3>3
  <2>2. \A n \in Musicians : pc'[n] = "wait" => pc[n] = "wait"
    BY <1>6
  <2>3. \A n \in Musicians : pc'[n] = "signalled" <=>
            n \in U \/ n \in V \/ n \in W \/ pc[n] = "signalled"
    BY <1>1, <1>5, <1>6
  <2>4. \A n \in Acoustic \cup Electric : n \notin V /\ n \notin W
    BY <1>5, ConcertAssumption
  <2>5. \A n \in Either : n \notin U /\ n \notin W
    BY <1>5, ConcertAssumption DEF Told
  <2>6. ASSUME NEW S, S = Told(k), NEW v \in Int, Offered(pc, S, v)
        PROVE  Offered(pc', S, v + 1)
    <3>1. \A n \in S : n \in Musicians /\ n \in Acoustic \cup Electric
      BY <2>6 DEF Told, Musicians
    <3>2. /\ \A n \in S : pc'[n] = "signalled" <=> n \in U \/ pc[n] = "signalled"
          /\ \A n \in S : pc'[n] = "wait" => pc[n] = "wait"
      BY <2>2, <2>3, <2>4, <3>1
    <3>3. U \in CondSignal({n \in S : pc[n] = "wait"})
      BY <1>3, <2>6 DEF Waiters
    <3>4. v + 1 \in Int /\ v + 1 <= v + 1
      OBVIOUS
    <3> QED
      BY <2>6, <3>2, <3>3, <3>4, OfferMade
  <2>7. ASSUME NEW S, S \in {Acoustic, Electric}, S # Told(k), NEW v \in Int,
               Offered(pc, S, v)
        PROVE  Offered(pc', S, v)
    <3>1. \A n \in S : n \in Musicians /\ n \notin U /\ n \notin V /\ n \notin W
      BY <1>5, <2>4, <2>7, ConcertAssumption DEF Told, Musicians
    <3>2. /\ \A n \in S : pc'[n] = "signalled" <=> pc[n] = "signalled"
          /\ \A n \in S : pc'[n] = "wait" => pc[n] = "wait"
          /\ v <= v
      BY <2>2, <2>3, <3>1
    <3> QED
      BY <2>7, <3>2, OfferKept
  <2>8. Offered(pc', Either, free'["electric"] + free'["acoustic"])
    <3> DEFINE v == free["electric"] + free["acoustic"]
               w == free'["electric"] + free'["acoustic"]
    <3>1. v \in Int /\ w \in Int /\ w <= v + 1 /\ Offered(pc, Either, v)
      BY <1>2, <2>1 DEF OffersRight
    <3> HIDE DEF v, w
    <3>2. /\ \A n \in Either : pc'[n] = "signalled" <=> n \in V \/ pc[n] = "signalled"
          /\ \A n \in Either : pc'[n] = "wait" => pc[n] = "wait"
      BY <2>2, <2>3, <2>5 DEF Musicians
    <3>3. V \in CondSignal({n \in Either : pc[n] = "wait"})
      BY <1>3 DEF Waiters
    <3>4. Offered(pc', Either, w)
      BY <3>1, <3>2, <3>3, OfferMade
    <3> QED
      BY <3>4 DEF w
  <2>9. /\ Offered(pc', Acoustic, free'["acoustic"])
        /\ Offered(pc', Electric, free'["electric"])
    <3>1. /\ Offered(pc, Acoustic, free["acoustic"])
          /\ Offered(pc, Electric, free["electric"])
      BY <1>2 DEF OffersRight
    <3>2. CASE k = "acoustic"
      <4>1. Told(k) = Acoustic
        BY <3>2 DEF Told
      <4>2. Offered(pc', Acoustic, free["acoustic"] + 1)
        BY <2>1, <2>6, <3>1, <4>1
      <4>3. Offered(pc', Electric, free["electric"])
        <5>1. CASE Electric = Acoustic
          BY <2>1, <3>1, <5>1, ConcertAssumption, EmptyOffer
        <5>2. CASE Electric # Acoustic
          BY <2>1, <2>7, <3>1, <4>1, <5>2
        <5> QED
          BY <5>1, <5>2
      <4> QED
        BY <2>1, <3>2, <4>2, <4>3
    <3>3. CASE k = "electric"
      <4>1. Told(k) = Electric
        BY <3>3 DEF Told
      <4>2. Offered(pc', Electric, free["electric"] + 1)
        BY <2>1, <2>6, <3>1, <4>1
      <4>3. Offered(pc', Acoustic, free["acoustic"])
        <5>1. CASE Electric = Acoustic
          BY <2>1, <3>1, <5>1, ConcertAssumption, EmptyOffer
        <5>2. CASE Electric # Acoustic
          BY <2>1, <2>7, <3>1, <4>1, <5>2
        <5> QED
          BY <5>1, <5>2
      <4> QED
        BY <2>1, <3>3, <4>2, <4>3
    <3> QED
      BY <2>1, <3>2, <3>3
  <2> QED
    BY <2>8, <2>9 DEF OffersRight, Offered, Sig
<1>12. CountsRight'
  <2>1. \A y : y \in CalledIn(pc') <=> y \in CalledIn(pc)
    BY <1>1, <1>5, <1>6 DEF CalledIn
  <2>2. CalledIn(pc') = CalledIn(pc)
    BY <2>1
  <2>3. /\ Cardinality(CalledIn(pc')) = Cardinality(CalledIn(pc))
        /\ IsFiniteSet(CalledIn(pc')) <=> IsFiniteSet(CalledIn(pc))
    BY <2>2, CardEqual
  <2>4. /\ IsFiniteSet(AloneIn(pc'))
        /\ performanceNoSigner' = Cardinality(AloneIn(pc'))
    <3>1. CASE pc[m] = "overtime"
      <4>1. /\ m \in AloneIn(pc)
            /\ \A y : y \in AloneIn(pc') <=> y \in AloneIn(pc) /\ y # m
        BY <1>1, <1>5, <1>6, <3>1 DEF AloneIn
      <4>2. /\ IsFiniteSet(AloneIn(pc'))
            /\ Cardinality(AloneIn(pc')) = Cardinality(AloneIn(pc)) - 1
        BY <1>2, <4>1, RemoveOne DEF CountsRight
      <4> QED
        BY <1>1, <1>2, <3>1, <4>2 DEF CountsRight, LessAlone
    <3>2. CASE pc[m] # "overtime"
      <4>1. \A y : y \in AloneIn(pc') <=> y \in AloneIn(pc)
        BY <1>1, <1>5, <1>6, <3>2 DEF AloneIn
      <4>2. AloneIn(pc') = AloneIn(pc)
        BY <4>1
      <4>3. /\ Cardinality(AloneIn(pc')) = Cardinality(AloneIn(pc))
            /\ IsFiniteSet(AloneIn(pc')) <=> IsFiniteSet(AloneIn(pc))
        BY <4>2, CardEqual
      <4> QED
        BY <1>1, <1>2, <3>2, <4>3 DEF CountsRight, LessAlone
    <3> QED
      BY <3>1, <3>2
  <2> QED
    BY <1>1, <1>2, <2>3, <2>4 DEF CountsRight, AloneIn, CalledIn
<1>13. NamesRight'
  <2>1. \A i \in 1..Len(singersQueue) : singersQueue[i] \in Musicians
    BY <1>2, QueueOfMusicians
  <2>2. \A i \in 1..Len(singersQueue) : pc'[singersQueue[i]] = "done"
    BY <1>1, <1>2, <1>5, <1>6, <2>1 DEF NamesRight
  <2> QED
    BY <1>1, <1>2, <2>2 DEF NamesRight
<1> QED
    BY <1>8, <1>10, <1>11, <1>12, <1>13 DEF ConcertInv

\* The concert as main() starts it.
LEMMA InitConcertInv == ConcertInit => ConcertInv
<1> SUFFICES ASSUME ConcertInit
             PROVE  ConcertInv
    OBVIOUS
<1>1. NumAcoustic \in Nat /\ NumElectric \in Nat /\ \A k \in Kinds : Num(k) \in Nat
    BY ConcertAssumption DEF Num
<1>2. ConcertTypes
    BY <1>1, EmptySeq DEF ConcertInit, ConcertTypes, PlacesOfMusicians, Kinds, NoStage
<1>3. StagesExclusive
  <2>1. OnStage = {}
    BY DEF OnStage, ConcertInit
  <2>2. ASSUME NEW k \in Kinds
        PROVE  free[k] = Cardinality({n \in 1..Num(k) : ~stageNo[k][n]})
    <3>1. {n \in 1..Num(k) : ~stageNo[k][n]} = 1..Num(k)
      BY DEF ConcertInit
    <3>2. Cardinality(1..Num(k)) = Num(k)
      BY <1>1, FS_Interval
    <3> QED
      BY <3>1, <3>2, CardEqual DEF ConcertInit
  <2> QED
    BY <2>1, <2>2 DEF StagesExclusive
<1>4. OffersRight
  <2>1. ASSUME NEW S, S \in {Acoustic, Electric, Either}
        PROVE  /\ IsFiniteSet(Sig(pc, S))
               /\ ~(\E n \in S : pc[n] = "wait")
    <3>1. \A n \in S : pc[n] = "arrive"
      BY <2>1 DEF ConcertInit, Musicians
    <3>2. Sig(pc, S) = {}
      BY <3>1 DEF Sig
    <3> QED
      BY <3>1, <3>2, CardEqual, FS_EmptySet
  <2> QED
    BY <2>1 DEF OffersRight, Offered
<1>5. CountsRight
  <2>1. AloneIn(pc) = {} /\ CalledIn(pc) = {}
    BY DEF AloneIn, CalledIn, ConcertInit
  <2>2. /\ IsFiniteSet(AloneIn(pc)) /\ IsFiniteSet(CalledIn(pc))
        /\ Cardinality(AloneIn(pc)) = 0 /\ Cardinality(CalledIn(pc)) = 0
    BY <2>1, CardEqual, FS_EmptySet
  <2> QED
    BY <2>2, EmptySeq DEF CountsRight, ConcertInit
<1>6. NamesRight
    BY EmptySeq DEF NamesRight, ConcertInit
<1> QED
    BY <1>2, <1>3, <1>4, <1>5, <1>6 DEF ConcertInv

LEMMA NextConcertInv == ConcertInv /\ [ConcertNext]_concertVars => ConcertInv'
<1> SUFFICES ASSUME ConcertInv, [ConcertNext]_concertVars
             PROVE  ConcertInv'
    OBVIOUS
<1>1. CASE UNCHANGED concertVars
  <2>1. UNCHANGED <<pc, free, stageNo, stage, performanceNoSigner, singersQueue,
                    qReadPos, with>>
    BY <1>1 DEF concertVars, stageVars, singerVars
  <2>2. ConcertTypes' /\ NamesRight'
    BY <2>1 DEF ConcertInv, ConcertTypes, NamesRight
  <2>3. StagesExclusive'
    BY <2>1 DEF ConcertInv, StagesExclusive, OnStage
  <2>4. OffersRight'
    BY <2>1 DEF ConcertInv, OffersRight, Offered, Sig
  <2>5. CountsRight'
    BY <2>1 DEF ConcertInv, CountsRight, AloneIn, CalledIn
  <2> QED
    BY <2>2, <2>3, <2>4, <2>5 DEF ConcertInv
<1>2. ASSUME NEW m \in Musicians, Musician(m)
      PROVE  ConcertInv'
    BY <1>2, TimeoutInv, WaitForStageInv, ImpatientInv, GoOnStageInv,
       JoinAMusicianInv, JoinedInv, EndPerformanceInv, TShirtInv DEF Musician
<1> QED
    BY <1>1, <1>2 DEF ConcertNext

LEMMA ConcertInvariance == Spec => []ConcertInv
<1>1. Init => ConcertInv
    BY InitConcertInv DEF Init
<1>2. ConcertInv /\ [Next]_<<program, driveVars, concertVars, sortVars>> => ConcertInv'
    BY NextConcertInv DEF Next
<1> QED
    BY <1>1, <1>2, PTL DEF Spec

\* A stage has one performer, the counts of free stages are right, and no
\* musician waits next to a stage that nobody woken is about to look at,
\* however signals and timeouts race.
THEOREM NoStageIsIdle == Spec => []NoIdleStage
<1>1. ConcertInv => NoIdleStage
  <2> SUFFICES ASSUME ConcertInv
               PROVE  StageOffered
    BY DEF NoIdleStage, ConcertInv
  <2> SUFFICES ASSUME NEW S \in {Acoustic, Electric, Either}, NEW m \in Waiters(S)
               PROVE  Cardinality({n \in S : pc[n] = "signalled"}) >= Vacant(m)
    BY DEF StageOffered
  <2>1. m \in S /\ pc[m] = "wait"
    BY DEF Waiters
  <2>2. /\ m \in Acoustic => Vacant(m) = free["acoustic"]
        /\ m \in Electric => Vacant(m) = free["electric"]
        /\ m \in Either => Vacant(m) = free["electric"] + free["acoustic"]
    BY ConcertAssumption DEF Vacant
  <2> QED
    BY <2>1, <2>2 DEF ConcertInv, OffersRight, Offered, Sig
<1> QED
    BY <1>1, ConcertInvariance, PTL

\* A performer takes the name of a singer who has really come, no singer sings
\* twice or on a stage of its own at the same time, and the performances open
\* to singers are counted right.
THEOREM SingersAreReal == Spec => []SingersReal
<1>1. ConcertInv => SingersReal
  <2> SUFFICES ASSUME ConcertInv
               PROVE  SingersReal
    OBVIOUS
  <2>1. ConcertTypes /\ CountsRight /\ NamesRight
    BY DEF ConcertInv
  <2>2. PerformancesCounted
    <3>1. {m \in OnStage : pc[m] # "duet"} = AloneIn(pc)
      BY DEF OnStage, AloneIn
    <3> QED
      BY <2>1, <3>1, CardEqual DEF PerformancesCounted, CountsRight
  <2>3. qReadPos \in Nat /\ Len(singersQueue) \in Nat /\ qReadPos <= Len(singersQueue)
    BY <2>1, FS_CardinalityType, LenProperties DEF CountsRight, ConcertTypes
  <2>4. ASSUME NEW m \in OnStage, NEW n \in OnStage, with[m] = n
        PROVE  FALSE
    <3>1. m \in Musicians /\ n \in Musicians /\ pc[n] # "done"
      BY DEF OnStage
    <3>2. with[m] # NoName
      BY <2>4, <3>1, ConcertAssumption
    <3>3. PICK i \in 1..qReadPos : with[m] = singersQueue[i]
      BY <2>1, <3>1, <3>2 DEF NamesRight
    <3>4. i \in 1..Len(singersQueue)
      BY <2>3
    <3> QED
      BY <2>1, <2>4, <3>1, <3>3, <3>4 DEF NamesRight
  <2> QED
    BY <2>1, <2>2, <2>3, <2>4 DEF SingersReal, NamesRight
<1> QED
    BY <1>1, ConcertInvariance, PTL

-----------------------------------------------------------------------------
(***************************************************************************)
(* The file transfer.                                                      *)
(***************************************************************************)

\* The names asked for, and NULL that getString() may return.
Words == {NoFile} \cup UNION {{x[k] : k \in DOMAIN x} : x \in GetCalls}
\* What files are made of.
Bytes == UNION {{x[k] : k \in DOMAIN x} : x \in Contents}
Items == [str : Words \cup Int] \cup [ack : {1}] \cup [byte : Bytes]

ClientPlaces == {"gone", "prompt", "ack", "size", "file", "recv"}
ServerPlaces == {"accept", "count", "names", "size", "sizeAck", "file", "send",
                 "fileAck", "dead"}

TransferTypes ==
    /\ cl \in [at : ClientPlaces, args : Seq(Words), i : Nat, sizes : Seq(Int),
               left : Int, off : Nat]
    /\ sv \in [at : ServerPlaces, n : Nat, names : Seq(Words), i : Nat,
               sizes : Seq(Int), left : Int, off : Nat]
    /\ toServer \in Seq(Items)
    /\ toClient \in Seq(Items)
    /\ local \in [Files -> Seq(Bytes) \cup {NoFile}]
    /\ remote \in [Files -> Contents \cup {NoFile}]
    /\ open \in BOOLEAN
    /\ cl.at = "gone" <=> ~open

\* s holds the sizes of the first names.
SizesOf(s, names) ==
    Len(s) <= Len(names) /\ \A j \in 1..Len(s) : s[j] = LengthOf(names[j])

\* x is a string of S.
IsStr(x, S) == "str" \in DOMAIN x /\ x = Str(x.str) /\ x.str \in S

AllAcks(s) == \A j \in 1..Len(s) : s[j] = Ack
\* Acknowledgements, then the number of files of the next get.
AcksAndCount(s) ==
    /\ Len(s) > 0 /\ IsStr(s[Len(s)], Nat \ {0})
    /\ \A j \in 1..Len(s) : j < Len(s) => s[j] = Ack

\* The bytes of x from the offset on.
BytesOf(s, x, base) ==
    /\ base + Len(s) <= Len(x)
    /\ \A j \in 1..Len(s) : s[j] = Byte(x[base + j])

\* The files from index i on that are sent, each acknowledged once.
Owed(sizes, i) == Cardinality({j \in DOMAIN sizes : j >= i /\ sizes[j] >= 0})

\* The acknowledgements the server has yet to read in this get.
Due == CASE sv.at = "sizeAck" -> 1 + Owed(sv.sizes, 1)
         [] sv.at \in {"file", "send", "fileAck", "dead"} -> Owed(sv.sizes, sv.i)
         [] OTHER -> 0

\* The server has all names and has sent all sizes.
Answered == \/ sv.at \in {"file", "send", "fileAck"}
            \/ sv.at = "sizeAck" /\ sv.i = sv.n

\* Where the server is in its get.
ServerRight ==
    /\ sv.at = "accept" => ~open
    /\ sv.at \in {"names", "size", "sizeAck", "send", "fileAck"} => sv.i \in 1..sv.n
    /\ sv.at = "names" => Len(sv.names) = sv.i - 1 /\ sv.sizes = <<>>
    /\ sv.at \in {"size", "sizeAck", "file", "send", "fileAck"} =>
            Len(sv.names) = sv.n /\ SizesOf(sv.sizes, sv.names)
    /\ sv.at = "size" => Len(sv.sizes) = sv.i - 1
    /\ sv.at = "sizeAck" => Len(sv.sizes) = sv.i
    /\ sv.at \in {"file", "send", "fileAck"} => Len(sv.sizes) = sv.n
    /\ sv.at = "file" => sv.i \in 1..(sv.n + 1)
    /\ sv.at \in {"send", "fileAck"} => sv.sizes[sv.i] >= 0
    /\ sv.at = "send" => sv.left = sv.sizes[sv.i] - sv.off /\ sv.left >= 0
    /\ sv.at = "fileAck" => sv.off = sv.sizes[sv.i]

\* What a client that has gone may leave on its way: the answers that the
\* server expects, or some of them, and the string that it expects next.
Left ==
    /\ sv.at = "count" =>
            toServer = <<>> \/ (Len(toServer) = 1 /\ AcksAndCount(toServer))
    /\ sv.at = "names" =>
            toServer = <<>> \/ (Len(toServer) = 1 /\ IsStr(toServer[1], Words))
    /\ sv.at = "size" => toServer = <<>>
    /\ sv.at = "sizeAck" /\ sv.i < sv.n => AllAcks(toServer) /\ Len(toServer) <= 1
    /\ Answered =>
            \/ AllAcks(toServer) /\ Len(toServer) <= Due
            \/ AcksAndCount(toServer) /\ Len(toServer) = Due + 1

\* The bytes the client has of file k of the get.
Got(k) ==
    IF cl.at \in {"prompt", "ack"} \/ k < cl.i
    THEN IF sv.sizes[k] >= 0 THEN sv.sizes[k] ELSE 0
    ELSE IF cl.at = "recv" /\ k = cl.i THEN cl.off ELSE 0

\* The first file the server has not begun to send.
NotBegun == CASE sv.at = "sizeAck" -> 1
              [] sv.at = "file" -> sv.i
              [] OTHER -> sv.i + 1

\* The bytes on their way are those between what the client has of a file
\* and what the server has sent of it.
StreamRight ==
    /\ \A k \in 1..sv.n : k >= NotBegun => Got(k) = 0
    /\ sv.at \in {"sizeAck", "file"} => toClient = <<>>
    /\ sv.at \in {"send", "fileAck", "dead"} =>
            BytesOf(toClient, remote[sv.names[sv.i]], Got(sv.i))
    /\ sv.at \in {"send", "fileAck"} => Got(sv.i) + Len(toClient) = sv.off
    /\ sv.at = "dead" => Got(sv.i) + Len(toClient) < sv.sizes[sv.i]

\* Client and server are in the same get, and the client has all sizes.
SameGet ==
    /\ Answered \/ (sv.at = "dead" /\ sv.i \in 1..sv.n)
    /\ sv.n = Len(cl.args) /\ sv.names = cl.args /\ sv.sizes = cl.sizes
    /\ AllAcks(toServer)
    /\ Len(toServer) + Owed(cl.sizes, cl.i) = Due
    /\ StreamRight

\* The client's file begins with that of the server.
HeldIn(x, u) == /\ x # NoFile /\ Len(u) <= Len(x)
                /\ \A j \in 1..Len(u) : x[j] = u[j]
Held(f) == HeldIn(local[f], remote[f])

Fetching ==
    /\ Len(cl.sizes) = Len(cl.args) /\ SizesOf(cl.sizes, cl.args)
    /\ IF cl.at = "prompt" THEN Len(cl.args) = 0 \/ cl.i = Len(cl.args) + 1
       ELSE cl.i \in 1..(Len(cl.args) + 1)
    /\ \A k \in 1..Len(cl.args) : k < cl.i /\ cl.sizes[k] >= 0 => Held(cl.args[k])
    /\ cl.at = "recv" =>
        /\ cl.i <= Len(cl.args) /\ cl.sizes[cl.i] >= 0
        /\ cl.left = cl.sizes[cl.i] - cl.off /\ cl.left >= 0
        /\ local[cl.args[cl.i]] # NoFile
        /\ cl.off <= Len(local[cl.args[cl.i]])
        /\ \A j \in 1..cl.off :
                local[cl.args[cl.i]][j] = remote[cl.args[cl.i]][j]
    /\ \/ SameGet
       \/ /\ sv.at = "count" /\ Owed(cl.sizes, cl.i) = 0
          /\ toServer = <<>> /\ toClient = <<>>

\* The client has sent how many files it wants: the server may still be in the
\* get before, or be asking for names.
Asking ==
    /\ cl.args # <<>> /\ cl.sizes = <<>>
    /\ \/ /\ cl.i = 0 /\ toClient = <<>>
          /\ AcksAndCount(toServer) /\ Len(toServer) = Due + 1
          /\ toServer[Due + 1] = Str(Len(cl.args))
          /\ sv.at = "count" \/ (Answered /\ StreamRight)
       \/ /\ sv.at = "names" /\ sv.n = Len(cl.args)
          /\ \A j \in 1..Len(sv.names) : sv.names[j] = cl.args[j]
          /\ \/ /\ cl.i = sv.i /\ toClient = <<>>
                /\ toServer = <<Str(cl.args[cl.i])>>
             \/ cl.i = sv.i - 1 /\ toServer = <<>> /\ toClient = <<Ack>>
       \/ /\ sv.i = 1 /\ sv.n = Len(cl.args) /\ sv.names = cl.args
          /\ cl.i = Len(cl.args) /\ toServer = <<>>
          /\ \/ sv.at = "size" /\ toClient = <<Ack>>
             \/ sv.at = "sizeAck" /\ toClient = <<Ack, Str(LengthOf(cl.args[1]))>>

\* The client reads the sizes.
Sizing ==
    /\ cl.i \in 1..Len(cl.args) /\ Len(cl.sizes) = cl.i - 1
    /\ SizesOf(cl.sizes, cl.args)
    /\ sv.n = Len(cl.args) /\ sv.names = cl.args
    /\ \/ sv.at = "size" /\ sv.i = cl.i /\ toServer = <<>> /\ toClient = <<>>
       \/ /\ sv.at = "sizeAck" /\ sv.i = cl.i /\ toServer = <<>>
          /\ toClient = <<Str(LengthOf(cl.args[cl.i]))>>
       \/ sv.at = "sizeAck" /\ sv.i = cl.i - 1 /\ toServer = <<Ack>> /\ toClient = <<>>

Meet ==
    CASE cl.at = "gone" -> Left
      [] cl.at \in {"prompt", "file", "recv"} -> Fetching
      [] cl.at = "ack" -> Asking
      [] cl.at = "size" -> Sizing

TransferInv ==
    /\ fault \in BOOLEAN
    /\ ~fault => TransferTypes /\ ServerRight /\ Meet

-----------------------------------------------------------------------------
(* Sizes, contents and counts.                                             *)

\* What the assumptions on the files and on the arguments of get give.
LEMMA ContentsAreSeqs ==
    /\ \A x \in Contents : x \in Seq(Bytes)
    /\ NoFile \notin Seq(Bytes) /\ NoFile \notin Contents
    /\ Words # {} /\ NoFile \in Words
    /\ \A x \in GetCalls : x \in Seq(Words)
    /\ CHUNK \in Nat \ {0}
<1>1. ASSUME NEW x \in Contents PROVE x \in Seq(Bytes)
  <2>1. x \in Seq({x[k] : k \in DOMAIN x})
    BY TransferAssumption DEF IsSeq
  <2>2. {x[k] : k \in DOMAIN x} \subseteq Bytes
    BY DEF Bytes
  <2> QED BY <2>1, <2>2, SeqMonotonic
<1>2. ASSUME NEW x \in GetCalls PROVE x \in Seq(Words)
  <2>1. x \in Seq({x[k] : k \in DOMAIN x})
    BY TransferAssumption DEF IsSeq
  <2>2. {x[k] : k \in DOMAIN x} \subseteq Words
    BY DEF Words
  <2> QED BY <2>1, <2>2, SeqMonotonic
<1>3. NoFile \notin Seq(Bytes)
  BY TransferAssumption DEF Bytes
<1>4. NoFile \notin Contents
  BY <1>1, <1>3
<1> QED BY <1>1, <1>2, <1>3, <1>4, TransferAssumption DEF Words

\* The file of a name with a size.
LEMMA SizeOfFile ==
    ASSUME TransferTypes, NEW w
    PROVE  /\ LengthOf(w) \in Int /\ LengthOf(w) >= -1
           /\ LengthOf(w) >= 0 =>
                /\ w \in Files /\ remote[w] \in Seq(Bytes)
                /\ LengthOf(w) = Len(remote[w]) /\ LengthOf(w) \in Nat
<1>1. CASE w \in Files /\ Kind[w] \in {"file", "link"} /\ remote[w] # NoFile
  <2>1. remote[w] \in Seq(Bytes)
    BY <1>1, ContentsAreSeqs DEF TransferTypes
  <2> QED BY <1>1, <2>1, LenProperties DEF LengthOf
<1>2. CASE ~(w \in Files /\ Kind[w] \in {"file", "link"} /\ remote[w] # NoFile)
  BY <1>2 DEF LengthOf
<1> QED BY <1>1, <1>2

\* The files still to be sent are finitely many.
LEMMA OwedFinite ==
    ASSUME NEW s \in Seq(Int), NEW i
    PROVE  /\ IsFiniteSet({j \in DOMAIN s : j >= i /\ s[j] >= 0})
           /\ Owed(s, i) \in Nat
<1>1. {j \in DOMAIN s : j >= i /\ s[j] >= 0} \subseteq 1..Len(s)
  BY LenProperties
<1>2. IsFiniteSet({j \in DOMAIN s : j >= i /\ s[j] >= 0})
  BY <1>1, FS_Interval, FS_Subset, LenProperties
<1> QED BY <1>2, FS_CardinalityType DEF Owed

\* One file fewer.
LEMMA OwedStep ==
    ASSUME NEW s \in Seq(Int), NEW i \in 1..Len(s)
    PROVE  /\ Owed(s, i) \in Nat /\ Owed(s, i + 1) \in Nat
           /\ Owed(s, i) = Owed(s, i + 1) + (IF s[i] >= 0 THEN 1 ELSE 0)
<1> DEFINE A == {j \in DOMAIN s : j >= i /\ s[j] >= 0}
           B == {j \in DOMAIN s : j >= i + 1 /\ s[j] >= 0}
<1>1. Owed(s, i) = Cardinality(A) /\ Owed(s, i + 1) = Cardinality(B)
  BY DEF Owed
<1>2. IsFiniteSet(A) /\ IsFiniteSet(B) /\ Owed(s, i) \in Nat /\ Owed(s, i + 1) \in Nat
  BY OwedFinite
<1>3. s[i] \in Int /\ i \in DOMAIN s /\ DOMAIN s = 1..Len(s) /\ Len(s) \in Nat
  BY LenProperties
<1>4. CASE s[i] >= 0
  <2>1. A = B \cup {i} /\ i \notin B
    BY <1>3, <1>4
  <2> HIDE DEF A, B
  <2> QED BY <1>1, <1>2, <1>4, <2>1, FS_AddElement
<1>5. CASE ~(s[i] >= 0)
  <2>1. A = B
    BY <1>3, <1>5
  <2> HIDE DEF A, B
  <2> QED BY <1>1, <1>2, <1>5, <2>1
<1> QED BY <1>4, <1>5

\* None left to send.
LEMMA OwedEnd ==
    ASSUME NEW s \in Seq(Int), NEW i \in Nat, i > Len(s) \/ s = <<>>
    PROVE  Owed(s, i) = 0
<1>1. {j \in DOMAIN s : j >= i /\ s[j] >= 0} = {}
  BY LenProperties
<1> QED BY <1>1, FS_EmptySet DEF Owed

\* More from an earlier index, by one at least if its file is sent.
LEMMA OwedMore ==
    ASSUME NEW s \in Seq(Int), NEW i \in Nat, NEW j \in Nat, i <= j
    PROVE  /\ Owed(s, j) <= Owed(s, i)
           /\ i < j /\ i \in 1..Len(s) /\ s[i] >= 0 => Owed(s, j) < Owed(s, i)
<1>0. ASSUME NEW k \in Nat, NEW m \in Nat, k <= m PROVE Owed(s, m) <= Owed(s, k)
  <2> DEFINE A == {x \in DOMAIN s : x >= k /\ s[x] >= 0}
             B == {x \in DOMAIN s : x >= m /\ s[x] >= 0}
  <2>1. B \subseteq A
    <3>1. DOMAIN s \subseteq Nat
      BY LenProperties
    <3> QED BY <1>0, <3>1
  <2>2. IsFiniteSet(A)
    BY OwedFinite
  <2>3. Cardinality(B) <= Cardinality(A)
    <3> HIDE DEF A, B
    <3> QED BY <2>1, <2>2, FS_Subset
  <2> QED BY <2>3 DEF Owed
<1>1. Owed(s, j) <= Owed(s, i)
  BY <1>0
<1>2. ASSUME i < j, i \in 1..Len(s), s[i] >= 0 PROVE Owed(s, j) < Owed(s, i)
  <2>1. Owed(s, j) <= Owed(s, i + 1)
    BY <1>0, <1>2
  <2>2. Owed(s, i) = Owed(s, i + 1) + 1
    BY <1>2, OwedStep
  <2>3. Owed(s, i) \in Nat /\ Owed(s, i + 1) \in Nat /\ Owed(s, j) \in Nat
    BY OwedFinite
  <2> QED BY <2>1, <2>2, <2>3
<1> QED BY <1>1, <1>2

-----------------------------------------------------------------------------
(* Items and streams.                                                      *)

\* A string, an acknowledgement and a byte are told apart.
LEMMA ItemFacts ==
    /\ \A s : s # <<>> /\ s[1] = Ack => IsAck(s)
    /\ \A s, v : s[1] = Str(v) => ~IsAck(s)
    /\ \A s, S : Len(s) = 1 /\ IsStr(s[1], S) => IsString(s) /\ s[1].str \in S
    /\ \A S : ~IsStr(Ack, S)
    /\ \A v, S : v \in S => IsStr(Str(v), S)
    /\ \A v : Str(v).str = v /\ "str" \in DOMAIN Str(v)
    /\ Ack \in Items
    /\ \A v \in Words \cup Int : Str(v) \in Items
    /\ \A b \in Bytes : Byte(b) \in Items /\ Byte(b).byte = b
BY DEF IsAck, IsString, IsStr, Ack, Str, Byte, Items

\* The next item of a stream, and the rest.
LEMMA HeadOff ==
    ASSUME NEW s \in Seq(Items), s # <<>>
    PROVE  /\ Len(s) \in Nat \ {0} /\ s[1] = Head(s) /\ s[1] \in Items
           /\ Tail(s) \in Seq(Items) /\ Len(Tail(s)) = Len(s) - 1
           /\ \A j \in 1..(Len(s) - 1) : Tail(s)[j] = s[j + 1]
BY HeadTailProperties, LenProperties, EmptySeq

\* One item more at the end of a stream.
LEMMA ItemAdded ==
    ASSUME NEW s \in Seq(Items), NEW x \in Items
    PROVE  /\ Len(s) \in Nat
           /\ Append(s, x) \in Seq(Items) /\ Len(Append(s, x)) = Len(s) + 1
           /\ Append(s, x) # <<>>
           /\ Append(s, x)[Len(s) + 1] = x
           /\ \A j \in 1..Len(s) : Append(s, x)[j] = s[j]
BY AppendProperties, LenProperties

\* Acknowledgements stay acknowledgements.
LEMMA AcksTail ==
    ASSUME NEW s \in Seq(Items), s # <<>>
    PROVE  /\ AllAcks(s) => s[1] = Ack /\ AllAcks(Tail(s))
           /\ AcksAndCount(s) /\ Len(s) > 1 =>
                s[1] = Ack /\ AcksAndCount(Tail(s)) /\ Tail(s) # <<>>
           /\ AllAcks(<<>>)
<1>1. Len(s) \in Nat \ {0} /\ Len(Tail(s)) = Len(s) - 1
  BY HeadOff
<1>2. \A j \in 1..(Len(s) - 1) : Tail(s)[j] = s[j + 1]
  BY HeadOff
<1>3. AllAcks(s) => s[1] = Ack /\ AllAcks(Tail(s))
  BY <1>1, <1>2 DEF AllAcks
<1>4. ASSUME AcksAndCount(s), Len(s) > 1
      PROVE  s[1] = Ack /\ AcksAndCount(Tail(s)) /\ Tail(s) # <<>>
  <2>1. s[1] = Ack
    BY <1>1, <1>4 DEF AcksAndCount
  <2>2. Len(Tail(s)) > 0 /\ Tail(s)[Len(Tail(s))] = s[Len(s)]
    BY <1>1, <1>2, <1>4
  <2>3. \A j \in 1..Len(Tail(s)) : j < Len(Tail(s)) => Tail(s)[j] = Ack
    BY <1>1, <1>2, <1>4 DEF AcksAndCount
  <2>4. Tail(s) # <<>>
    <3>1. Len(<<>>) = 0
      OBVIOUS
    <3>2. Tail(s) = <<>> => Len(Tail(s)) = Len(<<>>)
      OBVIOUS
    <3> QED BY <2>2, <3>1, <3>2
  <2>5. IsStr(s[Len(s)], Nat \ {0})
    BY <1>4 DEF AcksAndCount
  <2>6. IsStr(Tail(s)[Len(Tail(s))], Nat \ {0})
    BY <2>2, <2>5
  <2>7. AcksAndCount(Tail(s))
    BY <2>2, <2>3, <2>6 DEF AcksAndCount
  <2> QED BY <2>1, <2>4, <2>7
<1> QED BY <1>3, <1>4 DEF AllAcks

\* An acknowledgement, or the number of files, after acknowledgements.
LEMMA AcksAppend ==
    ASSUME NEW s \in Seq(Items), AllAcks(s)
    PROVE  /\ AllAcks(Append(s, Ack))
           /\ \A n \in Nat \ {0} : AcksAndCount(Append(s, Str(n)))
<1>1. AllAcks(Append(s, Ack))
  BY ItemAdded, ItemFacts DEF AllAcks
<1>2. ASSUME NEW n \in Nat \ {0} PROVE AcksAndCount(Append(s, Str(n)))
  <2>1. Str(n) \in Items /\ IsStr(Str(n), Nat \ {0})
    BY ItemFacts
  <2> HIDE DEF Items
  <2>2. /\ Len(s) \in Nat /\ Len(Append(s, Str(n))) = Len(s) + 1
        /\ Append(s, Str(n))[Len(s) + 1] = Str(n)
        /\ \A j \in 1..Len(s) : Append(s, Str(n))[j] = s[j]
    BY <2>1, ItemAdded
  <2> QED BY <2>1, <2>2 DEF AcksAndCount, AllAcks
<1> QED BY <1>1, <1>2

\* Bytes taken off the front, or put at the end.
LEMMA BytesTaken ==
    ASSUME NEW s \in Seq(Items), NEW x \in Seq(Bytes), NEW base \in Nat,
           BytesOf(s, x, base), NEW k \in 0..Len(s)
    PROVE  /\ SubSeq(s, k + 1, Len(s)) \in Seq(Items)
           /\ Len(SubSeq(s, k + 1, Len(s))) = Len(s) - k
           /\ BytesOf(SubSeq(s, k + 1, Len(s)), x, base + k)
<1> DEFINE u == SubSeq(s, k + 1, Len(s))
<1>1. Len(s) \in Nat /\ Len(x) \in Nat
  BY LenProperties
<1>2. u \in Seq(Items) /\ Len(u) = Len(s) - k
  BY <1>1, SubSeqProperties
<1>3. \A j \in 1..Len(u) : u[j] = s[k + j]
  BY <1>1, <1>2, SubSeqProperties
<1> HIDE DEF u
<1>4. ASSUME NEW j \in 1..Len(u) PROVE u[j] = Byte(x[(base + k) + j])
  <2>1. k + j \in 1..Len(s) /\ base + (k + j) = (base + k) + j
    BY <1>1, <1>2
  <2>2. s[k + j] = Byte(x[base + (k + j)])
    BY <2>1 DEF BytesOf
  <2> QED BY <1>3, <2>1, <2>2
<1>5. base + Len(s) <= Len(x)
  BY DEF BytesOf
<1>6. BytesOf(u, x, base + k)
  BY <1>1, <1>2, <1>4, <1>5 DEF BytesOf
<1> QED BY <1>2, <1>6 DEF u

\* Bytes put at the end continue those that are there.
LEMMA BytesAdded ==
    ASSUME NEW s \in Seq(Items), NEW u \in Seq(Items), NEW x \in Seq(Bytes),
           NEW base \in Nat, BytesOf(s, x, base), BytesOf(u, x, base + Len(s))
    PROVE  /\ s \o u \in Seq(Items) /\ Len(s \o u) = Len(s) + Len(u)
           /\ BytesOf(s \o u, x, base)
<1>1. Len(s) \in Nat /\ Len(x) \in Nat /\ Len(u) \in Nat
  BY LenProperties
<1>2. /\ s \o u \in Seq(Items) /\ Len(s \o u) = Len(s) + Len(u)
      /\ \A j \in 1..(Len(s) + Len(u)) :
            (s \o u)[j] = IF j <= Len(s) THEN s[j] ELSE u[j - Len(s)]
  BY ConcatProperties
<1>3. base + Len(s) + Len(u) <= Len(x)
  BY <1>1 DEF BytesOf
<1>4. ASSUME NEW j \in 1..Len(s \o u) PROVE (s \o u)[j] = Byte(x[base + j])
  <2>0. j \in 1..(Len(s) + Len(u))
    BY <1>2
  <2>1. CASE j <= Len(s)
    <3>1. j \in 1..Len(s)
      BY <1>1, <2>0, <2>1
    <3>2. s[j] = Byte(x[base + j])
      BY <3>1 DEF BytesOf
    <3> QED BY <1>2, <2>0, <2>1, <3>2
  <2>2. CASE j > Len(s)
    <3>1. j - Len(s) \in 1..Len(u) /\ base + Len(s) + (j - Len(s)) = base + j
      BY <1>1, <1>2, <2>2
    <3>2. u[j - Len(s)] = Byte(x[base + Len(s) + (j - Len(s))])
      BY <3>1 DEF BytesOf
    <3> QED BY <1>1, <1>2, <2>2, <3>1, <3>2
  <2>3. j <= Len(s) \/ j > Len(s)
    BY <1>1, <2>0
  <2> QED BY <2>1, <2>2, <2>3
<1>5. base + Len(s \o u) <= Len(x)
  BY <1>1, <1>2, <1>3
<1>6. BytesOf(s \o u, x, base)
  BY <1>4, <1>5 DEF BytesOf
<1> QED BY <1>2, <1>6

\* Two items, one after the other.
LEMMA TwoItems ==
    ASSUME NEW x, NEW y
    PROVE  <<x>> \o <<y>> = <<x, y>>
<1> DEFINE s == <<x>>
           u == <<y>>
           w == <<x, y>>
<1>1. /\ s \in Seq({x, y}) /\ u \in Seq({x, y}) /\ w \in Seq({x, y})
      /\ Len(s) = 1 /\ Len(u) = 1 /\ Len(w) = 2
      /\ s[1] = x /\ u[1] = y /\ w[1] = x /\ w[2] = y
  OBVIOUS
<1> HIDE DEF s, u, w
<1>2. /\ s \o u \in Seq({x, y}) /\ Len(s \o u) = 2
      /\ (s \o u)[1] = x /\ (s \o u)[2] = y
  <2>1. s \o u \in Seq({x, y}) /\ Len(s \o u) = Len(s) + Len(u)
    BY <1>1, ConcatProperties
  <2>2. \A i \in 1..(Len(s) + Len(u)) :
            (s \o u)[i] = IF i <= Len(s) THEN s[i] ELSE u[i - Len(s)]
    BY <1>1, ConcatProperties
  <2> QED BY <1>1, <2>1, <2>2
<1>3. s \o u = w
  BY <1>1, <1>2, SeqEqual
<1> QED BY <1>3 DEF s, u, w

\* Nothing of a sequence is nothing on its way.
LEMMA NoBytes ==
    ASSUME NEW s \in Seq(Items), Len(s) = 0
    PROVE  s = <<>>
BY EmptySeq

-----------------------------------------------------------------------------
(* The steps of the client.                                                *)

\* The server and its files stay as they are.
LEMMA ServerKeeps ==
    ASSUME ServerRight, sv' = sv, remote' = remote, open' => open
    PROVE  ServerRight'
<1>1. \A s, names : SizesOf(s, names) => SizesOf(s, names)'
  BY DEF SizesOf, LengthOf
<1> QED BY <1>1 DEF ServerRight

\* The server's variables and both streams have their types.
LEMMA ServerIsTyped ==
    ASSUME TransferTypes
    PROVE  /\ sv.at \in ServerPlaces /\ sv.n \in Nat /\ sv.i \in Nat
           /\ sv.names \in Seq(Words) /\ Len(sv.names) \in Nat
           /\ sv.sizes \in Seq(Int) /\ Len(sv.sizes) \in Nat
           /\ sv.left \in Int /\ sv.off \in Nat
           /\ toServer \in Seq(Items) /\ Len(toServer) \in Nat
           /\ toClient \in Seq(Items) /\ Len(toClient) \in Nat
           /\ \A k \in 1..Len(sv.sizes) : sv.sizes[k] \in Int
           /\ \A k \in 1..Len(sv.names) : sv.names[k] \in Words
BY LenProperties, ElementOfSeq DEF TransferTypes

\* The client's variables have their types.
LEMMA ClientIsTyped ==
    ASSUME TransferTypes
    PROVE  /\ cl.at \in ClientPlaces /\ cl.i \in Nat /\ cl.left \in Int
           /\ cl.off \in Nat
           /\ cl.args \in Seq(Words) /\ Len(cl.args) \in Nat
           /\ cl.sizes \in Seq(Int) /\ Len(cl.sizes) \in Nat
           /\ \A k \in 1..Len(cl.sizes) : cl.sizes[k] \in Int
           /\ \A k \in 1..Len(cl.args) : cl.args[k] \in Words
           /\ open \in BOOLEAN /\ (cl.at = "gone" <=> ~open)
BY LenProperties, ElementOfSeq DEF TransferTypes

\* The acknowledgements the server waits for are a number.
LEMMA DueType ==
    ASSUME TransferTypes
    PROVE  Due \in Nat
<1>1. Owed(sv.sizes, 1) \in Nat /\ Owed(sv.sizes, sv.i) \in Nat
  BY ServerIsTyped, OwedFinite
<1> QED BY <1>1 DEF Due

\* The file that is being sent.
LEMMA FileSent ==
    ASSUME TransferTypes, ServerRight, sv.at \in {"send", "fileAck"}
    PROVE  /\ sv.i \in 1..sv.n /\ sv.n = Len(sv.sizes) /\ sv.n = Len(sv.names)
           /\ sv.sizes[sv.i] \in Nat /\ sv.off \in Nat /\ sv.off <= sv.sizes[sv.i]
           /\ sv.names[sv.i] \in Files
           /\ remote[sv.names[sv.i]] \in Seq(Bytes)
           /\ Len(remote[sv.names[sv.i]]) = sv.sizes[sv.i]
           /\ sv.sizes[sv.i] = LengthOf(sv.names[sv.i])
<1>1. sv.i \in 1..sv.n /\ sv.n = Len(sv.sizes) /\ sv.n = Len(sv.names)
  BY DEF ServerRight
<1>2. /\ sv.sizes[sv.i] \in Int /\ sv.sizes[sv.i] >= 0
      /\ sv.off \in Nat /\ sv.left \in Int
  BY <1>1, ServerIsTyped DEF ServerRight
<1>3. sv.sizes[sv.i] = LengthOf(sv.names[sv.i])
  BY <1>1 DEF ServerRight, SizesOf
<1>4. sv.off <= sv.sizes[sv.i]
  <2>1. CASE sv.at = "send"
    <3>1. sv.left = sv.sizes[sv.i] - sv.off /\ sv.left >= 0
      BY <2>1 DEF ServerRight
    <3> QED BY ONLY <1>2, <3>1
  <2>2. CASE sv.at = "fileAck"
    BY <1>2, <2>2 DEF ServerRight
  <2> QED BY <2>1, <2>2
<1> QED BY <1>1, <1>2, <1>3, <1>4, SizeOfFile

\* What the client has of a file.
LEMMA GotType ==
    ASSUME TransferTypes, NEW k \in 1..Len(sv.sizes)
    PROVE  /\ Got(k) \in Nat
           /\ cl.at \in {"prompt", "ack"} \/ k < cl.i =>
                Got(k) = IF sv.sizes[k] >= 0 THEN sv.sizes[k] ELSE 0
<1>1. sv.sizes[k] \in Int /\ cl.off \in Nat
  BY ServerIsTyped, ClientIsTyped
<1> QED BY <1>1 DEF Got

\* Nothing is on its way to a client that has the file being sent, and such a
\* server has not died in the middle of it.
LEMMA NothingComes ==
    ASSUME TransferTypes, ServerRight, StreamRight, Answered,
           sv.at \in {"send", "fileAck"} =>
                cl.at \in {"prompt", "ack"} \/ sv.i < cl.i
    PROVE  toClient = <<>> /\ (sv.at = "send" => sv.left = 0)
<1>1. CASE sv.at \in {"send", "fileAck"}
  <2>1. /\ sv.i \in 1..Len(sv.sizes) /\ sv.sizes[sv.i] \in Nat
        /\ sv.off <= sv.sizes[sv.i] /\ sv.off \in Nat
    BY <1>1, FileSent
  <2>2. Got(sv.i) = sv.sizes[sv.i]
    BY <1>1, <2>1, GotType
  <2>3. Got(sv.i) + Len(toClient) = sv.off
    BY <1>1 DEF StreamRight
  <2>4. Len(toClient) = 0 /\ sv.off = sv.sizes[sv.i]
    BY <2>1, <2>2, <2>3, ServerIsTyped
  <2>5. sv.at = "send" => sv.left = 0
    BY <2>1, <2>4 DEF ServerRight
  <2> QED BY <2>4, <2>5, NoBytes, ServerIsTyped
<1>2. CASE sv.at \in {"sizeAck", "file"}
  BY <1>2 DEF StreamRight
<1> QED BY <1>1, <1>2 DEF Answered

TransferGood == TransferTypes /\ ServerRight /\ Meet
\* Client and server keep their places in the stream of files.
LEMMA StreamKeeps ==
    ASSUME StreamRight, sv' = sv, toClient' = toClient, remote' = remote,
           \A k \in 1..sv.n : (Got(k))' = Got(k), sv.at \in {"send", "fileAck", "dead"} => sv.i \in 1..sv.n
    PROVE  StreamRight'
<1>1. NotBegun' = NotBegun
  BY DEF NotBegun
<1>2. sv.at \in {"send", "fileAck", "dead"} => Got(sv.i)' = Got(sv.i)
  OBVIOUS
<1>3. ASSUME NEW k \in 1..sv.n, k >= NotBegun PROVE Got(k)' = 0
  BY <1>3 DEF StreamRight
<1>4. ASSUME sv.at \in {"send", "fileAck", "dead"}
      PROVE  BytesOf(toClient, remote[sv.names[sv.i]], Got(sv.i))'
  BY <1>2, <1>4 DEF StreamRight
<1>5. sv.at \in {"send", "fileAck"} => (Got(sv.i) + Len(toClient) = sv.off)'
  BY <1>2 DEF StreamRight
<1>6. sv.at = "dead" => (Got(sv.i) + Len(toClient) < sv.sizes[sv.i])'
  BY <1>2 DEF StreamRight
<1>7. sv.at \in {"sizeAck", "file"} => toClient' = <<>>
  BY DEF StreamRight
<1> QED BY <1>1, <1>3, <1>4, <1>5, <1>6, <1>7 DEF StreamRight

\* A new get leaves the acknowledgements of the last one before its count.
LEMMA GetStep ==
    ASSUME TransferGood, NEW args \in GetCalls, Get(args)
    PROVE  TransferGood'
<1> USE DEF TransferGood
<1>1. /\ cl.at = "prompt" /\ sv' = sv /\ remote' = remote /\ toClient' = toClient
      /\ open' = open /\ local' = local /\ args # <<>>
      /\ toServer' = Append(toServer, Str(Len(args)))
      /\ cl' = [at |-> "ack", args |-> args, i |-> 0, sizes |-> <<>>,
                left |-> 0, off |-> 0]
  BY DEF Get, ClientSends, FreshClient, serverSide
<1>2. args \in Seq(Words) /\ Len(args) \in Nat \ {0}
  BY <1>1, ContentsAreSeqs, LenProperties, EmptySeq
<1>3. Str(Len(args)) \in Items
  BY <1>2, ItemFacts
<1>4. TransferTypes'
  <2>1. toServer' \in Seq(Items)
    BY <1>1, <1>3, ItemAdded, ServerIsTyped
  <2> QED BY <1>1, <1>2, <2>1, EmptySeq DEF TransferTypes, ClientPlaces
<1>5. ServerRight'
  BY <1>1, ServerKeeps
<1>6. Fetching
  BY <1>1 DEF Meet
<1>7. Asking'
  <2>1. cl'.args # <<>> /\ cl'.sizes = <<>> /\ cl'.i = 0 /\ Len(cl'.args) = Len(args)
        /\ cl'.at = "ack"
    BY <1>1
  <2>2. Due' = Due /\ Answered' = Answered
    BY <1>1 DEF Due, Answered
  <2>3. /\ toServer'[Len(toServer) + 1] = Str(Len(args))
        /\ Len(toServer') = Len(toServer) + 1
    BY <1>1, <1>3, ItemAdded, ServerIsTyped
  <2>4. SUFFICES /\ toClient = <<>> /\ AllAcks(toServer) /\ Len(toServer) = Due
                 /\ sv.at = "count" \/ (Answered /\ StreamRight')
    <3>1. AcksAndCount(toServer')
      BY <1>1, <1>2, <2>4, AcksAppend, ServerIsTyped
    <3> QED BY <1>1, <2>1, <2>2, <2>3, <2>4, <3>1 DEF Asking
  <2>5. CASE sv.at = "count"
    <3>1. toServer = <<>> /\ toClient = <<>>
      BY <1>6, <2>5 DEF Fetching, SameGet, Answered
    <3> QED BY <2>5, <3>1 DEF AllAcks, Due
  <2>6. CASE sv.at # "count"
    <3>1. SameGet
      BY <1>6, <2>6 DEF Fetching
    <3>2. cl.i > Len(cl.sizes) \/ cl.sizes = <<>>
      BY <1>1, <1>6, ClientIsTyped, EmptySeq DEF Fetching
    <3>3. Owed(cl.sizes, cl.i) = 0
      BY <3>2, OwedEnd, ClientIsTyped
    <3>4. AllAcks(toServer) /\ Len(toServer) = Due
      BY <3>1, <3>3, ServerIsTyped, DueType DEF SameGet
    <3>5. sv.n = Len(sv.sizes) /\ StreamRight
      BY <1>6, <3>1 DEF SameGet, Fetching
    <3>6. Answered
      <4>1. CASE sv.at = "dead"
        <5>1. sv.i \in 1..Len(sv.sizes)
          BY <3>1, <3>5, <4>1 DEF SameGet, Answered
        <5>2. Got(sv.i) = IF sv.sizes[sv.i] >= 0 THEN sv.sizes[sv.i] ELSE 0
          BY <1>1, <5>1, GotType
        <5>3. Got(sv.i) + Len(toClient) < sv.sizes[sv.i]
          BY <3>5, <4>1 DEF StreamRight
        <5>4. sv.sizes[sv.i] \in Int /\ Len(toClient) \in Nat
          BY <5>1, ServerIsTyped
        <5> QED BY <5>2, <5>3, <5>4
      <4> QED BY <3>1, <4>1 DEF SameGet
    <3>7. toClient = <<>>
      BY <1>1, <3>5, <3>6, NothingComes
    <3>8. \A k \in 1..sv.n : Got(k)' = Got(k)
      BY <1>1 DEF Got
    <3>9. StreamRight'
      BY <1>1, <3>5, <3>8, <3>6, StreamKeeps DEF ServerRight, Answered
    <3> QED BY <3>4, <3>6, <3>7, <3>9
  <2> QED BY <2>5, <2>6
<1> QED BY <1>1, <1>4, <1>5, <1>7 DEF Meet

\* The first item is taken and no other was there.
LEMMA OnlyItem ==
    ASSUME NEW x
    PROVE  /\ <<x>> # <<>> /\ Len(<<x>>) = 1 /\ <<x>>[1] = x /\ Tail(<<x>>) = <<>>
           /\ \A y : Tail(<<x, y>>) = <<y>>
<1>1. \A y : Tail(<<x, y>>) = <<y>>
  <2>1. ASSUME NEW y PROVE Tail(<<x, y>>) = <<y>>
    OBVIOUS
  <2> QED BY <2>1
<1> QED BY <1>1

\* getAck() meets nothing but the acknowledgement of the last name.
LEMMA GotAckStep ==
    ASSUME TransferGood, GotAck
    PROVE  TransferGood'
<1> USE DEF TransferGood
<1>1. /\ cl.at = "ack" /\ toClient # <<>> /\ sv' = sv /\ remote' = remote
      /\ open' = open /\ local' = local /\ toClient' = Tail(toClient)
  BY DEF GotAck, serverSide
<1>2. Asking
  BY <1>1 DEF Meet
<1>3. ServerRight'
  BY <1>1, ServerKeeps
<1>4. /\ cl.i = sv.i - 1 \/ cl.i = Len(cl.args)
      /\ toServer = <<>> /\ cl.args # <<>> /\ cl.sizes = <<>>
      /\ toClient # <<>> /\ toClient[1] = Ack /\ IsAck(toClient)
  <2>1. toServer = <<>> /\ cl.args # <<>> /\ cl.sizes = <<>>
        /\ (cl.i = sv.i - 1 \/ cl.i = Len(cl.args))
    BY <1>1, <1>2 DEF Asking
  <2>2. toClient = <<Ack>> \/ toClient = <<Ack, Str(LengthOf(cl.args[1]))>>
    BY <1>1, <1>2 DEF Asking
  <2>3. toClient[1] = Ack
    BY <2>2
  <2> QED BY <1>1, <2>1, <2>3, ItemFacts
<1>5. CASE sv.at = "names"
  <2>1. /\ sv.n = Len(cl.args) /\ cl.i = sv.i - 1 /\ toClient = <<Ack>>
        /\ \A j \in 1..Len(sv.names) : sv.names[j] = cl.args[j]
        /\ sv.i \in 1..sv.n
    BY <1>1, <1>2, <1>5 DEF Asking, Answered, ServerRight
  <2>2. cl.i # Len(cl.args) /\ cl.i + 1 = sv.i
    BY <2>1, ServerIsTyped, ClientIsTyped
  <2>3. cl' = [cl EXCEPT !.i = @ + 1] /\ toServer' = Append(toServer, Str(cl.args[cl.i + 1]))
    BY <1>4, <2>2 DEF GotAck, ClientSends
  <2>4. cl.args[sv.i] \in Words /\ Str(cl.args[sv.i]) \in Items
    BY <2>1, ClientIsTyped, ItemFacts
  <2>5. toServer' = <<Str(cl.args[sv.i])>> /\ toServer' \in Seq(Items)
    <3> HIDE DEF Items, Words
    <3> QED BY <1>4, <2>2, <2>3, <2>4
  <2>6. toClient' = <<>>
    BY <1>1, <2>1
  <2>7. /\ cl'.at = "ack" /\ cl'.args = cl.args /\ cl'.i = sv.i
        /\ cl'.sizes = cl.sizes
    BY <1>1, <2>2, <2>3 DEF TransferTypes
  <2>8. TransferTypes'
    BY <1>1, <2>2, <2>3, <2>5, <2>6, EmptySeq DEF TransferTypes
  <2>9. Asking'
    BY <1>1, <1>4, <1>5, <2>1, <2>5, <2>6, <2>7 DEF Asking
  <2> QED BY <1>3, <2>7, <2>8, <2>9 DEF Meet
<1>6. CASE sv.at # "names"
  <2>1. /\ sv.i = 1 /\ sv.n = Len(cl.args) /\ sv.names = cl.args
        /\ cl.i = Len(cl.args) /\ toServer = <<>>
        /\ \/ sv.at = "size" /\ toClient = <<Ack>>
           \/ sv.at = "sizeAck" /\ toClient = <<Ack, Str(LengthOf(cl.args[1]))>>
    BY <1>1, <1>2, <1>6 DEF Asking
  <2>2. cl' = [cl EXCEPT !.at = "size", !.i = 1] /\ toServer' = toServer
    BY <1>4, <2>1 DEF GotAck
  <2>3. /\ cl'.at = "size" /\ cl'.args = cl.args /\ cl'.i = 1
        /\ cl'.sizes = <<>>
    BY <1>4, <2>2 DEF TransferTypes
  <2>4. /\ toClient' \in Seq(Items)
        /\ \/ sv.at = "size" /\ toClient' = <<>>
           \/ sv.at = "sizeAck" /\ toClient' = <<Str(LengthOf(cl.args[1]))>>
    <3>1. toClient' \in Seq(Items)
      BY <1>1, HeadOff, ServerIsTyped
    <3>2. Tail(<<Ack>>) = <<>>
          /\ Tail(<<Ack, Str(LengthOf(cl.args[1]))>>) = <<Str(LengthOf(cl.args[1]))>>
      BY OnlyItem
    <3> QED BY <1>1, <2>1, <3>1, <3>2
  <2>5. TransferTypes'
    BY <1>1, <2>2, <2>4 DEF TransferTypes, ClientPlaces
  <2>6. LengthOf(cl.args[1])' = LengthOf(cl.args[1])
    BY <1>1, <2>3 DEF LengthOf
  <2>7. Len(cl'.args) \in Nat \ {0} /\ SizesOf(<<>>, cl.args)'
    BY <1>4, <2>3, ClientIsTyped, EmptySeq DEF SizesOf
  <2>8. Sizing'
    BY <1>1, <2>1, <2>2, <2>3, <2>4, <2>6, <2>7 DEF Sizing
  <2> QED BY <1>3, <2>3, <2>5, <2>8 DEF Meet
<1> QED BY <1>5, <1>6

\* getInt() meets nothing but the size of the next file.
LEMMA GetSizeStep ==
    ASSUME TransferGood, GetSize
    PROVE  TransferGood'
<1> USE DEF TransferGood
<1>1. /\ cl.at = "size" /\ toClient # <<>> /\ sv' = sv /\ remote' = remote
      /\ open' = open /\ local' = local /\ toClient' = <<>>
      /\ toServer' = Append(toServer, Ack)
  BY DEF GetSize, serverSide, ClientSends
<1>2. Sizing
  BY <1>1 DEF Meet
<1>3. ServerRight'
  BY <1>1, ServerKeeps
<1> DEFINE z == LengthOf(cl.args[cl.i])
<1>4. /\ sv.at = "sizeAck" /\ sv.i = cl.i /\ toServer = <<>>
      /\ toClient = <<Str(z)>>
      /\ cl.i \in 1..Len(cl.args) /\ Len(cl.sizes) = cl.i - 1
      /\ SizesOf(cl.sizes, cl.args)
      /\ sv.n = Len(cl.args) /\ sv.names = cl.args
  BY <1>1, <1>2 DEF Sizing
<1>5. z \in Int /\ IsString(toClient) /\ toClient[1].str = z
  BY <1>4, SizeOfFile, ItemFacts DEF IsString
<1>6. cl' = [cl EXCEPT !.sizes = Append(@, z),
                       !.at = IF cl.i = Len(cl.args) THEN "file" ELSE @,
                       !.i = IF cl.i = Len(cl.args) THEN 1 ELSE @ + 1]
  BY <1>5 DEF GetSize
<1> HIDE DEF z
<1>7. /\ cl'.at = (IF cl.i = Len(cl.args) THEN "file" ELSE "size")
      /\ cl'.args = cl.args /\ cl'.sizes = Append(cl.sizes, z)
      /\ cl'.i = (IF cl.i = Len(cl.args) THEN 1 ELSE cl.i + 1)
  BY <1>1, <1>6 DEF TransferTypes
<1>8. toServer' = <<Ack>> /\ toServer' \in Seq(Items)
  BY <1>1, <1>4, ItemFacts
<1>9. /\ cl'.sizes \in Seq(Int) /\ Len(cl'.sizes) = cl.i
      /\ \A j \in 1..cl.i : cl'.sizes[j] = LengthOf(cl.args[j])
  <2>1. cl.sizes \in Seq(Int) /\ cl.i \in Nat
    BY ClientIsTyped
  <2>2. /\ cl'.sizes \in Seq(Int) /\ Len(cl'.sizes) = cl.i
        /\ \A j \in 1..(cl.i - 1) : cl'.sizes[j] = cl.sizes[j]
        /\ cl'.sizes[cl.i] = z
    BY <1>4, <1>5, <1>7, <2>1, AppendProperties
  <2>3. \A j \in 1..(cl.i - 1) : cl.sizes[j] = LengthOf(cl.args[j])
    BY <1>4 DEF SizesOf
  <2>4. ASSUME NEW j \in 1..cl.i PROVE cl'.sizes[j] = LengthOf(cl.args[j])
    <3>1. CASE j = cl.i
      BY <2>2, <3>1 DEF z
    <3>2. CASE j # cl.i
      <4>1. j \in 1..(cl.i - 1)
        BY <2>1, <3>2
      <4> QED BY <2>2, <2>3, <4>1
    <3> QED BY <3>1, <3>2
  <2> QED BY <2>2, <2>4
<1>10. \A w : LengthOf(w)' = LengthOf(w)
  BY <1>1 DEF LengthOf
<1>11. SizesOf(cl.sizes, cl.args)'
  BY <1>4, <1>7, <1>9, <1>10, ClientIsTyped DEF SizesOf
<1>12. TransferTypes'
  <2>1. cl' \in [at : ClientPlaces, args : Seq(Words), i : Nat, sizes : Seq(Int),
                 left : Int, off : Nat]
    <3>1. Append(cl.sizes, z) \in Seq(Int)
      BY <1>7, <1>9
    <3>2. /\ cl'.at \in ClientPlaces /\ cl'.args \in Seq(Words) /\ cl'.i \in Nat
          /\ cl'.sizes \in Seq(Int)
      BY <1>7, <1>9, ClientIsTyped DEF ClientPlaces
    <3>3. cl' = [at |-> cl'.at, args |-> cl'.args, i |-> cl'.i,
                 sizes |-> cl'.sizes, left |-> cl.left, off |-> cl.off]
      BY <1>6, <1>7 DEF TransferTypes
    <3> QED BY <3>2, <3>3, ClientIsTyped
  <2> QED BY <1>1, <1>7, <1>8, <2>1, EmptySeq DEF TransferTypes
<1>13. CASE cl.i # Len(cl.args)
  <2>1. Sizing'
    BY <1>1, <1>4, <1>7, <1>8, <1>9, <1>11, <1>13, ClientIsTyped DEF Sizing
  <2> QED BY <1>3, <1>7, <1>12, <1>13, <2>1 DEF Meet
<1>14. CASE cl.i = Len(cl.args)
  <2>1. cl'.at = "file" /\ cl'.i = 1
    BY <1>7, <1>14
  <2>2. Answered /\ sv.i = sv.n
    BY <1>4, <1>14 DEF Answered
  <2>3. sv.sizes = cl'.sizes
    <3>1. /\ sv.sizes \in Seq(Int) /\ Len(sv.sizes) = cl.i
          /\ \A j \in 1..cl.i : sv.sizes[j] = LengthOf(cl.args[j])
      BY <1>4, ServerIsTyped DEF ServerRight, SizesOf
    <3>2. Len(sv.sizes) = Len(cl'.sizes)
      BY <1>9, <3>1
    <3>3. \A j \in 1..Len(sv.sizes) : sv.sizes[j] = cl'.sizes[j]
      BY <1>9, <3>1
    <3> QED BY <1>9, <3>1, <3>2, <3>3, SeqEqual
  <2>4. Due = 1 + Owed(cl'.sizes, 1)
    BY <1>4, <2>3 DEF Due
  <2>5. Len(toServer') = 1 /\ AllAcks(toServer')
    BY <1>8 DEF AllAcks
  <2>6. StreamRight'
    <3>1. NotBegun' = 1
      BY <1>1, <1>4 DEF NotBegun
    <3>2. ASSUME NEW k \in 1..sv.n PROVE Got(k)' = 0
      BY <2>1 DEF Got
    <3> QED BY <1>1, <1>4, <3>1, <3>2 DEF StreamRight
  <2>7. Due' = Due /\ Answered'
    BY <1>1, <2>2 DEF Due, Answered
  <2>8. SameGet'
    BY <1>1, <1>4, <1>7, <2>1, <2>3, <2>4, <2>5, <2>6, <2>7, OwedFinite, <1>9
       DEF SameGet
  <2>9. Fetching'
    BY <1>4, <1>7, <1>9, <1>11, <1>14, <2>1, <2>8, ClientIsTyped DEF Fetching
  <2> QED BY <1>3, <1>12, <2>1, <2>9 DEF Meet
<1> QED BY <1>13, <1>14

\* The client goes on in the same get, and nothing new is on its way to it.
LEMMA SameGetMoves ==
    ASSUME TransferTypes, ServerRight, SameGet, sv' = sv, remote' = remote,
           cl'.args = cl.args, cl'.sizes = cl.sizes, toClient' = toClient,
           AllAcks(toServer'), \A k \in 1..sv.n : (Got(k))' = Got(k),
           Len(toServer') + Owed(cl.sizes, cl'.i) = Len(toServer) + Owed(cl.sizes, cl.i)
    PROVE  SameGet'
<1>1. Answered' = Answered /\ Due' = Due
  BY DEF Answered, Due
<1>2. sv.at \in {"send", "fileAck", "dead"} => sv.i \in 1..sv.n
  BY DEF SameGet, ServerRight, Answered
<1>3. StreamRight'
  BY <1>2, StreamKeeps DEF SameGet
<1> QED BY <1>1, <1>3 DEF SameGet

\* After the last file the client has all of them.
LEMMA GetsDoneStep ==
    ASSUME TransferGood, GetsDone
    PROVE  TransferGood'
<1> USE DEF TransferGood
<1>1. /\ cl.at = "file" /\ cl.i > Len(cl.args) /\ sv' = sv /\ remote' = remote
      /\ open' = open /\ local' = local /\ toServer' = toServer
      /\ toClient' = toClient /\ cl' = [cl EXCEPT !.at = "prompt"]
  BY DEF GetsDone, serverSide
<1>2. Fetching /\ cl.i = Len(cl.args) + 1
  BY <1>1, ClientIsTyped DEF Meet, Fetching
<1>3. ServerRight'
  BY <1>1, ServerKeeps
<1>4. /\ cl'.at = "prompt" /\ cl'.args = cl.args /\ cl'.i = cl.i
      /\ cl'.sizes = cl.sizes
  BY <1>1 DEF TransferTypes
<1>5. TransferTypes'
  BY <1>1 DEF TransferTypes, ClientPlaces
<1>6. SizesOf(cl.sizes, cl.args)'
  BY <1>1, <1>2, <1>4 DEF Fetching, SizesOf, LengthOf
<1>7. ASSUME SameGet PROVE SameGet'
  <2>1. ASSUME NEW k \in 1..sv.n PROVE Got(k)' = Got(k)
    <3>1. k < cl.i
      BY <1>2, <1>7, ClientIsTyped DEF SameGet
    <3> QED BY <1>1, <1>4, <3>1 DEF Got
  <2>2. AllAcks(toServer')
    BY <1>1, <1>7 DEF SameGet
  <2> QED BY <1>1, <1>4, <1>7, <2>1, <2>2, SameGetMoves
<1>8. ASSUME NEW k \in 1..Len(cl.args), k < cl.i, cl.sizes[k] >= 0
      PROVE  Held(cl.args[k])'
  BY <1>1, <1>2, <1>4, <1>8 DEF Fetching, Held, HeldIn
<1>9. Fetching'
  BY <1>1, <1>2, <1>4, <1>6, <1>7, <1>8 DEF Fetching
<1> QED BY <1>3, <1>4, <1>5, <1>9 DEF Meet

\* A file that does not exist is owed no acknowledgement.
LEMMA SkipInvalidStep ==
    ASSUME TransferGood, SkipInvalid
    PROVE  TransferGood'
<1> USE DEF TransferGood
<1>1. /\ cl.at = "file" /\ cl.i <= Len(cl.args) /\ cl.sizes[cl.i] < 0
      /\ sv' = sv /\ remote' = remote
      /\ open' = open /\ local' = local /\ toServer' = toServer
      /\ toClient' = toClient /\ cl' = [cl EXCEPT !.i = @ + 1]
  BY DEF SkipInvalid, serverSide
<1>2. Fetching /\ cl.i \in 1..Len(cl.args) /\ cl.i \in 1..Len(cl.sizes)
  BY <1>1, ClientIsTyped DEF Meet, Fetching
<1>3. ServerRight'
  BY <1>1, ServerKeeps
<1>4. /\ cl'.at = "file" /\ cl'.args = cl.args /\ cl'.i = cl.i + 1
      /\ cl'.sizes = cl.sizes
  BY <1>1 DEF TransferTypes
<1>5. TransferTypes'
  <2>1. cl.i + 1 \in Nat
    BY ClientIsTyped
  <2>2. cl' \in [at : ClientPlaces, args : Seq(Words), i : Nat, sizes : Seq(Int),
                 left : Int, off : Nat]
    BY <1>1, <2>1 DEF TransferTypes
  <2> QED BY <1>1, <1>4, <2>2 DEF TransferTypes
<1>6. SizesOf(cl.sizes, cl.args)'
  BY <1>1, <1>2, <1>4 DEF Fetching, SizesOf, LengthOf
<1>7. Owed(cl.sizes, cl.i + 1) = Owed(cl.sizes, cl.i)
  <2>1. cl.sizes[cl.i] \in Int
    BY <1>2, ClientIsTyped
  <2>2. cl.sizes \in Seq(Int) /\ cl.i \in 1..Len(cl.sizes) /\ ~(cl.sizes[cl.i] >= 0)
    BY <1>1, <1>2, <2>1, ClientIsTyped
  <2>3. /\ Owed(cl.sizes, cl.i + 1) \in Nat
        /\ Owed(cl.sizes, cl.i) =
                Owed(cl.sizes, cl.i + 1) + (IF cl.sizes[cl.i] >= 0 THEN 1 ELSE 0)
    BY ONLY <2>2, OwedStep
  <2> QED BY ONLY <2>2, <2>3
<1>8. ASSUME SameGet PROVE SameGet'
  <2>1. ASSUME NEW k \in 1..sv.n PROVE Got(k)' = Got(k)
    <3>1. CASE k = cl.i
      <4>1. Got(k) = 0
        BY <1>1, <3>1, ClientIsTyped DEF Got
      <4>2. ~(sv.sizes[k] >= 0) /\ k < cl'.i /\ sv'.sizes = sv.sizes
        BY <1>1, <1>4, <1>8, <3>1, <1>2, ClientIsTyped DEF SameGet
      <4> QED BY <4>1, <4>2 DEF Got
    <3>2. CASE k # cl.i
      <4>1. (k < cl.i) <=> (k < cl'.i)
        BY <1>4, <3>2, ClientIsTyped
      <4> QED BY <1>1, <1>4, <4>1 DEF Got
    <3> QED BY <3>1, <3>2
  <2>2. AllAcks(toServer')
    BY <1>1, <1>8 DEF SameGet
  <2>3. Len(toServer') + Owed(cl.sizes, cl'.i) = Len(toServer) + Owed(cl.sizes, cl.i)
    BY <1>1, <1>4, <1>7
  <2> QED BY <1>1, <1>4, <1>8, <2>1, <2>2, <2>3, SameGetMoves
<1>9. ASSUME NEW k \in 1..Len(cl.args), k < cl'.i, cl.sizes[k] >= 0
      PROVE  Held(cl.args[k])'
  <2>1. k < cl.i
    <3>1. cl.sizes[cl.i] \in Int
      BY <1>2, ClientIsTyped
    <3>2. k # cl.i
      BY <1>1, <1>9, <3>1
    <3> QED BY <1>4, <1>9, <3>2, ClientIsTyped
  <2> QED BY <1>1, <1>2, <1>9, <2>1 DEF Fetching, Held, HeldIn
<1>10. cl'.i \in 1..(Len(cl.args) + 1)
  BY <1>2, <1>4, ClientIsTyped
<1>11. Fetching'
  BY <1>1, <1>2, <1>4, <1>6, <1>7, <1>8, <1>9, <1>10 DEF Fetching
<1> QED BY <1>3, <1>4, <1>5, <1>11 DEF Meet

\* getFile() opens a file before it has a byte of it.
LEMMA OpenLocalStep ==
    ASSUME TransferGood, OpenLocal
    PROVE  TransferGood'
<1> USE DEF TransferGood
<1> DEFINE f == cl.args[cl.i]
<1>1. /\ cl.at = "file" /\ cl.i <= Len(cl.args) /\ cl.sizes[cl.i] >= 0
      /\ sv' = sv /\ remote' = remote
      /\ open' = open /\ toServer' = toServer /\ toClient' = toClient
      /\ cl' = [cl EXCEPT !.at = "recv", !.left = cl.sizes[cl.i], !.off = 0]
      /\ local' = [local EXCEPT ![f] = IF @ = NoFile THEN <<>> ELSE @]
  BY DEF OpenLocal, serverSide
<1>2. Fetching /\ cl.i \in 1..Len(cl.args) /\ cl.i \in 1..Len(cl.sizes)
      /\ cl.sizes[cl.i] \in Int
  BY <1>1, ClientIsTyped DEF Meet, Fetching
<1>3. ServerRight'
  BY <1>1, ServerKeeps
<1>4. /\ cl'.at = "recv" /\ cl'.args = cl.args /\ cl'.i = cl.i
      /\ cl'.sizes = cl.sizes /\ cl'.left = cl.sizes[cl.i] /\ cl'.off = 0
  BY <1>1 DEF TransferTypes
<1>5. f \in Files
  <2>1. cl.sizes[cl.i] = LengthOf(f)
    BY <1>2 DEF Fetching, SizesOf
  <2> QED BY <1>1, <2>1, SizeOfFile
<1> HIDE DEF f
<1>6. /\ local' \in [Files -> Seq(Bytes) \cup {NoFile}] /\ local'[f] # NoFile
      /\ \A g \in Files : local[g] # NoFile => local'[g] = local[g]
  BY <1>1, <1>5, ContentsAreSeqs, EmptySeq DEF TransferTypes
<1>7. TransferTypes'
  BY <1>1, <1>2, <1>6 DEF TransferTypes, ClientPlaces
<1>8. SizesOf(cl.sizes, cl.args)'
  BY <1>1, <1>2, <1>4 DEF Fetching, SizesOf, LengthOf
<1>9. ASSUME SameGet PROVE SameGet'
  <2>1. ASSUME NEW k \in 1..sv.n PROVE Got(k)' = Got(k)
    BY <1>1, <1>4 DEF Got
  <2>2. AllAcks(toServer')
    BY <1>1, <1>9 DEF SameGet
  <2>3. Len(toServer') + Owed(cl.sizes, cl'.i) = Len(toServer) + Owed(cl.sizes, cl.i)
    BY <1>1, <1>4
  <2> QED BY <1>1, <1>4, <1>9, <2>1, <2>2, <2>3, SameGetMoves
<1>10. ASSUME NEW k \in 1..Len(cl.args), k < cl.i, cl.sizes[k] >= 0
       PROVE  Held(cl.args[k])'
  <2>1. Held(cl.args[k])
    BY <1>2, <1>10 DEF Fetching
  <2>2. cl.args[k] \in Files
    <3>1. cl.sizes[k] = LengthOf(cl.args[k])
      BY <1>2, <1>10 DEF Fetching, SizesOf
    <3> QED BY <1>10, <3>1, SizeOfFile
  <2>3. local'[cl.args[k]] = local[cl.args[k]]
    BY <1>6, <2>1, <2>2 DEF Held, HeldIn
  <2> QED BY <1>1, <2>1, <2>3 DEF Held
<1>11. local'[f] \in Seq(Bytes) /\ Len(local'[f]) \in Nat
  BY <1>5, <1>6, LenProperties
<1>12. Fetching'
  BY <1>1, <1>2, <1>4, <1>6, <1>8, <1>9, <1>10, <1>11 DEF Fetching, f
<1> QED BY <1>3, <1>4, <1>7, <1>12 DEF Meet

\* x with a stretch of u written over it at off, where x is u up to off.
LEMMA WrittenIs ==
    ASSUME NEW x \in Seq(Bytes), NEW s \in Seq(Items), NEW u \in Seq(Bytes),
           NEW off \in Nat, BytesOf(s, u, off), off <= Len(x)
    PROVE  /\ Written(x, s, off) \in Seq(Bytes)
           /\ Len(Written(x, s, off)) >= Len(x)
           /\ Len(Written(x, s, off)) >= off + Len(s)
           /\ \A j \in 1..Len(x) : x[j] = u[j] => Written(x, s, off)[j] = u[j]
           /\ \A j \in (off + 1)..(off + Len(s)) : Written(x, s, off)[j] = u[j]
<1> DEFINE n == IF off + Len(s) > Len(x) THEN off + Len(s) ELSE Len(x)
           e(j) == IF j - off \in 1..Len(s) THEN s[j - off].byte ELSE x[j]
           w == Written(x, s, off)
<1>1. Len(x) \in Nat /\ Len(s) \in Nat /\ Len(u) \in Nat /\ n \in Nat
      /\ off + Len(s) <= Len(u)
  BY LenProperties DEF BytesOf
<1>2. w = [j \in 1..n |-> e(j)]
  BY DEF Written
<1>3. ASSUME NEW j \in (off + 1)..(off + Len(s)) PROVE e(j) = u[j] /\ u[j] \in Bytes
  <2>1. j - off \in 1..Len(s) /\ off + (j - off) = j /\ j \in 1..Len(u)
    BY <1>1
  <2>2. u[j] \in Bytes
    BY <2>1, ElementOfSeq
  <2>3. s[j - off] = Byte(u[off + (j - off)])
    BY <2>1 DEF BytesOf
  <2>4. s[j - off].byte = u[j]
    BY <2>1, <2>2, <2>3, ItemFacts
  <2> QED BY <2>1, <2>2, <2>4
<1>4. ASSUME NEW j \in 1..n PROVE e(j) \in Bytes
  <2>1. CASE j \in (off + 1)..(off + Len(s))
    BY <1>3, <2>1
  <2>2. CASE j \notin (off + 1)..(off + Len(s))
    <3>1. j - off \notin 1..Len(s) /\ j \in 1..Len(x)
      BY <1>1, <2>2
    <3> QED BY <3>1, ElementOfSeq
  <2> QED BY <2>1, <2>2
<1>5. ASSUME NEW j \in 1..Len(x), x[j] = u[j] PROVE e(j) = u[j] /\ j \in 1..n
  <2>1. CASE j \in (off + 1)..(off + Len(s))
    BY <1>1, <1>3, <2>1
  <2>2. CASE j \notin (off + 1)..(off + Len(s))
    <3>1. j - off \notin 1..Len(s)
      BY <1>1, <2>2
    <3> QED BY <1>1, <1>5, <3>1
  <2> QED BY <2>1, <2>2
<1>6. (off + 1)..(off + Len(s)) \subseteq 1..n /\ n >= Len(x) /\ n >= off + Len(s)
  BY <1>1
<1> HIDE DEF n, e
<1>7. w \in [1..n -> Bytes]
  BY <1>2, <1>4
<1>8. w \in Seq(Bytes) /\ Len(w) = n
  BY <1>1, <1>7, IsASeq, LenProperties
<1>9. \A j \in 1..n : w[j] = e(j)
  BY <1>2
<1>10. \A j \in 1..Len(x) : x[j] = u[j] => w[j] = u[j]
  BY <1>5, <1>9
<1>11. \A j \in (off + 1)..(off + Len(s)) : w[j] = u[j]
  BY <1>3, <1>6, <1>9
<1> QED BY <1>6, <1>8, <1>10, <1>11

\* The bytes on their way are those of the file the client is receiving.
LEMMA ReceivesSent ==
    ASSUME TransferTypes, ServerRight, Fetching, cl.at = "recv", toClient # <<>>
    PROVE  /\ SameGet /\ sv.at \in {"send", "fileAck", "dead"} /\ cl.i = sv.i
           /\ cl.i \in 1..Len(cl.sizes) /\ cl.sizes[cl.i] \in Nat
           /\ BytesOf(toClient, remote[cl.args[cl.i]], cl.off)
           /\ cl.off + Len(toClient) <= cl.sizes[cl.i]
<1>1. /\ SameGet /\ cl.i \in 1..Len(cl.sizes) /\ cl.sizes[cl.i] \in Nat
      /\ Len(cl.sizes) = Len(cl.args) /\ cl.i \in Nat
  BY ClientIsTyped DEF Fetching
<1>2. /\ sv.names = cl.args /\ sv.sizes = cl.sizes /\ sv.n = Len(cl.args)
      /\ StreamRight /\ Len(toServer) + Owed(cl.sizes, cl.i) = Due
  BY <1>1 DEF SameGet
<1>3. sv.at \in {"send", "fileAck", "dead"} /\ sv.i \in 1..sv.n
  BY <1>1, <1>2 DEF SameGet, Answered, StreamRight, ServerRight
<1>4. sv.sizes[sv.i] \in Int /\ Len(toClient) \in Nat \ {0}
  BY <1>1, <1>2, <1>3, ServerIsTyped, HeadOff
<1>5. Got(sv.i) \in Nat /\ Got(sv.i) + Len(toClient) <= sv.sizes[sv.i]
  <2>1. Got(sv.i) \in Nat
    BY <1>1, <1>2, <1>3, GotType
  <2>2. CASE sv.at = "dead"
    BY <1>2, <1>4, <2>1, <2>2 DEF StreamRight
  <2>3. CASE sv.at # "dead"
    BY <1>2, <1>3, <1>4, <2>1, <2>3, FileSent DEF StreamRight
  <2> QED BY <2>1, <2>2, <2>3
<1>6. ~(sv.i < cl.i)
  <2>1. sv.i < cl.i => Got(sv.i) = IF sv.sizes[sv.i] >= 0 THEN sv.sizes[sv.i] ELSE 0
    BY <1>1, <1>2, <1>3, GotType
  <2> QED BY <1>4, <1>5, <2>1
<1>7. ~(cl.i < sv.i)
  <2>1. Due = Owed(cl.sizes, sv.i)
    BY <1>2, <1>3 DEF Due
  <2>2. cl.i < sv.i => Owed(cl.sizes, sv.i) < Owed(cl.sizes, cl.i)
    <3>1. cl.sizes \in Seq(Int) /\ cl.i \in Nat /\ sv.i \in Nat
      BY ServerIsTyped, ClientIsTyped
    <3>2. cl.i \in 1..Len(cl.sizes) /\ cl.sizes[cl.i] >= 0
      BY <1>1
    <3>3. \A i, j \in Nat : i < j /\ i \in 1..Len(cl.sizes) /\ cl.sizes[i] >= 0
                           => Owed(cl.sizes, j) < Owed(cl.sizes, i)
      BY ONLY <3>1, OwedMore
    <3> QED BY ONLY <3>1, <3>2, <3>3
  <2>3. /\ Owed(cl.sizes, cl.i) \in Nat /\ Owed(cl.sizes, sv.i) \in Nat
        /\ Len(toServer) \in Nat
    BY ClientIsTyped, ServerIsTyped, OwedFinite
  <2> QED BY <1>2, <2>1, <2>2, <2>3
<1>8. cl.i = sv.i
  BY <1>1, <1>3, <1>6, <1>7, ServerIsTyped
<1>9. Got(sv.i) = cl.off
  BY <1>8, <1>1 DEF Got
<1>10. BytesOf(toClient, remote[sv.names[sv.i]], Got(sv.i))
  BY <1>2, <1>3 DEF StreamRight
<1> QED BY <1>1, <1>2, <1>3, <1>5, <1>8, <1>9, <1>10

\* A read() of getFile() takes bytes of the file it is for.
LEMMA ReceiveStep ==
    ASSUME TransferGood, NEW k \in 1..CHUNK, Receive(k)
    PROVE  TransferGood'
<1> USE DEF TransferGood
<1> DEFINE f == cl.args[cl.i]
           s == SubSeq(toClient, 1, k)
<1>1. /\ cl.at = "recv" /\ cl.left > 0 /\ k <= Len(toClient)
      /\ sv' = sv /\ remote' = remote /\ open' = open /\ toServer' = toServer
      /\ toClient' = SubSeq(toClient, k + 1, Len(toClient))
      /\ local' = [local EXCEPT ![f] = Written(@, s, cl.off)]
      /\ cl' = [cl EXCEPT !.left = cl.left - k, !.off = @ + k]
  BY DEF Receive, LeftAfter, serverSide
<1>2. /\ k \in Nat \ {0} /\ k \in 0..Len(toClient) /\ k <= Len(toClient)
      /\ Len(toClient) \in Nat /\ cl.off \in Nat /\ cl.left \in Int
  <2>1. Len(toClient) \in Nat
    BY ServerIsTyped
  <2>2. cl.off \in Nat /\ cl.left \in Int
    BY ClientIsTyped
  <2>3. CHUNK \in Nat \ {0}
    BY ContentsAreSeqs
  <2>4. k <= Len(toClient)
    BY <1>1
  <2>5. k \in Nat \ {0} /\ k \in 0..Len(toClient)
    BY ONLY k \in 1..CHUNK, <2>1, <2>3, <2>4
  <2> QED BY <2>1, <2>2, <2>4, <2>5
<1>3. toClient # <<>> /\ Fetching
  BY <1>1, <1>2, EmptySeq DEF Meet
<1>4. /\ SameGet /\ sv.at \in {"send", "fileAck", "dead"} /\ cl.i = sv.i
      /\ cl.i \in 1..Len(cl.sizes) /\ cl.sizes[cl.i] \in Nat
      /\ BytesOf(toClient, remote[f], cl.off)
      /\ cl.off + Len(toClient) <= cl.sizes[cl.i]
  BY <1>1, <1>3, ReceivesSent
<1>5. /\ f \in Files /\ remote[f] \in Seq(Bytes) /\ cl.sizes[cl.i] = Len(remote[f])
  <2>1. cl.sizes[cl.i] = LengthOf(f)
    BY <1>3, <1>4 DEF Fetching, SizesOf
  <2> QED BY <1>4, <2>1, SizeOfFile
<1>6. /\ local[f] \in Seq(Bytes) /\ cl.off <= Len(local[f]) /\ Len(local[f]) \in Nat
      /\ \A j \in 1..cl.off : local[f][j] = remote[f][j]
  <2>1. local[f] # NoFile
    BY <1>1, <1>3 DEF Fetching
  <2>2. local[f] \in Seq(Bytes)
    BY <1>5, <2>1 DEF TransferTypes
  <2> QED BY <1>1, <1>3, <2>2, LenProperties DEF Fetching
<1>7. ServerRight'
  BY <1>1, ServerKeeps
<1>8. /\ cl'.at = "recv" /\ cl'.args = cl.args /\ cl'.i = cl.i
      /\ cl'.sizes = cl.sizes /\ cl'.left = cl.left - k /\ cl'.off = cl.off + k
  BY <1>1 DEF TransferTypes
<1>9. /\ toClient' \in Seq(Items) /\ Len(toClient') = Len(toClient) - k
      /\ BytesOf(toClient', remote[f], cl.off + k)
  BY <1>1, <1>2, <1>4, <1>5, BytesTaken, ServerIsTyped, ClientIsTyped
<1>10. s \in Seq(Items) /\ Len(s) = k /\ BytesOf(s, remote[f], cl.off)
  <2>1. s \in Seq(Items) /\ Len(s) = k /\ \A j \in 1..k : s[j] = toClient[j]
    BY <1>2, ServerIsTyped, SubSeqProperties
  <2>2. cl.off + Len(toClient) <= Len(remote[f]) /\ Len(remote[f]) \in Nat
    BY <1>4, <1>5, LenProperties
  <2>3. \A j \in 1..k : toClient[j] = Byte(remote[f][cl.off + j])
    BY <1>2, <1>4, ServerIsTyped DEF BytesOf
  <2> HIDE DEF s, f
  <2>4. cl.off + k <= Len(remote[f])
    BY <1>2, <2>2
  <2> QED BY <2>1, <2>3, <2>4 DEF BytesOf
<1> HIDE DEF s
<1> DEFINE w == Written(local[f], s, cl.off)
<1>11. /\ w \in Seq(Bytes) /\ Len(w) >= Len(local[f]) /\ Len(w) >= cl.off + k
       /\ \A j \in 1..Len(local[f]) : local[f][j] = remote[f][j] => w[j] = remote[f][j]
       /\ \A j \in (cl.off + 1)..(cl.off + k) : w[j] = remote[f][j]
  <2> HIDE DEF f
  <2>1. /\ w \in Seq(Bytes) /\ Len(w) >= Len(local[f])
        /\ Len(w) >= cl.off + Len(s)
        /\ \A j \in 1..Len(local[f]) :
                local[f][j] = remote[f][j] => w[j] = remote[f][j]
        /\ \A j \in (cl.off + 1)..(cl.off + Len(s)) : w[j] = remote[f][j]
    <3>1. /\ local[f] \in Seq(Bytes) /\ s \in Seq(Items)
          /\ remote[f] \in Seq(Bytes) /\ cl.off \in Nat
          /\ BytesOf(s, remote[f], cl.off) /\ cl.off <= Len(local[f])
      BY <1>2, <1>5, <1>6, <1>10
    <3> QED BY ONLY <3>1, WrittenIs
  <2> HIDE DEF w
  <2> QED BY <1>10, <2>1
<1>12. local'[f] = w /\ \A g \in Files : g # f => local'[g] = local[g]
  BY <1>1, <1>5 DEF TransferTypes
<1> HIDE DEF w, f
<1>13. local' \in [Files -> Seq(Bytes) \cup {NoFile}]
  <2>1. local' = [local EXCEPT ![f] = w]
    BY <1>1 DEF w
  <2> QED BY <1>11, <2>1 DEF TransferTypes
<1>14. TransferTypes'
  <2>1. cl.left - k \in Int /\ cl.off + k \in Nat
    BY <1>2, ClientIsTyped
  <2>2. cl' \in [at : ClientPlaces, args : Seq(Words), i : Nat, sizes : Seq(Int),
                 left : Int, off : Nat]
    BY <1>1, <2>1 DEF TransferTypes
  <2> QED BY <1>1, <1>8, <1>9, <1>13, <2>2 DEF TransferTypes
<1>15. SizesOf(cl.sizes, cl.args)'
  BY <1>1, <1>3, <1>8 DEF Fetching, SizesOf, LengthOf
<1>16. ASSUME NEW g \in Files, HeldIn(local[g], remote[g])
       PROVE  HeldIn(local'[g], remote[g])
  <2>1. CASE g # f
    BY <1>12, <1>16, <2>1
  <2>2. CASE g = f
    <3>1. Len(remote[f]) <= Len(local[f]) /\ Len(remote[f]) \in Nat /\ Len(w) \in Nat
          /\ \A j \in 1..Len(remote[f]) : local[f][j] = remote[f][j]
      BY <1>5, <1>11, <1>16, <2>2, LenProperties DEF HeldIn
    <3>2. \A j \in 1..Len(remote[f]) : w[j] = remote[f][j]
      BY <1>6, <1>11, <3>1
    <3>3. w # NoFile
      BY <1>11, ContentsAreSeqs
    <3>4. Len(remote[f]) <= Len(w)
      BY <1>6, <1>11, <3>1
    <3> QED BY <1>12, <2>2, <3>2, <3>3, <3>4 DEF HeldIn
  <2> QED BY <2>1, <2>2
<1>17. ASSUME NEW m \in 1..Len(cl.args), m < cl.i, cl.sizes[m] >= 0
       PROVE  Held(cl.args[m])'
  <2>1. Held(cl.args[m])
    BY <1>3, <1>17 DEF Fetching
  <2>2. cl.args[m] \in Files
    <3>1. cl.sizes[m] = LengthOf(cl.args[m])
      BY <1>3, <1>17 DEF Fetching, SizesOf
    <3> QED BY <1>17, <3>1, SizeOfFile
  <2>3. HeldIn(local'[cl.args[m]], remote[cl.args[m]])
    BY <1>16, <2>1, <2>2 DEF Held
  <2> QED BY <1>1, <1>8, <2>3 DEF Held
<1>18. SameGet'
  <2>1. Answered' = Answered /\ Due' = Due /\ NotBegun' = NotBegun
    BY <1>1 DEF Answered, Due, NotBegun
  <2>2. sv.names = cl.args /\ sv.sizes = cl.sizes /\ StreamRight /\ sv.n = Len(cl.args)
    BY <1>4 DEF SameGet
  <2>3. Got(sv.i) = cl.off /\ Got(sv.i)' = cl.off + k
    <3>1. sv'.i = cl'.i /\ sv.i = cl.i /\ cl'.at = "recv" /\ cl.at = "recv"
      BY <1>1, <1>4, <1>8
    <3>2. ~(cl.i < cl.i)
      BY ClientIsTyped
    <3> QED BY <1>1, <1>8, <3>1, <3>2 DEF Got
  <2>4. ASSUME NEW m \in 1..sv.n, m # cl.i PROVE Got(m)' = Got(m)
    BY <1>1, <1>8, <2>4 DEF Got
  <2>5. NotBegun = cl.i + 1
    BY <1>4 DEF NotBegun
  <2>6. ASSUME NEW m \in 1..sv.n, m >= NotBegun PROVE Got(m)' = 0
    <3>1. m # cl.i
      BY <2>5, <2>6, ClientIsTyped
    <3> QED BY <2>2, <2>4, <2>6, <3>1 DEF StreamRight
  <2>7. Got(sv.i)' + Len(toClient') = Got(sv.i) + Len(toClient)
    BY <1>2, <1>9, <2>3
  <2>8. BytesOf(toClient', remote[sv.names[sv.i]], Got(sv.i)')
    BY <1>4, <1>9, <2>2, <2>3 DEF f
  <2>9. StreamRight'
    <3>1. sv.at \in {"send", "fileAck"} => (Got(sv.i) + Len(toClient) = sv.off)'
      BY <1>1, <2>2, <2>7 DEF StreamRight
    <3>2. sv.at = "dead" => (Got(sv.i) + Len(toClient) < sv.sizes[sv.i])'
      BY <1>1, <2>2, <2>7 DEF StreamRight
    <3> QED BY <1>1, <1>4, <2>1, <2>6, <2>8, <3>1, <3>2 DEF StreamRight
  <2> QED BY <1>1, <1>4, <1>8, <2>1, <2>9 DEF SameGet
<1>19. cl'.left >= 0 /\ cl'.left = cl.sizes[cl.i] - cl'.off
  <2>1. cl.left = cl.sizes[cl.i] - cl.off
    BY <1>1, <1>3 DEF Fetching
  <2>2. cl.off + Len(toClient) <= cl.sizes[cl.i] /\ cl.sizes[cl.i] \in Nat
    BY <1>4
  <2>3. cl'.left = cl.left - k /\ cl'.off = cl.off + k
    BY <1>8
  <2> QED BY <1>2, <2>1, <2>2, <2>3
<1>20. /\ local'[f] # NoFile /\ cl'.off <= Len(local'[f])
       /\ \A j \in 1..cl'.off : local'[f][j] = remote[f][j]
  <2>1. \A j \in 1..(cl.off + k) : w[j] = remote[f][j]
    <3>1. ASSUME NEW j \in 1..(cl.off + k) PROVE w[j] = remote[f][j]
      <4>1. CASE j <= cl.off
        <5>1. j \in 1..cl.off /\ j \in 1..Len(local[f])
          BY <1>2, <1>6, <4>1, ClientIsTyped
        <5> QED BY <1>6, <1>11, <5>1
      <4>2. CASE j > cl.off
        <5>1. j \in (cl.off + 1)..(cl.off + k)
          BY <1>2, <4>2, ClientIsTyped
        <5> QED BY <1>11, <5>1
      <4> QED BY <1>2, <4>1, <4>2, ClientIsTyped
    <3> QED BY <3>1
  <2> QED BY <1>8, <1>11, <1>12, <2>1, ContentsAreSeqs
<1>21. Fetching'
  <2>1. Len(cl.sizes) = Len(cl.args) /\ cl.i <= Len(cl.args)
        /\ cl.i \in 1..(Len(cl.args) + 1)
    BY <1>1, <1>3 DEF Fetching
  <2>2. \A m \in 1..Len(cl.args) : m < cl.i /\ cl.sizes[m] >= 0 => Held(cl.args[m])'
    BY <1>17
  <2>3. /\ (local[cl.args[cl.i]])' # NoFile /\ cl'.off <= Len(local[cl.args[cl.i]])'
        /\ \A j \in 1..cl'.off :
                (local[cl.args[cl.i]])'[j] = (remote[cl.args[cl.i]])'[j]
    BY <1>1, <1>8, <1>20 DEF f
  <2>4. cl'.sizes[cl'.i] >= 0 /\ cl'.left = cl'.sizes[cl'.i] - cl'.off
    BY <1>4, <1>8, <1>19
  <2> QED BY <1>1, <1>8, <1>15, <1>18, <1>19, <2>1, <2>2, <2>3, <2>4 DEF Fetching
<1> QED BY <1>7, <1>8, <1>14, <1>21 DEF Meet

\* The client has the whole of a file that it acknowledges.
LEMMA ReceivedStep ==
    ASSUME TransferGood, Received
    PROVE  TransferGood'
<1> USE DEF TransferGood
<1>1. /\ cl.at = "recv" /\ cl.left <= 0 /\ sv' = sv /\ remote' = remote
      /\ open' = open /\ local' = local /\ toServer' = Append(toServer, Ack)
      /\ toClient' = toClient /\ cl' = [cl EXCEPT !.at = "file", !.i = @ + 1]
  BY DEF Received, ReceivedAck, ClientSends, serverSide
<1>2. /\ Fetching /\ cl.i \in 1..Len(cl.args) /\ cl.i \in 1..Len(cl.sizes)
      /\ cl.sizes[cl.i] \in Nat /\ cl.off = cl.sizes[cl.i]
  <2>1. Fetching
    BY <1>1 DEF Meet
  <2>2. /\ Len(cl.sizes) = Len(cl.args) /\ cl.i <= Len(cl.args) /\ cl.sizes[cl.i] >= 0
        /\ cl.left = cl.sizes[cl.i] - cl.off /\ cl.left >= 0
        /\ cl.i \in 1..(Len(cl.args) + 1)
    BY <1>1, <2>1 DEF Fetching
  <2>3. cl.i \in 1..Len(cl.args) /\ cl.sizes[cl.i] \in Int
    BY <2>2, ClientIsTyped
  <2>4. cl.left <= 0 /\ cl.left \in Int /\ cl.off \in Nat
    BY <1>1, ClientIsTyped
  <2>5. cl.sizes[cl.i] \in Nat /\ cl.off = cl.sizes[cl.i]
    BY ONLY <2>2, <2>3, <2>4
  <2> QED BY <2>1, <2>2, <2>3, <2>5
<1>3. ServerRight'
  BY <1>1, ServerKeeps
<1>4. /\ cl'.at = "file" /\ cl'.args = cl.args /\ cl'.i = cl.i + 1
      /\ cl'.sizes = cl.sizes
  BY <1>1 DEF TransferTypes
<1>5. toServer' \in Seq(Items) /\ Len(toServer') = Len(toServer) + 1
  BY <1>1, ItemAdded, ItemFacts, ServerIsTyped
<1>6. TransferTypes'
  <2>1. cl.i + 1 \in Nat
    BY ClientIsTyped
  <2>2. cl' \in [at : ClientPlaces, args : Seq(Words), i : Nat, sizes : Seq(Int),
                 left : Int, off : Nat]
    BY <1>1, <2>1 DEF TransferTypes, ClientPlaces
  <2> QED BY <1>1, <1>4, <1>5, <2>2 DEF TransferTypes
<1>7. SizesOf(cl.sizes, cl.args)'
  BY <1>1, <1>2, <1>4 DEF Fetching, SizesOf, LengthOf
<1>8. Owed(cl.sizes, cl.i) = Owed(cl.sizes, cl.i + 1) + 1
      /\ Owed(cl.sizes, cl.i + 1) \in Nat
  <2>1. cl.sizes \in Seq(Int) /\ cl.i \in 1..Len(cl.sizes) /\ cl.sizes[cl.i] >= 0
    BY <1>2, ClientIsTyped
  <2>2. /\ Owed(cl.sizes, cl.i + 1) \in Nat
        /\ Owed(cl.sizes, cl.i) =
                Owed(cl.sizes, cl.i + 1) + (IF cl.sizes[cl.i] >= 0 THEN 1 ELSE 0)
    BY ONLY <2>1, OwedStep
  <2> QED BY ONLY <2>1, <2>2
<1>9. SameGet
  BY <1>1, <1>2, <1>8 DEF Fetching
<1>10. SameGet'
  <2>1. ASSUME NEW k \in 1..sv.n PROVE Got(k)' = Got(k)
    <3>1. CASE k = cl.i
      <4>1. Got(k) = cl.sizes[k]
        BY <1>1, <1>2, <3>1, ClientIsTyped DEF Got
      <4>2. sv.sizes[k] = cl.sizes[k] /\ k < cl'.i /\ sv'.sizes = sv.sizes
            /\ cl.sizes[k] >= 0
        BY <1>1, <1>2, <1>4, <1>9, <3>1, ClientIsTyped DEF SameGet
      <4> QED BY <4>1, <4>2 DEF Got
    <3>2. CASE k # cl.i
      <4>1. (k < cl.i) <=> (k < cl'.i)
        BY <1>4, <3>2, ClientIsTyped
      <4> QED BY <1>1, <1>4, <3>2, <4>1 DEF Got
    <3> QED BY <3>1, <3>2
  <2>2. AllAcks(toServer')
    BY <1>1, <1>9, AcksAppend, ServerIsTyped DEF SameGet
  <2>3. Len(toServer') + Owed(cl.sizes, cl'.i) = Len(toServer) + Owed(cl.sizes, cl.i)
    BY <1>4, <1>5, <1>8, ServerIsTyped
  <2> QED BY <1>1, <1>4, <1>9, <2>1, <2>2, <2>3, SameGetMoves
<1>11. Held(cl.args[cl.i])
  <2> DEFINE f == cl.args[cl.i]
  <2>1. Len(remote[f]) = cl.off
    <3>1. cl.sizes[cl.i] = LengthOf(f)
      BY <1>2 DEF Fetching, SizesOf
    <3> QED BY <1>2, <3>1, SizeOfFile
  <2>2. /\ local[f] # NoFile /\ cl.off <= Len(local[f])
        /\ \A j \in 1..cl.off : local[f][j] = remote[f][j]
    BY <1>1, <1>2 DEF Fetching
  <2> QED BY <2>1, <2>2 DEF Held, HeldIn
<1>12. ASSUME NEW k \in 1..Len(cl.args), k < cl'.i, cl.sizes[k] >= 0
       PROVE  Held(cl.args[k])'
  <2>1. Held(cl.args[k])
    <3>1. CASE k = cl.i
      BY <1>11, <3>1
    <3>2. CASE k # cl.i
      <4>1. k < cl.i
        BY <1>4, <1>12, <3>2, ClientIsTyped
      <4> QED BY <1>2, <1>12, <4>1 DEF Fetching
    <3> QED BY <3>1, <3>2
  <2> QED BY <1>1, <1>4, <2>1 DEF Held
<1>13. cl'.i \in 1..(Len(cl.args) + 1)
  BY <1>2, <1>4, ClientIsTyped
<1>14. Fetching'
  BY <1>1, <1>2, <1>4, <1>7, <1>10, <1>12, <1>13 DEF Fetching
<1> QED BY <1>3, <1>4, <1>6, <1>14 DEF Meet

\* What is on its way to the server is what the server expects next.
LEMMA MeetLeaves ==
    ASSUME TransferGood
    PROVE  Left
<1> USE DEF TransferGood
<1>1. Due \in Nat /\ Len(toServer) \in Nat
  BY DueType, ServerIsTyped
<1>2. CASE cl.at \in {"prompt", "file", "recv"}
  <2>1. Fetching
    BY <1>2 DEF Meet
  <2>2. CASE SameGet
    <3>1. AllAcks(toServer) /\ Len(toServer) <= Due
      <4>1. Owed(cl.sizes, cl.i) \in Nat
        BY ClientIsTyped, OwedFinite
      <4> QED BY <1>1, <2>2, <4>1 DEF SameGet
    <3>2. Answered \/ sv.at = "dead"
      BY <2>2 DEF SameGet
    <3> QED BY <3>1, <3>2, ServerIsTyped DEF Left, Answered
  <2>3. CASE ~SameGet
    <3>1. sv.at = "count" /\ toServer = <<>>
      BY <2>1, <2>3 DEF Fetching
    <3> QED BY <3>1 DEF Left, Answered
  <2> QED BY <2>2, <2>3
<1>3. CASE cl.at = "ack"
  <2>1. Asking
    BY <1>3 DEF Meet
  <2>2. CASE /\ AcksAndCount(toServer) /\ Len(toServer) = Due + 1
             /\ sv.at = "count" \/ Answered
    <3>1. CASE sv.at = "count"
      BY <2>2, <3>1 DEF Left, Due
    <3>2. CASE Answered
      BY <2>2, <3>2, ServerIsTyped DEF Left, Answered
    <3> QED BY <2>2, <3>1, <3>2
  <2>3. CASE sv.at = "names"
    <3>1. toServer = <<>> \/ (cl.i = sv.i /\ toServer = <<Str(cl.args[cl.i])>>
                                /\ sv.n = Len(cl.args))
      BY <2>1, <2>3 DEF Asking, Answered
    <3>2. ASSUME toServer = <<Str(cl.args[cl.i])>>, cl.i = sv.i, sv.n = Len(cl.args)
          PROVE  Len(toServer) = 1 /\ IsStr(toServer[1], Words)
      <4>1. cl.args[cl.i] \in Words
        BY <2>3, <3>2, ClientIsTyped DEF ServerRight
      <4> QED BY <3>2, <4>1, ItemFacts
    <3> QED BY <2>3, <3>1, <3>2 DEF Left, Answered
  <2>4. CASE sv.at \in {"size", "sizeAck"} /\ toServer = <<>>
    <3>1. sv.at = "sizeAck" => sv.i < sv.n \/ Answered
      BY <2>4, ServerIsTyped DEF ServerRight, Answered
    <3>2. AllAcks(toServer) /\ Len(toServer) = 0
      BY <2>4 DEF AllAcks
    <3> QED BY <1>1, <2>4, <3>1, <3>2 DEF Left
  <2> QED BY <2>1, <2>2, <2>3, <2>4 DEF Asking
<1>4. CASE cl.at = "size"
  <2>1. Sizing
    BY <1>4 DEF Meet
  <2>2. CASE sv.at = "size"
    BY <2>1, <2>2 DEF Sizing, Left, Answered
  <2>3. CASE sv.at = "sizeAck"
    <3>1. toServer = <<>> \/ (toServer = <<Ack>> /\ sv.i = cl.i - 1 /\ sv.n = Len(cl.args))
      BY <2>1, <2>3 DEF Sizing
    <3>2. AllAcks(toServer) /\ Len(toServer) <= 1
      <4>1. AllAcks(<<>>) /\ Len(<<>>) = 0 /\ AllAcks(<<Ack>>) /\ Len(<<Ack>>) = 1
        BY DEF AllAcks
      <4>2. toServer = <<>> \/ toServer = <<Ack>>
        BY <3>1
      <4>3. AllAcks(toServer) /\ (Len(toServer) = 0 \/ Len(toServer) = 1)
        BY <4>1, <4>2, Zenon
      <4> QED BY <4>3
    <3>3. sv.i < sv.n \/ (sv.i = sv.n /\ toServer = <<>>)
      BY <2>1, <2>3, <3>1, ServerIsTyped, ClientIsTyped DEF Sizing, ServerRight
    <3>4. sv.i = sv.n => Answered
      BY <2>3 DEF Answered
    <3>5. CASE sv.i < sv.n
      <4>1. ~Answered
        BY <2>3, <3>5, ServerIsTyped DEF Answered
      <4> QED BY <2>3, <3>2, <4>1 DEF Left
    <3>6. CASE sv.i = sv.n /\ toServer = <<>>
      <4>1. Len(toServer) = 0 /\ ~(sv.i < sv.n)
        BY <3>6, ServerIsTyped
      <4> QED BY <1>1, <2>3, <3>2, <4>1 DEF Left
    <3> QED BY <3>3, <3>5, <3>6
  <2> QED BY <2>1, <2>2, <2>3 DEF Sizing
<1>5. CASE cl.at = "gone"
  BY <1>5 DEF Meet
<1> QED BY <1>2, <1>3, <1>4, <1>5, ClientIsTyped DEF ClientPlaces

\* A client that goes leaves what the server can go on with.
LEMMA ClientGoneStep ==
    ASSUME TransferGood, ClientGone
    PROVE  TransferGood'
<1> USE DEF TransferGood
<1>1. /\ sv' = sv /\ remote' = remote /\ local' = local /\ open' = FALSE
      /\ toServer' \in {toServer, <<>>} /\ toClient' = <<>>
      /\ cl' = [at |-> "gone", args |-> <<>>, i |-> 0, sizes |-> <<>>,
                left |-> 0, off |-> 0]
  BY DEF ClientGone, FreshClient, serverSide
<1>2. ServerRight'
  BY <1>1, ServerKeeps
<1>3. TransferTypes'
  <2>1. toServer' \in Seq(Items) /\ toClient' \in Seq(Items)
    BY <1>1, EmptySeq, ServerIsTyped
  <2>2. cl' \in [at : ClientPlaces, args : Seq(Words), i : Nat, sizes : Seq(Int),
                 left : Int, off : Nat] /\ cl'.at = "gone"
    BY <1>1, EmptySeq DEF ClientPlaces
  <2> QED BY <1>1, <2>1, <2>2 DEF TransferTypes
<1>4. Left /\ Due' = Due /\ (Answered' <=> Answered) /\ Due \in Nat
  BY <1>1, MeetLeaves, DueType DEF Due, Answered
<1>5. ASSUME toServer' = toServer PROVE Left'
  BY <1>1, <1>4, <1>5 DEF Left
<1>6. ASSUME toServer' = <<>> PROVE Left'
  <2>1. AllAcks(toServer') /\ Len(toServer') = 0
    BY <1>6 DEF AllAcks
  <2> QED BY <1>1, <1>4, <1>6, <2>1 DEF Left
<1>7. Left'
  BY <1>1, <1>5, <1>6
<1> QED BY <1>1, <1>2, <1>3, <1>7 DEF Meet

-----------------------------------------------------------------------------
(* The steps of the server.                                                *)

\* SIGPIPE has ended the server: nobody is there any more.
LEMMA BothGone ==
    ASSUME TransferTypes', sv'.at = "dead", ~open'
    PROVE  ServerRight' /\ Meet'
<1>1. cl'.at = "gone"
  BY DEF TransferTypes
<1>2. Left'
  BY DEF Left, Answered
<1>3. ServerRight'
  BY DEF ServerRight
<1> QED BY <1>1, <1>2, <1>3 DEF Meet

\* The next client meets a server at the start of its loop.
LEMMA WaitForClientStep ==
    ASSUME TransferGood, WaitForClient
    PROVE  TransferGood'
<1> USE DEF TransferGood
<1>1. /\ sv.at = "accept" /\ sv' = [sv EXCEPT !.at = "count"]
      /\ cl' = [at |-> "prompt", args |-> <<>>, i |-> 0, sizes |-> <<>>,
                left |-> 0, off |-> 0]
      /\ open' = TRUE /\ toServer' = <<>> /\ toClient' = <<>>
      /\ local' = local /\ remote' = remote
  BY DEF WaitForClient, FreshClient
<1>2. sv'.at = "count"
  BY <1>1 DEF TransferTypes
<1>3. TransferTypes'
  <2>1. cl' \in [at : ClientPlaces, args : Seq(Words), i : Nat, sizes : Seq(Int),
                 left : Int, off : Nat] /\ cl'.at = "prompt"
    BY <1>1, EmptySeq DEF ClientPlaces
  <2>2. sv' \in [at : ServerPlaces, n : Nat, names : Seq(Words), i : Nat,
                 sizes : Seq(Int), left : Int, off : Nat]
    BY <1>1 DEF TransferTypes, ServerPlaces
  <2> QED BY <1>1, <2>1, <2>2, EmptySeq DEF TransferTypes
<1>4. ServerRight'
  BY <1>2 DEF ServerRight
<1>5. Fetching'
  <2>1. cl'.at = "prompt" /\ cl'.args = <<>> /\ cl'.sizes = <<>> /\ cl'.i = 0
    BY <1>1
  <2>2. Len(<<>>) = 0 /\ Owed(<<>>, 0) = 0
    BY OwedEnd, EmptySeq
  <2>3. SizesOf(cl.sizes, cl.args)'
    BY <2>1, <2>2 DEF SizesOf
  <2> QED BY <1>1, <1>2, <2>1, <2>2, <2>3 DEF Fetching
<1>6. cl'.at = "prompt"
  BY <1>1
<1> QED BY <1>3, <1>4, <1>5, <1>6 DEF Meet

\* The number of files is in a string of its own, and read as it was sent if
\* this is no fault.
LEMMA GetCountStep ==
    ASSUME TransferGood, GetCount, ~fault'
    PROVE  TransferGood'
<1> USE DEF TransferGood
<1> DEFINE v == toServer[1].str
           next == [sv EXCEPT !.at = "names", !.n = v, !.i = 1, !.names = <<>>,
                              !.sizes = <<>>]
<1>1. /\ sv.at = "count" /\ toServer # <<>> /\ toServer' = <<>>
      /\ cl' = cl /\ open' = open /\ local' = local /\ remote' = remote
  BY DEF GetCount, clientSide
<1>2. Len(toServer) = 1 /\ IsString(toServer) /\ v \in Nat \ {0}
  <2>1. Left
    BY MeetLeaves
  <2>2. Len(toServer) = 1 /\ IsStr(toServer[1], Nat \ {0})
    BY <1>1, <2>1 DEF Left, AcksAndCount
  <2> QED BY <2>2, ItemFacts
<1>3. ServerSends(<<Ack>>, next)
  <2>1. PICK n : /\ fault' = (fault \/ n # toServer[1].str)
                 /\ ServerSends(<<Ack>>,
                        [sv EXCEPT !.at = "names", !.n = n, !.i = 1,
                                   !.names = <<>>, !.sizes = <<>>])
    BY <1>2 DEF GetCount
  <2>2. n = v
    BY <2>1
  <2> QED BY <2>1, <2>2
<1>4. /\ next \in [at : ServerPlaces, n : Nat, names : Seq(Words), i : Nat,
                   sizes : Seq(Int), left : Int, off : Nat]
      /\ next.at = "names" /\ next.n = v /\ next.i = 1 /\ next.names = <<>>
      /\ next.sizes = <<>>
  <2> HIDE DEF v
  <2> QED BY <1>2, EmptySeq DEF TransferTypes, ServerPlaces
<1> HIDE DEF next, v
<1>5. CASE open
  <2>1. sv' = next /\ toClient' = toClient \o <<Ack>>
    BY <1>3, <1>5 DEF ServerSends
  <2>2. /\ cl.at = "ack" /\ cl.args # <<>> /\ cl.sizes = <<>> /\ cl.i = 0
        /\ toClient = <<>> /\ v = Len(cl.args)
    <3>1. cl.at = "ack"
      BY <1>1, <1>5, ClientIsTyped
         DEF Meet, ClientPlaces, Fetching, SameGet, Answered, Sizing
    <3>2. Asking
      BY <3>1 DEF Meet
    <3>3. /\ cl.args # <<>> /\ cl.sizes = <<>> /\ cl.i = 0 /\ toClient = <<>>
          /\ toServer[Due + 1] = Str(Len(cl.args))
      BY <1>1, <3>2 DEF Asking
    <3>4. Due = 0
      BY <1>1 DEF Due
    <3> QED BY <3>1, <3>3, <3>4, ItemFacts DEF v
  <2>3. toClient' = <<Ack>> /\ toClient' \in Seq(Items)
    BY <2>1, <2>2, ItemFacts
  <2>4. TransferTypes'
    BY <1>1, <1>4, <2>1, <2>3, EmptySeq DEF TransferTypes
  <2>5. ServerRight'
    BY <1>2, <1>4, <2>1 DEF ServerRight
  <2>6. Asking'
    BY <1>1, <1>2, <1>4, <2>1, <2>2, <2>3 DEF Asking
  <2> QED BY <1>1, <2>2, <2>4, <2>5, <2>6 DEF Meet
<1>6. CASE ~open
  <2>1. toClient' = toClient /\ sv' \in {next, [next EXCEPT !.at = "dead"]}
    BY <1>3, <1>6 DEF ServerSends
  <2>2. TransferTypes'
    BY <1>1, <1>4, <2>1, EmptySeq DEF TransferTypes, ServerPlaces
  <2>3. CASE sv' = next
    <3>1. ServerRight'
      BY <1>2, <1>4, <2>3 DEF ServerRight
    <3>2. Left'
      BY <1>1, <1>4, <2>3 DEF Left, Answered
    <3>3. cl'.at = "gone"
      BY <1>1, <1>6, ClientIsTyped
    <3> QED BY <2>2, <3>1, <3>2, <3>3 DEF Meet
  <2>4. CASE sv'.at = "dead"
    BY <1>1, <1>6, <2>2, <2>4, BothGone
  <2> QED BY <1>4, <2>1, <2>3, <2>4
<1> QED BY <1>5, <1>6

\* The server goes back to accept() when its client has gone.
LEMMA NextClientStep ==
    ASSUME TransferGood, NextClient
    PROVE  TransferGood'
<1> USE DEF TransferGood
<1>1. /\ sv.at = "count" /\ ~open /\ toServer = <<>>
      /\ sv' = [sv EXCEPT !.at = "accept", !.n = 0, !.i = 0, !.names = <<>>,
                          !.sizes = <<>>, !.left = 0, !.off = 0]
      /\ cl' = cl /\ open' = open /\ local' = local /\ remote' = remote
      /\ toServer' = toServer /\ toClient' = toClient
  BY DEF NextClient, EndOfStream, clientSide
<1>2. sv'.at = "accept"
  BY <1>1 DEF TransferTypes
<1>3. TransferTypes'
  <2>1. sv' \in [at : ServerPlaces, n : Nat, names : Seq(Words), i : Nat,
                 sizes : Seq(Int), left : Int, off : Nat]
    <3>1. sv' = [at |-> "accept", n |-> 0, names |-> <<>>, i |-> 0,
                 sizes |-> <<>>, left |-> 0, off |-> 0]
      BY <1>1 DEF TransferTypes
    <3> QED BY <3>1, EmptySeq DEF ServerPlaces
  <2> QED BY <1>1, <2>1 DEF TransferTypes
<1>4. ServerRight'
  BY <1>1, <1>2 DEF ServerRight
<1>5. Left' /\ cl'.at = "gone"
  BY <1>1, <1>2, ClientIsTyped DEF Left, Answered
<1> QED BY <1>3, <1>4, <1>5 DEF Meet

\* A name is kept, and after the last of them the sizes are next.
NameKept(w) == Advanced([sv EXCEPT !.names = Append(@, w)], "size")

\* The server's list grows by the name that was sent, or by NULL.
LEMMA NameIsKept ==
    ASSUME TransferTypes, ServerRight, sv.at = "names", NEW w \in Words
    PROVE  /\ NameKept(w) \in [at : ServerPlaces, n : Nat, names : Seq(Words), i : Nat,
                               sizes : Seq(Int), left : Int, off : Nat]
           /\ NameKept(w).n = sv.n
           /\ NameKept(w).sizes = <<>>
           /\ NameKept(w).names = Append(sv.names, w)
           /\ Len(NameKept(w).names) = sv.i
           /\ \A j \in 1..(sv.i - 1) : NameKept(w).names[j] = sv.names[j]
           /\ NameKept(w).names[sv.i] = w
           /\ sv.i = sv.n => NameKept(w).at = "size" /\ NameKept(w).i = 1
           /\ sv.i # sv.n => NameKept(w).at = "names" /\ NameKept(w).i = sv.i + 1
<1>1. /\ sv.i \in 1..sv.n /\ Len(sv.names) = sv.i - 1 /\ sv.sizes = <<>>
      /\ sv.names \in Seq(Words) /\ sv.i \in Nat /\ sv.n \in Nat
  BY ServerIsTyped DEF ServerRight
<1> DEFINE list == Append(sv.names, w)
<1>2. /\ list \in Seq(Words) /\ Len(list) = sv.i /\ list[sv.i] = w
      /\ \A j \in 1..(sv.i - 1) : list[j] = sv.names[j]
  BY <1>1, AppendProperties
<1>3. sv.i = sv.n => NameKept(w) = [at |-> "size", n |-> sv.n, names |-> list, i |-> 1,
                                    sizes |-> sv.sizes, left |-> sv.left,
                                    off |-> sv.off]
  BY DEF NameKept, Advanced, TransferTypes
<1>4. sv.i # sv.n => NameKept(w) = [at |-> sv.at, n |-> sv.n, names |-> list,
                                    i |-> sv.i + 1, sizes |-> sv.sizes,
                                    left |-> sv.left, off |-> sv.off]
  BY DEF NameKept, Advanced, TransferTypes
<1> HIDE DEF list
<1>5. CASE sv.i = sv.n
  <2> DEFINE r == NameKept(w)
  <2>1. r = [at |-> "size", n |-> sv.n, names |-> list, i |-> 1,
             sizes |-> sv.sizes, left |-> sv.left, off |-> sv.off]
    BY <1>3, <1>5
  <2> HIDE DEF r
  <2> QED BY <1>1, <1>2, <1>5, <2>1, ServerIsTyped DEF r, ServerPlaces, list
<1>6. CASE sv.i # sv.n
  <2> DEFINE r == NameKept(w)
  <2>1. r = [at |-> sv.at, n |-> sv.n, names |-> list, i |-> sv.i + 1,
             sizes |-> sv.sizes, left |-> sv.left, off |-> sv.off]
    BY <1>4, <1>6
  <2>2. sv.i + 1 \in Nat
    BY <1>1
  <2> HIDE DEF r
  <2>3. r \in [at : ServerPlaces, n : Nat, names : Seq(Words), i : Nat,
               sizes : Seq(Int), left : Int, off : Nat]
    BY <1>1, <1>2, <2>1, <2>2, ServerIsTyped
  <2>4. /\ r.n = sv.n /\ r.names = list /\ r.sizes = sv.sizes
        /\ r.at = sv.at /\ r.i = sv.i + 1
    BY <2>1
  <2>5. list = Append(sv.names, w) /\ sv.at = "names"
    BY DEF list
  <2> QED BY <1>1, <1>2, <1>6, <2>3, <2>4, <2>5 DEF r
<1> QED BY <1>5, <1>6

\* And the server is right with it.
LEMMA NameKeptRight ==
    ASSUME TransferTypes, ServerRight, sv.at = "names", NEW w, w \in Words,
           sv' = NameKept(w)
    PROVE  ServerRight'
<1>1. sv'.n = sv.n /\ sv'.sizes = <<>> /\ Len(sv'.names) = sv.i
  BY NameIsKept
<1>2. /\ sv.i = sv.n => sv'.at = "size" /\ sv'.i = 1
      /\ sv.i # sv.n => sv'.at = "names" /\ sv'.i = sv.i + 1
  BY NameIsKept
<1>3. sv.i \in 1..sv.n /\ sv.i \in Nat /\ sv.n \in Nat
  BY ServerIsTyped DEF ServerRight
<1>4. SizesOf(sv.sizes, sv.names)' /\ Len(sv'.sizes) = 0
  <2>1. Len(<<>>) = 0
    BY EmptySeq
  <2>2. Len(sv'.sizes) = 0
    BY <1>1, <2>1
  <2> QED BY <1>1, <1>3, <2>2 DEF SizesOf
<1> QED BY <1>1, <1>2, <1>3, <1>4 DEF ServerRight

\* A name is in a string of its own, and read as it was sent if this is no
\* fault.
LEMMA GetNameStep ==
    ASSUME TransferGood, GetName, ~fault'
    PROVE  TransferGood'
<1> USE DEF TransferGood
<1> DEFINE w == toServer[1].str
<1>1. /\ sv.at = "names" /\ toServer # <<>> /\ toServer' = <<>>
      /\ cl' = cl /\ open' = open /\ local' = local /\ remote' = remote
  BY DEF GetName, clientSide
<1>2. IsString(toServer) /\ w \in Words
  <2>1. Left
    BY MeetLeaves
  <2>2. Len(toServer) = 1 /\ IsStr(toServer[1], Words)
    BY <1>1, <2>1 DEF Left
  <2> QED BY <2>2, ItemFacts
<1>3. ServerSends(<<Ack>>, NameKept(w))
  <2>1. PICK name : /\ fault' = (fault \/ name # toServer[1].str)
                    /\ ServerSends(<<Ack>>,
                        Advanced([sv EXCEPT !.names = Append(@, name)], "size"))
    BY <1>2 DEF GetName
  <2>2. name = w
    BY <2>1
  <2> QED BY <2>1, <2>2 DEF NameKept
<1> HIDE DEF w
<1>4. NameKept(w) \in [at : ServerPlaces, n : Nat, names : Seq(Words), i : Nat,
                       sizes : Seq(Int), left : Int, off : Nat]
  BY <1>1, <1>2, NameIsKept
<1>5. CASE open
  <2>1. sv' = NameKept(w) /\ toClient' = toClient \o <<Ack>>
    BY <1>3, <1>5 DEF ServerSends
  <2>2. /\ cl.at = "ack" /\ cl.args # <<>> /\ cl.sizes = <<>> /\ cl.i = sv.i
        /\ toClient = <<>> /\ w = cl.args[sv.i] /\ sv.n = Len(cl.args)
        /\ \A j \in 1..Len(sv.names) : sv.names[j] = cl.args[j]
    <3>1. cl.at = "ack"
      BY <1>1, <1>5, ClientIsTyped
         DEF Meet, ClientPlaces, Fetching, SameGet, Answered, Sizing
    <3>2. Asking
      BY <3>1 DEF Meet
    <3>3. /\ cl.args # <<>> /\ cl.sizes = <<>> /\ cl.i = sv.i /\ toClient = <<>>
          /\ toServer = <<Str(cl.args[cl.i])>> /\ sv.n = Len(cl.args)
          /\ \A j \in 1..Len(sv.names) : sv.names[j] = cl.args[j]
      BY <1>1, <3>2 DEF Asking, Answered
    <3> QED BY <3>1, <3>3, ItemFacts DEF w
  <2>3. toClient' = <<Ack>> /\ toClient' \in Seq(Items)
    BY <2>1, <2>2, ItemFacts
  <2>4. TransferTypes'
    BY <1>1, <1>4, <2>1, <2>3, EmptySeq DEF TransferTypes
  <2>5. ServerRight'
    BY <1>1, <1>2, <2>1, NameKeptRight
  <2>6. /\ sv'.n = Len(cl.args) /\ Len(sv'.names) = sv.i /\ sv'.names \in Seq(Words)
        /\ \A j \in 1..sv.i : sv'.names[j] = cl.args[j]
    <3>1. /\ sv'.n = sv.n /\ Len(sv'.names) = sv.i /\ sv'.names[sv.i] = w
          /\ \A j \in 1..(sv.i - 1) : sv'.names[j] = sv.names[j]
      <4>1. /\ NameKept(w).n = sv.n /\ Len(NameKept(w).names) = sv.i
            /\ NameKept(w).names[sv.i] = w
            /\ \A j \in 1..(sv.i - 1) : NameKept(w).names[j] = sv.names[j]
        BY <1>1, <1>2, NameIsKept
      <4> QED BY ONLY <2>1, <4>1
    <3>2. Len(sv.names) = sv.i - 1 /\ sv.i \in Nat
      BY <1>1, ServerIsTyped DEF ServerRight
    <3>3. ASSUME NEW j \in 1..sv.i PROVE sv'.names[j] = cl.args[j]
      <4>1. CASE j = sv.i
        BY <2>2, <3>1, <4>1
      <4>2. CASE j # sv.i
        <5>1. j \in 1..(sv.i - 1)
          BY <3>2, <4>2
        <5> QED BY <2>2, <3>1, <3>2, <5>1
      <4> QED BY <4>1, <4>2
    <3> QED BY <1>4, <2>1, <2>2, <3>1, <3>3
  <2>7. Asking'
    <3>1. CASE sv.i = sv.n
      <4>1. sv'.at = "size" /\ sv'.i = 1
        BY <1>1, <1>2, <2>1, <3>1, NameIsKept
      <4>2. sv'.names = cl.args
        BY <2>2, <2>6, <3>1, SeqEqual, ClientIsTyped
      <4> QED BY <1>1, <2>2, <2>3, <2>6, <3>1, <4>1, <4>2 DEF Asking
    <3>2. CASE sv.i # sv.n
      <4>1. sv'.at = "names" /\ sv'.i = sv.i + 1
        BY <1>1, <1>2, <2>1, <3>2, NameIsKept
      <4>2. cl'.i = sv'.i - 1
        BY <1>1, <2>2, <4>1, ServerIsTyped
      <4> QED BY <1>1, <2>2, <2>3, <2>6, <4>1, <4>2 DEF Asking
    <3> QED BY <3>1, <3>2
  <2> QED BY <1>1, <2>2, <2>4, <2>5, <2>7 DEF Meet
<1>6. CASE ~open
  <2>1. toClient' = toClient /\ sv' \in {NameKept(w), [NameKept(w) EXCEPT !.at = "dead"]}
    BY <1>3, <1>6 DEF ServerSends
  <2>2. TransferTypes'
    BY <1>1, <1>4, <2>1, EmptySeq DEF TransferTypes, ServerPlaces
  <2>3. CASE sv' = NameKept(w)
    <3>1. ServerRight'
      BY <1>1, <1>2, <2>3, NameKeptRight
    <3>2. sv'.at \in {"size", "names"}
      BY <1>1, <1>2, <2>3, NameIsKept
    <3>3. Left'
      BY <1>1, <3>2 DEF Left, Answered
    <3>4. cl'.at = "gone"
      BY <1>1, <1>6, ClientIsTyped
    <3> QED BY <2>2, <3>1, <3>3, <3>4 DEF Meet
  <2>4. CASE sv'.at = "dead"
    BY <1>1, <1>6, <2>2, <2>4, BothGone
  <2> QED BY <1>4, <2>1, <2>3, <2>4
<1> QED BY <1>5, <1>6

\* NULL is kept only once the client has gone.
LEMMA GetNoNameStep ==
    ASSUME TransferGood, GetNoName
    PROVE  TransferGood'
<1> USE DEF TransferGood
<1>1. /\ sv.at = "names" /\ ~open /\ toServer = <<>> /\ sv' = NameKept(NoFile)
      /\ cl' = cl /\ open' = open /\ local' = local /\ remote' = remote
      /\ toServer' = toServer /\ toClient' = toClient
  BY DEF GetNoName, EndOfStream, clientSide, NameKept
<1>2. /\ NoFile \in Words
      /\ NameKept(NoFile) \in [at : ServerPlaces, n : Nat, names : Seq(Words), i : Nat,
                               sizes : Seq(Int), left : Int, off : Nat]
      /\ NameKept(NoFile).at \in {"names", "size"}
  BY <1>1, NameIsKept, ContentsAreSeqs
<1>3. TransferTypes'
  BY <1>1, <1>2 DEF TransferTypes
<1>4. ServerRight'
  BY <1>1, <1>2, NameKeptRight
<1>5. Left' /\ cl'.at = "gone"
  BY <1>1, <1>2, ClientIsTyped DEF Left, Answered
<1> QED BY <1>3, <1>4, <1>5 DEF Meet

\* The size that is sent is the length of the file the client asks for.
LEMMA SendSizeStep ==
    ASSUME TransferGood, SendSize, ~fault'
    PROVE  TransferGood'
<1> USE DEF TransferGood
<1> DEFINE n == LengthOf(sv.names[sv.i])
           next == [sv EXCEPT !.at = "sizeAck", !.sizes = Append(@, n)]
<1>1. /\ sv.at = "size" /\ ServerSends(<<Str(n)>>, next)
      /\ cl' = cl /\ open' = open /\ local' = local /\ remote' = remote
      /\ toServer' = toServer
  <2>1. PICK k : /\ fault' = (fault \/ k # LengthOf(sv.names[sv.i]))
                 /\ ServerSends(<<Str(k)>>, [sv EXCEPT !.at = "sizeAck",
                                                       !.sizes = Append(@, k)])
    BY DEF SendSize
  <2>2. k = n
    BY <2>1
  <2>3. ServerSends(<<Str(n)>>, next)
    BY <2>1, <2>2
  <2> QED BY <2>3 DEF SendSize, clientSide
<1>2. /\ sv.i \in 1..sv.n /\ Len(sv.names) = sv.n /\ Len(sv.sizes) = sv.i - 1
      /\ SizesOf(sv.sizes, sv.names) /\ n \in Int
  <2>1. n \in Int
    BY SizeOfFile
  <2> HIDE DEF n
  <2> QED BY <1>1, <2>1 DEF ServerRight
<1> HIDE DEF n
<1>3. /\ Append(sv.sizes, n) \in Seq(Int) /\ Len(Append(sv.sizes, n)) = sv.i
      /\ \A j \in 1..(sv.i - 1) : Append(sv.sizes, n)[j] = sv.sizes[j]
      /\ Append(sv.sizes, n)[sv.i] = n
  <2>1. sv.sizes \in Seq(Int) /\ Len(sv.sizes) + 1 = sv.i
    BY <1>2, ServerIsTyped
  <2>2. /\ Append(sv.sizes, n) \in Seq(Int)
        /\ Len(Append(sv.sizes, n)) = Len(sv.sizes) + 1
        /\ \A j \in 1..Len(sv.sizes) : Append(sv.sizes, n)[j] = sv.sizes[j]
        /\ Append(sv.sizes, n)[Len(sv.sizes) + 1] = n
    BY ONLY <1>2, <2>1, AppendProperties
  <2> QED BY <1>2, <2>1, <2>2
<1>4. /\ next \in [at : ServerPlaces, n : Nat, names : Seq(Words), i : Nat,
                   sizes : Seq(Int), left : Int, off : Nat]
      /\ next.at = "sizeAck" /\ next.n = sv.n /\ next.i = sv.i
      /\ next.names = sv.names /\ next.sizes = Append(sv.sizes, n)
  BY <1>3 DEF TransferTypes, ServerPlaces
<1> HIDE DEF next
<1>5. SizesOf(Append(sv.sizes, n), sv.names)
  <2>1. ASSUME NEW j \in 1..sv.i PROVE Append(sv.sizes, n)[j] = LengthOf(sv.names[j])
    <3>1. CASE j = sv.i
      BY <1>3, <3>1 DEF n
    <3>2. CASE j # sv.i
      <4>1. j \in 1..(sv.i - 1)
        BY <3>2, ServerIsTyped
      <4> QED BY <1>2, <1>3, <4>1 DEF SizesOf
    <3> QED BY <3>1, <3>2
  <2>2. /\ Len(Append(sv.sizes, n)) = sv.i /\ Len(sv.names) = sv.n
        /\ sv.i \in 1..sv.n /\ sv.n \in Nat
    BY <1>2, <1>3, ServerIsTyped
  <2> QED BY ONLY <2>1, <2>2 DEF SizesOf
<1>6. ASSUME sv' = next PROVE ServerRight'
  <2>1. SizesOf(sv.sizes, sv.names)'
    BY <1>1, <1>4, <1>5, <1>6 DEF SizesOf, LengthOf
  <2> QED BY <1>2, <1>3, <1>4, <1>6, <2>1 DEF ServerRight
<1>7. toServer = <<>>
  BY <1>1, MeetLeaves DEF Left
<1>8. CASE open
  <2>1. sv' = next /\ toClient' = toClient \o <<Str(n)>>
    BY <1>1, <1>8 DEF ServerSends
  <2>2. cl.at \in {"ack", "size"}
    BY <1>1, <1>8, ClientIsTyped DEF Meet, ClientPlaces, Fetching, SameGet, Answered
  <2>3. Str(n) \in Items /\ toClient' \in Seq(Items)
    <3>1. Str(n) \in Items
      BY <1>2, ItemFacts
    <3>2. <<Str(n)>> \in Seq(Items)
      <4> HIDE DEF Items
      <4> QED BY <3>1
    <3> QED BY <2>1, <3>1, <3>2, ConcatProperties, ServerIsTyped
  <2>4. TransferTypes'
    BY <1>1, <1>4, <2>1, <2>3 DEF TransferTypes
  <2>5. \A w : LengthOf(w)' = LengthOf(w)
    BY <1>1 DEF LengthOf
  <2>6. CASE cl.at = "ack"
    <3>1. /\ Asking /\ sv.i = 1 /\ sv.n = Len(cl.args) /\ sv.names = cl.args
          /\ cl.i = Len(cl.args) /\ toClient = <<Ack>>
          /\ cl.args # <<>> /\ cl.sizes = <<>>
      BY <1>1, <2>6 DEF Meet, Asking, Answered
    <3>2. toClient' = <<Ack, Str(LengthOf(cl.args[1]))>>
      <4>1. n = LengthOf(cl.args[1])
        BY <3>1 DEF n
      <4>2. <<Ack>> \o <<Str(n)>> = <<Ack, Str(n)>>
        BY TwoItems
      <4> QED BY <2>1, <3>1, <4>1, <4>2
    <3>3. LengthOf(cl.args[1])' = LengthOf(cl.args[1])
      BY <1>1 DEF LengthOf
    <3>4. Asking'
      BY <1>1, <1>4, <1>7, <2>1, <3>1, <3>2, <3>3 DEF Asking
    <3> QED BY <1>1, <1>6, <2>1, <2>4, <2>6, <3>4 DEF Meet
  <2>7. CASE cl.at = "size"
    <3>1. /\ Sizing /\ sv.i = cl.i /\ toClient = <<>> /\ sv.names = cl.args
          /\ sv.n = Len(cl.args) /\ cl.i \in 1..Len(cl.args)
          /\ Len(cl.sizes) = cl.i - 1 /\ SizesOf(cl.sizes, cl.args)
      BY <1>1, <2>7 DEF Meet, Sizing
    <3>2. toClient' = <<Str(LengthOf(cl.args[cl.i]))>>
      <4>1. n = LengthOf(cl.args[cl.i])
        BY <3>1 DEF n
      <4>2. toClient' = <<Str(n)>>
        BY <2>1, <3>1
      <4> QED BY <4>1, <4>2
    <3>3. LengthOf(cl.args[cl.i])' = LengthOf(cl.args[cl.i])
      BY <1>1 DEF LengthOf
    <3>4. SizesOf(cl.sizes, cl.args)'
      BY <1>1, <3>1 DEF SizesOf, LengthOf
    <3>5. Sizing'
      BY <1>1, <1>4, <1>7, <2>1, <3>1, <3>2, <3>3, <3>4 DEF Sizing
    <3> QED BY <1>1, <1>6, <2>1, <2>4, <2>7, <3>5 DEF Meet
  <2> QED BY <2>2, <2>6, <2>7
<1>9. CASE ~open
  <2>1. toClient' = toClient /\ sv' \in {next, [next EXCEPT !.at = "dead"]}
    BY <1>1, <1>9 DEF ServerSends
  <2>2. TransferTypes'
    BY <1>1, <1>4, <2>1 DEF TransferTypes, ServerPlaces
  <2>3. CASE sv' = next
    <3>1. AllAcks(toServer') /\ Len(toServer') = 0
      BY <1>1, <1>7 DEF AllAcks
    <3>2. Due' \in Nat
      <4>1. sv'.sizes \in Seq(Int) /\ sv'.at = "sizeAck"
        BY <1>3, <1>4, <2>3
      <4>2. Owed(sv'.sizes, 1) \in Nat
        BY <4>1, OwedFinite
      <4> QED BY <4>1, <4>2 DEF Due
    <3>3. Left'
      <4>1. sv'.at = "sizeAck"
        BY <1>4, <2>3
      <4>2. Len(toServer') <= 1 /\ Len(toServer') <= Due'
        BY <3>1, <3>2
      <4> QED BY <3>1, <4>1, <4>2 DEF Left
    <3>4. cl'.at = "gone"
      BY <1>1, <1>9, ClientIsTyped
    <3> QED BY <1>6, <2>2, <2>3, <3>3, <3>4 DEF Meet
  <2>4. CASE sv'.at = "dead"
    BY <1>1, <1>9, <2>2, <2>4, BothGone
  <2> QED BY <1>4, <2>1, <2>3, <2>4
<1> QED BY <1>8, <1>9

\* The client of a server that sends files is in the same get, or has all of
\* them and has begun the next.
LEMMA Serving ==
    ASSUME TransferGood, open, sv.at \in {"file", "send", "fileAck"}
    PROVE  /\ StreamRight /\ Answered
           /\ \/ cl.at \in {"prompt", "file", "recv"} /\ Fetching /\ SameGet
              \/ /\ cl.at = "ack" /\ Asking /\ cl.i = 0 /\ toClient = <<>>
                 /\ cl.args # <<>> /\ cl.sizes = <<>>
                 /\ AcksAndCount(toServer) /\ Len(toServer) = Due + 1
                 /\ toServer[Due + 1] = Str(Len(cl.args))
<1> USE DEF TransferGood
<1>1. Answered
  BY DEF Answered
<1>2. cl.at # "size" /\ cl.at # "gone"
  BY ClientIsTyped DEF Meet, Sizing
<1>3. CASE cl.at = "ack"
  <2>1. Asking
    BY <1>3 DEF Meet
  <2> QED BY <1>1, <1>3, <2>1 DEF Asking
<1>4. CASE cl.at \in {"prompt", "file", "recv"}
  <2>1. Fetching
    BY <1>4 DEF Meet
  <2>2. SameGet
    BY <2>1 DEF Fetching
  <2> QED BY <1>1, <1>4, <2>1, <2>2 DEF SameGet
<1> QED BY <1>2, <1>3, <1>4, ClientIsTyped DEF ClientPlaces

\* The server goes on in its get, and takes nothing that was on its way.
LEMMA ServingMoves ==
    ASSUME TransferGood, sv.at \in {"file", "send", "fileAck"},
           cl' = cl, open' = open, local' = local, remote' = remote,
           toServer' = toServer, sv'.n = sv.n, sv'.names = sv.names,
           sv'.sizes = sv.sizes, Due' = Due,
           \/ sv'.at \in {"file", "send", "fileAck"}
           \/ sv'.at = "dead" /\ sv'.i \in 1..sv.n /\ cl.at # "ack",
           open => StreamRight', cl.at = "ack" => toClient' = toClient
    PROVE  Meet'
<1> USE DEF TransferGood
<1>1. CASE open
  <2>1. CASE cl.at \in {"prompt", "file", "recv"} /\ Fetching /\ SameGet
    <3>1. Answered' \/ (sv'.at = "dead" /\ sv'.i \in 1..sv'.n)
      BY DEF Answered
    <3>2. SameGet'
      BY <1>1, <2>1, <3>1 DEF SameGet
    <3>3. SizesOf(cl.sizes, cl.args)'
      BY <2>1 DEF Fetching, SizesOf, LengthOf
    <3>4. \A k \in 1..Len(cl.args) : Held(cl.args[k]) => Held(cl.args[k])'
      BY DEF Held
    <3>5. Fetching'
      BY <2>1, <3>2, <3>3, <3>4 DEF Fetching
    <3> QED BY <2>1, <3>5 DEF Meet
  <2>2. CASE cl.at = "ack"
    <3>1. /\ cl.i = 0 /\ toClient = <<>> /\ cl.args # <<>> /\ cl.sizes = <<>>
          /\ AcksAndCount(toServer) /\ Len(toServer) = Due + 1
          /\ toServer[Due + 1] = Str(Len(cl.args))
      BY <1>1, <2>2, Serving
    <3>2. Answered' /\ StreamRight' /\ toClient' = <<>>
      BY <1>1, <2>2, <3>1 DEF Answered
    <3>3. Asking'
      BY <3>1, <3>2 DEF Asking
    <3> QED BY <2>2, <3>3 DEF Meet
  <2> QED BY <1>1, <2>1, <2>2, Serving
<1>2. CASE ~open
  <2>1. cl'.at = "gone"
    BY <1>2, ClientIsTyped
  <2>2. Left /\ Answered
    BY MeetLeaves DEF Answered
  <2>3. \/ AllAcks(toServer') /\ Len(toServer') <= Due'
        \/ AcksAndCount(toServer') /\ Len(toServer') = Due' + 1
    BY <2>2 DEF Left
  <2>4. Left'
    BY <2>3 DEF Left
  <2> QED BY <2>1, <2>4 DEF Meet
<1> QED BY <1>1, <1>2, ClientIsTyped

\* The server knows all names and sizes while it sends files.
LEMMA ServerFileRight ==
    ASSUME TransferTypes, ServerRight, sv.at \in {"file", "send", "fileAck"}
    PROVE  /\ sv.i \in Nat /\ sv.n \in Nat /\ sv.i \in 1..(sv.n + 1)
           /\ Len(sv.names) = sv.n /\ Len(sv.sizes) = sv.n
           /\ SizesOf(sv.sizes, sv.names) /\ sv.sizes \in Seq(Int)
           /\ Due = Owed(sv.sizes, sv.i) /\ Due \in Nat
           /\ \A k \in 1..sv.n : sv.sizes[k] \in Int /\ Got(k) \in Nat
<1>1. /\ sv.i \in Nat /\ sv.n \in Nat /\ sv.i \in 1..(sv.n + 1)
      /\ Len(sv.names) = sv.n /\ Len(sv.sizes) = sv.n
      /\ SizesOf(sv.sizes, sv.names) /\ sv.sizes \in Seq(Int)
  <2>1. sv.i \in Nat /\ sv.n \in Nat /\ sv.sizes \in Seq(Int)
    BY ServerIsTyped
  <2>2. Len(sv.names) = sv.n /\ Len(sv.sizes) = sv.n
    BY DEF ServerRight
  <2>3. SizesOf(sv.sizes, sv.names)
    BY DEF ServerRight
  <2>4. sv.i \in 1..(sv.n + 1)
    BY <2>1 DEF ServerRight
  <2> QED BY <2>1, <2>2, <2>3, <2>4
<1> QED BY <1>1, ServerIsTyped, GotType, DueType DEF Due

\* A file without a size is not sent, and owed no acknowledgement.
LEMMA NotSentStep ==
    ASSUME TransferGood, NotSent
    PROVE  TransferGood'
<1> USE DEF TransferGood
<1>1. /\ sv.at = "file" /\ sv.i <= sv.n
      /\ sv.sizes[sv.i] < 0 \/ LengthOf(sv.names[sv.i]) < 0
      /\ sv' = [sv EXCEPT !.i = @ + 1]
      /\ cl' = cl /\ open' = open /\ local' = local /\ remote' = remote
      /\ toServer' = toServer /\ toClient' = toClient
  <2>1. ~Opens(sv.names[sv.i]) => LengthOf(sv.names[sv.i]) < 0
    BY DEF Opens, Exists, LengthOf
  <2> QED BY <2>1 DEF NotSent, clientSide
<1>2. /\ sv'.at = "file" /\ sv'.i = sv.i + 1 /\ sv'.n = sv.n
      /\ sv'.names = sv.names /\ sv'.sizes = sv.sizes
  BY <1>1 DEF TransferTypes
<1>3. /\ sv.i \in 1..sv.n /\ sv.i \in Nat /\ sv.n \in Nat /\ sv.sizes[sv.i] < 0
      /\ Len(sv.names) = sv.n /\ Len(sv.sizes) = sv.n
      /\ SizesOf(sv.sizes, sv.names) /\ sv.sizes \in Seq(Int)
      /\ Due = Owed(sv.sizes, sv.i)
  <2>1. /\ sv.i \in 1..sv.n /\ Len(sv.sizes) = sv.n /\ SizesOf(sv.sizes, sv.names)
    BY <1>1, ServerFileRight
  <2>2. sv.sizes[sv.i] = LengthOf(sv.names[sv.i])
    BY <2>1 DEF SizesOf
  <2> QED BY <1>1, <2>1, <2>2, ServerFileRight
<1>4. TransferTypes'
  <2>1. sv.i + 1 \in Nat
    BY <1>3
  <2>2. sv' \in [at : ServerPlaces, n : Nat, names : Seq(Words), i : Nat,
                 sizes : Seq(Int), left : Int, off : Nat]
    BY <1>1, <2>1 DEF TransferTypes
  <2> QED BY <1>1, <2>2 DEF TransferTypes
<1>5. SizesOf(sv.sizes, sv.names)'
  BY <1>1, <1>2, <1>3 DEF SizesOf, LengthOf
<1>6. ServerRight'
  <2>1. sv.i + 1 \in 1..(sv.n + 1)
    BY <1>3
  <2>2. SizesOf(sv.sizes, sv.names)' /\ sv'.i \in 1..(sv'.n + 1)
    BY <1>2, <1>5, <2>1
  <2> QED BY <1>2, <1>3, <2>2 DEF ServerRight
<1>7. Due' = Due
  <2>1. Owed(sv.sizes, sv.i) = Owed(sv.sizes, sv.i + 1)
    <3>1. sv.sizes[sv.i] \in Int
      BY <1>3, ServerIsTyped
    <3> QED BY <1>3, <3>1, OwedStep
  <2>2. Due' = Owed(sv.sizes, sv.i + 1)
    BY <1>2 DEF Due
  <2> QED BY <1>3, <2>1, <2>2
<1>8. ASSUME open PROVE StreamRight'
  <2>1. StreamRight
    BY <1>1, <1>8, Serving
  <2>2. NotBegun = sv.i /\ NotBegun' = sv.i + 1
    BY <1>1, <1>2 DEF NotBegun
  <2>3. ASSUME NEW k \in 1..sv.n, k >= sv.i + 1 PROVE Got(k)' = 0
    <3>1. Got(k) = 0
      BY <1>3, <2>1, <2>2, <2>3 DEF StreamRight
    <3> QED BY <1>1, <1>2, <3>1 DEF Got
  <2> QED BY <1>1, <1>2, <2>1, <2>2, <2>3 DEF StreamRight
<1>9. Meet'
  BY <1>1, <1>2, <1>7, <1>8, ServingMoves
<1> QED BY <1>4, <1>6, <1>9

\* sendFile() opens a file of which nothing was sent.
LEMMA OpenRemoteStep ==
    ASSUME TransferGood, OpenRemote
    PROVE  TransferGood'
<1> USE DEF TransferGood
<1>1. /\ sv.at = "file" /\ sv.i <= sv.n /\ sv.sizes[sv.i] >= 0
      /\ sv' = [sv EXCEPT !.at = "send", !.left = sv.sizes[sv.i], !.off = 0]
      /\ cl' = cl /\ open' = open /\ local' = local /\ remote' = remote
      /\ toServer' = toServer /\ toClient' = toClient
  BY DEF OpenRemote, clientSide
<1>2. /\ sv'.at = "send" /\ sv'.i = sv.i /\ sv'.n = sv.n
      /\ sv'.names = sv.names /\ sv'.sizes = sv.sizes
      /\ sv'.left = sv.sizes[sv.i] /\ sv'.off = 0
  BY <1>1 DEF TransferTypes
<1>3. /\ sv.i \in 1..sv.n /\ sv.sizes[sv.i] \in Nat
      /\ Len(sv.names) = sv.n /\ Len(sv.sizes) = sv.n
      /\ SizesOf(sv.sizes, sv.names) /\ Due = Owed(sv.sizes, sv.i)
  BY <1>1, ServerFileRight
<1>4. TransferTypes'
  <2>1. sv' \in [at : ServerPlaces, n : Nat, names : Seq(Words), i : Nat,
                 sizes : Seq(Int), left : Int, off : Nat]
    <3>1. sv.sizes[sv.i] \in Int /\ 0 \in Nat
      BY <1>3
    <3> QED BY <1>1, <3>1 DEF TransferTypes, ServerPlaces
  <2> QED BY <1>1, <2>1 DEF TransferTypes
<1>5. SizesOf(sv.sizes, sv.names)'
  BY <1>1, <1>2, <1>3 DEF SizesOf, LengthOf
<1>6. ServerRight'
  BY <1>2, <1>3, <1>5 DEF ServerRight
<1>7. Due' = Due
  BY <1>2, <1>3 DEF Due
<1>8. ASSUME open PROVE StreamRight'
  <2>1. StreamRight /\ toClient = <<>>
    BY <1>1, <1>8, Serving DEF StreamRight
  <2>2. NotBegun = sv.i /\ NotBegun' = sv.i + 1
    BY <1>1, <1>2 DEF NotBegun
  <2>3. \A k : Got(k)' = Got(k)
    BY <1>1, <1>2 DEF Got
  <2>4. ASSUME NEW k \in 1..sv.n, k >= sv.i + 1 PROVE Got(k)' = 0
    BY <1>3, <2>1, <2>2, <2>3, <2>4 DEF StreamRight
  <2>5. Got(sv.i)' = 0
    <3>1. Got(sv.i) = 0
      BY <1>3, <2>1, <2>2 DEF StreamRight
    <3> QED BY <1>1, <1>2, <3>1 DEF Got
  <2>6. BytesOf(toClient, remote[sv.names[sv.i]], 0)
    <3>1. sv.sizes[sv.i] = LengthOf(sv.names[sv.i])
      BY <1>3 DEF SizesOf
    <3>2. Len(remote[sv.names[sv.i]]) \in Nat
      BY <1>3, <3>1, SizeOfFile
    <3>3. Len(toClient) = 0
      BY <2>1
    <3> QED BY <3>2, <3>3 DEF BytesOf
  <2>8. BytesOf(toClient', remote'[sv'.names[sv'.i]], 0)
    BY <1>1, <1>2, <2>6
  <2>9. 0 + Len(toClient') = 0
    <3>1. Len(<<>>) = 0
      OBVIOUS
    <3> QED BY <1>1, <2>1, <3>1
  <2>10. sv'.at = "send" /\ sv'.off = 0 /\ sv'.n = sv.n /\ NotBegun' = sv.i + 1
    BY <1>2, <2>2
  <2>11. BytesOf(toClient, remote[sv.names[sv.i]], Got(sv.i))'
    BY <2>5, <2>8 DEF BytesOf
  <2>12. (Got(sv.i) + Len(toClient))' = 0
    BY <2>5, <2>9
  <2> QED BY <2>4, <2>10, <2>11, <2>12 DEF StreamRight
<1>9. Meet'
  BY <1>1, <1>2, <1>7, <1>8, ServingMoves, Serving
<1> QED BY <1>4, <1>6, <1>9

\* sendFile() ends when the size that was promised is sent.
LEMMA SendFileEndStep ==
    ASSUME TransferGood, SendFileEnd
    PROVE  TransferGood'
<1> USE DEF TransferGood
<1>1. /\ sv.at = "send" /\ sv.left <= 0
      /\ sv' = [sv EXCEPT !.at = "fileAck"]
      /\ cl' = cl /\ open' = open /\ local' = local /\ remote' = remote
      /\ toServer' = toServer /\ toClient' = toClient
  <2>1. sv.at = "send"
    BY DEF SendFileEnd
  <2>2. LengthOf(sv.names[sv.i]) >= 0
    BY <2>1, FileSent
  <2>3. ~ReadFails
    BY <2>2 DEF ReadFails, LengthOf
  <2> QED BY <2>3 DEF SendFileEnd, clientSide
<1>2. /\ sv'.at = "fileAck" /\ sv'.i = sv.i /\ sv'.n = sv.n
      /\ sv'.names = sv.names /\ sv'.sizes = sv.sizes
      /\ sv'.off = sv.off
  BY <1>1 DEF TransferTypes
<1>3. /\ sv.i \in 1..sv.n /\ sv.sizes[sv.i] \in Nat /\ sv.off = sv.sizes[sv.i]
      /\ Len(sv.names) = sv.n /\ Len(sv.sizes) = sv.n
      /\ SizesOf(sv.sizes, sv.names) /\ Due = Owed(sv.sizes, sv.i)
  <2>1. sv.left = sv.sizes[sv.i] - sv.off /\ sv.left >= 0
    BY <1>1 DEF ServerRight
  <2> QED BY <1>1, <2>1, FileSent, ServerFileRight
<1>4. TransferTypes'
  <2>1. sv' \in [at : ServerPlaces, n : Nat, names : Seq(Words), i : Nat,
                 sizes : Seq(Int), left : Int, off : Nat]
    BY <1>1 DEF TransferTypes, ServerPlaces
  <2> QED BY <1>1, <2>1 DEF TransferTypes
<1>5. SizesOf(sv.sizes, sv.names)'
  BY <1>1, <1>2, <1>3 DEF SizesOf, LengthOf
<1>6. ServerRight'
  BY <1>2, <1>3, <1>5 DEF ServerRight
<1>7. Due' = Due
  BY <1>2, <1>3 DEF Due
<1>8. ASSUME open PROVE StreamRight'
  <2>1. StreamRight
    BY <1>1, <1>8, Serving
  <2>2. NotBegun = sv.i + 1 /\ NotBegun' = sv.i + 1
    BY <1>1, <1>2 DEF NotBegun
  <2>3. \A k : Got(k)' = Got(k)
    BY <1>1, <1>2 DEF Got
  <2>4. Got(sv.i)' = Got(sv.i)
    BY <1>1, <1>2 DEF Got
  <2> QED BY <1>1, <1>2, <2>1, <2>2, <2>3, <2>4 DEF StreamRight
<1>9. Meet'
  BY <1>1, <1>2, <1>7, <1>8, ServingMoves, Serving
<1> QED BY <1>4, <1>6, <1>9

\* The chunk read is the stretch of the file from the offset on.
LEMMA ChunkIs ==
    ASSUME TransferTypes, ServerRight, sv.at = "send", sv.left > 0
    PROVE  /\ NextChunk \in Seq(Items) /\ Len(NextChunk) \in Nat \ {0}
           /\ BytesOf(NextChunk, remote[sv.names[sv.i]], sv.off)
           /\ Len(NextChunk) <= sv.left
<1> DEFINE x == remote[sv.names[sv.i]]
           to == IF sv.off + CHUNK > Len(x) THEN Len(x) ELSE sv.off + CHUNK
           n == to - sv.off
<1>1. x \in Seq(Bytes) /\ Len(x) = sv.sizes[sv.i] /\ Len(x) \in Nat /\ sv.off \in Nat
  BY FileSent
<1>2. sv.left = Len(x) - sv.off /\ CHUNK \in Nat \ {0}
  BY <1>1, ContentsAreSeqs DEF ServerRight
<1>3. NextChunk = [k \in 1..n |-> Byte(x[sv.off + k])]
  BY DEF NextChunk
<1> HIDE DEF x
<1>4. n \in Nat \ {0} /\ sv.off + n <= Len(x) /\ n <= sv.left
  BY <1>1, <1>2
<1> HIDE DEF n
<1>5. ASSUME NEW k \in 1..n PROVE Byte(x[sv.off + k]) \in Items
  <2>1. sv.off + k \in 1..Len(x)
    BY <1>1, <1>4
  <2>2. x[sv.off + k] \in Bytes
    BY <1>1, <2>1, ElementOfSeq
  <2> QED BY <2>2, ItemFacts
<1>6. NextChunk \in [1..n -> Items]
  BY <1>3, <1>5
<1>7. NextChunk \in Seq(Items) /\ Len(NextChunk) = n
  BY <1>4, <1>6, IsASeq, LenProperties
<1>8. \A k \in 1..n : NextChunk[k] = Byte(x[sv.off + k])
  BY <1>3
<1>9. BytesOf(NextChunk, x, sv.off)
  BY <1>4, <1>7, <1>8 DEF BytesOf
<1> QED BY <1>4, <1>7, <1>9 DEF x

\* A part of it.
LEMMA PartIs ==
    ASSUME NEW s \in Seq(Items), NEW x \in Seq(Bytes), NEW base \in Nat,
           BytesOf(s, x, base), NEW k \in 1..(Len(s) - 1)
    PROVE  /\ SubSeq(s, 1, k) \in Seq(Items) /\ Len(SubSeq(s, 1, k)) = k
           /\ BytesOf(SubSeq(s, 1, k), x, base) /\ k \in Nat /\ k < Len(s)
<1>1. Len(s) \in Nat /\ Len(x) \in Nat /\ k \in Nat /\ k < Len(s)
  BY LenProperties
<1>2. /\ SubSeq(s, 1, k) \in Seq(Items) /\ Len(SubSeq(s, 1, k)) = k
      /\ \A j \in 1..k : SubSeq(s, 1, k)[j] = s[j]
  <2>1. /\ SubSeq(s, 1, k) \in Seq(Items)
        /\ Len(SubSeq(s, 1, k)) = IF 1 <= k THEN k - 1 + 1 ELSE 0
        /\ \A j \in 1..(k - 1 + 1) : SubSeq(s, 1, k)[j] = s[1 + j - 1]
    BY <1>1, SubSeqProperties
  <2> QED BY <1>1, <2>1
<1>3. base + k <= Len(x)
  BY <1>1 DEF BytesOf
<1> HIDE DEF BytesOf
<1>4. \A j \in 1..k : s[j] = Byte(x[base + j])
  BY <1>1 DEF BytesOf
<1>5. BytesOf(SubSeq(s, 1, k), x, base)
  BY <1>2, <1>3, <1>4 DEF BytesOf
<1> QED BY <1>1, <1>2, <1>5

\* What is put on the way continues what is there.
LEMMA StreamGrows ==
    ASSUME TransferTypes, ServerRight, StreamRight, sv.at = "send",
           NEW s \in Seq(Items), BytesOf(s, remote[sv.names[sv.i]], sv.off)
    PROVE  /\ toClient \o s \in Seq(Items)
           /\ BytesOf(toClient \o s, remote[sv.names[sv.i]], Got(sv.i))
           /\ Got(sv.i) + Len(toClient \o s) = sv.off + Len(s)
           /\ Got(sv.i) \in Nat
<1>1. /\ remote[sv.names[sv.i]] \in Seq(Bytes) /\ Got(sv.i) \in Nat
      /\ toClient \in Seq(Items)
  BY FileSent, ServerFileRight, ServerIsTyped
<1>2. /\ BytesOf(toClient, remote[sv.names[sv.i]], Got(sv.i))
      /\ Got(sv.i) + Len(toClient) = sv.off
  BY DEF StreamRight
<1>3. /\ toClient \o s \in Seq(Items) /\ Len(toClient \o s) = Len(toClient) + Len(s)
      /\ BytesOf(toClient \o s, remote[sv.names[sv.i]], Got(sv.i))
  BY ONLY <1>1, <1>2, BytesAdded, s \in Seq(Items),
          BytesOf(s, remote[sv.names[sv.i]], sv.off)
<1>4. Len(toClient) \in Nat /\ Len(s) \in Nat
  BY <1>1, LenProperties
<1> QED BY <1>1, <1>2, <1>3, <1>4

\* A chunk continues the bytes that are on their way.
LEMMA SendChunkStep ==
    ASSUME TransferGood, SendChunk
    PROVE  TransferGood'
<1> USE DEF TransferGood
<1> DEFINE x == remote[sv.names[sv.i]]
           c == NextChunk
           whole == [sv EXCEPT !.left = @ - Len(c), !.off = @ + Len(c)]
           cut == [sv EXCEPT !.at = "dead"]
           Server == [at : ServerPlaces, n : Nat, names : Seq(Words), i : Nat,
                      sizes : Seq(Int), left : Int, off : Nat]
<1>1. /\ sv.at = "send" /\ sv.left > 0
      /\ cl' = cl /\ open' = open /\ local' = local /\ remote' = remote
      /\ toServer' = toServer
  BY DEF SendChunk, clientSide
<1>2. /\ sv.i \in 1..sv.n /\ sv.sizes[sv.i] \in Nat /\ sv.off \in Nat
      /\ Len(sv.names) = sv.n /\ Len(sv.sizes) = sv.n
      /\ SizesOf(sv.sizes, sv.names) /\ Due = Owed(sv.sizes, sv.i)
      /\ x \in Seq(Bytes) /\ Len(x) = sv.sizes[sv.i]
      /\ sv.left = sv.sizes[sv.i] - sv.off /\ sv.left \in Int
  BY <1>1, FileSent, ServerFileRight, ServerIsTyped DEF ServerRight
<1>3. /\ c \in Seq(Items) /\ Len(c) \in Nat \ {0} /\ Len(c) <= sv.left
      /\ BytesOf(c, x, sv.off)
  BY <1>1, ChunkIs
<1>4. \/ ServerSends(c, whole)
      \/ \E k \in 1..(Len(c) - 1) : ServerSends(SubSeq(c, 1, k), cut)
  BY DEF SendChunk
<1> HIDE DEF c
<1>5. /\ whole \in Server /\ whole.at = "send" /\ whole.i = sv.i /\ whole.n = sv.n
      /\ whole.names = sv.names /\ whole.sizes = sv.sizes
      /\ whole.left = sv.left - Len(c) /\ whole.off = sv.off + Len(c)
  <2>1. sv.left - Len(c) \in Int /\ sv.off + Len(c) \in Nat
    BY <1>2, <1>3
  <2> QED BY <1>1, <2>1 DEF TransferTypes
<1>6. /\ cut \in Server /\ cut.at = "dead" /\ cut.i = sv.i /\ cut.n = sv.n
      /\ cut.names = sv.names /\ cut.sizes = sv.sizes
  BY DEF TransferTypes, ServerPlaces
<1>7. [whole EXCEPT !.at = "dead"] \in Server /\ [cut EXCEPT !.at = "dead"] \in Server
  BY <1>5, <1>6 DEF ServerPlaces
<1> HIDE DEF whole, cut
<1>8. SizesOf(sv.sizes, sv.names)'
      \/ ~(sv'.sizes = sv.sizes /\ sv'.names = sv.names)
  BY <1>1, <1>2 DEF SizesOf, LengthOf
<1>9. ASSUME sv' = whole PROVE ServerRight' /\ Due' = Due
  <2>1. sv.left - Len(c) = sv.sizes[sv.i] - (sv.off + Len(c)) /\ sv.left - Len(c) >= 0
    <3>1. \A k, n \in Nat : \A o \in Nat, l \in Int :
            l = n - o /\ k <= l => l - k = n - (o + k) /\ l - k >= 0
      OBVIOUS
    <3>2. /\ Len(c) \in Nat /\ sv.sizes[sv.i] \in Nat /\ sv.off \in Nat
          /\ sv.left \in Int /\ sv.left = sv.sizes[sv.i] - sv.off /\ Len(c) <= sv.left
      BY <1>2, <1>3
    <3> QED BY ONLY <3>1, <3>2
  <2>2. SizesOf(sv.sizes, sv.names)'
    BY <1>5, <1>8, <1>9
  <2>3. sv'.sizes[sv'.i] >= 0
    <3>1. sv'.sizes = sv.sizes /\ sv'.i = sv.i
      BY <1>5, <1>9
    <3>2. sv.sizes[sv.i] >= 0
      BY <1>2
    <3> QED BY ONLY <3>1, <3>2
  <2>4. sv'.left = sv'.sizes[sv'.i] - sv'.off /\ sv'.left >= 0
    BY <1>5, <1>9, <2>1
  <2>5. ServerRight'
    BY <1>2, <1>5, <1>9, <2>2, <2>3, <2>4 DEF ServerRight
  <2> QED BY <1>2, <1>5, <1>9, <2>5 DEF Due
<1>10. CASE open
  <2>1. StreamRight
    BY <1>1, <1>10, Serving
  <2>2. cl.at # "ack"
    <3>1. ASSUME cl.at = "ack" PROVE FALSE
      <4>1. sv.left = 0
        BY <1>1, <2>1, <3>1, NothingComes DEF Answered
      <4> QED BY <1>1, <4>1
    <3> QED BY <3>1
  <2>3. NotBegun = sv.i + 1 /\ \A k \in 1..sv.n : k >= sv.i + 1 => Got(k) = 0
    BY <1>1, <2>1 DEF StreamRight, NotBegun
  <2>4. CASE ServerSends(c, whole)
    <3>1. sv' = whole /\ toClient' = toClient \o c
      BY <1>10, <2>4 DEF ServerSends
    <3>2. /\ toClient' \in Seq(Items) /\ BytesOf(toClient', x, Got(sv.i))
          /\ Got(sv.i) + Len(toClient') = sv.off + Len(c)
      BY <1>1, <1>3, <2>1, <3>1, StreamGrows
    <3>3. TransferTypes'
      BY <1>1, <1>5, <3>1, <3>2 DEF TransferTypes
    <3>4. \A k : Got(k)' = Got(k)
      BY <1>1, <1>5, <3>1 DEF Got
    <3>5. StreamRight'
      <4>1. Got(sv.i)' = Got(sv.i)
        BY <1>1, <1>5, <3>1 DEF Got
      <4>2. sv'.at = "send" /\ sv'.n = sv.n /\ NotBegun' = sv.i + 1
        BY <1>5, <3>1 DEF NotBegun
      <4>3. BytesOf(toClient, remote[sv.names[sv.i]], Got(sv.i))'
        BY <1>1, <1>5, <3>1, <3>2, <4>1 DEF BytesOf
      <4>4. (Got(sv.i) + Len(toClient) = sv.off)'
        BY <1>5, <3>1, <3>2, <4>1
      <4> QED BY <2>3, <3>4, <4>2, <4>3, <4>4 DEF StreamRight
    <3>6. Meet'
      BY <1>1, <1>5, <1>9, <2>2, <3>1, <3>5, ServingMoves
    <3> QED BY <1>9, <3>1, <3>3, <3>6
  <2>5. ASSUME NEW k \in 1..(Len(c) - 1), ServerSends(SubSeq(c, 1, k), cut)
        PROVE  TransferGood'
    <3>1. sv' = cut /\ toClient' = toClient \o SubSeq(c, 1, k)
      BY <1>10, <2>5 DEF ServerSends
    <3>2. /\ SubSeq(c, 1, k) \in Seq(Items) /\ Len(SubSeq(c, 1, k)) = k
          /\ BytesOf(SubSeq(c, 1, k), x, sv.off) /\ k \in Nat /\ k < Len(c)
      BY <1>2, <1>3, <2>5, PartIs
    <3>3. /\ toClient' \in Seq(Items) /\ BytesOf(toClient', x, Got(sv.i))
          /\ Got(sv.i) + Len(toClient') = sv.off + k
      BY <1>1, <2>1, <3>1, <3>2, StreamGrows
    <3>4. TransferTypes'
      BY <1>1, <1>6, <3>1, <3>3 DEF TransferTypes
    <3>5. ServerRight'
      BY <1>6, <3>1 DEF ServerRight
    <3>6. Due' = Due
      BY <1>2, <1>6, <3>1 DEF Due
    <3>7. \A j : Got(j)' = Got(j)
      BY <1>1, <1>6, <3>1 DEF Got
    <3>8. StreamRight'
      <4>1. Got(sv.i)' = Got(sv.i)
        BY <1>1, <1>6, <3>1 DEF Got
      <4>2. sv'.at = "dead" /\ sv'.n = sv.n /\ NotBegun' = sv.i + 1
        BY <1>6, <3>1 DEF NotBegun
      <4>3. BytesOf(toClient, remote[sv.names[sv.i]], Got(sv.i))'
        BY <1>1, <1>6, <3>1, <3>3, <4>1 DEF BytesOf
      <4>4. sv.off + k < sv.sizes[sv.i]
        <5>1. /\ sv.off \in Nat /\ sv.sizes[sv.i] \in Nat /\ sv.left \in Int
              /\ sv.left = sv.sizes[sv.i] - sv.off
          BY <1>2
        <5>2. Len(c) \in Nat /\ Len(c) <= sv.left /\ k \in Nat /\ k < Len(c)
          BY <1>3, <3>2
        <5> QED BY ONLY <5>1, <5>2
      <4>5. (Got(sv.i) + Len(toClient) < sv.sizes[sv.i])'
        BY <1>6, <3>1, <3>3, <4>1, <4>4
      <4> QED BY <2>3, <3>7, <4>2, <4>3, <4>5 DEF StreamRight
    <3>9. Meet'
      BY <1>1, <1>2, <1>6, <2>2, <3>1, <3>6, <3>8, ServingMoves
    <3> QED BY <3>4, <3>5, <3>9
  <2> QED BY <1>4, <2>4, <2>5
<1>11. CASE ~open
  <2>1. toClient' = toClient
    BY <1>4, <1>11 DEF ServerSends
  <2>2. sv' = whole \/ (sv'.at = "dead" /\ sv' \in Server)
    <3>1. \/ sv' \in {whole, [whole EXCEPT !.at = "dead"]}
          \/ sv' \in {cut, [cut EXCEPT !.at = "dead"]}
      BY <1>4, <1>11 DEF ServerSends
    <3>2. [whole EXCEPT !.at = "dead"].at = "dead" /\ [cut EXCEPT !.at = "dead"].at = "dead"
      BY <1>5, <1>6
    <3> QED BY <1>6, <1>7, <3>1, <3>2
  <2>3. TransferTypes'
    BY <1>1, <1>5, <2>1, <2>2 DEF TransferTypes
  <2>4. cl.at = "gone"
    BY <1>11, ClientIsTyped
  <2>5. CASE sv' = whole
    <3>1. Meet'
      BY <1>1, <1>5, <1>9, <1>11, <2>4, <2>5, ServingMoves
    <3> QED BY <1>9, <2>3, <2>5, <3>1
  <2>6. CASE sv'.at = "dead"
    BY <1>1, <1>11, <2>3, <2>6, BothGone
  <2> QED BY <2>2, <2>5, <2>6
<1> QED BY <1>10, <1>11

\* After the last file no acknowledgement of this get is left.
LEMMA FilesDoneStep ==
    ASSUME TransferGood, FilesDone
    PROVE  TransferGood'
<1> USE DEF TransferGood
<1>1. /\ sv.at = "file" /\ sv.i > sv.n
      /\ sv' = [sv EXCEPT !.at = "count"]
      /\ cl' = cl /\ open' = open /\ local' = local /\ remote' = remote
      /\ toServer' = toServer /\ toClient' = toClient
  BY DEF FilesDone, clientSide
<1>2. sv'.at = "count"
  BY <1>1 DEF TransferTypes
<1>3. Due = 0 /\ Due' = 0
  <2>1. Owed(sv.sizes, sv.i) = 0
    BY <1>1, ServerFileRight, OwedEnd
  <2> QED BY <1>1, <1>2, <2>1, ServerFileRight DEF Due
<1>4. TransferTypes'
  <2>1. sv' \in [at : ServerPlaces, n : Nat, names : Seq(Words), i : Nat,
                 sizes : Seq(Int), left : Int, off : Nat]
    BY <1>1 DEF TransferTypes, ServerPlaces
  <2> QED BY <1>1, <2>1 DEF TransferTypes
<1>5. ServerRight'
  BY <1>2 DEF ServerRight
<1>6. CASE open
  <2>1. CASE cl.at \in {"prompt", "file", "recv"} /\ Fetching /\ SameGet
    <3>1. Len(toServer) = 0 /\ Owed(cl.sizes, cl.i) = 0
      <4>1. Owed(cl.sizes, cl.i) \in Nat /\ Len(toServer) \in Nat
        BY ClientIsTyped, ServerIsTyped, OwedFinite
      <4>2. Len(toServer) + Owed(cl.sizes, cl.i) = 0
        BY <1>3, <2>1 DEF SameGet
      <4> QED BY <4>1, <4>2
    <3>2. toServer = <<>> /\ toClient = <<>>
      BY <1>1, <2>1, <3>1, NoBytes, ServerIsTyped DEF SameGet, StreamRight
    <3>3. SizesOf(cl.sizes, cl.args)'
      BY <1>1, <2>1 DEF Fetching, SizesOf, LengthOf
    <3>4. \A k \in 1..Len(cl.args) : Held(cl.args[k]) => Held(cl.args[k])'
      BY <1>1 DEF Held
    <3>5. Fetching'
      BY <1>1, <1>2, <2>1, <3>1, <3>2, <3>3, <3>4 DEF Fetching
    <3> QED BY <1>1, <1>4, <1>5, <2>1, <3>5 DEF Meet
  <2>2. CASE cl.at = "ack"
    <3>1. /\ cl.i = 0 /\ toClient = <<>> /\ cl.args # <<>> /\ cl.sizes = <<>>
          /\ AcksAndCount(toServer) /\ Len(toServer) = Due + 1
          /\ toServer[Due + 1] = Str(Len(cl.args))
      BY <1>1, <1>6, <2>2, Serving
    <3>2. Asking'
      BY <1>1, <1>2, <1>3, <3>1 DEF Asking
    <3> QED BY <1>1, <1>4, <1>5, <2>2, <3>2 DEF Meet
  <2> QED BY <1>1, <1>6, <2>1, <2>2, Serving
<1>7. CASE ~open
  <2>1. cl'.at = "gone"
    BY <1>1, <1>7, ClientIsTyped
  <2>2. toServer = <<>> \/ (Len(toServer) = 1 /\ AcksAndCount(toServer))
    <3>1. \/ AllAcks(toServer) /\ Len(toServer) <= 0
          \/ AcksAndCount(toServer) /\ Len(toServer) = 1
      BY <1>1, <1>3, MeetLeaves DEF Left, Answered
    <3> QED BY <3>1, NoBytes, ServerIsTyped
  <2>3. Left'
    BY <1>1, <1>2, <2>2 DEF Left, Answered
  <2> QED BY <1>4, <1>5, <2>1, <2>3 DEF Meet
<1> QED BY <1>6, <1>7, ClientIsTyped

\* An acknowledgement is there for the server to take, and nothing else is.
LEMMA AckIsNext ==
    ASSUME TransferGood, sv.at \in {"sizeAck", "fileAck"}
    PROVE  /\ toServer # <<>> => toServer[1] = Ack /\ IsAck(toServer)
           /\ sv.i \in 1..sv.n /\ sv.n \in Nat
           /\ sv.sizes \in Seq(Int)
           /\ Len(sv.names) = sv.n /\ SizesOf(sv.sizes, sv.names)
           /\ sv.at = "sizeAck" => Len(sv.sizes) = sv.i /\ Due = 1 + Owed(sv.sizes, 1)
           /\ sv.at = "fileAck" =>
                /\ Len(sv.sizes) = sv.n /\ Due = Owed(sv.sizes, sv.i)
                /\ Due = Owed(sv.sizes, sv.i + 1) + 1
           /\ Owed(sv.sizes, 1) \in Nat /\ Owed(sv.sizes, sv.i + 1) \in Nat
           /\ Due \in Nat \ {0}
<1> USE DEF TransferGood
<1>1. /\ sv.i \in 1..sv.n /\ sv.n \in Nat /\ sv.sizes \in Seq(Int)
      /\ Len(sv.names) = sv.n /\ SizesOf(sv.sizes, sv.names)
      /\ sv.at = "sizeAck" => Len(sv.sizes) = sv.i
      /\ sv.at = "fileAck" => Len(sv.sizes) = sv.n /\ sv.sizes[sv.i] >= 0
  BY ServerIsTyped DEF ServerRight
<1>2. Owed(sv.sizes, 1) \in Nat /\ Owed(sv.sizes, sv.i + 1) \in Nat
  BY <1>1, OwedFinite
<1>3. /\ sv.at = "sizeAck" => Due = 1 + Owed(sv.sizes, 1)
      /\ sv.at = "fileAck" => Due = Owed(sv.sizes, sv.i)
  BY DEF Due
<1>4. sv.at = "fileAck" => Due = Owed(sv.sizes, sv.i + 1) + 1
  BY <1>1, <1>3, OwedStep
<1>5. Due \in Nat \ {0}
  BY <1>2, <1>3, <1>4
<1>6. toServer # <<>> => toServer[1] = Ack
  <2>1. CASE sv.at = "sizeAck" /\ sv.i < sv.n
    BY <2>1, MeetLeaves, AcksTail, ServerIsTyped DEF Left
  <2>2. CASE ~(sv.at = "sizeAck" /\ sv.i < sv.n)
    <3>1. Answered
      BY <1>1, <2>2 DEF Answered
    <3>2. \/ AllAcks(toServer)
          \/ AcksAndCount(toServer) /\ Len(toServer) = Due + 1
      BY <3>1, MeetLeaves DEF Left
    <3>3. AcksAndCount(toServer) /\ Len(toServer) = Due + 1 => Len(toServer) > 1
      BY <1>5
    <3> QED BY <3>2, <3>3, AcksTail, ServerIsTyped
  <2> QED BY <2>1, <2>2
<1> QED BY <1>1, <1>2, <1>3, <1>4, <1>5, <1>6, ItemFacts

\* The acknowledgement leaves, whoever sent it, and what follows is next.
LEMMA AckTaken ==
    ASSUME NEW s \in Seq(Items), s # <<>>, NEW n \in Nat \ {0}
    PROVE  /\ Tail(s) \in Seq(Items) /\ Len(Tail(s)) = Len(s) - 1
           /\ AllAcks(s) => AllAcks(Tail(s))
           /\ AcksAndCount(s) /\ Len(s) = n + 1 =>
                AcksAndCount(Tail(s)) /\ Len(Tail(s)) = n /\ Tail(s)[n] = s[n + 1]
<1>1. /\ Tail(s) \in Seq(Items) /\ Len(Tail(s)) = Len(s) - 1
      /\ \A j \in 1..(Len(s) - 1) : Tail(s)[j] = s[j + 1]
  BY HeadOff
<1>2. AllAcks(s) => AllAcks(Tail(s))
  BY AcksTail
<1>3. ASSUME AcksAndCount(s), Len(s) = n + 1
      PROVE  AcksAndCount(Tail(s)) /\ Len(Tail(s)) = n /\ Tail(s)[n] = s[n + 1]
  <2>1. Len(s) > 1 /\ n \in 1..(Len(s) - 1)
    BY <1>3
  <2>2. AcksAndCount(Tail(s))
    BY <1>3, <2>1, AcksTail
  <2> QED BY <1>1, <1>3, <2>1, <2>2
<1> QED BY <1>1, <1>2, <1>3

\* getAck() of the server meets nothing but an acknowledgement.
LEMMA ServerAckedStep ==
    ASSUME TransferGood, ServerAcked
    PROVE  TransferGood'
<1> USE DEF TransferGood
<1> DEFINE last == sv.at = "fileAck" \/ sv.i = sv.n
           to == IF last THEN "file" ELSE "size"
           next == IF sv.at = "sizeAck" /\ last THEN 1 ELSE sv.i + 1
<1>1. /\ sv.at \in {"sizeAck", "fileAck"}
      /\ toServer # <<>> \/ EndOfStream
      /\ toServer' = IF toServer = <<>> THEN <<>> ELSE Tail(toServer)
      /\ cl' = cl /\ open' = open /\ local' = local /\ remote' = remote
      /\ toClient' = toClient
  BY DEF ServerAcked, clientSide
<1>2. /\ sv.i \in 1..sv.n /\ sv.n \in Nat /\ sv.i \in Nat
      /\ sv.sizes \in Seq(Int) /\ Due \in Nat \ {0}
      /\ Len(sv.names) = sv.n /\ SizesOf(sv.sizes, sv.names)
      /\ sv.at = "sizeAck" => Len(sv.sizes) = sv.i /\ Due = 1 + Owed(sv.sizes, 1)
      /\ sv.at = "fileAck" =>
            /\ Len(sv.sizes) = sv.n /\ Due = Owed(sv.sizes, sv.i)
            /\ Due = Owed(sv.sizes, sv.i + 1) + 1
      /\ Owed(sv.sizes, 1) \in Nat /\ Owed(sv.sizes, sv.i + 1) \in Nat
  BY <1>1, AckIsNext, ServerIsTyped
<1>3. sv' = [sv EXCEPT !.at = to, !.i = next]
  <2>1. sv' = IF sv.at = "fileAck" THEN [sv EXCEPT !.at = "file", !.i = @ + 1]
              ELSE Advanced([sv EXCEPT !.at = "size"], "file")
    BY <1>1, AckIsNext DEF ServerAcked
  <2>2. CASE sv.at = "fileAck"
    BY <2>1, <2>2 DEF TransferTypes
  <2>3. CASE sv.at = "sizeAck"
    <3>1. Advanced([sv EXCEPT !.at = "size"], "file") =
            IF sv.i = sv.n THEN [sv EXCEPT !.at = "file", !.i = 1]
            ELSE [sv EXCEPT !.at = "size", !.i = @ + 1]
      BY DEF Advanced, TransferTypes
    <3>2. sv' = IF sv.i = sv.n THEN [sv EXCEPT !.at = "file", !.i = 1]
                ELSE [sv EXCEPT !.at = "size", !.i = @ + 1]
      BY <2>1, <2>3, <3>1
    <3> QED BY <2>3, <3>2
  <2> QED BY <1>1, <2>2, <2>3
<1>4. /\ sv'.at = to /\ sv'.i = next /\ sv'.n = sv.n /\ sv'.names = sv.names
      /\ sv'.sizes = sv.sizes /\ next \in Nat /\ to \in {"file", "size"}
  <2>1. next \in Nat /\ to \in {"file", "size"}
    BY <1>2
  <2> QED BY <1>3, <2>1 DEF TransferTypes
<1>5. toServer' \in Seq(Items)
  BY <1>1, HeadOff, ServerIsTyped
<1>6. TransferTypes'
  <2>1. sv' \in [at : ServerPlaces, n : Nat, names : Seq(Words), i : Nat,
                 sizes : Seq(Int), left : Int, off : Nat]
    <3>1. to \in ServerPlaces
      BY <1>4 DEF ServerPlaces
    <3> HIDE DEF to, next
    <3> QED BY <1>3, <1>4, <3>1 DEF TransferTypes
  <2> QED BY <1>1, <1>5, <2>1 DEF TransferTypes
<1>7. SizesOf(sv.sizes, sv.names)'
  BY <1>1, <1>2, <1>4 DEF SizesOf, LengthOf
<1>8. ServerRight'
  <2>1. CASE last
    <3>1. sv'.at = "file" /\ next \in 1..(sv.n + 1) /\ Len(sv.sizes) = sv.n
      BY <1>1, <1>2, <1>4, <2>1
    <3>2. sv'.i \in 1..(sv'.n + 1) /\ Len(sv'.sizes) = sv'.n /\ Len(sv'.names) = sv'.n
      BY <1>2, <1>4, <3>1
    <3> QED BY <1>7, <3>1, <3>2 DEF ServerRight
  <2>2. CASE ~last
    <3>1. /\ sv'.at = "size" /\ next \in 1..sv.n /\ Len(sv.sizes) = next - 1
      <4>1. sv.at = "sizeAck" /\ sv.i # sv.n /\ next = sv.i + 1 /\ to = "size"
        BY <1>1, <2>2
      <4>2. sv.i \in 1..sv.n /\ sv.i \in Nat /\ sv.n \in Nat /\ Len(sv.sizes) = sv.i
        BY <1>2, <4>1
      <4>3. sv'.at = to
        BY <1>4
      <4> HIDE DEF to, next
      <4> QED BY ONLY <4>1, <4>2, <4>3
    <3>2. sv'.i \in 1..sv'.n /\ Len(sv'.sizes) = sv'.i - 1 /\ Len(sv'.names) = sv'.n
      BY <1>2, <1>4, <3>1
    <3> QED BY <1>7, <3>1, <3>2 DEF ServerRight
  <2> QED BY <2>1, <2>2
<1>9. last => Due' = Due - 1 /\ Due' \in Nat /\ Due = Due' + 1
  <2>1. last => Due' = Owed(sv.sizes, next)
    BY <1>4 DEF Due
  <2>2. last => /\ Due = Owed(sv.sizes, next) + 1
                /\ Owed(sv.sizes, next) \in Nat
    BY <1>1, <1>2
  <2>3. \A d, e, o : d = o /\ e = o + 1 /\ o \in Nat => d = e - 1 /\ d \in Nat /\ e = d + 1
    OBVIOUS
  <2> QED BY ONLY <2>1, <2>2, <2>3
<1>10. last <=> Answered
  BY <1>1, <1>2 DEF Answered
<1>11. Answered' <=> last
  BY <1>4 DEF Answered
<1>12. CASE ~open
  <2>1. cl'.at = "gone" /\ Left
    BY <1>1, <1>12, MeetLeaves, ClientIsTyped
  <2>2. CASE last
    <3>1. sv'.at = "file"
      BY <1>4, <2>2
    <3>2. \/ AllAcks(toServer) /\ Len(toServer) <= Due
          \/ AcksAndCount(toServer) /\ Len(toServer) = Due + 1
      BY <1>10, <2>1, <2>2 DEF Left
    <3>3. \/ AllAcks(toServer') /\ Len(toServer') <= Due'
          \/ AcksAndCount(toServer') /\ Len(toServer') = Due' + 1
      <4>1. CASE toServer = <<>>
        <5>1. toServer' = <<>> /\ AllAcks(<<>>) /\ Len(<<>>) = 0
          BY <1>1, <4>1 DEF AllAcks
        <5>2. AllAcks(toServer') /\ Len(toServer') = 0
          BY <5>1, Zenon
        <5> QED BY <1>9, <2>2, <5>2
      <4>2. CASE toServer # <<>>
        <5>1. /\ Len(toServer') = Len(toServer) - 1
              /\ AllAcks(toServer) => AllAcks(toServer')
              /\ AcksAndCount(toServer) /\ Len(toServer) = Due + 1 =>
                    AcksAndCount(toServer') /\ Len(toServer') = Due
          BY <1>1, <1>2, <4>2, AckTaken, ServerIsTyped
        <5>2. Due = Due' + 1 /\ Due' \in Nat /\ Due \in Nat
              /\ Len(toServer) \in Nat
          BY <1>2, <1>9, <2>2, ServerIsTyped
        <5>3. CASE AllAcks(toServer) /\ Len(toServer) <= Due
          <6>1. Len(toServer') <= Due'
            <7>1. \A m, b, x, y \in Nat : x = m - 1 /\ b = y + 1 /\ m <= b => x <= y
              OBVIOUS
            <7>2. Len(toServer') \in Nat
              BY <1>5, LenProperties
            <7> QED BY ONLY <5>1, <5>2, <5>3, <7>1, <7>2
          <6> QED BY <5>1, <5>3, <6>1
        <5>4. CASE AcksAndCount(toServer) /\ Len(toServer) = Due + 1
          <6>1. AcksAndCount(toServer') /\ Len(toServer') = Due' + 1
            BY ONLY <5>1, <5>2, <5>4
          <6> QED BY <6>1
        <5> QED BY <3>2, <5>3, <5>4
      <4> QED BY <4>1, <4>2
    <3> QED BY <2>1, <1>6, <1>8, <3>1, <3>3 DEF Meet, Left
  <2>3. CASE ~last
    <3>1. sv'.at = "size" /\ ~Answered'
      BY <1>4, <1>11, <2>3
    <3>2. Len(toServer) <= 1
      BY <1>1, <1>2, <2>1, <2>3 DEF Left
    <3>3. toServer' = <<>>
      <4>1. CASE toServer = <<>>
        BY <1>1, <4>1
      <4>2. CASE toServer # <<>>
        <5>1. /\ toServer' = Tail(toServer) /\ Tail(toServer) \in Seq(Items)
              /\ Len(Tail(toServer)) = Len(toServer) - 1 /\ Len(toServer) \in Nat \ {0}
          BY <1>1, <4>2, HeadOff, ServerIsTyped
        <5>2. Len(Tail(toServer)) = 0
          BY ONLY <3>2, <5>1
        <5> QED BY <5>1, <5>2, NoBytes
      <4> QED BY <4>1, <4>2
    <3>4. Left'
      BY <3>1, <3>3 DEF Left
    <3> QED BY <2>1, <1>6, <1>8, <3>4 DEF Meet
  <2> QED BY <2>2, <2>3
<1>13. CASE open
  <2>1. toServer # <<>> /\ toServer' = Tail(toServer)
    BY <1>1, <1>13 DEF EndOfStream
  <2>2. /\ Len(toServer') = Len(toServer) - 1 /\ Len(toServer) \in Nat
        /\ Len(toServer) >= 1
        /\ AllAcks(toServer) => AllAcks(toServer')
        /\ AcksAndCount(toServer) /\ Len(toServer) = Due + 1 =>
              AcksAndCount(toServer') /\ Len(toServer') = Due
              /\ toServer'[Due] = toServer[Due + 1]
    <3>1. toServer \in Seq(Items) /\ Len(toServer) \in Nat /\ Due \in Nat \ {0}
      BY <1>2, ServerIsTyped
    <3>2. /\ Len(Tail(toServer)) = Len(toServer) - 1
          /\ AllAcks(toServer) => AllAcks(Tail(toServer))
          /\ AcksAndCount(toServer) /\ Len(toServer) = Due + 1 =>
                AcksAndCount(Tail(toServer)) /\ Len(Tail(toServer)) = Due
                /\ Tail(toServer)[Due] = toServer[Due + 1]
      BY <2>1, <3>1, AckTaken
    <3>3. Len(toServer) >= 1
      BY <2>1, <3>1, HeadOff
    <3> QED BY <2>1, <3>1, <3>2, <3>3
  <2>3. ASSUME last, StreamRight, toClient = <<>> PROVE StreamRight'
    <3>1. sv'.at = "file" /\ NotBegun' = next
      BY <1>4, <2>3 DEF NotBegun
    <3>2. NotBegun = next
      BY <1>1, <2>3 DEF NotBegun
    <3>3. \A k : Got(k)' = Got(k)
      BY <1>1, <1>4 DEF Got
    <3> QED BY <1>1, <1>4, <2>3, <3>1, <3>2, <3>3 DEF StreamRight
  <2>4. CASE cl.at \in {"prompt", "file", "recv"}
    <3>1. Fetching
      BY <2>4 DEF Meet
    <3>2. SameGet
      BY <1>1, <3>1 DEF Fetching
    <3>3. last
      BY <1>1, <1>10, <3>2 DEF SameGet
    <3>4. /\ sv.n = Len(cl.args) /\ sv.names = cl.args /\ sv.sizes = cl.sizes
          /\ AllAcks(toServer) /\ StreamRight
          /\ Len(toServer) + Owed(cl.sizes, cl.i) = Due
      BY <3>2 DEF SameGet
    <3>5. toClient = <<>>
      <4>1. CASE sv.at = "sizeAck"
        BY <3>4, <4>1 DEF StreamRight
      <4>2. CASE sv.at = "fileAck"
        <5>1. /\ Owed(sv.sizes, cl.i) \in Nat /\ Owed(sv.sizes, sv.i) \in Nat
              /\ cl.i \in Nat
          BY <1>2, OwedFinite, ClientIsTyped
        <5>2. Owed(sv.sizes, cl.i) < Owed(sv.sizes, sv.i)
          BY <1>2, <2>2, <3>4, <4>2, <5>1
        <5>3. ~(cl.i <= sv.i)
          BY <1>2, <5>1, <5>2, OwedMore
        <5>4. sv.i < cl.i
          BY <1>2, <5>1, <5>3
        <5> QED BY <3>4, <4>2, <5>4, NothingComes DEF Answered
      <4> QED BY <1>1, <4>1, <4>2
    <3>6. StreamRight'
      BY <2>3, <3>3, <3>4, <3>5
    <3>7. Len(toServer') + Owed(cl.sizes, cl.i) = Due'
      <4>1. Owed(cl.sizes, cl.i) \in Nat
        BY ClientIsTyped, OwedFinite
      <4>2. Due = Due' + 1 /\ Due' \in Nat
        BY <1>9, <3>3
      <4>3. \A m, o, x, y \in Nat, b \in Int :
                b = m - 1 /\ x = y + 1 /\ m + o = x => b + o = y
        OBVIOUS
      <4>4. Len(toServer') = Len(toServer) - 1 /\ Len(toServer) \in Nat
        BY <2>2
      <4>5. Len(toServer') \in Int
        BY <4>4
      <4>6. Due \in Nat /\ Len(toServer) + Owed(cl.sizes, cl.i) = Due
        BY <1>2, <3>4
      <4> QED BY ONLY <4>1, <4>2, <4>3, <4>4, <4>5, <4>6
    <3>8. SameGet'
      BY <1>1, <1>4, <1>11, <2>2, <3>3, <3>4, <3>6, <3>7 DEF SameGet
    <3>9. SizesOf(cl.sizes, cl.args)'
      BY <1>1, <3>1 DEF Fetching, SizesOf, LengthOf
    <3>10. \A k \in 1..Len(cl.args) : Held(cl.args[k]) => Held(cl.args[k])'
      BY <1>1 DEF Held
    <3>11. Fetching'
      BY <1>1, <3>1, <3>8, <3>9, <3>10 DEF Fetching
    <3> QED BY <1>1, <1>6, <1>8, <2>4, <3>11 DEF Meet
  <2>5. CASE cl.at = "ack"
    <3>1. Asking
      BY <2>5 DEF Meet
    <3>2. /\ cl.i = 0 /\ toClient = <<>> /\ cl.args # <<>> /\ cl.sizes = <<>>
          /\ AcksAndCount(toServer) /\ Len(toServer) = Due + 1
          /\ toServer[Due + 1] = Str(Len(cl.args))
          /\ Answered /\ StreamRight
      BY <1>1, <2>1, <3>1 DEF Asking
    <3>3. /\ AcksAndCount(toServer') /\ Len(toServer') = Due' + 1
          /\ toServer'[Due' + 1] = Str(Len(cl.args))
      <4>1. Due = Due' + 1
        BY <1>9, <1>10, <3>2
      <4> QED BY <2>2, <3>2, <4>1
    <3>4. Answered' /\ StreamRight'
      BY <1>10, <1>11, <2>3, <3>2
    <3>5. Asking'
      BY <1>1, <3>2, <3>3, <3>4 DEF Asking
    <3> QED BY <1>1, <1>6, <1>8, <2>5, <3>5 DEF Meet
  <2>6. CASE cl.at = "size"
    <3>1. Sizing
      BY <2>6 DEF Meet
    <3>2. /\ sv.at = "sizeAck" /\ sv.i = cl.i - 1 /\ toServer = <<Ack>>
          /\ toClient = <<>> /\ cl.i \in 1..Len(cl.args) /\ Len(cl.sizes) = cl.i - 1
          /\ sv.n = Len(cl.args) /\ sv.names = cl.args /\ SizesOf(cl.sizes, cl.args)
      BY <1>1, <2>1, <3>1 DEF Sizing
    <3>3. toServer' = <<>>
      BY <2>1, <3>2
    <3>4. sv'.at = "size" /\ sv'.i = cl.i
      <4>1. sv.i # sv.n /\ sv.i + 1 = cl.i
        BY <1>2, <3>2, ClientIsTyped
      <4> QED BY <1>4, <3>2, <4>1
    <3>5. SizesOf(cl.sizes, cl.args)'
      BY <1>1, <3>2 DEF SizesOf, LengthOf
    <3>6. Sizing'
      BY <1>1, <1>4, <3>2, <3>3, <3>4, <3>5 DEF Sizing
    <3> QED BY <1>1, <1>6, <1>8, <2>6, <3>6 DEF Meet
  <2> QED BY <1>13, <2>4, <2>5, <2>6, ClientIsTyped DEF ClientPlaces
<1> QED BY <1>12, <1>13, ClientIsTyped

-----------------------------------------------------------------------------
(* The whole program.                                                      *)

\* The invariant holds before the first client.
LEMMA TransferStarts ==
    ASSUME TransferInit
    PROVE  TransferInv
<1>1. /\ cl = [at |-> "gone", args |-> <<>>, i |-> 0, sizes |-> <<>>,
               left |-> 0, off |-> 0]
      /\ sv = [at |-> "accept", n |-> 0, names |-> <<>>, i |-> 0, sizes |-> <<>>,
               left |-> 0, off |-> 0]
      /\ toServer = <<>> /\ toClient = <<>> /\ open = FALSE /\ fault = FALSE
      /\ local \in [Files -> Contents \cup {NoFile}]
      /\ remote \in [Files -> Contents \cup {NoFile}]
  BY DEF TransferInit, FreshClient
<1>2. cl.at = "gone" /\ sv.at = "accept"
  BY <1>1
<1>3. TransferTypes
  <2>1. local \in [Files -> Seq(Bytes) \cup {NoFile}]
    BY <1>1, ContentsAreSeqs
  <2>2. /\ cl \in [at : ClientPlaces, args : Seq(Words), i : Nat, sizes : Seq(Int),
                   left : Int, off : Nat]
        /\ sv \in [at : ServerPlaces, n : Nat, names : Seq(Words), i : Nat,
                   sizes : Seq(Int), left : Int, off : Nat]
    BY <1>1, EmptySeq DEF ClientPlaces, ServerPlaces
  <2> QED BY <1>1, <1>2, <2>1, <2>2, EmptySeq DEF TransferTypes
<1>4. ServerRight /\ Left
  BY <1>1, <1>2 DEF ServerRight, Left, Answered
<1> QED BY <1>1, <1>2, <1>3, <1>4 DEF TransferInv, Meet

\* No step of either side spoils it that is no fault.
LEMMA TransferGoes ==
    ASSUME TransferGood, TransferNext, ~fault'
    PROVE  TransferGood'
<1>1. ~OpenLocalFails /\ \A f \in Files, x \in Contents \cup {NoFile} : ~ChangeFile(f, x)
  BY DEF OpenLocalFails, ChangeFile
<1>2. CASE \E args \in GetCalls : Get(args)
  BY <1>2, GetStep
<1>3. CASE GotAck \/ GetSize \/ GetsDone \/ SkipInvalid \/ OpenLocal \/ Received
           \/ ClientGone
  BY <1>3, GotAckStep, GetSizeStep, GetsDoneStep, SkipInvalidStep, OpenLocalStep,
     ReceivedStep, ClientGoneStep
<1>4. CASE \E k \in 1..CHUNK : Receive(k)
  BY <1>4, ReceiveStep
<1>5. CASE WaitForClient \/ GetCount \/ NextClient \/ GetName \/ GetNoName
  BY <1>5, WaitForClientStep, GetCountStep, NextClientStep, GetNameStep,
     GetNoNameStep
<1>6. CASE SendSize \/ ServerAcked \/ FilesDone \/ NotSent \/ OpenRemote
           \/ SendChunk \/ SendFileEnd
  BY <1>6, SendSizeStep, ServerAckedStep, FilesDoneStep, NotSentStep,
     OpenRemoteStep, SendChunkStep, SendFileEndStep
<1> QED BY <1>1, <1>2, <1>3, <1>4, <1>5, <1>6 DEF TransferNext

\* Nor one that changes nothing.
LEMMA TransferStays ==
    ASSUME TransferGood, UNCHANGED transferVars
    PROVE  TransferGood'
<1>1. /\ cl' = cl /\ sv' = sv /\ toServer' = toServer /\ toClient' = toClient
      /\ open' = open /\ local' = local /\ remote' = remote
  BY DEF transferVars
<1>2. /\ \A s, n : SizesOf(s, n) => SizesOf(s, n)'
      /\ \A f : Held(f) <=> Held(f)'
      /\ \A w : LengthOf(w)' = LengthOf(w)
  BY <1>1 DEF SizesOf, LengthOf, Held
<1>3. TransferTypes' /\ ServerRight'
  BY <1>1, ServerKeeps DEF TransferGood, TransferTypes
<1>4. Left => Left'
  BY <1>1 DEF Left, Answered, Due
<1>5. StreamRight => StreamRight'
  BY <1>1 DEF StreamRight, Got, NotBegun
<1>6. SameGet => SameGet'
  BY <1>1, <1>5 DEF SameGet, Answered, Due
<1>7. Fetching => Fetching'
  BY <1>1, <1>2, <1>6 DEF Fetching
<1>8. Asking => Asking'
  BY <1>1, <1>2, <1>5 DEF Asking, Answered, Due
<1>9. Sizing => Sizing'
  BY <1>1, <1>2 DEF Sizing
<1>10. Meet'
  <2>1. cl.at \in ClientPlaces /\ cl'.at = cl.at /\ Meet
    BY <1>1, ClientIsTyped DEF TransferGood
  <2>2. CASE cl.at = "gone"
    BY <1>4, <2>1, <2>2 DEF Meet
  <2>3. CASE cl.at \in {"prompt", "file", "recv"}
    BY <1>7, <2>1, <2>3 DEF Meet
  <2>4. CASE cl.at = "ack"
    BY <1>8, <2>1, <2>4 DEF Meet
  <2>5. CASE cl.at = "size"
    BY <1>9, <2>1, <2>5 DEF Meet
  <2> QED BY <2>1, <2>2, <2>3, <2>4, <2>5 DEF ClientPlaces
<1> QED BY <1>3, <1>10 DEF TransferGood

\* A fault is never forgotten.
LEMMA FaultStays ==
    ASSUME TransferInv, [TransferNext]_transferVars
    PROVE  fault' \in BOOLEAN /\ (fault => fault')
<1> USE DEF TransferInv
<1>1. CASE UNCHANGED transferVars
  BY <1>1 DEF transferVars
<1>2. CASE GetCount \/ GetName \/ SendSize
  <2>1. fault' = fault \/ \E x, y : fault' = (fault \/ x # y)
    BY <1>2 DEF GetCount, GetName, SendSize
  <2> QED BY <2>1
<1>3. CASE TransferNext /\ ~(GetCount \/ GetName \/ SendSize)
  <2>1. fault' = fault \/ fault' = TRUE
    <3>1. CASE OpenLocalFails \/ \E f \in Files, x \in Contents \cup {NoFile} :
                                    ChangeFile(f, x)
      BY <3>1 DEF OpenLocalFails, ChangeFile
    <3>2. CASE \/ \E args \in GetCalls : Get(args)
               \/ GotAck \/ GetSize \/ GetsDone \/ SkipInvalid \/ OpenLocal
               \/ (\E k \in 1..CHUNK : Receive(k)) \/ Received \/ ClientGone
      BY <3>2 DEF Get, GotAck, GetSize, GetsDone, SkipInvalid, OpenLocal, Receive,
         Received, ClientGone
    <3>3. CASE WaitForClient \/ NextClient \/ GetNoName \/ ServerAcked \/ FilesDone
      BY <3>3 DEF WaitForClient, NextClient, GetNoName, ServerAcked, FilesDone
    <3>4. CASE NotSent \/ OpenRemote \/ SendChunk \/ SendFileEnd
      BY <3>4 DEF NotSent, OpenRemote, SendChunk, SendFileEnd
    <3> QED BY <1>3, <3>1, <3>2, <3>3, <3>4 DEF TransferNext
  <2> QED BY <2>1
<1> QED BY <1>1, <1>2, <1>3

\* The invariant of the transfer.  As long as every count and name is read as it
\* was sent, every size is the length of a file, no file of the server was
\* changed and the client could open its own: client and server are at fitting
\* places of one get, and the acknowledgements and bytes on their way are those
\* that the places call for.
THEOREM TransferInvariant == TransferInit /\ [][TransferNext]_transferVars => []TransferInv
<1>1. TransferInit => TransferInv
  BY TransferStarts
<1>2. TransferInv /\ [TransferNext]_transferVars => TransferInv'
  <2> SUFFICES ASSUME TransferInv, [TransferNext]_transferVars PROVE TransferInv'
    OBVIOUS
  <2>1. fault' \in BOOLEAN /\ (fault => fault')
    BY FaultStays
  <2>2. ASSUME ~fault' PROVE TransferGood'
    <3>1. TransferGood
      BY <2>1, <2>2 DEF TransferInv, TransferGood
    <3> QED BY <2>2, <3>1, TransferGoes, TransferStays
  <2> QED BY <2>1, <2>2 DEF TransferInv, TransferGood
<1> QED BY <1>1, <1>2, PTL

\* A file that begins with another has it as its prefix.
LEMMA HeldIsPrefix ==
    ASSUME NEW x \in Seq(Bytes), NEW u \in Seq(Bytes), HeldIn(x, u)
    PROVE  Seqs!IsPrefix(u, x)
<1>1. /\ Len(u) \in Nat /\ Len(x) \in Nat /\ Len(u) <= Len(x)
      /\ \A j \in 1..Len(u) : x[j] = u[j]
  BY LenProperties DEF HeldIn
<1>2. /\ SubSeq(x, 1, Len(u)) \in Seq(Bytes)
      /\ Len(SubSeq(x, 1, Len(u))) = Len(u)
      /\ \A j \in 1..Len(u) : SubSeq(x, 1, Len(u))[j] = x[j]
  <2>1. /\ SubSeq(x, 1, Len(u)) \in Seq(Bytes)
        /\ Len(SubSeq(x, 1, Len(u))) = IF 1 <= Len(u) THEN Len(u) - 1 + 1 ELSE 0
        /\ \A j \in 1..(Len(u) - 1 + 1) : SubSeq(x, 1, Len(u))[j] = x[1 + j - 1]
    BY <1>1, SubSeqProperties
  <2> QED BY <1>1, <2>1
<1>3. u = SubSeq(x, 1, Len(u))
  BY <1>1, <1>2, SeqEqual
<1> QED BY <1>1, <1>3 DEF Seqs!IsPrefix

\* The invariant gives the client its files.
LEMMA GotWhole ==
    ASSUME TransferInv
    PROVE  Delivered
<1> SUFFICES ASSUME ~fault PROVE Delivered
  BY DEF Delivered
<1>1. TransferGood
  BY DEF TransferInv, TransferGood
<1> USE DEF TransferGood
<1>2. cl.at # "lost" /\ sv.at # "lost"
  BY <1>1, ClientIsTyped, ServerIsTyped DEF ClientPlaces, ServerPlaces
<1>3. ASSUME cl.at = "prompt", NEW k \in DOMAIN cl.args
      PROVE  /\ cl.sizes[k] = LengthOf(cl.args[k])
             /\ cl.sizes[k] >= 0 => Seqs!IsPrefix(remote[cl.args[k]], local[cl.args[k]])
  <2>1. k \in 1..Len(cl.args) /\ Fetching
    BY <1>1, <1>3, ClientIsTyped, LenProperties DEF Meet
  <2>2. /\ Len(cl.sizes) = Len(cl.args) /\ SizesOf(cl.sizes, cl.args)
        /\ Len(cl.args) = 0 \/ cl.i = Len(cl.args) + 1
        /\ \A j \in 1..Len(cl.args) : j < cl.i /\ cl.sizes[j] >= 0 => Held(cl.args[j])
    BY <1>3, <2>1 DEF Fetching
  <2>3. cl.sizes[k] = LengthOf(cl.args[k])
    BY <2>1, <2>2 DEF SizesOf
  <2>4. ASSUME cl.sizes[k] >= 0
        PROVE  Seqs!IsPrefix(remote[cl.args[k]], local[cl.args[k]])
    <3> DEFINE f == cl.args[k]
    <3>1. f \in Files /\ remote[f] \in Seq(Bytes)
      BY <1>1, <2>3, <2>4, SizeOfFile
    <3>2. k < cl.i
      BY <1>1, <2>1, <2>2, ClientIsTyped
    <3>3. HeldIn(local[f], remote[f])
      BY <2>1, <2>2, <2>4, <3>2 DEF Held
    <3>4. local[f] \in Seq(Bytes)
      BY <1>1, <3>1, <3>3 DEF TransferTypes, HeldIn
    <3> QED BY <3>1, <3>3, <3>4, HeldIsPrefix
  <2> QED BY <2>3, <2>4
<1> QED BY <1>2, <1>3 DEF Delivered

\* Under the conditions of TransferInvariant, which the older bytes in the buffers
\* of getString(), and links and sockets in lstat(), do break: when get is over,
\* every file that exists on the server is at the beginning of the client's file,
\* and no item was taken for one of another kind.  So getFile() and sendFile(),
\* the strings and the acknowledgements of header.c stay in step.
THEOREM FilesAreDelivered ==
    TransferInit /\ [][TransferNext]_transferVars => []Delivered
BY TransferInvariant, GotWhole, PTL

\* The invariant leaves an answer on its way to one of the two.
LEMMA SomeAnswerComes ==
    ASSUME TransferInv
    PROVE  NeverBothWait
<1> SUFFICES ASSUME ~fault, open, ClientWaits, ServerWaits PROVE FALSE
  BY DEF NeverBothWait
<1>1. TransferGood
  BY DEF TransferInv, TransferGood
<1> USE DEF TransferGood
<1>2. /\ toClient = <<>> /\ toServer = <<>>
      /\ sv.at \in {"count", "names", "sizeAck", "fileAck"}
      /\ cl.at \in {"ack", "size"} \/ (cl.at = "recv" /\ cl.left > 0)
  BY DEF ClientWaits, ServerWaits
<1>3. Len(toServer) = 0
  BY <1>2
<1>4. CASE cl.at = "ack"
  <2>1. Asking
    BY <1>1, <1>4 DEF Meet
  <2>2. Due \in Nat
    BY <1>1, DueType
  <2> QED BY <1>2, <1>3, <2>1, <2>2 DEF Asking
<1>5. CASE cl.at = "size"
  <2>1. Sizing
    BY <1>1, <1>5 DEF Meet
  <2> QED BY <1>2, <2>1 DEF Sizing
<1>6. CASE cl.at = "recv" /\ cl.left > 0
  <2>1. /\ Fetching /\ cl.i \in 1..Len(cl.sizes) /\ cl.sizes[cl.i] \in Int
        /\ cl.sizes[cl.i] >= 0 /\ cl.left = cl.sizes[cl.i] - cl.off
        /\ cl.i \in Nat /\ cl.off \in Nat /\ cl.sizes \in Seq(Int)
    <3>1. Fetching
      BY <1>1, <1>6 DEF Meet
    <3>2. /\ Len(cl.sizes) = Len(cl.args) /\ cl.i <= Len(cl.args)
          /\ cl.i \in 1..(Len(cl.args) + 1)
          /\ cl.sizes[cl.i] >= 0 /\ cl.left = cl.sizes[cl.i] - cl.off
      BY <1>6, <3>1 DEF Fetching
    <3> QED BY <1>1, <3>1, <3>2, ClientIsTyped
  <2>2. /\ Owed(cl.sizes, cl.i) = Owed(cl.sizes, cl.i + 1) + 1
        /\ Owed(cl.sizes, cl.i) \in Nat \ {0}
    <3>1. /\ Owed(cl.sizes, cl.i + 1) \in Nat
          /\ Owed(cl.sizes, cl.i) =
                Owed(cl.sizes, cl.i + 1) + (IF cl.sizes[cl.i] >= 0 THEN 1 ELSE 0)
      BY ONLY <2>1, OwedStep
    <3> QED BY ONLY <2>1, <3>1
  <2>3. /\ SameGet /\ Owed(cl.sizes, cl.i) = Due /\ sv.sizes = cl.sizes
        /\ StreamRight /\ sv.names = cl.args
    <3>1. SameGet
      BY <2>1, <2>2 DEF Fetching
    <3> QED BY <1>3, <2>2, <3>1 DEF SameGet
  <2>4. CASE sv.at = "sizeAck"
    <3>1. Due = 1 + Owed(cl.sizes, 1) /\ Owed(cl.sizes, 1) \in Nat
      BY <2>1, <2>3, <2>4, OwedFinite DEF Due
    <3>2. Owed(cl.sizes, cl.i) <= Owed(cl.sizes, 1)
      BY <2>1, OwedMore
    <3> QED BY <2>2, <2>3, <3>1, <3>2
  <2>5. CASE sv.at = "fileAck"
    <3>1. /\ Owed(cl.sizes, cl.i) = Owed(cl.sizes, sv.i)
          /\ sv.i \in 1..Len(cl.sizes) /\ sv.i \in Nat /\ cl.sizes[sv.i] >= 0
          /\ sv.off = cl.sizes[sv.i]
      BY <1>1, <2>3, <2>5, FileSent DEF Due, ServerRight
    <3>2. cl.i = sv.i
      <4>1. ~(cl.i < sv.i) /\ ~(sv.i < cl.i)
        <5>1. \A i, j \in Nat : i < j /\ i \in 1..Len(cl.sizes) /\ cl.sizes[i] >= 0
                               => Owed(cl.sizes, j) < Owed(cl.sizes, i)
          BY ONLY <2>1, OwedMore
        <5>2. Owed(cl.sizes, cl.i) \in Nat /\ Owed(cl.sizes, sv.i) \in Nat
          BY ONLY <2>2, <3>1
        <5> QED BY ONLY <2>1, <3>1, <5>1, <5>2
      <4> QED BY <2>1, <3>1, <4>1
    <3>3. Got(sv.i) = cl.off
      BY <1>6, <2>1, <3>2 DEF Got
    <3>4. Got(sv.i) + Len(toClient) = sv.off
      BY <2>3, <2>5 DEF StreamRight
    <3>5. cl.off = cl.sizes[cl.i]
      <4>1. Len(toClient) = 0
        BY <1>2
      <4> QED BY <2>1, <3>1, <3>2, <3>3, <3>4, <4>1
    <3> QED BY <1>6, <2>1, <3>5
  <2>6. sv.at \in {"sizeAck", "fileAck"}
    BY <1>2, <2>3 DEF SameGet, Answered
  <2> QED BY <2>4, <2>5, <2>6
<1> QED BY <1>2, <1>4, <1>5, <1>6

\* Under the conditions of TransferInvariant, client and server never both sit in
\* a read() with nothing on its way: each read of the one has an answer of the
\* other that it waits for.  (A count that is read as another one does leave both
\* of them waiting.)
THEOREM AnswersCome ==
    TransferInit /\ [][TransferNext]_transferVars => []NeverBothWait
BY TransferInvariant, SomeAnswerComes, PTL

-----------------------------------------------------------------------------
(* The shell of assignment 3: its jobs.                                    *)

\* A record of a child; what ends it holds does not matter for the jobs.
IsChild(c) == c = [st |-> c.st, grp |-> c.grp, ends |-> c.ends, shut |-> c.shut]

Alive == {p \in Pids : child[p].st # "none"}

JobTypes ==
    /\ top \in 1..MaxTop
    /\ stack \in [1..MaxTop -> Pids \cup {NoPid}]
    /\ child = [p \in Pids |-> child[p]]
    /\ \A p \in Pids : IsChild(child[p])

\* The child the shell waits for is there.
SwitchesToChild == at \in {"switch", "wait"} => fg \in Alive

JobInv == at # "gone" => JobTypes /\ JobsExact /\ SwitchesToChild

\* What the table is, in the terms of its entries.
LEMMA JobFacts ==
    ASSUME JobTypes, JobsExact, at # "gone"
    PROVE  /\ \A i \in 1..MaxTop : stack[i] \in Alive \cup {NoPid}
           /\ \A i \in 1..MaxTop : stack[i] \in Alive => i < top
           /\ \A p \in Alive : \E i \in 1..(top - 1) : stack[i] = p
           /\ NoPid \notin Alive /\ MaxTop \in Nat /\ top \in Nat
<1>1. NoPid \notin Alive /\ MaxTop \in Nat \ {0} /\ top \in 1..MaxTop
  BY ShellAssumption DEF Alive, JobTypes
<1>2. {stack[i] : i \in 1..MaxTop} \ {NoPid} = Alive
  BY DEF JobsExact, Alive
<1>3. \A i \in top..MaxTop : stack[i] = NoPid
  BY DEF JobsExact
<1>4. \A i \in 1..MaxTop : stack[i] \in Alive \cup {NoPid}
  BY <1>2
<1>5. ASSUME NEW i \in 1..MaxTop, stack[i] \in Alive PROVE i < top
  BY <1>1, <1>3, <1>5
<1>6. ASSUME NEW p \in Alive PROVE \E i \in 1..(top - 1) : stack[i] = p
  <2>1. PICK i \in 1..MaxTop : stack[i] = p
    BY <1>2
  <2>2. i < top
    BY <1>5, <2>1
  <2> QED BY <1>1, <2>1, <2>2
<1> QED BY <1>1, <1>4, <1>5, <1>6

\* The table from its entries.
LEMMA JobsFromFacts ==
    ASSUME NEW s, NEW t, NEW A, t \in Nat, MaxTop \in Nat, NoPid \notin A,
           \A i \in 1..MaxTop : s[i] \in A \cup {NoPid},
           \A p \in A : \E i \in 1..MaxTop : s[i] = p
    PROVE  {s[i] : i \in 1..MaxTop} \ {NoPid} = A
OBVIOUS

\* "while (top > 1 && stack[top - 1] == 0) top -= 1" ends.
LEMMA ShrunkIs ==
    ASSUME top \in Nat \ {0}, NEW s
    PROVE  /\ Shrunk(s) \in 1..top
           /\ \A i \in Shrunk(s)..(top - 1) : s[i] = NoPid
<1> DEFINE T == {t \in 1..top : \A i \in t..(top - 1) : s[i] = NoPid}
           Good(t) == /\ \A i \in t..(top - 1) : s[i] = NoPid
                      /\ t = 1 \/ s[t - 1] # NoPid
<1>1. top \in T /\ T \subseteq Nat
  OBVIOUS
<1>2. PICK t \in T : \A u \in T : t <= u
  <2> HIDE DEF T
  <2> QED BY <1>1, LeastOf
<1>3. \A u \in T : ~(u < t)
  BY <1>1, <1>2
<1>4. Good(t)
  <2> SUFFICES ASSUME t # 1, s[t - 1] = NoPid PROVE FALSE
    OBVIOUS
  <2>1. \A i \in (t - 1)..(top - 1) : s[i] = NoPid
    <3>1. \A i \in (t - 1)..(top - 1) : i = t - 1 \/ i \in t..(top - 1)
      OBVIOUS
    <3> QED BY <3>1
  <2>2. t - 1 \in T
    BY <2>1
  <2> QED BY <1>3, <2>2
<1>5. \E u \in 1..top : Good(u)
  BY <1>4
<1>6. Shrunk(s) = CHOOSE u \in 1..top : Good(u)
  BY DEF Shrunk
<1> HIDE DEF Good
<1>7. Shrunk(s) \in 1..top /\ Good(Shrunk(s))
  BY <1>5, <1>6
<1> QED BY <1>7 DEF Good

\* An entry is emptied and the top lowered: the child is gone from the table.
LEMMA RemoveKeeps ==
    ASSUME JobTypes, JobsExact, at # "gone", NEW p \in Alive, RemoveChild(p),
           child' = [child EXCEPT ![p] = NoChild]
    PROVE  JobTypes' /\ JobsExact' /\ Alive' = Alive \ {p}
<1>1. PICK job \in 1..(top - 1) :
        stack[job] = p /\ stack' = [stack EXCEPT ![job] = NoPid]
        /\ top' = Shrunk(stack')
  BY DEF RemoveChild
<1>2. top \in 1..MaxTop /\ MaxTop \in Nat /\ top \in Nat \ {0} /\ job \in 1..MaxTop
  BY JobFacts DEF JobTypes
<1>3. top' \in 1..top /\ \A i \in top'..(top - 1) : stack'[i] = NoPid
  BY <1>1, <1>2, ShrunkIs
<1>4. Alive' = Alive \ {p}
  <2>1. \A q \in Pids : child'[q].st = IF q = p THEN "none" ELSE child[q].st
    BY DEF JobTypes, NoChild, Alive
  <2> QED BY <2>1 DEF Alive
<1>5. JobTypes'
  <2>1. stack' \in [1..MaxTop -> Pids \cup {NoPid}]
    BY <1>1, <1>2 DEF JobTypes
  <2>2. child' = [q \in Pids |-> child'[q]]
    BY DEF JobTypes
  <2>3. ASSUME NEW q \in Pids PROVE IsChild(child'[q])
    BY DEF JobTypes, IsChild, NoChild
  <2> QED BY <1>2, <1>3, <2>1, <2>2, <2>3 DEF JobTypes, IsChild
<1>6. ASSUME NEW i \in 1..MaxTop
      PROVE  stack'[i] = IF i = job THEN NoPid ELSE stack[i]
  BY <1>1 DEF JobTypes
<1>7. \A i, j \in 1..MaxTop : stack[i] = stack[j] => i = j \/ stack[i] = NoPid
  BY DEF JobsExact
<1>8. \A i, j \in 1..MaxTop : stack'[i] = stack'[j] => i = j \/ stack'[i] = NoPid
  BY <1>6, <1>7
<1>9. ASSUME NEW i \in top'..MaxTop PROVE stack'[i] = NoPid
  <2>1. CASE i < top
    <3>1. i \in top'..(top - 1)
      BY <1>2, <1>3, <2>1
    <3> QED BY <1>3, <3>1
  <2>2. CASE ~(i < top)
    <3>1. i \in top..MaxTop /\ i \in 1..MaxTop
      BY <1>2, <1>3, <2>2
    <3> QED BY <1>6, <3>1 DEF JobsExact
  <2> QED BY <2>1, <2>2
<1>10. ASSUME NEW i \in 1..MaxTop PROVE stack'[i] \in Alive' \cup {NoPid}
  <2>1. i # job => stack[i] # p
    BY <1>1, <1>2, <1>7, JobFacts
  <2> QED BY <1>4, <1>6, <2>1, JobFacts
<1>11. ASSUME NEW q \in Alive' PROVE \E i \in 1..MaxTop : stack'[i] = q
  <2>1. PICK i \in 1..(top - 1) : stack[i] = q
    BY <1>4, JobFacts
  <2>2. i # job /\ i \in 1..MaxTop
    BY <1>1, <1>2, <1>4, <2>1
  <2> QED BY <1>6, <2>1, <2>2
<1>12. {stack'[i] : i \in 1..MaxTop} \ {NoPid} = Alive'
  <2>1. NoPid \notin Alive'
    BY <1>4, JobFacts
  <2> QED BY <1>2, <1>10, <1>11, <2>1, JobsFromFacts
<1>13. JobsExact'
  BY <1>8, <1>9, <1>12 DEF JobsExact, Alive
<1> QED BY <1>4, <1>5, <1>13

\* Nobody is made or reaped: the table stays exact.
LEMMA TableKeeps ==
    ASSUME JobTypes, JobsExact, at # "gone", UNCHANGED jobVars,
           child' = [p \in Pids |-> child'[p]],
           \A p \in Pids : IsChild(child'[p]) /\ (child'[p].st = "none" <=> child[p].st = "none")
    PROVE  JobTypes' /\ JobsExact' /\ Alive' = Alive
<1>1. top' = top /\ stack' = stack
  BY DEF jobVars
<1>2. Alive' = Alive
  BY DEF Alive
<1>3. JobTypes'
  BY <1>1 DEF JobTypes, IsChild
<1>4. {stack[i] : i \in 1..MaxTop} \ {NoPid} = Alive
  BY DEF JobsExact, Alive
<1>5. {stack'[i] : i \in 1..MaxTop} \ {NoPid} = Alive'
  BY <1>1, <1>2, <1>4
<1>6. JobsExact'
  BY <1>1, <1>5 DEF JobsExact, Alive
<1> QED BY <1>2, <1>3, <1>6

\* A child whose state or ends change, and who was and is there.
LEMMA ChildChanges ==
    ASSUME JobTypes, JobsExact, at # "gone", UNCHANGED jobVars,
           NEW p \in Alive, NEW c, IsChild(c), c.st # "none",
           child' = [child EXCEPT ![p] = c]
    PROVE  JobTypes' /\ JobsExact' /\ Alive' = Alive
<1>1. p \in Pids /\ child[p].st # "none"
  BY DEF Alive
<1>2. \A q \in Pids : child'[q] = IF q = p THEN c ELSE child[q]
  BY <1>1 DEF JobTypes
<1>3. child' = [q \in Pids |-> child'[q]]
  BY DEF JobTypes
<1>4. \A q \in Pids : IsChild(child'[q])
                      /\ (child'[q].st = "none" <=> child[q].st = "none")
  BY <1>1, <1>2 DEF JobTypes
<1> QED BY <1>3, <1>4, TableKeeps

\* Steps that touch neither the table nor the children.
LEMMA OtherSteps ==
    ASSUME JobInv, at # "gone", UNCHANGED <<jobVars, child>>,
           at' \in {"switch", "wait"} => at' = at /\ fg' = fg
    PROVE  JobInv'
<1>1. JobTypes /\ JobsExact /\ SwitchesToChild
  BY DEF JobInv
<1>2. child' = child /\ child' = [p \in Pids |-> child'[p]]
      /\ \A p \in Pids : IsChild(child'[p])
  BY <1>1 DEF JobTypes
<1>3. JobTypes' /\ JobsExact' /\ Alive' = Alive
  BY <1>1, <1>2, TableKeeps
<1>4. SwitchesToChild'
  BY <1>1, <1>3 DEF SwitchesToChild
<1> QED BY <1>3, <1>4 DEF JobInv

\* zombie_process_check()
LEMMA ReapStep ==
    ASSUME JobInv, NEW p \in Pids, Reap(p)
    PROVE  JobInv'
<1>1. at = "reap" /\ at' = at /\ JobTypes /\ JobsExact /\ p \in Alive
  BY DEF Reap, JobInv, Alive
<1>2. child' = [child EXCEPT ![p] = NoChild] /\ RemoveChild(p)
  BY DEF Reap
<1>3. JobTypes' /\ JobsExact'
  BY <1>1, <1>2, RemoveKeeps
<1> QED BY <1>1, <1>3 DEF JobInv, SwitchesToChild

\* make_process(): the new child takes the entry at the top, and no other
\* entry has its pid, for the system gives a pid again only once it is reaped.
LEMMA MakeProcessStep ==
    ASSUME JobInv, NEW p \in Pids, MakeProcess(p)
    PROVE  JobInv'
<1> DEFINE c == [st |-> "running", grp |-> FALSE, ends |-> EndsOf(fd),
                 shut |-> IF pipes = None THEN {} ELSE {pipes[1], pipes[2]}]
<1>1. /\ at = "run" /\ child[p].st = "none" /\ top < MaxTop
      /\ child' = [child EXCEPT ![p] = c]
      /\ AddChild(p)
      /\ fg' = IF Head(todo).bg THEN fg ELSE p
      /\ at' = IF Head(todo).bg THEN "after" ELSE "switch"
  BY DEF MakeProcess, Runs
<1>2. JobTypes /\ JobsExact
  BY <1>1 DEF JobInv
<1>3. IsChild(c) /\ c.st = "running"
  BY DEF IsChild
<1> HIDE DEF c
<1>4. \A q \in Pids : child'[q] = IF q = p THEN c ELSE child[q]
  BY <1>1, <1>2 DEF JobTypes
<1>5. Alive' = Alive \cup {p} /\ p \notin Alive
  BY <1>1, <1>3, <1>4 DEF Alive
<1>6. /\ top \in 1..MaxTop /\ MaxTop \in Nat /\ top \in Nat
      /\ top' = top + 1 /\ top' \in 1..MaxTop
  BY <1>1, <1>2, JobFacts DEF JobTypes, AddChild
<1>7. ASSUME NEW i \in 1..MaxTop PROVE stack'[i] = IF i = top THEN p ELSE stack[i]
  <2>1. stack'[i] = IF i = top THEN p ELSE IF top = 1 THEN NoPid ELSE stack[i]
    BY <1>1 DEF AddChild
  <2>2. top = 1 => stack[i] = NoPid
    BY <1>1, <1>2 DEF JobsExact
  <2> QED BY <2>1, <2>2
<1>8. JobTypes'
  <2>1. stack' \in [1..MaxTop -> Pids \cup {NoPid}]
    <3>1. stack' = [i \in 1..MaxTop |-> stack'[i]]
      BY <1>1 DEF AddChild
    <3>2. \A i \in 1..MaxTop : stack'[i] \in Pids \cup {NoPid}
      BY <1>2, <1>7 DEF JobTypes
    <3> QED BY <3>1, <3>2
  <2>2. child' = [q \in Pids |-> child'[q]]
    BY <1>1, <1>2 DEF JobTypes
  <2>3. \A q \in Pids : IsChild(child'[q])
    BY <1>2, <1>3, <1>4 DEF JobTypes
  <2> QED BY <1>6, <2>1, <2>2, <2>3 DEF JobTypes, IsChild
<1>9. \A i \in 1..MaxTop : stack[i] # p
  <2>1. p # NoPid
    BY ShellAssumption
  <2> QED BY <1>1, <1>2, <1>5, <2>1, JobFacts
<1>10. \A i, j \in 1..MaxTop : stack'[i] = stack'[j] => i = j \/ stack'[i] = NoPid
  BY <1>1, <1>2, <1>7, <1>9 DEF JobsExact
<1>11. \A i \in top'..MaxTop : stack'[i] = NoPid
  <2>1. \A i \in top'..MaxTop : i \in top..MaxTop /\ i # top /\ i \in 1..MaxTop
    BY <1>6
  <2>2. \A i \in top..MaxTop : stack[i] = NoPid
    BY <1>1, <1>2 DEF JobsExact
  <2> QED BY <1>7, <2>1, <2>2
<1>12. {stack'[i] : i \in 1..MaxTop} \ {NoPid} = Alive'
  <2>1. \A i \in 1..MaxTop : stack'[i] \in Alive' \cup {NoPid}
    BY <1>1, <1>2, <1>5, <1>7, JobFacts
  <2>2. \A q \in Alive' : \E i \in 1..MaxTop : stack'[i] = q
    <3>1. stack'[top] = p
      BY <1>6, <1>7
    <3>2. ASSUME NEW q \in Alive PROVE \E i \in 1..MaxTop : stack'[i] = q
      <4>1. PICK i \in 1..(top - 1) : stack[i] = q
        BY <1>1, <1>2, JobFacts
      <4>2. i \in 1..MaxTop /\ i # top
        BY <1>6
      <4> QED BY <1>7, <4>1, <4>2
    <3> QED BY <1>5, <1>6, <3>1, <3>2
  <2>3. NoPid \notin Alive'
    BY <1>1, <1>2, <1>5, JobFacts, ShellAssumption
  <2> QED BY <1>6, <2>1, <2>2, <2>3, JobsFromFacts
<1>13. JobsExact'
  BY <1>10, <1>11, <1>12 DEF JobsExact, Alive
<1>14. SwitchesToChild'
  BY <1>1, <1>5 DEF SwitchesToChild
<1> QED BY <1>8, <1>13, <1>14 DEF JobInv

\* A record of a child from its fields.
ChildFields == {"st", "grp", "ends", "shut"}

LEMMA ChildIs ==
    ASSUME NEW v, NEW g, NEW x, NEW y
    PROVE  [st |-> v, grp |-> g, ends |-> x, shut |-> y] =
                [f \in ChildFields |-> IF f = "st" THEN v ELSE IF f = "grp" THEN g
                                       ELSE IF f = "ends" THEN x ELSE y]
BY DEF ChildFields

\* A child is stopped, continued or killed.
LEMMA StateSet ==
    ASSUME NEW c, IsChild(c), NEW st
    PROVE  /\ [c EXCEPT !.st = Continued(@)] =
                   [st |-> Continued(c.st), grp |-> c.grp, ends |-> c.ends, shut |-> c.shut]
           /\ Signalled(c, st) = [st |-> st, grp |-> c.grp,
                                  ends |-> IF st = "zombie" THEN {} ELSE c.ends,
                                  shut |-> c.shut]
<1>1. c = [f \in ChildFields |-> c[f]]
  BY DEF IsChild, ChildFields
<1>2. [c EXCEPT !.st = Continued(@)] =
          [f \in ChildFields |-> IF f = "st" THEN Continued(c.st) ELSE c[f]]
  BY <1>1
<1>3. Signalled(c, st) =
          [f \in ChildFields |-> IF f = "ends" THEN IF st = "zombie" THEN {} ELSE c.ends
                                 ELSE IF f = "st" THEN st ELSE c[f]]
  BY <1>1 DEF Signalled
<1>4. \A f \in ChildFields : f \in {"st", "grp", "ends", "shut"}
  BY DEF ChildFields
<1>5. [c EXCEPT !.st = Continued(@)] =
          [st |-> Continued(c.st), grp |-> c.grp, ends |-> c.ends, shut |-> c.shut]
  BY <1>2, <1>4, ChildIs
<1>6. Signalled(c, st) = [st |-> st, grp |-> c.grp,
                          ends |-> IF st = "zombie" THEN {} ELSE c.ends,
                          shut |-> c.shut]
  BY <1>3, <1>4, ChildIs
<1> QED BY <1>5, <1>6

\* A child enters its group and shuts what it need not hold.
LEMMA GroupSet ==
    ASSUME NEW c, IsChild(c), NEW g, NEW e
    PROVE  [c EXCEPT !.grp = g, !.ends = e, !.shut = {}] =
                [st |-> c.st, grp |-> g, ends |-> e, shut |-> {}]
<1>1. c = [f \in ChildFields |-> c[f]]
  BY DEF IsChild, ChildFields
<1>2. [c EXCEPT !.grp = g, !.ends = e, !.shut = {}] =
          [f \in ChildFields |-> IF f = "shut" THEN {} ELSE IF f = "ends" THEN e
                                 ELSE IF f = "grp" THEN g ELSE c[f]]
  BY <1>1
<1>3. [st |-> c.st, grp |-> g, ends |-> e, shut |-> {}] =
            [f \in ChildFields |-> IF f = "st" THEN c.st ELSE IF f = "grp" THEN g
                                   ELSE IF f = "ends" THEN e ELSE {}]
  BY ONLY ChildIs
<1>4. \A f \in ChildFields : (IF f = "shut" THEN {} ELSE IF f = "ends" THEN e
                              ELSE IF f = "grp" THEN g ELSE c[f])
                           = (IF f = "st" THEN c.st ELSE IF f = "grp" THEN g
                              ELSE IF f = "ends" THEN e ELSE {})
  BY DEF ChildFields
<1> QED BY ONLY <1>2, <1>3, <1>4

\* wait_n_switch(): before the wait, and after it.
LEMMA SwitchStep ==
    ASSUME JobInv, Switch
    PROVE  JobInv'
<1>1. /\ at = "switch" /\ at' = "wait" /\ fg' = fg /\ UNCHANGED jobVars
      /\ child' = [child EXCEPT ![fg].st = Continued(@)]
  BY DEF Switch
<1>2. JobTypes /\ JobsExact /\ fg \in Alive
  BY <1>1 DEF JobInv, SwitchesToChild
<1> DEFINE c == [st |-> Continued(child[fg].st), grp |-> child[fg].grp,
                 ends |-> child[fg].ends, shut |-> child[fg].shut]
<1>3. child' = [child EXCEPT ![fg] = c]
  <2>1. fg \in Pids /\ IsChild(child[fg])
    BY <1>2 DEF JobTypes, Alive
  <2>2. [child[fg] EXCEPT !.st = Continued(@)] = c
    BY <2>1, StateSet
  <2>3. child' = [child EXCEPT ![fg] = [child[fg] EXCEPT !.st = Continued(@)]]
    BY <1>1
  <2> HIDE DEF c
  <2> QED BY <2>2, <2>3
<1>4. IsChild(c) /\ c.st # "none"
  BY <1>2 DEF IsChild, Continued, Alive
<1> HIDE DEF c
<1>5. JobTypes' /\ JobsExact' /\ Alive' = Alive
  BY <1>1, <1>2, <1>3, <1>4, ChildChanges
<1> QED BY <1>1, <1>2, <1>5 DEF JobInv, SwitchesToChild

LEMMA WaitedStep ==
    ASSUME JobInv, Waited
    PROVE  JobInv'
<1>1. at = "wait" /\ at' = "after"
  BY DEF Waited
<1>2. JobTypes /\ JobsExact /\ fg \in Alive
  BY <1>1 DEF JobInv, SwitchesToChild
<1>3. CASE child[fg].st = "zombie"
  <2>1. child' = [child EXCEPT ![fg] = NoChild] /\ RemoveChild(fg)
    BY <1>3 DEF Waited
  <2>2. JobTypes' /\ JobsExact'
    BY <1>1, <1>2, <2>1, RemoveKeeps
  <2> QED BY <1>1, <2>2 DEF JobInv, SwitchesToChild
<1>4. CASE child[fg].st # "zombie"
  BY <1>1, <1>4, OtherSteps DEF Waited
<1> QED BY <1>3, <1>4

\* fg finds its child by the number of the job.
LEMMA FgStep ==
    ASSUME JobInv, FgHandler
    PROVE  JobInv'
<1>1. at = "run" /\ UNCHANGED <<jobVars, child>>
  BY DEF FgHandler, Runs
<1>2. JobTypes /\ JobsExact
  BY <1>1 DEF JobInv
<1> DEFINE p == JobToPid(Head(stages).job)
<1>3. \/ p = NoPid /\ at' = "after"
      \/ p # NoPid /\ at' = "switch" /\ fg' = p
  BY DEF FgHandler
<1>4. p # NoPid => p \in Alive
  BY <1>1, <1>2, JobFacts DEF JobToPid
<1>5. JobTypes' /\ JobsExact' /\ Alive' = Alive
  <2>1. child' = [q \in Pids |-> child'[q]] /\ \A q \in Pids : IsChild(child'[q])
    BY <1>1, <1>2 DEF JobTypes
  <2> QED BY <1>1, <1>2, <2>1, TableKeeps
<1> HIDE DEF p
<1> QED BY <1>3, <1>4, <1>5 DEF JobInv, SwitchesToChild

LEMMA SignalFacts ==
    ASSUME NEW c, IsChild(c), NEW st
    PROVE  IsChild(Signalled(c, st)) /\ Signalled(c, st).st = st
<1>1. ASSUME NEW z, NEW x,
             z = [st |-> st, grp |-> c.grp, ends |-> x, shut |-> c.shut]
      PROVE  IsChild(z) /\ z.st = st
  BY <1>1 DEF IsChild
<1> DEFINE x == IF st = "zombie" THEN {} ELSE c.ends
           z == Signalled(c, st)
<1>2. z = [st |-> st, grp |-> c.grp, ends |-> x, shut |-> c.shut]
  BY StateSet
<1> HIDE DEF x, z
<1>3. IsChild(z) /\ z.st = st
  BY ONLY <1>1, <1>2
<1> QED BY ONLY <1>3 DEF z

\* A signal is sent to a child that is there, and leaves it there.
LEMMA KjobStep ==
    ASSUME JobInv, KjobHandler
    PROVE  JobInv'
<1>1. at = "run" /\ at' = "after" /\ UNCHANGED jobVars
  BY DEF KjobHandler, Runs
<1>2. JobTypes /\ JobsExact
  BY <1>1 DEF JobInv
<1> DEFINE p == JobToPid(Head(stages).job)
           sig == Head(stages).sig
<1>3. \/ p = NoPid /\ child' = child
      \/ /\ p # NoPid
         /\ \E st \in StatesAfter(sig, child[p].st) :
                child' = [child EXCEPT ![p] = Signalled(@, st)]
  BY DEF KjobHandler
<1>4. p # NoPid => p \in Alive
  BY <1>1, <1>2, JobFacts DEF JobToPid
<1> HIDE DEF p, sig
<1>5. CASE child' = child
  BY <1>1, <1>5, OtherSteps
<1>6. ASSUME p \in Alive, NEW st \in StatesAfter(sig, child[p].st),
             child' = [child EXCEPT ![p] = Signalled(@, st)]
      PROVE  JobInv'
  <2>1. p \in Pids /\ child[p].st # "none" /\ IsChild(child[p])
    BY <1>2, <1>6 DEF Alive, JobTypes
  <2>2. st # "none"
    BY <1>6, <2>1 DEF StatesAfter, Continued
  <2>3. IsChild(Signalled(child[p], st)) /\ Signalled(child[p], st).st # "none"
    BY <2>1, <2>2, SignalFacts
  <2>4. child' = [child EXCEPT ![p] = Signalled(child[p], st)]
    BY <1>2, <1>6, <2>1 DEF JobTypes
  <2>5. JobTypes' /\ JobsExact'
    BY <1>1, <1>2, <1>6, <2>3, <2>4, ChildChanges
  <2> QED BY <1>1, <2>5 DEF JobInv, SwitchesToChild
<1> QED BY <1>3, <1>4, <1>5, <1>6

LEMMA OverkillStep ==
    ASSUME JobInv, OverkillHandler
    PROVE  JobInv'
<1>1. at = "run" /\ at' = "after" /\ UNCHANGED jobVars
  BY DEF OverkillHandler, Runs
<1>2. JobTypes /\ JobsExact
  BY <1>1 DEF JobInv
<1>3. child' = [p \in Pids |-> IF \E i \in 1..(top - 1) : stack[i] = p
                               THEN Signalled(child[p], "zombie") ELSE child[p]]
  BY DEF OverkillHandler
<1>4. ASSUME NEW p \in Pids
      PROVE  IsChild(child'[p]) /\ (child'[p].st = "none" <=> child[p].st = "none")
  <2>1. CASE \E i \in 1..(top - 1) : stack[i] = p
    <3>1. p \in Alive
      <4>1. PICK i \in 1..(top - 1) : stack[i] = p
        BY <2>1
      <4>2. i \in 1..MaxTop
        <5>1. top \in 1..MaxTop /\ MaxTop \in Nat
          BY <1>2, ShellAssumption DEF JobTypes
        <5> QED BY <4>1, <5>1
      <4>3. p # NoPid
        BY ShellAssumption
      <4> QED BY <1>1, <1>2, <4>1, <4>2, <4>3, JobFacts
    <3>2. child'[p] = Signalled(child[p], "zombie") /\ IsChild(child[p])
      BY <1>2, <1>3, <2>1 DEF JobTypes
    <3>3. IsChild(child'[p]) /\ child'[p].st = "zombie"
      BY <3>2, SignalFacts
    <3> QED BY <3>1, <3>3 DEF Alive
  <2>2. CASE ~\E i \in 1..(top - 1) : stack[i] = p
    BY <1>2, <1>3, <2>2 DEF JobTypes
  <2> QED BY <2>1, <2>2
<1>5. child' = [p \in Pids |-> child'[p]]
  BY <1>3
<1>6. JobTypes' /\ JobsExact'
  BY <1>1, <1>2, <1>4, <1>5, TableKeeps
<1> QED BY <1>1, <1>6 DEF JobInv, SwitchesToChild

\* The children go on by themselves.
LEMMA ChildStep ==
    ASSUME JobInv, NEW p \in Pids, ChildStarts(p) \/ ChildEnds(p)
    PROVE  JobInv'
<1>1. at' = at /\ fg' = fg /\ UNCHANGED jobVars /\ child[p].st = "running"
  BY DEF ChildStarts, ChildEnds
<1> SUFFICES ASSUME at # "gone" PROVE JobInv'
  BY <1>1 DEF JobInv
<1>2. JobTypes /\ JobsExact /\ SwitchesToChild
  BY DEF JobInv
<1>3. p \in Alive /\ IsChild(child[p])
  BY <1>1, <1>2 DEF Alive, JobTypes
<1>4. \E c : IsChild(c) /\ c.st # "none" /\ child' = [child EXCEPT ![p] = c]
  <2>1. CASE ChildStarts(p)
    <3> DEFINE c == [st |-> child[p].st, grp |-> TRUE, ends |-> ShutInChild(child[p]),
                     shut |-> {}]
    <3>1. child' = [child EXCEPT ![p] = c]
      <4>1. child' = [child EXCEPT ![p] = [child[p] EXCEPT !.grp = TRUE,
                                           !.ends = ShutInChild(child[p]), !.shut = {}]]
        BY <2>1 DEF ChildStarts
      <4>2. ASSUME NEW d, IsChild(d), NEW g, NEW e
            PROVE  [d EXCEPT !.grp = g, !.ends = e, !.shut = {}] =
                       [st |-> d.st, grp |-> g, ends |-> e, shut |-> {}]
        BY <4>2, GroupSet, Zenon
      <4>3. [child[p] EXCEPT !.grp = TRUE, !.ends = ShutInChild(child[p]), !.shut = {}] = c
        BY <1>3, <4>2, Zenon
      <4> HIDE DEF c
      <4> QED BY <4>1, <4>3
    <3>2. IsChild(c) /\ c.st # "none"
      BY <1>1 DEF IsChild
    <3> QED BY <3>1, <3>2
  <2>2. CASE ChildEnds(p)
    <3>1. PICK st \in {"zombie", "stopped"} :
            child' = [child EXCEPT ![p] = Signalled(@, st)]
      BY <2>2 DEF ChildEnds
    <3>2. IsChild(Signalled(child[p], st)) /\ Signalled(child[p], st).st # "none"
      BY <1>3, <3>1, SignalFacts
    <3>3. child' = [child EXCEPT ![p] = Signalled(child[p], st)]
      BY <1>2, <3>1 DEF JobTypes
    <3> QED BY <3>2, <3>3
  <2> QED BY <2>1, <2>2
<1>5. JobTypes' /\ JobsExact' /\ Alive' = Alive
  BY <1>1, <1>2, <1>3, <1>4, ChildChanges
<1> QED BY <1>1, <1>2, <1>5 DEF JobInv, SwitchesToChild

LEMMA JobsStart ==
    ASSUME ShellInit
    PROVE  JobInv
<1>1. /\ at = "reap" /\ stack = [i \in 1..MaxTop |-> NoPid] /\ top = 1
      /\ child = [p \in Pids |-> NoChild]
  BY DEF ShellInit
<1>2. Alive = {}
  BY <1>1 DEF Alive, NoChild
<1>3. JobTypes
  BY <1>1, ShellAssumption DEF JobTypes, IsChild, NoChild
<1>4. {stack[i] : i \in 1..MaxTop} \ {NoPid} = {}
  BY <1>1
<1>5. JobsExact
  BY <1>1, <1>2, <1>4 DEF JobsExact, Alive
<1> QED BY <1>1, <1>3, <1>5 DEF JobInv, SwitchesToChild

LEMMA JobsGo ==
    ASSUME JobInv, [ShellNext]_shellVars
    PROVE  JobInv'
<1>1. CASE UNCHANGED shellVars
  <2>1. at' = at /\ fg' = fg /\ UNCHANGED <<jobVars, child>>
    BY <1>1 DEF shellVars, jobVars
  <2> QED BY <2>1, OtherSteps DEF JobInv
<1>2. CASE Prompt \/ (\E line \in Lines : ReadLine(line)) \/ LineDone \/ StartCommand
           \/ MakePipe \/ PipeFails \/ LastStage \/ Redirect \/ NextStage
           \/ PipelineEnd \/ CommandEnd \/ Builtin \/ ForkFails
  <2>1. /\ UNCHANGED <<jobVars, child>> /\ at # "gone"
        /\ at' \notin {"switch", "wait"}
    BY <1>2 DEF Prompt, ReadLine, LineDone, StartCommand, MakePipe, PipeFails,
       LastStage, Redirect, NextStage, PipelineEnd, CommandEnd, Builtin, ForkFails,
       Runs
  <2> QED BY <2>1, OtherSteps
<1>3. CASE Quit
  BY <1>3 DEF Quit, JobInv
<1>4. CASE Switch \/ Waited \/ FgHandler \/ KjobHandler \/ OverkillHandler
  BY <1>4, SwitchStep, WaitedStep, FgStep, KjobStep, OverkillStep
<1>5. CASE \E p \in Pids : Reap(p) \/ MakeProcess(p) \/ ChildStarts(p) \/ ChildEnds(p)
  BY <1>5, ReapStep, MakeProcessStep, ChildStep
<1> QED BY <1>1, <1>2, <1>3, <1>4, <1>5 DEF ShellNext

\* The job table lists exactly the children that are not reaped: add_child() and
\* remove_child() are called on every way a child comes and goes, and no job
\* number leads to a pid that is somebody else's by now.
THEOREM JobsAreExact == ShellInit /\ [][ShellNext]_shellVars => []JobsExact
<1>1. ShellInit => JobInv
  BY JobsStart
<1>2. JobInv /\ [ShellNext]_shellVars => JobInv'
  BY JobsGo
<1>3. JobInv => JobsExact
  BY DEF JobInv, JobsExact
<1> QED BY <1>1, <1>2, <1>3, PTL
=============================================================================
