------------------------------- MODULE Vaccine -------------------------------
(***************************************************************************)
(* The vaccination drive (q2.c): companies put batches of vaccines into a  *)
(* queue and wait until they are used, zones take a batch, open slots, let *)
(* students register and vaccinate them, students come back until the      *)
(* antibody test passes or the college gives up on them.                   *)
(*                                                                         *)
(* Grain.  A critical section of a mutex is one step: vaccineQueueLock,    *)
(* studentLock, waitingStudent or the lock of a zone, which a student      *)
(* holds over the nested waitingStudent.  A zone reads waitingStudents     *)
(* with no lock, in a step of its own, and opens its slots later.          *)
(*                                                                         *)
(* The ring vaccineQueue is a sequence: QUEUE_MAX is not reached.  The     *)
(* outcome of a test is a choice, so success probabilities are left out.   *)
(***************************************************************************)
EXTENDS Naturals, Sequences, FiniteSets

CONSTANTS
    Companies, Zones,
    Students,       \* numbers: a zone vaccinates in increasing order
    Batches,        \* BATCH_MIN..BATCH_MAX, batches made at once
    Doses,          \* VACC_MIN..VACC_MAX, vaccines in a batch
    MaxSlots,       \* 8
    MaxTries,       \* 3, vaccinations of a student
    MaxMade         \* bound on the rounds of production of a company

ASSUME VaccineAssumption ==
    /\ Students \subseteq Nat
    /\ Batches \subseteq Nat \ {0}
    /\ Doses \subseteq Nat \ {0}
    /\ MaxSlots \in Nat \ {0}
    /\ MaxTries \in Nat \ {0}
    /\ MaxMade \in Nat

VARIABLES
    vaccineQueue,       \* batches: [company, count]
    vaccineUsed,        \* per company, never reset
    waitingStudents,    \* students looking for a zone
    vaccinated,         \* per student
    slots, students,    \* zoneData: free slots, registered students
    cpc, batches, made, \* company threads: place, local, rounds so far
    zpc, vaccines, from, newSlots, registered,  \* zone threads and their locals
    spc, vaccinations   \* student threads

companyVars == <<cpc, batches, made>>
zoneVars == <<zpc, vaccines, from, newSlots, registered>>
studentVars == <<spc, vaccinations>>
driveVars == <<vaccineQueue, vaccineUsed, waitingStudents, vaccinated, slots,
          students, companyVars, zoneVars, studentVars>>

\* main(): nothing is made, no slot is open, all students are on their way.
\* The loop that clears a zone's students[] always writes the same entry; the
\* others are zero because the zone is the first owner of its heap memory.
DriveInit ==
    /\ vaccineQueue = <<>>
    /\ vaccineUsed = [c \in Companies |-> 0]
    /\ waitingStudents = 0
    /\ vaccinated = [s \in Students |-> FALSE]
    /\ slots = [z \in Zones |-> 0]
    /\ students = [z \in Zones |-> {}]
    /\ cpc = [c \in Companies |-> "make"]
    /\ batches = [c \in Companies |-> 0]
    /\ made = [c \in Companies |-> 0]
    /\ zpc = [z \in Zones |-> "get"]
    /\ vaccines = [z \in Zones |-> 0]
    /\ from \in [Zones -> Companies]
    /\ newSlots = [z \in Zones |-> 0]
    /\ registered = [z \in Zones |-> {}]
    /\ spc = [s \in Students |-> "gate"]
    /\ vaccinations = [s \in Students |-> 1]

\* pthread_cond_broadcast(): who waits on the variable checks again.
Broadcast(pc, back) ==
    [t \in DOMAIN pc |-> IF pc[t] = "asleep" THEN back ELSE pc[t]]

-----------------------------------------------------------------------------
(* company()                                                               *)

\* addToVaccineQueue(): b batches, counts[k] vaccines in the k-th.
AddToVaccineQueue(c, b, counts) ==
    /\ cpc[c] = "make"
    /\ made[c] < MaxMade
    /\ vaccineQueue' = vaccineQueue \o
                        [k \in 1..b |-> [company |-> c, count |-> counts[k]]]
    /\ zpc' = Broadcast(zpc, "get")
    /\ batches' = [batches EXCEPT ![c] = b]
    /\ made' = [made EXCEPT ![c] = @ + 1]
    /\ cpc' = [cpc EXCEPT ![c] = "check"]
    /\ UNCHANGED <<vaccineUsed, waitingStudents, vaccinated, slots, students,
                   vaccines, from, newSlots, registered, studentVars>>

\* One turn of the loop that waits for the batches to be used.
CompanyCheck(c) ==
    /\ cpc[c] = "check"
    /\ cpc' = [cpc EXCEPT ![c] = IF vaccineUsed[c] = batches[c] THEN "make"
                                 ELSE "asleep"]
    /\ UNCHANGED <<vaccineQueue, vaccineUsed, waitingStudents, vaccinated,
                   slots, students, batches, made, zoneVars, studentVars>>

-----------------------------------------------------------------------------
(* zone()                                                                  *)

\* getFromVaccineQueue(): take a batch; or wake the companies and wait.
GetFromVaccineQueue(z) ==
    /\ zpc[z] = "get"
    /\ IF vaccineQueue = <<>>
       THEN /\ cpc' = Broadcast(cpc, "check")
            /\ zpc' = [zpc EXCEPT ![z] = "asleep"]
            /\ UNCHANGED <<vaccineQueue, vaccines, from>>
       ELSE /\ vaccines' = [vaccines EXCEPT ![z] = Head(vaccineQueue).count]
            /\ from' = [from EXCEPT ![z] = Head(vaccineQueue).company]
            /\ vaccineQueue' = Tail(vaccineQueue)
            /\ zpc' = [zpc EXCEPT ![z] = "offer"]
            /\ UNCHANGED cpc
    /\ UNCHANGED <<vaccineUsed, waitingStudents, vaccinated, slots, students,
                   batches, made, newSlots, registered, studentVars>>

\* min(8, min(waitingStudents, vaccines))
SlotsToOpen(z) ==
    LET S == {MaxSlots, waitingStudents, vaccines[z]}
    IN  CHOOSE m \in S : \A n \in S : m <= n

\* addToSlotsQueue(), the unlocked read ...
ReadWaiting(z) ==
    /\ zpc[z] = "offer"
    /\ SlotsToOpen(z) > 0
    /\ newSlots' = [newSlots EXCEPT ![z] = SlotsToOpen(z)]
    /\ zpc' = [zpc EXCEPT ![z] = "open"]
    /\ UNCHANGED <<vaccineQueue, vaccineUsed, waitingStudents, vaccinated,
                   slots, students, companyVars, vaccines, from, registered,
                   studentVars>>

\* ... and the slots opened under the zone's lock.
AddToSlotsQueue(z) ==
    /\ zpc[z] = "open"
    /\ slots' = [slots EXCEPT ![z] = newSlots[z]]
    /\ newSlots' = [newSlots EXCEPT ![z] = 0]
    /\ zpc' = [zpc EXCEPT ![z] = "collect"]
    /\ UNCHANGED <<vaccineQueue, vaccineUsed, waitingStudents, vaccinated,
                   students, companyVars, vaccines, from, registered,
                   studentVars>>

\* Mutant: the registrations stay in the table.
CollectedKept(z) == students

\* "data->students[i] = 0" for those collected.
Collected(z) == [students EXCEPT ![z] = {}]

\* The registration time is over: the registered students are collected and
\* the slots closed.
Collect(z) ==
    /\ zpc[z] = "collect"
    /\ registered' = [registered EXCEPT ![z] = students[z]]
    /\ students' = Collected(z)
    /\ slots' = [slots EXCEPT ![z] = 0]
    /\ zpc' = [zpc EXCEPT ![z] = IF students[z] = {} THEN "offer"
                                 ELSE "vaccinate"]
    /\ UNCHANGED <<vaccineQueue, vaccineUsed, waitingStudents, vaccinated,
                   companyVars, vaccines, from, newSlots, studentVars>>

\* Mutant: the broadcast is left out.
AfterJabSilent == spc

\* condBroadcast(&notVaccinated)
AfterJab == Broadcast(spc, "check")

\* One turn of the vaccination loop, on the first student left.
Vaccinate(z) ==
    /\ zpc[z] = "vaccinate"
    /\ \E s \in registered[z] :
        /\ \A t \in registered[z] : s <= t
        /\ vaccinated' = [vaccinated EXCEPT ![s] = TRUE]
        /\ registered' = [registered EXCEPT ![z] = @ \ {s}]
    /\ vaccines' = [vaccines EXCEPT ![z] = @ - 1]
    /\ spc' = AfterJab
    /\ zpc' = [zpc EXCEPT ![z] = IF registered'[z] # {} THEN "vaccinate"
                                 ELSE "phase"]
    /\ UNCHANGED <<vaccineQueue, vaccineUsed, waitingStudents, slots, students,
                   companyVars, from, newSlots, vaccinations>>

\* The phase is over: a last broadcast, with no lock held.
PhaseEnd(z) ==
    /\ zpc[z] = "phase"
    /\ spc' = AfterJab
    /\ zpc' = [zpc EXCEPT ![z] = IF vaccines[z] = 0 THEN "used" ELSE "offer"]
    /\ UNCHANGED <<vaccineQueue, vaccineUsed, waitingStudents, vaccinated,
                   slots, students, companyVars, vaccines, from, newSlots,
                   registered, vaccinations>>

\* No vaccine is left: one batch of the company has been used.
BatchUsed(z) ==
    /\ zpc[z] = "used"
    /\ vaccineUsed' = [vaccineUsed EXCEPT ![from[z]] = @ + 1]
    /\ zpc' = [zpc EXCEPT ![z] = "get"]
    /\ UNCHANGED <<vaccineQueue, waitingStudents, vaccinated, slots, students,
                   companyVars, vaccines, from, newSlots, registered,
                   studentVars>>

-----------------------------------------------------------------------------
(* student()                                                               *)

Arrive(s) ==
    /\ spc[s] = "gate"
    /\ waitingStudents' = waitingStudents + 1
    /\ spc' = [spc EXCEPT ![s] = "seek"]
    /\ UNCHANGED <<vaccineQueue, vaccineUsed, vaccinated, slots, students,
                   companyVars, zoneVars, vaccinations>>

\* getRegistered(): a zone whose lock is free and which has a slot.
GetRegistered(s, z) ==
    /\ spc[s] = "seek"
    /\ slots[z] > 0
    /\ slots' = [slots EXCEPT ![z] = @ - 1]
    /\ students' = [students EXCEPT ![z] = @ \cup {s}]
    /\ waitingStudents' = waitingStudents - 1
    /\ spc' = [spc EXCEPT ![s] = "check"]
    /\ UNCHANGED <<vaccineQueue, vaccineUsed, vaccinated, companyVars,
                   zoneVars, vaccinations>>

\* One turn of the loop that waits to be vaccinated.
StudentCheck(s) ==
    /\ spc[s] = "check"
    /\ vaccinated' = [vaccinated EXCEPT ![s] = FALSE]
    /\ spc' = [spc EXCEPT ![s] = IF vaccinated[s] THEN "test" ELSE "asleep"]
    /\ UNCHANGED <<vaccineQueue, vaccineUsed, waitingStudents, slots, students,
                   companyVars, zoneVars, vaccinations>>

TestPassed(s) ==
    /\ spc[s] = "test"
    /\ spc' = [spc EXCEPT ![s] = "done"]
    /\ UNCHANGED <<vaccineQueue, vaccineUsed, waitingStudents, vaccinated,
                   slots, students, companyVars, zoneVars, vaccinations>>

TestFailed(s) ==
    /\ spc[s] = "test"
    /\ vaccinations' = [vaccinations EXCEPT ![s] = @ + 1]
    /\ spc' = [spc EXCEPT ![s] = IF vaccinations[s] + 1 > MaxTries THEN "done"
                                 ELSE "gate"]
    /\ UNCHANGED <<vaccineQueue, vaccineUsed, waitingStudents, vaccinated,
                   slots, students, companyVars, zoneVars>>

-----------------------------------------------------------------------------
Company(c) ==
    \/ \E b \in Batches : \E counts \in [1..b -> Doses] :
            AddToVaccineQueue(c, b, counts)
    \/ CompanyCheck(c)

Zone(z) ==
    \/ GetFromVaccineQueue(z) \/ ReadWaiting(z) \/ AddToSlotsQueue(z)
    \/ Collect(z) \/ Vaccinate(z) \/ PhaseEnd(z) \/ BatchUsed(z)

Student(s) ==
    \/ Arrive(s) \/ StudentCheck(s) \/ TestPassed(s) \/ TestFailed(s)
    \/ \E z \in Zones : GetRegistered(s, z)

DriveNext ==
    \/ \E c \in Companies : Company(c)
    \/ \E z \in Zones : Zone(z)
    \/ \E s \in Students : Student(s)

-----------------------------------------------------------------------------
\* assert(vaccines >= studentCount): a zone has a dose for every student who
\* has registered and for every slot still open, although it chose the number
\* of slots from a count it read without the lock.
SlotsBacked ==
    \A z \in Zones :
        vaccines[z] >= slots[z] + Cardinality(students[z] \cup registered[z])

\* Every registration is backed by a dose and gives one vaccination: a
\* registered student is on exactly one list of one zone, or has been
\* vaccinated and not noticed it yet; nobody else is.  No student is vaccinated
\* twice for one registration, forgotten, or vaccinated by two zones.
OneJab ==
    /\ SlotsBacked
    /\ \A s \in Students :
        LET waits == {z \in Zones : s \in students[z]}
            called == {z \in Zones : s \in registered[z]}
        IN  Cardinality(waits) + Cardinality(called)
                + (IF vaccinated[s] THEN 1 ELSE 0)
                = (IF spc[s] \in {"check", "asleep"} THEN 1 ELSE 0)

\* Whoever got a slot is vaccinated and notices: the zone comes back for its
\* list and the broadcast is not missed.
RegisteredServed ==
    \A s \in Students : spc[s] = "check" ~> spc[s] = "test"
=============================================================================
