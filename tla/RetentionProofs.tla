--------------------------- MODULE RetentionProofs ---------------------------
(***************************************************************************)
(* What Retention promises about every step, for any runs, submissions,    *)
(* policies, overlapping workers and number of failures: types, no run on  *)
(* a purged submission, no outputs behind a purge, the review window, and  *)
(* definitions that hold still.                                            *)
(***************************************************************************)
EXTENDS Retention, FiniteSetTheorems, WellFoundedInduction, TLAPS

-----------------------------------------------------------------------------
(* The inductive invariant *)

(* A run is known to the workflow and to its submission from its admission  *)
(* on, is finalized from its end on, and released when that is done.        *)
Uses ==
    \A r \in Runs :
        /\ status[r] = "ABSENT" <=> r \notin admitted
        /\ r \in admitted <=> input[r] \in Submissions
        /\ Terminal(r) <=> finalizer[r] # "none"
        /\ r \in released => finalizer[r] = "done"
        /\ finalizer[r] = "queue" => inputPolicy[input[r]] = "DO_NOT_STORE"
        /\ outPurged[r] => Terminal(r)

(* Who may write what was purged was at work at the purge. *)
Quiet ==
    \A r \in Runs :
        outPurged[r] /\ (atWork[r] \/ outputs[r]) => r \in overlapped

(* Rows of PurgeRetry belong to submissions that are not stored, so that    *)
(* the review window of the others is the business of one command.          *)
OnlyUnstored ==
    /\ \A s \in Submissions :
          retry[s] # "none" => inputPolicy[s] = "DO_NOT_STORE"
    /\ \A p \in RetryWorkers :
          /\ \A s \in batch[p] : inputPolicy[s] = "DO_NOT_STORE"
          /\ task[p] # NoTask => inputPolicy[task[p][2]] = "DO_NOT_STORE"

(* Since the repair, the deadline of a submission has not been earlier than *)
(* the window of its runs, and what is selected is past that window.        *)
Settling ==
    /\ sweep = "idle" => selected = {} /\ settled = {}
    /\ sweep = "select" => selected = {}
    /\ \A r \in settled :
          /\ Terminal(r)
          /\ input[r] \in selected => ended[r] < passed
          /\ ~purged[input[r]] =>
                ended[r] <= expires[input[r]] \/ ended[r] < passed

IInv == /\ TypeOK /\ Uses /\ OnlyUnstored /\ Settling
        /\ NoActiveRunOnPurged /\ Quiet

-----------------------------------------------------------------------------
(* Deadlines *)

(* A set of natural numbers that is not empty has a smallest one. *)
LEMMA SmallestOf ==
    ASSUME NEW T \in SUBSET Nat, T # {}
    PROVE  \E m \in T : \A t \in T : m <= t
<1> DEFINE R == OpToRel(<, Nat)
<1>1. IsWellFoundedOn(R, Nat)
  BY NatLessThanWellFounded
<1>2. ASSUME NEW t \in Nat, NEW m \in Nat, t < m PROVE <<t, m>> \in R
  BY <1>2 DEF OpToRel
<1> HIDE DEF R
<1>3. \E m \in T : \A t \in T : ~ (<<t, m>> \in R)
  <2>1. T \subseteq Nat
    OBVIOUS
  <2> QED BY <1>1, <2>1, WFMin, Zenon
<1>4. PICK m \in T : \A t \in T : ~ (<<t, m>> \in R)
  BY <1>3
<1>5. ASSUME NEW t \in T PROVE m <= t
  <2>1. t \in Nat /\ m \in Nat
    OBVIOUS
  <2>2. ~ (t < m)
    BY <1>2, <1>4, <2>1
  <2> QED BY <2>1, <2>2
<1> QED BY <1>5

(* A set of deadlines that is not empty has a largest one. *)
LEMMA LargestOf ==
    ASSUME NEW n \in Nat, NEW E \in SUBSET (0 .. n), E # {}
    PROVE  \E k \in E : \A j \in E : j <= k
<1> DEFINE T == {n - k : k \in E}
<1>1. T \in SUBSET Nat /\ T # {}
  <2>1. \A k \in E : n - k \in Nat
    OBVIOUS
  <2> QED BY <2>1
<1>2. \A k \in E : n - k \in T
  OBVIOUS
<1>3. \A t \in T : \E k \in E : t = n - k
  OBVIOUS
<1> HIDE DEF T
<1>4. PICK m \in T : \A t \in T : m <= t
  BY <1>1, SmallestOf
<1>5. PICK k \in E : m = n - k
  BY <1>3
<1>6. ASSUME NEW j \in E PROVE j <= k
  <2>1. m <= n - j
    BY <1>2, <1>4
  <2> QED BY <1>5, <2>1
<1> QED BY <1>6

(* There are finitely many runs. *)
LEMMA RunsAreCounted == Cardinality(Runs) \in Nat
BY RetentionAssumption, FS_CardinalityType

(* The last end among the runs of a submission is one of their deadlines,   *)
(* and none of them ended later.                                            *)
LEMMA LatestEndIsLast ==
    ASSUME TypeOK, NEW s \in Submissions
    PROVE  /\ LatestEnd(s) \in Deadlines
           /\ \A r \in RunsOf(s) : ended[r] <= LatestEnd(s)
<1>1. Ends(s) \in SUBSET Deadlines /\ Ends(s) # {}
  BY RunsAreCounted DEF Ends, TypeOK, Deadlines, RunsOf
<1>2. \E k \in Ends(s) : \A j \in Ends(s) : j <= k
  BY <1>1, RunsAreCounted, LargestOf DEF Deadlines
<1>3. /\ LatestEnd(s) \in Ends(s)
      /\ \A j \in Ends(s) : j <= LatestEnd(s)
  BY <1>2 DEF LatestEnd
<1>4. \A r \in RunsOf(s) : ended[r] \in Ends(s)
  BY DEF Ends
<1> QED BY <1>1, <1>3, <1>4

(* There is a number left for a run that has not ended. *)
LEMMA NextEnd ==
    ASSUME TypeOK, NEW r \in Runs, ~Terminal(r)
    PROVE  NumberEnded + 1 \in Deadlines
<1> DEFINE E == {q \in Runs : Terminal(q)}
<1>1. E \in SUBSET (Runs \ {r})
  OBVIOUS
<1>2. /\ IsFiniteSet(Runs \ {r})
      /\ Cardinality(Runs \ {r}) = Cardinality(Runs) - 1
  BY RetentionAssumption, FS_RemoveElement
<1>3. IsFiniteSet(E) /\ Cardinality(E) <= Cardinality(Runs \ {r})
  BY <1>1, <1>2, FS_Subset
<1>4. Cardinality(E) \in Nat
  BY <1>3, FS_CardinalityType
<1>5. NumberEnded = Cardinality(E)
  BY DEF NumberEnded
<1> HIDE DEF E
<1> QED BY <1>2, <1>3, <1>4, <1>5, RunsAreCounted DEF Deadlines

-----------------------------------------------------------------------------
(* Every step keeps the invariant *)

(* Nothing has been admitted, and nothing is to be purged. *)
LEMMA InitHolds == Init => IInv
<1> SUFFICES ASSUME Init PROVE IInv
  OBVIOUS
<1> USE DEF Init, InitDefinition
<1>1. TypeOK
  BY RunsAreCounted, RetentionAssumption
     DEF TypeOK, DefinitionTypeOK, Deadlines, NoDeadline, Finalizing,
         Retentions
<1>2. Uses
  BY RetentionAssumption DEF Uses, Terminal
<1>3. OnlyUnstored
  BY DEF OnlyUnstored
<1>4. Settling
  BY DEF Settling
<1>5. NoActiveRunOnPurged /\ Quiet
  BY DEF NoActiveRunOnPurged, Quiet
<1> QED BY <1>1, <1>2, <1>3, <1>4, <1>5 DEF IInv

(* A run is admitted. *)
LEMMA AdmitKeeps ==
    ASSUME IInv, NEW r \in Runs, NEW s \in Submissions, Admit(r, s)
    PROVE  IInv'
<1> USE DEF IInv, Admit, AdmitRun, policies, workVars, subVars, finalVars,
            sweepVars, retryVars
<1>1. r \notin admitted /\ status[r] = "ABSENT" /\ r \notin settled
  BY DEF Uses, Settling, Terminal
<1>2. TypeOK'
  BY DEF TypeOK, DefinitionTypeOK, Deadlines
<1>3. Uses'
  BY <1>1, RetentionAssumption DEF Uses, Terminal, TypeOK
<1>4. OnlyUnstored'
  BY DEF OnlyUnstored
<1>5. Settling'
  BY <1>1 DEF Settling, Terminal, TypeOK
<1>6. NoActiveRunOnPurged' /\ Quiet'
  BY <1>1 DEF NoActiveRunOnPurged, Quiet, Uses, Terminal, TypeOK
<1> QED BY <1>2, <1>3, <1>4, <1>5, <1>6

(* Somebody begins to work, writes, or leaves: nobody begins for a run that *)
(* is final, and so for one that was purged.                                *)
LEMMA WorkKeeps ==
    ASSUME IInv, NEW r \in Runs, Begin(r) \/ WriteOutput(r) \/ Leave(r)
    PROVE  IInv'
<1> USE DEF IInv, Begin, WriteOutput, Leave, policies, workVars, subVars,
            finalVars, sweepVars, retryVars, useVars
<1>1. TypeOK'
  <2>1. /\ outputs' \in {outputs, [outputs EXCEPT ![r] = TRUE]}
        /\ \E b \in BOOLEAN : atWork' \in {atWork, [atWork EXCEPT ![r] = b]}
    OBVIOUS
  <2>2. outputs' \in [Runs -> BOOLEAN]
    BY <2>1 DEF TypeOK
  <2>3. atWork' \in [Runs -> BOOLEAN]
    BY <2>1 DEF TypeOK
  <2> QED BY <2>2, <2>3 DEF TypeOK, DefinitionTypeOK, Deadlines
<1>2. Uses' /\ OnlyUnstored' /\ Settling' /\ NoActiveRunOnPurged'
  BY DEF Uses, OnlyUnstored, Settling, NoActiveRunOnPurged, Terminal
<1>3. Quiet'
  BY DEF Quiet, Uses, Terminal, TypeOK
<1> QED BY <1>1, <1>2, <1>3

(* A run ends, by itself or cancelled: it was not final, and so not purged. *)
LEMMA EndKeeps ==
    ASSUME IInv, NEW r \in Runs, NEW final \in {"ENDED", "CANCELED"},
           End(r, final)
    PROVE  IInv'
<1> USE DEF IInv, End, policies, workVars, subVars, sweepVars, retryVars,
            useVars
<1>1. ~Terminal(r) /\ r \notin settled /\ ~outPurged[r] /\ r \in admitted
  BY DEF Uses, Settling, Terminal
<1>2. NumberEnded + 1 \in Deadlines
  BY <1>1, NextEnd
<1>3. TypeOK'
  BY <1>2 DEF TypeOK, DefinitionTypeOK, Deadlines, Finalizing
<1>4. Uses'
  BY <1>1 DEF Uses, Terminal, TypeOK
<1>5. OnlyUnstored'
  BY DEF OnlyUnstored
<1>6. Settling'
  BY <1>1 DEF Settling, Terminal, TypeOK
<1>7. NoActiveRunOnPurged' /\ Quiet'
  BY <1>1 DEF NoActiveRunOnPurged, Quiet, TypeOK
<1> QED BY <1>3, <1>4, <1>5, <1>6, <1>7

(* What a step leaves as it is that ends no run and purges nothing, and     *)
(* changes no deadline of a submission.                                     *)
LEMMA FrameKeeps ==
    ASSUME IInv, UNCHANGED <<status, input, ended, outputs, outPurged,
                             workVars, purged, expires, sweepVars, passed>>
    PROVE  NoActiveRunOnPurged' /\ Quiet' /\ Settling'
BY DEF IInv, NoActiveRunOnPurged, Quiet, Settling, Terminal, sweepVars,
       workVars

(* The receiver computes deadlines of a run that has ended. *)
LEMMA ScheduleKeeps ==
    ASSUME IInv, NEW r \in Runs, Schedule(r)
    PROVE  IInv'
<1> USE DEF IInv, Schedule, policies, workVars, subVars, sweepVars,
            retryVars, useVars
<1>1. Terminal(r) /\ input[r] \in Submissions
  BY DEF Uses, Terminal
<1>2. LatestEnd(input[r]) \in Deadlines
  BY <1>1, LatestEndIsLast
<1>3. TypeOK'
  BY <1>2 DEF TypeOK, DefinitionTypeOK, Deadlines, Finalizing, Finalizer
<1>4. Uses'
  BY <1>1 DEF Uses, Terminal, TypeOK, Finalizer
<1>5. OnlyUnstored'
  BY DEF OnlyUnstored
<1>6. NoActiveRunOnPurged' /\ Quiet' /\ Settling'
  BY FrameKeeps
<1> QED BY <1>3, <1>4, <1>5, <1>6

(* A deadline that was computed earlier is written: the repair of this      *)
(* submission no longer counts, unless it has been selected after it.       *)
LEMMA WriteDeadlineKeeps ==
    ASSUME IInv, NEW r \in Runs, WriteDeadline(r)
    PROVE  IInv'
<1> USE DEF IInv, WriteDeadline, runVars, policies, workVars, retryVars,
            useVars
<1>1. Terminal(r) /\ input[r] \in Submissions /\ finalizer[r] = "deadline"
  BY DEF Uses, Terminal, Finalizer
<1>2. /\ settled' \subseteq settled
      /\ input[r] \notin selected => settled' = settled \ RunsOf(input[r])
  BY DEF Overtakes
<1>3. TypeOK'
  BY <1>1, <1>2 DEF TypeOK, DefinitionTypeOK, Deadlines, Finalizing,
     Finalizer
<1>4. Uses'
  BY <1>1 DEF Uses, Terminal, TypeOK, Finalizer
<1>5. OnlyUnstored' /\ NoActiveRunOnPurged' /\ Quiet'
  BY DEF OnlyUnstored, NoActiveRunOnPurged, Quiet
<1>6. Settling'
  <2>1. SUFFICES ASSUME NEW q \in settled', ~purged[input[q]]
                 PROVE  ended[q] <= expires'[input[q]] \/ ended[q] < passed
    BY <1>2 DEF Settling, Terminal
  <2>2. CASE input[q] = input[r]
    BY <1>2, <2>1, <2>2 DEF Settling, RunsOf, TypeOK
  <2>3. CASE input[q] # input[r]
    BY <1>1, <1>2, <2>1, <2>3 DEF Settling, TypeOK
  <2> QED BY <2>2, <2>3
<1> QED BY <1>3, <1>4, <1>5, <1>6

(* The receiver queues a submission that is not stored. *)
LEMMA QueuePurgeKeeps ==
    ASSUME IInv, NEW r \in Runs, QueuePurge(r)
    PROVE  IInv'
<1> USE DEF IInv, QueuePurge, runVars, policies, workVars, sweepVars,
            retryVars, useVars
<1>1. /\ Terminal(r) /\ input[r] \in Submissions /\ finalizer[r] = "queue"
      /\ inputPolicy[input[r]] = "DO_NOT_STORE"
  BY DEF Uses, Terminal, Finalizer
<1>2. TypeOK'
  BY <1>1 DEF TypeOK, DefinitionTypeOK, Deadlines, Finalizing, Finalizer
<1>3. Uses'
  BY <1>1 DEF Uses, Terminal, TypeOK, Finalizer
<1>4. OnlyUnstored'
  BY <1>1 DEF OnlyUnstored, TypeOK
<1>5. NoActiveRunOnPurged' /\ Quiet' /\ Settling'
  BY FrameKeeps
<1> QED BY <1>2, <1>3, <1>4, <1>5

(* A definition is released when nothing reads it for the run any more. *)
LEMMA ReleaseKeeps ==
    ASSUME IInv, NEW r \in Runs, Release(r)
    PROVE  IInv'
<1> USE DEF IInv, Release, ReleaseDefinition, runVars, policies, workVars,
            subVars, sweepVars, retryVars
<1>1. Terminal(r) /\ r \in admitted /\ finalizer[r] = "release"
  BY DEF Uses, Terminal, Finalizer
<1>2. TypeOK'
  BY <1>1 DEF TypeOK, DefinitionTypeOK, Deadlines, Finalizing, Finalizer
<1>3. Uses'
  BY <1>1 DEF Uses, Terminal, TypeOK, Finalizer
<1>4. OnlyUnstored'
  BY DEF OnlyUnstored
<1>5. NoActiveRunOnPurged' /\ Quiet' /\ Settling'
  BY FrameKeeps
<1> QED BY <1>2, <1>3, <1>4, <1>5

(* A finalization that goes on, or ends, for a reason of its own. *)
LEMMA FinalizerFailureKeeps ==
    ASSUME IInv, NEW r \in Runs, MissSignal(r) \/ FinalizerDies(r)
    PROVE  IInv'
<1> USE DEF IInv, MissSignal, FinalizerDies, runVars, policies, workVars,
            subVars, sweepVars, retryVars, useVars
<1>1. Terminal(r) /\ finalizer[r] # "done"
  BY DEF Uses, Terminal
<1>2. TypeOK'
  BY <1>1 DEF TypeOK, DefinitionTypeOK, Deadlines, Finalizing, Mishap
<1>3. Uses'
  BY <1>1 DEF Uses, Terminal, TypeOK
<1>4. OnlyUnstored'
  BY DEF OnlyUnstored
<1>5. NoActiveRunOnPurged' /\ Quiet' /\ Settling'
  BY FrameKeeps
<1> QED BY <1>2, <1>3, <1>4, <1>5

(* A purge: nobody uses the submission. *)
LEMMA PurgeKeeps ==
    ASSUME IInv, NEW s \in Submissions, Purge(s), UNCHANGED <<runVars>>
    PROVE  /\ purged' \in [Submissions -> BOOLEAN]
           /\ expires' \in [Submissions -> Deadlines \cup {NoDeadline}]
           /\ \A q \in Submissions : purged'[q] => expires'[q] = NoDeadline
           /\ \A q \in Submissions :
                 ~purged'[q] => q # s /\ ~purged[q] /\ expires'[q] = expires[q]
           /\ NoActiveRunOnPurged'
<1> USE DEF IInv, Purge, MayPurge, InUse, runVars, policies, workVars
<1>1. NoActiveRunOnPurged'
  BY DEF NoActiveRunOnPurged, RunsOf, Terminal, TypeOK
<1> QED BY <1>1 DEF TypeOK

(* After the repair no run of a repaired submission ended later. *)
LEMMA RepairDeadlinesKeeps ==
    ASSUME IInv, RepairDeadlines
    PROVE  IInv'
<1> USE DEF IInv, RepairDeadlines, runVars, policies, workVars, finalVars,
            retryVars, useVars
<1>1. \A s \in Submissions :
         /\ LatestEnd(s) \in Deadlines
         /\ \A r \in RunsOf(s) : ended[r] <= LatestEnd(s)
  BY LatestEndIsLast
<1>2. \A s \in Expired : s \in Submissions /\ ~purged[s] /\ ~InUse(s)
  BY DEF Expired, Candidates
<1>3. TypeOK'
  BY <1>1, <1>2 DEF TypeOK, DefinitionTypeOK, Deadlines, Repaired
<1>4. Uses' /\ OnlyUnstored' /\ NoActiveRunOnPurged' /\ Quiet'
  BY DEF Uses, OnlyUnstored, NoActiveRunOnPurged, Quiet, Terminal
<1>5. Settling'
  <2>1. selected' = {} /\ sweep' = "select"
    BY DEF Settling
  <2>2. ASSUME NEW r \in settled'
        PROVE  Terminal(r) /\ ended[r] <= expires'[input[r]]
    <3>1. r \in Runs /\ input[r] \in Expired
      BY <2>2
    <3>2. Terminal(r) /\ r \in RunsOf(input[r])
      BY <1>2, <3>1 DEF InUse, RunsOf
    <3> QED BY <1>1, <1>2, <3>1, <3>2 DEF Repaired
  <2> QED BY <2>1, <2>2 DEF Settling, Terminal
<1> QED BY <1>3, <1>4, <1>5

(* What is selected is past the window of its repaired runs. *)
LEMMA SelectKeeps ==
    ASSUME IInv, Select
    PROVE  IInv'
<1> USE DEF IInv, Select, runVars, policies, workVars, subVars, finalVars,
            retryVars, useVars
<1>1. \A s \in Expired : s \in Submissions /\ ~purged[s] /\ expires[s] < passed
  BY DEF Expired, Candidates, Over
<1>2. TypeOK'
  BY <1>1 DEF TypeOK, DefinitionTypeOK, Deadlines
<1>3. Uses' /\ OnlyUnstored' /\ NoActiveRunOnPurged' /\ Quiet'
  BY DEF Uses, OnlyUnstored, NoActiveRunOnPurged, Quiet, Terminal
<1>4. Settling'
  <2>1. settled' \subseteq settled
    OBVIOUS
  <2>2. ASSUME NEW r \in settled', input[r] \in selected'
        PROVE  ended[r] < passed
    BY <1>1, <2>1, <2>2 DEF Settling, TypeOK, Deadlines, NoDeadline
  <2> QED BY <2>1, <2>2 DEF Settling, Terminal
<1> QED BY <1>2, <1>3, <1>4

(* The command purges what it has selected. *)
LEMMA PurgeExpiredKeeps ==
    ASSUME IInv, NEW s \in Submissions, PurgeExpired(s)
    PROVE  IInv'
<1> USE DEF IInv, PurgeExpired, runVars, policies, workVars, finalVars,
            retryVars, useVars
<1>1. UNCHANGED <<purged, expires>> \/ Purge(s)
  OBVIOUS
<1>2. \/ UNCHANGED <<purged, expires>>
      \/ /\ purged' \in [Submissions -> BOOLEAN]
         /\ expires' \in [Submissions -> Deadlines \cup {NoDeadline}]
         /\ \A q \in Submissions : purged'[q] => expires'[q] = NoDeadline
         /\ \A q \in Submissions :
               ~purged'[q] => ~purged[q] /\ expires'[q] = expires[q]
         /\ NoActiveRunOnPurged'
  BY <1>1, PurgeKeeps
<1>3. TypeOK'
  BY <1>2 DEF TypeOK, DefinitionTypeOK, Deadlines, Mishap
<1>4. Uses' /\ OnlyUnstored' /\ Quiet'
  BY DEF Uses, OnlyUnstored, Quiet, Terminal
<1>5. NoActiveRunOnPurged'
  BY <1>2 DEF NoActiveRunOnPurged
<1>6. Settling'
  <2>1. /\ settled' = settled /\ selected' = selected \ {s}
        /\ sweep' = "select" => selected' = {}
        /\ sweep' # "idle"
    OBVIOUS
  <2>2. \A r \in settled : input[r] \in Submissions
    BY DEF Settling, Uses, Terminal, TypeOK
  <2>3. \A r \in settled :
           ~purged'[input[r]] => ~purged[input[r]]
                                 /\ expires'[input[r]] = expires[input[r]]
    BY <1>2, <2>2
  <2> QED BY <2>1, <2>3 DEF Settling, Terminal
<1> QED BY <1>3, <1>4, <1>5, <1>6

(* A command that dies forgets its repair. *)
LEMMA SweepDiesKeeps ==
    ASSUME IInv, SweepDies
    PROVE  IInv'
<1> USE DEF IInv, SweepDies, runVars, policies, workVars, finalVars,
            subVars, retryVars, useVars
<1>1. TypeOK'
  BY DEF TypeOK, DefinitionTypeOK, Deadlines, Mishap
<1>2. Uses' /\ OnlyUnstored' /\ NoActiveRunOnPurged' /\ Quiet'
  BY DEF Uses, OnlyUnstored, NoActiveRunOnPurged, Quiet, Terminal
<1>3. Settling'
  BY DEF Settling
<1> QED BY <1>1, <1>2, <1>3

(* Listed submissions are not stored. *)
LEMMA ListRetriesKeeps ==
    ASSUME IInv, NEW p \in RetryWorkers, ListRetries(p)
    PROVE  IInv'
<1> USE DEF IInv, ListRetries, runVars, policies, workVars, finalVars,
            sweepVars, useVars
<1> DEFINE due == Missing \cup {s \in Submissions : retry[s] = "due"}
<1>1. \A s \in due : s \in Submissions /\ inputPolicy[s] = "DO_NOT_STORE"
  BY DEF OnlyUnstored, Missing
<1>2. /\ retry' = [s \in Submissions |-> IF s \in due THEN "due" ELSE retry[s]]
      /\ batch' = [batch EXCEPT ![p] = due]
  OBVIOUS
<1> HIDE DEF due
<1>3. TypeOK'
  BY <1>1, <1>2 DEF TypeOK, DefinitionTypeOK, Deadlines
<1>4. Uses'
  BY DEF Uses, Terminal
<1>5. OnlyUnstored'
  BY <1>1, <1>2 DEF OnlyUnstored, TypeOK
<1>6. NoActiveRunOnPurged' /\ Quiet' /\ Settling'
  BY FrameKeeps
<1> QED BY <1>3, <1>4, <1>5, <1>6

(* The purge of a retry takes no submission with a review window. *)
LEMMA ProcessRetryKeeps ==
    ASSUME IInv, NEW p \in RetryWorkers, NEW s \in Submissions,
           ProcessRetry(p, s)
    PROVE  IInv'
<1> USE DEF IInv, ProcessRetry, runVars, policies, workVars, finalVars,
            sweepVars, useVars
<1>1. \/ UNCHANGED <<purged, expires>>
      \/ /\ purged' \in [Submissions -> BOOLEAN]
         /\ expires' \in [Submissions -> Deadlines \cup {NoDeadline}]
         /\ \A q \in Submissions : purged'[q] => expires'[q] = NoDeadline
         /\ \A q \in Submissions :
               ~purged'[q] => ~purged[q] /\ expires'[q] = expires[q]
         /\ NoActiveRunOnPurged'
  BY PurgeKeeps
<1>2. TypeOK'
  BY <1>1 DEF TypeOK, DefinitionTypeOK, Deadlines
<1>3. Uses' /\ Quiet'
  BY DEF Uses, Quiet, Terminal
<1>4. OnlyUnstored'
  BY DEF OnlyUnstored, TypeOK
<1>5. NoActiveRunOnPurged'
  BY <1>1 DEF NoActiveRunOnPurged
<1>6. Settling'
  <2>1. \A r \in settled : input[r] \in Submissions
    BY DEF Settling, Uses, Terminal, TypeOK
  <2>2. \A r \in settled :
           ~purged'[input[r]] => ~purged[input[r]]
                                 /\ expires'[input[r]] = expires[input[r]]
    BY <1>1, <2>1
  <2> QED BY <2>2 DEF Settling, Terminal
<1> QED BY <1>2, <1>3, <1>4, <1>5, <1>6

(* A failure keeps the submission for the row that is to be written. *)
LEMMA FailRetryKeeps ==
    ASSUME IInv, NEW p \in RetryWorkers, NEW s \in Submissions,
           FailRetry(p, s)
    PROVE  IInv'
<1> USE DEF IInv, FailRetry, runVars, policies, workVars, finalVars,
            subVars, sweepVars, useVars
<1>1. /\ inputPolicy[s] = "DO_NOT_STORE"
      /\ batch' = [batch EXCEPT ![p] = @ \ {s}]
      /\ \E why \in {"defer", "failed"} :
            task' = [task EXCEPT ![p] = <<why, s>>]
  BY DEF OnlyUnstored
<1>2. TypeOK'
  BY <1>1 DEF TypeOK, DefinitionTypeOK, Deadlines, Mishap
<1>3. Uses'
  BY DEF Uses, Terminal
<1>4. OnlyUnstored'
  BY <1>1 DEF OnlyUnstored, TypeOK
<1>5. NoActiveRunOnPurged' /\ Quiet' /\ Settling'
  BY FrameKeeps
<1> QED BY <1>2, <1>3, <1>4, <1>5

(* The row that is written belongs to a submission that is not stored. *)
LEMMA SaveRetryKeeps ==
    ASSUME IInv, NEW p \in RetryWorkers, SaveRetry(p)
    PROVE  IInv'
<1> USE DEF IInv, SaveRetry, runVars, policies, workVars, finalVars,
            sweepVars, useVars
<1>1. /\ task[p] # NoTask
      /\ task' = [task EXCEPT ![p] = NoTask]
      /\ task[p][2] \in Submissions
      /\ inputPolicy[task[p][2]] = "DO_NOT_STORE"
  BY DEF OnlyUnstored, TypeOK
<1>2. /\ retry' \in {retry, [retry EXCEPT ![task[p][2]] = "later"]}
      /\ batch' \in {batch, [batch EXCEPT ![p] = {}]}
  OBVIOUS
<1>3. TypeOK'
  BY <1>1, <1>2 DEF TypeOK, DefinitionTypeOK, Deadlines
<1>4. Uses'
  BY DEF Uses, Terminal
<1>5. OnlyUnstored'
  BY <1>1, <1>2 DEF OnlyUnstored, TypeOK
<1>6. NoActiveRunOnPurged' /\ Quiet' /\ Settling'
  BY FrameKeeps
<1> QED BY <1>3, <1>4, <1>5, <1>6

(* A worker that dies forgets its batch. *)
LEMMA WorkerDiesKeeps ==
    ASSUME IInv, NEW p \in RetryWorkers, WorkerDies(p)
    PROVE  IInv'
<1> USE DEF IInv, WorkerDies, runVars, policies, workVars, finalVars,
            subVars, sweepVars, useVars
<1>1. TypeOK'
  BY DEF TypeOK, DefinitionTypeOK, Deadlines, Mishap
<1>2. Uses'
  BY DEF Uses, Terminal
<1>3. OnlyUnstored'
  BY DEF OnlyUnstored, TypeOK
<1>4. NoActiveRunOnPurged' /\ Quiet' /\ Settling'
  BY FrameKeeps
<1> QED BY <1>1, <1>2, <1>3, <1>4

(* The repair of a run's outputs writes the last end, which is not earlier. *)
LEMMA RepairOutputsKeeps ==
    ASSUME IInv, NEW r \in Runs, RepairOutputs(r)
    PROVE  IInv'
<1> USE DEF IInv, RepairOutputs, policies, workVars, finalVars, sweepVars,
            retryVars, useVars
<1> DEFINE s == input[r]
<1>1. s \in Submissions
  BY DEF MissedOutputs, Uses, Terminal
<1>2. /\ LatestEnd(s) \in Deadlines
      /\ \A q \in RunsOf(s) : ended[q] <= LatestEnd(s)
  BY <1>1, LatestEndIsLast
<1>3. /\ \/ expires' = expires
         \/ ~purged[s] /\ expires' = [expires EXCEPT ![s] = LatestEnd(s)]
      /\ \/ retry' = retry
         \/ /\ inputPolicy[s] = "DO_NOT_STORE"
            /\ retry' = [retry EXCEPT ![s] = "due"]
  OBVIOUS
<1> HIDE DEF s
<1>4. TypeOK'
  BY <1>1, <1>2, <1>3 DEF TypeOK, DefinitionTypeOK, Deadlines
<1>5. Uses' /\ NoActiveRunOnPurged' /\ Quiet'
  BY DEF Uses, NoActiveRunOnPurged, Quiet, Terminal
<1>6. OnlyUnstored'
  BY <1>1, <1>3 DEF OnlyUnstored, TypeOK
<1>7. Settling'
  <2>1. SUFFICES ASSUME NEW q \in settled, ~purged[input[q]]
                 PROVE  ended[q] <= expires'[input[q]] \/ ended[q] < passed
    BY DEF Settling, Terminal
  <2>2. CASE input[q] = s /\ expires' = [expires EXCEPT ![s] = LatestEnd(s)]
    BY <1>1, <1>2, <2>1, <2>2 DEF RunsOf, TypeOK
  <2>3. CASE expires'[input[q]] = expires[input[q]]
    BY <2>1, <2>3 DEF Settling
  <2> QED BY <1>1, <1>3, <2>2, <2>3 DEF TypeOK
<1> QED BY <1>4, <1>5, <1>6, <1>7

(* Outputs of a run that has ended are purged. *)
LEMMA PurgeOutputsKeeps ==
    ASSUME IInv, NEW r \in Runs, PurgeOutputs(r)
    PROVE  IInv'
<1> USE DEF IInv, PurgeOutputs, policies, workVars, finalVars, subVars,
            sweepVars, retryVars, useVars
<1>1. Terminal(r)
  BY DEF OutputsDue
<1>2. TypeOK'
  <2>1. /\ outputs' \in {outputs, [outputs EXCEPT ![r] = FALSE]}
        /\ outPurged' \in {outPurged, [outPurged EXCEPT ![r] = TRUE]}
        /\ outDeadline' \in {outDeadline, [outDeadline EXCEPT ![r] = FALSE]}
        /\ mishaps' \in {mishaps, mishaps + 1}
    BY DEF Mishap
  <2>2. outputs' \in [Runs -> BOOLEAN] /\ outPurged' \in [Runs -> BOOLEAN]
    BY <2>1 DEF TypeOK
  <2>3. outDeadline' \in [Runs -> BOOLEAN]
    BY <2>1 DEF TypeOK
  <2>4. mishaps' \in Nat
    <3>1. mishaps \in Nat
      BY DEF TypeOK
    <3> QED BY <2>1, <3>1
  <2> QED BY <2>2, <2>3, <2>4 DEF TypeOK, DefinitionTypeOK, Deadlines
<1>3. Uses'
  BY <1>1 DEF Uses, Terminal, TypeOK
<1>4. OnlyUnstored' /\ Settling' /\ NoActiveRunOnPurged'
  BY DEF OnlyUnstored, Settling, NoActiveRunOnPurged, Terminal
<1>5. Quiet'
  BY DEF Quiet, TypeOK
<1> QED BY <1>2, <1>3, <1>4, <1>5

(* Changes of the definition touch no run. *)
LEMMA EditKeeps ==
    ASSUME IInv, Edit
    PROVE  IInv'
<1> USE DEF IInv, Edit, runVars, policies, workVars, finalVars, subVars,
            sweepVars, retryVars
<1>1. UNCHANGED <<admitted, released>> /\ DefinitionTypeOK'
  <2>1. PICK superuser \in BOOLEAN :
            ChangeContract(superuser) \/ ChangeSteps \/ ChangePolicy(superuser)
    BY DEF ChangeDefinition
  <2>2. DefinitionTypeOK
    BY DEF TypeOK
  <2>3. CASE ChangeContract(superuser)
    BY <2>2, <2>3 DEF ChangeContract, DefinitionTypeOK
  <2>4. CASE ChangeSteps
    BY <2>2, <2>4 DEF ChangeSteps, DefinitionTypeOK
  <2>5. CASE ChangePolicy(superuser)
    BY <2>2, <2>5 DEF ChangePolicy, DefinitionTypeOK
  <2> QED BY <2>1, <2>3, <2>4, <2>5
<1>2. TypeOK'
  BY <1>1 DEF TypeOK, Deadlines
<1>3. Uses' /\ OnlyUnstored'
  BY <1>1 DEF Uses, OnlyUnstored, Terminal
<1>4. NoActiveRunOnPurged' /\ Quiet' /\ Settling'
  BY FrameKeeps
<1> QED BY <1>2, <1>3, <1>4

(* Time only makes deadlines pass. *)
LEMMA TimeKeeps ==
    ASSUME IInv, Pass \/ \E s \in Submissions : RetryDue(s)
    PROVE  IInv'
<1> USE DEF IInv, runVars, policies, workVars, finalVars, subVars,
            sweepVars, retryVars, useVars
<1>1. CASE Pass
  <2>1. TypeOK'
    BY <1>1 DEF Pass, TypeOK, DefinitionTypeOK, Deadlines
  <2>2. Settling'
    BY <1>1 DEF Pass, Settling, Terminal, TypeOK, Deadlines
  <2> QED BY <1>1, <2>1, <2>2 DEF Pass, Uses, OnlyUnstored, Terminal,
             NoActiveRunOnPurged, Quiet
<1>2. ASSUME NEW s \in Submissions, RetryDue(s) PROVE IInv'
  <2>1. TypeOK' /\ OnlyUnstored'
    BY <1>2 DEF RetryDue, TypeOK, DefinitionTypeOK, Deadlines, OnlyUnstored
  <2>2. Uses'
    BY <1>2 DEF RetryDue, Uses, Terminal
  <2>3. NoActiveRunOnPurged' /\ Quiet' /\ Settling'
    BY <1>2, FrameKeeps DEF RetryDue
  <2> QED BY <2>1, <2>2, <2>3
<1> QED BY <1>1, <1>2

(* The invariant is inductive. *)
LEMMA NextKeeps == IInv /\ [Next]_vars => IInv'
<1> SUFFICES ASSUME IInv, [Next]_vars PROVE IInv'
  OBVIOUS
<1>1. ASSUME NEW r \in Runs, NEW s \in Submissions, Admit(r, s) PROVE IInv'
  BY <1>1, AdmitKeeps
<1>2. ASSUME NEW r \in Runs, Run(r) PROVE IInv'
  BY <1>2, WorkKeeps, EndKeeps DEF Run, Finish, Cancel
<1>3. ASSUME NEW r \in Runs, Finalize(r) PROVE IInv'
  BY <1>3, ScheduleKeeps, WriteDeadlineKeeps, QueuePurgeKeeps, ReleaseKeeps
     DEF Finalize
<1>4. ASSUME NEW r \in Runs, SweepOutputs(r) PROVE IInv'
  BY <1>4, RepairOutputsKeeps, PurgeOutputsKeeps DEF SweepOutputs
<1>5. CASE PurgeSubmissions
  BY <1>5, RepairDeadlinesKeeps, SelectKeeps, PurgeExpiredKeeps
     DEF PurgeSubmissions
<1>6. ASSUME NEW p \in RetryWorkers, PurgeRetries(p) PROVE IInv'
  BY <1>6, ListRetriesKeeps, SaveRetryKeeps, ProcessRetryKeeps, FailRetryKeeps
     DEF PurgeRetries
<1>7. CASE Dies
  BY <1>7, FinalizerFailureKeeps, SweepDiesKeeps, WorkerDiesKeeps DEF Dies
<1>8. CASE Edit
  BY <1>8, EditKeeps
<1>9. CASE Pass \/ \E s \in Submissions : RetryDue(s)
  BY <1>9, TimeKeeps
<1>10. CASE UNCHANGED vars
  BY <1>10 DEF vars, runVars, policies, workVars, finalVars, subVars, sweepVars,
     retryVars, useVars, IInv, TypeOK, DefinitionTypeOK, Deadlines, Uses,
     OnlyUnstored, Settling, Terminal, NoActiveRunOnPurged, Quiet
<1> QED BY <1>1, <1>2, <1>3, <1>4, <1>5, <1>6, <1>7, <1>8, <1>9, <1>10
        DEF Next

-----------------------------------------------------------------------------
(* What follows *)

(* The inductive invariant holds throughout. *)
THEOREM Safe == Spec => []IInv
BY InitHolds, NextKeeps, PTL DEF Spec

(* Every variable keeps its type, and a purged submission has no deadline,  *)
(* whichever finalizer or command computed one for it before.               *)
THEOREM TypeCorrect == Spec => []TypeOK
<1>1. IInv => TypeOK
  BY DEF IInv
<1> QED BY <1>1, Safe, PTL

(* Admissions and purges see each other: no run executes whose submission   *)
(* has been purged.                                                         *)
THEOREM NoRunOnPurged == Spec => []NoActiveRunOnPurged
<1>1. IInv => NoActiveRunOnPurged
  BY DEF IInv
<1> QED BY <1>1, Safe, PTL

(* What was purged stays purged when nobody was at work for the run then:   *)
(* a run is purged when it is final, and nobody begins any more.            *)
THEOREM PurgedOutputsGone == Spec => []PurgedIsEmpty
<1>1. IInv => PurgedIsEmpty
  BY DEF IInv, Quiet, PurgedIsEmpty
<1> QED BY <1>1, Safe, PTL

(* Whatever a purge finds repaired has outlived its review window, with any *)
(* number of runs, finalizers and failures in between.                      *)
THEOREM ReviewWindow == Spec => KeptForReview
<1>1. ASSUME IInv, [Next]_vars, NEW s \in Submissions,
             inputPolicy[s] = "STORE_DAYS", ~purged[s], purged'[s],
             NEW r \in RunsOf(s) \cap settled
      PROVE  ended[r] < passed
  <2>1. CASE s \in selected
    BY <1>1, <2>1 DEF IInv, Settling, RunsOf
  <2>2. CASE s \notin selected
    <3>1. ASSUME NEW q \in Submissions, PurgeExpired(q) PROVE FALSE
      BY <1>1, <2>2, <3>1 DEF PurgeExpired, Purge, IInv, TypeOK
    <3>2. ASSUME NEW p \in RetryWorkers, PurgeRetries(p) PROVE FALSE
      <4>1. ASSUME NEW q \in Submissions, ProcessRetry(p, q) PROVE FALSE
        <5>1. q # s
          BY <1>1, <4>1 DEF ProcessRetry, IInv, OnlyUnstored
        <5> QED BY <1>1, <4>1, <5>1 DEF ProcessRetry, Purge, IInv, TypeOK
      <4> QED BY <1>1, <3>2, <4>1 DEF PurgeRetries, ListRetries, SaveRetry,
                 FailRetry, subVars
    <3>3. purged' = purged
      BY <1>1, <3>1, <3>2
         DEF Next, Admit, Run, Begin, WriteOutput, Leave, Finish, Cancel, End,
             Finalize, Schedule, WriteDeadline, QueuePurge, Release,
             SweepOutputs,
             RepairOutputs, PurgeOutputs, PurgeSubmissions, RepairDeadlines,
             Select, Dies, MissSignal, FinalizerDies, SweepDies, WorkerDies,
             Edit, Pass, RetryDue, subVars, vars
    <3> QED BY <1>1, <3>3
  <2> QED BY <2>1, <2>2
<1>2. IInv /\ [Next]_vars =>
        [\A s \in Submissions :
           inputPolicy[s] = "STORE_DAYS" /\ ~purged[s] /\ purged'[s] =>
               \A r \in RunsOf(s) \cap settled : ended[r] < passed]_vars
  BY <1>1
<1> QED BY <1>2, Safe, PTL DEF Spec, KeptForReview

(* The fence holds: while a run executes or its receivers run, nobody can   *)
(* change the contract, nor the steps unless the workflow is versioned.     *)
THEOREM StableDefinition == Spec => DefinitionIsStable
<1>1. ASSUME IInv, [Next]_vars, NEW r \in Runs, Reads(r)
      PROVE  contract' = contract /\ (steps' = steps \/ policy = "VERSIONED")
  <2>1. r \in admitted /\ r \in Unreleased
    BY <1>1 DEF IInv, Uses, Reads, Terminal, Unreleased
  <2>2. ASSUME Edit PROVE contract' = contract
                          /\ (steps' = steps \/ policy = "VERSIONED")
    BY <1>1, <2>1, <2>2
       DEF Edit, ChangeDefinition, ChangeContract, ChangeSteps, ChangePolicy,
           MayChange, HasRuns, IInv, TypeOK, DefinitionTypeOK
  <2>3. ASSUME ~Edit PROVE UNCHANGED <<contract, steps>>
    BY <1>1, <2>3
       DEF Next, Admit, AdmitRun, Run, Begin, WriteOutput, Leave, Finish,
           Cancel, End,
           Finalize, Schedule, WriteDeadline, QueuePurge, Release,
           ReleaseDefinition, SweepOutputs, RepairOutputs, PurgeOutputs,
           PurgeSubmissions, RepairDeadlines, Select, PurgeExpired,
           PurgeRetries, ListRetries, SaveRetry, ProcessRetry, FailRetry,
           Dies, MissSignal, FinalizerDies, SweepDies, WorkerDies, Pass,
           RetryDue, useVars, vars
  <2> QED BY <2>2, <2>3
<1>2. IInv /\ [Next]_vars =>
        [\/ contract' = contract /\ (steps' = steps \/ policy = "VERSIONED")
         \/ \A r \in Runs : ~Reads(r)]_vars
  BY <1>1
<1> QED BY <1>2, Safe, PTL DEF Spec, DefinitionIsStable
=============================================================================
