----------------------- MODULE ExecutionAttemptsProofs -----------------------
(***************************************************************************)
(* What the attempt ledger guarantees to every caller, for every set of    *)
(* steps and any number of attempts.                                       *)
(***************************************************************************)
EXTENDS ExecutionAttempts, TLAPS

(* The part of the guarantees that every operation preserves.  NumbersInOrder *)
(* is needed for itself only; OneActive follows from the active-row check.    *)
LedgerInv == AttemptsTypeOK /\ OneActive /\ NumbersInOrder

(* The types of an attempt's two parts. *)
LEMMA AttemptParts ==
    \A a \in Attempts : StepOf(a) \in Steps /\ NumberOf(a) \in Nat
BY MaxAttemptsAssumption DEF Attempts, StepOf, NumberOf

(* A legal transition moves an existing row to an existing state, never     *)
(* leaves a terminal state and never enters the active states from outside. *)
LEMMA TransitionFacts ==
    ASSUME AttemptsTypeOK, NEW a \in Attempts, NEW target \in States,
           MayTransition(a, target)
    PROVE  /\ attempt[a] # "ABSENT"
           /\ IsTerminal(a) => target = attempt[a]
           /\ target \in ActiveStates => IsActive(a)
BY DEF MayTransition, Exists, IsTerminal, IsActive, AttemptsTypeOK,
       AllowedTransitions, States, ActiveStates, TerminalStates

(* Creation keeps the guarantees: the new row is the only active one of its *)
(* step, and all lower numbers are in use and over.                         *)
LEMMA CreateKeepsLedger ==
    ASSUME LedgerInv, NEW a \in Attempts, CreateAttempt(a)
    PROVE  LedgerInv'
<1> USE DEF LedgerInv
<1>1. /\ attempt' = [attempt EXCEPT ![a] = "PENDING"]
      /\ credential' = credential /\ identity' = identity
  BY DEF CreateAttempt, Moved
<1>2. \A b \in Attempts : StepOf(b) = StepOf(a) => ~IsActive(b)
  BY DEF CreateAttempt, IsNextAttempt, ActiveAttempts
<1>3. \A b \in Attempts : StepOf(b) = StepOf(a) =>
          (NumberOf(b) < NumberOf(a) <=> Exists(b))
  BY DEF CreateAttempt, IsNextAttempt
<1>4. AttemptsTypeOK'
  BY <1>1 DEF AttemptsTypeOK, States, ActiveStates
<1>5. \A b \in Attempts : b # a => attempt'[b] = attempt[b]
  BY <1>1 DEF AttemptsTypeOK
<1>6. attempt'[a] = "PENDING"
  BY <1>1 DEF AttemptsTypeOK
<1>7. OneActive'
  <2>1. SUFFICES ASSUME NEW b \in Attempts, NEW c \in Attempts,
                        StepOf(b) = StepOf(c), IsActive(b)', IsActive(c)'
                 PROVE  b = c
    BY DEF OneActive
  <2>2. CASE b = a /\ c # a
    BY <1>2, <1>5, <2>1, <2>2 DEF IsActive
  <2>3. CASE b # a /\ c = a
    BY <1>2, <1>5, <2>1, <2>3 DEF IsActive
  <2>4. CASE b # a /\ c # a
    BY <1>5, <2>1, <2>4 DEF IsActive, OneActive
  <2> QED BY <2>2, <2>3, <2>4
<1>8. NumbersInOrder'
  <2>1. SUFFICES ASSUME NEW b \in Attempts, NEW c \in Attempts,
                        StepOf(b) = StepOf(c), NumberOf(b) < NumberOf(c), Exists(c)'
                 PROVE  IsTerminal(b)'
    BY DEF NumbersInOrder
  <2>2. CASE c = a
    <3>1. b # a
      BY <2>1, <2>2, AttemptParts
    <3>2. Exists(b) /\ ~IsActive(b)
      BY <1>2, <1>3, <2>1, <2>2
    <3> QED BY <1>5, <3>1, <3>2 DEF Exists, IsActive, IsTerminal, AttemptsTypeOK, States
  <2>3. CASE c # a /\ b = a
    <3>1. Exists(c)
      BY <1>5, <2>1, <2>3 DEF Exists
    <3>2. NumberOf(c) < NumberOf(a)
      BY <1>3, <2>1, <2>3, <3>1
    <3> QED BY <2>1, <2>3, <3>2, AttemptParts
  <2>4. CASE c # a /\ b # a
    BY <1>5, <2>1, <2>4 DEF Exists, IsTerminal, NumbersInOrder
  <2> QED BY <2>2, <2>3, <2>4
<1> QED BY <1>4, <1>7, <1>8

(* A transition keeps the guarantees: rows neither appear nor reopen. *)
LEMMA TransitionKeepsLedger ==
    ASSUME LedgerInv, NEW a \in Attempts, NEW target \in States,
           TransitionAttempt(a, target)
    PROVE  LedgerInv'
<1> USE DEF LedgerInv
<1>1. /\ MayTransition(a, target)
      /\ attempt' = [attempt EXCEPT ![a] = target]
      /\ credential' = credential
  BY DEF TransitionAttempt, Moved
<1>2. identity' \in [Attempts -> BOOLEAN]
  BY DEF TransitionAttempt, AttemptsTypeOK
<1>3. AttemptsTypeOK'
  BY <1>1, <1>2 DEF AttemptsTypeOK
<1>4. \A b \in Attempts :
          /\ Exists(b)' <=> Exists(b)
          /\ IsActive(b)' => IsActive(b)
          /\ IsTerminal(b) => IsTerminal(b)'
  <2>1. /\ attempt[a] # "ABSENT"
        /\ IsTerminal(a) => target = attempt[a]
        /\ target \in ActiveStates => IsActive(a)
    BY <1>1, TransitionFacts
  <2>2. attempt'[a] = target /\ \A b \in Attempts : b # a => attempt'[b] = attempt[b]
    BY <1>1 DEF AttemptsTypeOK
  <2> QED BY <2>1, <2>2 DEF Exists, IsActive, IsTerminal, States, ActiveStates, TerminalStates
<1>5. OneActive'
  BY <1>4 DEF OneActive
<1>6. NumbersInOrder'
  BY <1>4 DEF NumbersInOrder
<1> QED BY <1>3, <1>5, <1>6

(* The ledger's guarantees are inductive. *)
LEMMA LedgerStep ==
    ASSUME LedgerInv, [AttemptsNext]_attemptVars
    PROVE  LedgerInv'
<1>1. CASE UNCHANGED attemptVars
  BY <1>1 DEF LedgerInv, AttemptsTypeOK, OneActive, NumbersInOrder, attemptVars,
              IsActive, IsTerminal, Exists
<1>2. ASSUME NEW a \in Attempts, CreateAttempt(a) PROVE LedgerInv'
  BY <1>2, CreateKeepsLedger
<1>3. ASSUME NEW a \in Attempts, IssueCredentials(a) PROVE LedgerInv'
  BY <1>3 DEF IssueCredentials, LedgerInv, AttemptsTypeOK, OneActive, NumbersInOrder,
              IsActive, IsTerminal, Exists
<1>4. ASSUME NEW a \in Attempts, NEW target \in States, TransitionAttempt(a, target)
      PROVE  LedgerInv'
  BY <1>4, TransitionKeepsLedger
<1> QED BY <1>1, <1>2, <1>3, <1>4 DEF AttemptsNext

LEMMA LedgerStart == AttemptsInit => LedgerInv
BY DEF AttemptsInit, LedgerInv, AttemptsTypeOK, OneActive, NumbersInOrder,
       IsActive, IsTerminal, Exists, ActiveStates, TerminalStates

(* Every use of the ledger's operations keeps its guarantees: well-formed   *)
(* rows, one active row per step, numbers in order.                         *)
THEOREM LedgerSafe == AttemptsSpec => []LedgerInv
<1>1. LedgerInv /\ [AttemptsNext]_attemptVars => LedgerInv'
  BY LedgerStep
<1> QED BY <1>1, LedgerStart, PTL DEF AttemptsSpec

(* A step never has two rows through which a provider could be reached.     *)
THEOREM LedgerOneActive == AttemptsSpec => []OneActive
<1>1. LedgerInv => OneActive
  BY DEF LedgerInv
<1> QED BY <1>1, LedgerSafe, PTL

(* Rows are numbered in order, and all but the newest of a step are over.   *)
THEOREM LedgerInOrder == AttemptsSpec => []NumbersInOrder
<1>1. LedgerInv => NumbersInOrder
  BY DEF LedgerInv
<1> QED BY <1>1, LedgerSafe, PTL

(* No operation ever takes a row out of a terminal state.                   *)
LEMMA TerminalStep ==
    ASSUME LedgerInv, [AttemptsNext]_attemptVars, NEW a \in Attempts, IsTerminal(a)
    PROVE  attempt'[a] = attempt[a]
<1> USE DEF LedgerInv
<1>1. CASE UNCHANGED attemptVars
  BY <1>1 DEF attemptVars
<1>2. ASSUME NEW b \in Attempts, CreateAttempt(b) PROVE attempt'[a] = attempt[a]
  <2>1. b # a
    BY <1>2 DEF CreateAttempt, IsNextAttempt, Exists, IsTerminal, TerminalStates
  <2> QED BY <1>2, <2>1 DEF CreateAttempt, Moved, AttemptsTypeOK
<1>3. ASSUME NEW b \in Attempts, NEW target \in States, TransitionAttempt(b, target)
      PROVE  attempt'[a] = attempt[a]
  <2>1. b = a => target = attempt[a]
    BY <1>3, TransitionFacts DEF TransitionAttempt
  <2> QED BY <1>3, <2>1 DEF TransitionAttempt, Moved, AttemptsTypeOK
<1>4. ASSUME NEW b \in Attempts, IssueCredentials(b) PROVE attempt'[a] = attempt[a]
  BY <1>4 DEF IssueCredentials
<1> QED BY <1>1, <1>2, <1>3, <1>4 DEF AttemptsNext

(* "Terminal attempts never reopen", for any sequence of operations.        *)
THEOREM LedgerNeverReopens == AttemptsSpec => NeverReopens
<1>1. LedgerInv /\ [AttemptsNext]_attemptVars
        => [\A a \in Attempts : IsTerminal(a) => attempt'[a] = attempt[a]]_attemptVars
  BY TerminalStep
<1> QED BY <1>1, LedgerSafe, PTL DEF AttemptsSpec, NeverReopens
=============================================================================
