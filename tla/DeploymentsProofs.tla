-------------------------- MODULE DeploymentsProofs --------------------------
(***************************************************************************)
(* What Deployments promises, for any Validators, releases, attempts and   *)
(* number of mishaps: types, uniform routes, retired rows out of use,      *)
(* provider resources behind whatever is served, live work on accepted     *)
(* releases, and no contact with a blocked Service.                        *)
(***************************************************************************)
EXTENDS Deployments, TLAPS

-----------------------------------------------------------------------------
(* The inductive invariant *)

(* Only imported rows are used, READY ones routed, and a row was imported   *)
(* from a resource that had been created.                                   *)
UsedExist ==
    \A x \in Rows :
        /\ Routed(x) => readiness[x] = "READY"
        /\ InUse(x) => readiness[x] # "ABSENT"
        /\ readiness[x] # "ABSENT" =>
              provider[<<KindOf(x), ReleaseOf(x)>>] # "new"

(* Routes lead to accepted releases, to the candidate that is being         *)
(* certified, or to one that a certification has left behind.               *)
RoutesKnown ==
    /\ certifier.pc # "idle" => certifier.release \in Releases
    /\ certifier # Idle => certifier.pc # "idle"
    /\ \A x \in Rows : Routed(x) =>
          \/ accepted[x]
          \/ ReleaseOf(x) \in unparked
          \/ certifier # Idle /\ ReleaseOf(x) = certifier.release

(* A release of which something is gone, or about to be, is not in use,     *)
(* unless it was routed in spite of that.                                   *)
RiskIsExposed ==
    \A x \in Rows :
        (Routed(x) \/ InUse(x)) /\ ReleaseOf(x) \in Risky =>
            ReleaseOf(x) \in exposed

CleanerShape ==
    cleaner = [mode |-> cleaner.mode, release |-> cleaner.release,
               todo |-> cleaner.todo]

IInv == /\ TypeOK /\ UsedExist /\ RoutesKnown /\ RiskIsExposed /\ CleanerShape
        /\ RoutesUniform /\ RetiredIsUnused

-----------------------------------------------------------------------------
(* Rows are triples of a Validator, a kind and a release. *)
LEMMA RowParts ==
    /\ \A x \in Rows : /\ ValidatorOf(x) \in Validators
                       /\ KindOf(x) \in DeploymentKinds
                       /\ ReleaseOf(x) \in Releases
                       /\ x = <<ValidatorOf(x), KindOf(x), ReleaseOf(x)>>
    /\ \A v \in Validators, k \in DeploymentKinds, r \in Releases :
          /\ <<v, k, r>> \in Rows
          /\ ValidatorOf(<<v, k, r>>) = v
          /\ KindOf(<<v, k, r>>) = k
          /\ ReleaseOf(<<v, k, r>>) = r
BY DEF Rows, ValidatorOf, KindOf, ReleaseOf

(* The number that stands for no release is none. *)
LEMMA ReleasesArePositive == NoRelease \notin Releases
BY DEF Releases, NoRelease

(* The pair of a Validator and a release are its rows. *)
LEMMA PairParts ==
    ASSUME NEW v \in Validators, NEW r \in Releases
    PROVE  /\ Pair(v, r) \subseteq Rows
           /\ \A x \in Rows :
                 ValidatorOf(x) = v /\ ReleaseOf(x) = r => x \in Pair(v, r)
<1>1. {<<v, "SERVICE", r>>, <<v, "JOB", r>>} \subseteq Rows
  BY RowParts DEF DeploymentKinds
<1>2. ASSUME NEW x \in Rows, ValidatorOf(x) = v, ReleaseOf(x) = r
      PROVE  x \in {<<v, "SERVICE", r>>, <<v, "JOB", r>>}
  BY <1>2, RowParts DEF DeploymentKinds
<1> QED BY <1>1, <1>2 DEF Pair

(* Whatever an activation does is decided by the release it routes. *)
LEMMA Activation ==
    ASSUME IInv, NEW r \in Releases,
           NEW mode \in {"NORMAL", "JOB_ONLY", "INACTIVE"},
           NEW requireAccepted \in BOOLEAN,
           Activate(r, mode, requireAccepted)
    PROVE  /\ role' = [x \in Rows |-> TargetRole(x, r, mode)]
           /\ quiet' \in [Rows -> {"none", "recent", "drained"}]
           /\ \A x \in Rows : ReleaseOf(x) = r =>
                 readiness[x] = "READY" /\ (requireAccepted => accepted[x])
<1>1. \A x \in Rows : ReleaseOf(x) = r =>
         readiness[x] = "READY" /\ (requireAccepted => accepted[x])
  <2>1. TAKE x \in Rows
  <2>2. HAVE ReleaseOf(x) = r
  <2>3. ValidatorOf(x) \in Validators
    BY RowParts
  <2>4. x \in Pair(ValidatorOf(x), r)
    BY <2>2, <2>3, PairParts
  <2> QED BY <2>3, <2>4 DEF Activate, Verifies
<1>2. ASSUME NEW x \in Rows, readiness[x] # "READY"
      PROVE  role[x] = "INACTIVE" /\ TargetRole(x, r, mode) = "INACTIVE"
  BY <1>1, <1>2 DEF IInv, UsedExist, Routed, TargetRole
<1>3. role' = [x \in Rows |-> TargetRole(x, r, mode)]
  <2>1. role' = [x \in Rows |-> IF readiness[x] = "READY"
                                THEN TargetRole(x, r, mode) ELSE role[x]]
    BY DEF Activate
  <2> QED BY <1>2, <2>1
<1>4. quiet' \in [Rows -> {"none", "recent", "drained"}]
  BY DEF Activate, QuietAfter, IInv, TypeOK
<1> QED BY <1>1, <1>3, <1>4

(* An activation keeps the invariant, whoever makes it: what is routed      *)
(* afterwards is accepted, or the candidate that is being certified.        *)
LEMMA RoutingKeeps ==
    ASSUME IInv, NEW r \in Releases,
           NEW mode \in {"NORMAL", "JOB_ONLY", "INACTIVE"},
           NEW requireAccepted \in BOOLEAN,
           Activate(r, mode, requireAccepted),
           UNCHANGED <<provider, readiness, accepted, blocked, deleted,
                       attemptVars, cleaner, unparked>>,
           certifier'.release \in Releases \cup {NoRelease},
           certifier' # Idle =>
               certifier'.pc # "idle" /\ certifier'.release \in Releases,
           certifier'.pc # "idle" => certifier' # Idle,
           \/ mode = "INACTIVE" \/ requireAccepted
           \/ certifier' # Idle /\ certifier'.release = r
    PROVE  IInv'
<1> USE DEF attemptVars
<1>1. /\ role' = [x \in Rows |-> TargetRole(x, r, mode)]
      /\ quiet' \in [Rows -> {"none", "recent", "drained"}]
      /\ \A x \in Rows : ReleaseOf(x) = r =>
            readiness[x] = "READY" /\ (requireAccepted => accepted[x])
  BY Activation
<1>2. \A x \in Rows :
         /\ role'[x] \in {"INACTIVE", "PRIMARY", "LONG_RUNNING"}
         /\ role'[x] # "INACTIVE" => ReleaseOf(x) = r /\ mode # "INACTIVE"
         /\ role'[x] = "PRIMARY" =>
               KindOf(x) = IF mode = "NORMAL" THEN "SERVICE" ELSE "JOB"
         /\ role'[x] = "LONG_RUNNING" => KindOf(x) # "SERVICE"
         /\ ReleaseOf(x) = r /\ mode = "NORMAL" =>
               role'[x] = IF KindOf(x) = "SERVICE" THEN "PRIMARY"
                                                   ELSE "LONG_RUNNING"
         /\ ReleaseOf(x) = r /\ mode = "JOB_ONLY" =>
               role'[x] = IF KindOf(x) = "JOB" THEN "PRIMARY" ELSE "INACTIVE"
  BY <1>1 DEF TargetRole
<1>3. /\ exposed \subseteq exposed' /\ exposed' \subseteq exposed \cup {r}
      /\ mode # "INACTIVE" /\ r \in Risky => r \in exposed'
      /\ \/ mishaps' = mishaps
         \/ mishaps < MaxMishaps /\ mishaps' = mishaps + 1
  BY DEF Activate, Expose
<1>4. TypeOK'
  <2>1. ASSUME NEW x \in Rows, NEW y \in Rows,
               ValidatorOf(x) = ValidatorOf(y), role'[x] = role'[y],
               role'[x] # "INACTIVE"
        PROVE  x = y
    <3>1. ReleaseOf(x) = r /\ ReleaseOf(y) = r /\ KindOf(x) = KindOf(y)
      BY <1>2, <2>1, RowParts DEF DeploymentKinds
    <3> QED BY <2>1, <3>1, RowParts
  <2>2. role' \in [Rows -> {"INACTIVE", "PRIMARY", "LONG_RUNNING"}]
    BY <1>1, <1>2
  <2>3. mishaps' \in 0 .. MaxMishaps
    <3>1. mishaps \in 0 .. MaxMishaps
      BY DEF IInv, TypeOK
    <3> QED BY <1>3, <3>1, MaxMishapsAssumption
  <2>4. exposed' \subseteq Releases
    BY <1>3 DEF IInv, TypeOK
  <2> QED BY <1>1, <2>1, <2>2, <2>3, <2>4 DEF IInv, TypeOK, Routed
<1>5. UsedExist'
  BY <1>1, <1>2 DEF IInv, UsedExist, Routed, InUse, Unfinished
<1>6. RoutesKnown'
  BY <1>1, <1>2 DEF IInv, RoutesKnown, Routed
<1>7. RiskIsExposed'
  BY <1>2, <1>3 DEF IInv, RiskIsExposed, Routed, InUse, Unfinished, Risky, Gone
<1>8. RoutesUniform'
  <2>1. \A x, y \in Rows :
           /\ KindOf(x) = KindOf(y) /\ ReleaseOf(x) = ReleaseOf(y) =>
                 role'[x] = role'[y]
           /\ role'[x] # "INACTIVE" /\ role'[y] # "INACTIVE" =>
                 ReleaseOf(x) = ReleaseOf(y)
    BY <1>1, <1>2 DEF TargetRole
  <2>2. ASSUME NEW v \in Validators, NEW q \in Releases
        PROVE  RoutingMode(v, q)' # "INCONSISTENT"
    <3>1. /\ <<v, "SERVICE", q>> \in Rows /\ <<v, "JOB", q>> \in Rows
          /\ KindOf(<<v, "SERVICE", q>>) = "SERVICE"
          /\ KindOf(<<v, "JOB", q>>) = "JOB"
          /\ ReleaseOf(<<v, "SERVICE", q>>) = q
          /\ ReleaseOf(<<v, "JOB", q>>) = q
      BY RowParts DEF DeploymentKinds
    <3>2. CASE q = r /\ mode # "INACTIVE"
      BY <1>2, <3>1, <3>2 DEF RoutingMode
    <3>3. CASE q # r \/ mode = "INACTIVE"
      BY <1>2, <3>1, <3>3 DEF RoutingMode
    <3> QED BY <3>2, <3>3
  <2> QED BY <2>1, <2>2 DEF RoutesUniform, Routed
<1>9. RetiredIsUnused'
  BY <1>1, <1>2 DEF IInv, RetiredIsUnused, Routed, InUse, Unfinished
<1>10. CleanerShape'
  BY DEF IInv, CleanerShape
<1> QED BY <1>4, <1>5, <1>6, <1>7, <1>8, <1>9, <1>10 DEF IInv

(* Installed releases are imported and accepted, and nothing is routed. *)
LEMMA InitHolds == Init => IInv
<1> SUFFICES ASSUME Init PROVE IInv
  OBVIOUS
<1> USE DEF Init, Idle, NoCleanup
<1>1. \A x \in Rows : ~Routed(x) /\ ~InUse(x)
  BY DEF Routed, InUse, Unfinished
<1>2. TypeOK
  BY <1>1, RowParts, MaxMishapsAssumption DEF TypeOK
<1>3. UsedExist
  BY <1>1, RowParts, InstalledAssumption DEF UsedExist
<1>4. RoutesKnown /\ RiskIsExposed
  BY <1>1 DEF RoutesKnown, RiskIsExposed
<1>5. CleanerShape
  BY DEF CleanerShape
<1>6. RoutesUniform
  <2>1. ASSUME NEW v \in Validators, NEW r \in Releases
        PROVE  RoutingMode(v, r) # "INCONSISTENT"
    BY RowParts DEF RoutingMode, DeploymentKinds
  <2> QED BY <1>1, <2>1 DEF RoutesUniform
<1>7. RetiredIsUnused
  BY <1>1 DEF RetiredIsUnused
<1> QED BY <1>2, <1>3, <1>4, <1>5, <1>6, <1>7 DEF IInv

(* Steps that route nothing and leave the release in the cleanup's hands    *)
(* as it is                                                                 *)
LEMMA FrameKeeps ==
    ASSUME IInv, UNCHANGED <<role, cleaner>>
    PROVE  RoutesUniform' /\ CleanerShape'
BY DEF IInv, RoutesUniform, RoutingMode, Routed, CleanerShape

(* A new resource serves no row yet. *)
LEMMA DeployKeeps ==
    ASSUME IInv, NEW r \in Releases, Deploy(r)
    PROVE  IInv'
<1> USE DEF IInv, Deploy, rowVars, attemptVars, operatorVars, historyVars
<1>1. provider' \in [DeploymentKinds \X Releases -> {"new", "present", "gone"}]
  BY DEF TypeOK
<1>2. TypeOK'
  BY <1>1 DEF TypeOK, Routed
<1>3. \A k \in DeploymentKinds, q \in Releases :
         /\ provider'[<<k, q>>] # "new" \/ provider[<<k, q>>] = "new"
         /\ provider'[<<k, q>>] = "gone" => provider[<<k, q>>] = "gone"
  BY DEF TypeOK
<1>4. UsedExist'
  BY <1>3, RowParts DEF UsedExist, Routed, InUse, Unfinished
<1>5. RoutesKnown' /\ RetiredIsUnused'
  BY DEF RoutesKnown, RetiredIsUnused, Routed, InUse, Unfinished
<1>6. Risky' \subseteq Risky
  BY <1>3 DEF Risky, Gone
<1>7. RiskIsExposed'
  BY <1>6 DEF RiskIsExposed, Routed, InUse, Unfinished
<1> QED BY <1>2, <1>4, <1>5, <1>7, FrameKeeps

(* An imported row has a resource, and no slot. *)
LEMMA ImportKeeps ==
    ASSUME IInv, NEW k \in DeploymentKinds, NEW r \in Releases,
           NEW registered \in SUBSET Validators, Import(k, r, registered)
    PROVE  IInv'
<1> USE DEF IInv, Import, attemptVars, historyVars
<1>1. readiness' \in [Rows -> {"ABSENT", "READY", "RETIRED"}]
  BY DEF TypeOK
<1>2. mishaps' \in 0 .. MaxMishaps
  <2>1. mishaps \in 0 .. MaxMishaps
    BY DEF TypeOK
  <2> QED BY <2>1, MaxMishapsAssumption
<1>3. TypeOK'
  BY <1>1, <1>2 DEF TypeOK, Routed
<1>4. \A x \in Rows :
         \/ readiness'[x] = readiness[x]
         \/ /\ readiness[x] = "ABSENT" /\ readiness'[x] = "READY"
            /\ provider[<<KindOf(x), ReleaseOf(x)>>] = "present"
  BY DEF TypeOK
<1>5. UsedExist'
  BY <1>4 DEF UsedExist, Routed, InUse, Unfinished
<1>6. RoutesKnown' /\ RiskIsExposed'
  BY DEF RoutesKnown, RiskIsExposed, Routed, InUse, Unfinished, Risky, Gone
<1>7. RetiredIsUnused'
  BY <1>4 DEF RetiredIsUnused, Routed, InUse, Unfinished
<1> QED BY <1>3, <1>5, <1>6, <1>7, FrameKeeps

(* A block changes no route. *)
LEMMA SetBlockKeeps ==
    ASSUME IInv, NEW x \in Rows, NEW value \in BOOLEAN, SetBlock(x, value)
    PROVE  IInv'
<1> USE DEF IInv, SetBlock, attemptVars, historyVars
<1>1. mishaps' \in 0 .. MaxMishaps
  <2>1. mishaps \in 0 .. MaxMishaps
    BY DEF TypeOK
  <2> QED BY <2>1, MaxMishapsAssumption
<1>2. TypeOK'
  BY <1>1 DEF TypeOK, Routed
<1>3. UsedExist' /\ RoutesKnown' /\ RiskIsExposed' /\ RetiredIsUnused'
  BY DEF UsedExist, RoutesKnown, RiskIsExposed, RetiredIsUnused, Routed,
     InUse, Unfinished, Risky, Gone
<1> QED BY <1>2, <1>3, FrameKeeps

-----------------------------------------------------------------------------
(* Certification *)

(* The operator's command is an activation of accepted rows. *)
LEMMA RouteKeeps ==
    ASSUME IInv, NEW r \in Releases,
           NEW mode \in {"NORMAL", "JOB_ONLY", "INACTIVE"}, Route(r, mode)
    PROVE  IInv'
<1>1. /\ certifier' = certifier
      /\ certifier.release \in Releases \cup {NoRelease}
      /\ certifier # Idle =>
            certifier.pc # "idle" /\ certifier.release \in Releases
      /\ certifier.pc # "idle" => certifier # Idle
  BY DEF Route, IInv, TypeOK, RoutesKnown, Idle
<1> QED BY <1>1, RoutingKeeps DEF Route

(* So are the certifier's, or they route the candidate. *)
LEMMA CertifierRoutesKeeps ==
    ASSUME IInv,
           \/ \E r \in Releases : CertifyService(r) \/ RoundTrip(r)
           \/ CertifyJob \/ Return
           \/ \E mode \in {"NORMAL", "INACTIVE"} : Settle(mode)
    PROVE  IInv'
<1> USE DEF CertifierRoutes, CertifierAt
<1>1. ASSUME NEW r \in Releases, CertifyService(r) PROVE IInv'
  BY <1>1, RoutingKeeps DEF CertifyService, Idle
<1>2. certifier.pc # "idle" => certifier.release \in Releases
  BY DEF IInv, RoutesKnown
<1>3. ASSUME NEW r \in Releases, RoundTrip(r) PROVE IInv'
  BY <1>2, <1>3, RoutingKeeps DEF RoundTrip, Idle
<1>4. CASE CertifyJob
  BY <1>2, <1>4, RoutingKeeps DEF CertifyJob, Idle
<1>5. CASE Return
  BY <1>2, <1>5, RoutingKeeps DEF Return, Idle
<1>6. ASSUME NEW mode \in {"NORMAL", "INACTIVE"}, Settle(mode) PROVE IInv'
  BY <1>2, <1>6, RoutingKeeps DEF Settle, Idle
<1> QED BY <1>1, <1>3, <1>4, <1>5, <1>6

(* Acceptance only grows. *)
LEMMA AcceptKeeps ==
    ASSUME IInv, Accept
    PROVE  IInv'
<1> USE DEF IInv, Accept, CertifierAt, attemptVars, historyVars
<1>1. certifier.release \in Releases
  BY DEF RoutesKnown
<1>2. TypeOK'
  BY <1>1 DEF TypeOK, Routed
<1>3. \A x \in Rows : accepted[x] => accepted'[x]
  BY DEF TypeOK
<1>4. RoutesKnown'
  BY <1>1, <1>3 DEF RoutesKnown, Routed, Idle
<1>5. UsedExist' /\ RiskIsExposed' /\ RetiredIsUnused'
  BY DEF UsedExist, RiskIsExposed, RetiredIsUnused, Routed, InUse,
     Unfinished, Risky, Gone
<1> QED BY <1>2, <1>4, <1>5, FrameKeeps

(* A failed certification still has its candidate. *)
LEMMA FailCertificationKeeps ==
    ASSUME IInv, FailCertification
    PROVE  IInv'
<1> USE DEF IInv, FailCertification, CertifierAt, rowVars, attemptVars,
            historyVars
<1>1. certifier.release \in Releases
  BY DEF RoutesKnown
<1>2. TypeOK'
  BY <1>1 DEF TypeOK, Routed
<1>3. RoutesKnown'
  BY <1>1 DEF RoutesKnown, Routed, Idle
<1>4. UsedExist' /\ RiskIsExposed' /\ RetiredIsUnused'
  BY DEF UsedExist, RiskIsExposed, RetiredIsUnused, Routed, InUse,
     Unfinished, Risky, Gone
<1> QED BY <1>2, <1>3, <1>4, FrameKeeps

(* A candidate that stays where it is, is known as left behind. *)
LEMMA LeaveKeeps ==
    ASSUME IInv, certifier' = Idle, mishaps' \in 0 .. MaxMishaps,
           unparked' = unparked \cup {certifier.release},
           certifier.release \in Releases,
           UNCHANGED <<provider, rowVars, attemptVars, cleaner, exposed>>
    PROVE  IInv'
<1> USE DEF IInv, rowVars, attemptVars
<1>1. TypeOK'
  BY DEF TypeOK, Routed, Idle
<1>2. RoutesKnown'
  BY DEF RoutesKnown, Routed, Idle
<1>3. UsedExist' /\ RiskIsExposed' /\ RetiredIsUnused'
  BY DEF UsedExist, RiskIsExposed, RetiredIsUnused, Routed, InUse,
     Unfinished, Risky, Gone
<1> QED BY <1>1, <1>2, <1>3, FrameKeeps

(* Parking takes the candidate out of its slots, or leaves it behind. *)
LEMMA ParkKeeps ==
    ASSUME IInv, Park
    PROVE  IInv'
<1>1. certifier.release \in Releases
  BY DEF Park, IInv, RoutesKnown
<1>2. CASE Activate(certifier.release, "INACTIVE", FALSE) /\ UNCHANGED unparked
  BY <1>1, <1>2, RoutingKeeps DEF Park, Idle
<1>3. CASE UNCHANGED <<role, quiet, mishaps, exposed>>
           /\ unparked' = unparked \cup {certifier.release}
  BY <1>1, <1>3, LeaveKeeps DEF Park, rowVars, IInv, TypeOK
<1> QED BY <1>2, <1>3 DEF Park

(* A certification that is cut off leaves its candidate behind. *)
LEMMA CertifierDiesKeeps ==
    ASSUME IInv, CertifierDies
    PROVE  IInv'
<1>1. certifier.release \in Releases
  BY DEF CertifierDies, IInv, RoutesKnown
<1>2. mishaps' \in 0 .. MaxMishaps
  <2>1. mishaps \in 0 .. MaxMishaps
    BY DEF IInv, TypeOK
  <2> QED BY <2>1, MaxMishapsAssumption DEF CertifierDies
<1> QED BY <1>1, <1>2, LeaveKeeps DEF CertifierDies

-----------------------------------------------------------------------------
(* Attempts *)

(* A new attempt is pinned to a routed row. *)
LEMMA AllocateKeeps ==
    ASSUME IInv, NEW a \in Attempts, NEW v \in Validators,
           NEW profile \in {"FAST_RESPONSE", "LONG_RUNNING"},
           Allocate(a, v, profile)
    PROVE  IInv'
<1> USE DEF IInv, Allocate, rowVars, operatorVars, historyVars
<1>1. PICK y \in Rows : /\ Routed(y) /\ readiness[y] = "READY"
                        /\ pinned' = [pinned EXCEPT ![a] = y]
  BY DEF RouteOf, RowIn, Routed
<1>2. attempt' = [attempt EXCEPT ![a] = "PENDING"]
  OBVIOUS
<1>3. TypeOK'
  BY <1>1, <1>2, NoRowAssumption DEF TypeOK, Routed
<1>4. \A x \in Rows : InUse(x)' => InUse(x) \/ x = y
  BY <1>1, <1>2 DEF InUse, Unfinished, TypeOK
<1>5. UsedExist' /\ RoutesKnown' /\ RiskIsExposed'
  BY <1>1, <1>4 DEF UsedExist, RoutesKnown, RiskIsExposed, Routed, Risky, Gone
<1>6. RetiredIsUnused'
  BY <1>1, <1>4 DEF RetiredIsUnused, Routed
<1> QED BY <1>3, <1>5, <1>6, FrameKeeps

(* Nothing else makes a row used. *)
LEMMA ClaimOrEndKeeps ==
    ASSUME IInv, NEW a \in Attempts, Claim(a) \/ End(a)
    PROVE  IInv'
<1> USE DEF IInv, Claim, End, rowVars, operatorVars, historyVars
<1>1. TypeOK'
  <2>1. CASE Claim(a)
    BY <2>1 DEF TypeOK, Routed
  <2>2. CASE End(a)
    BY <2>2 DEF TypeOK, Routed
  <2> QED BY <2>1, <2>2
<1>2. \A x \in Rows : InUse(x)' => InUse(x)
  BY NoRowAssumption DEF InUse, Unfinished, TypeOK
<1>3. UsedExist' /\ RoutesKnown' /\ RiskIsExposed' /\ RetiredIsUnused'
  BY <1>2 DEF UsedExist, RoutesKnown, RiskIsExposed, RetiredIsUnused, Routed,
     Risky, Gone
<1> QED BY <1>1, <1>3, FrameKeeps

-----------------------------------------------------------------------------
(* Cleanup *)

(* Time changes no route. *)
LEMMA DrainKeeps ==
    ASSUME IInv, Drain
    PROVE  IInv'
<1> USE DEF IInv, Drain, attemptVars, operatorVars, historyVars
<1>1. TypeOK'
  BY DEF TypeOK, Routed
<1>2. UsedExist' /\ RoutesKnown' /\ RiskIsExposed' /\ RetiredIsUnused'
  BY DEF UsedExist, RoutesKnown, RiskIsExposed, RetiredIsUnused, Routed,
     InUse, Unfinished, Risky, Gone
<1> QED BY <1>1, <1>2, FrameKeeps

(* A plan is made for a release that nothing routes or uses. *)
LEMMA PlanKeeps ==
    ASSUME IInv, NEW r \in Releases, PlanCleanup(r) \/ PlanLatestOnly(r)
    PROVE  IInv'
<1> USE DEF IInv, StartCleanup, rowVars, attemptVars, historyVars
<1>1. ASSUME NEW x \in Rows, ReleaseOf(x) = r
      PROVE  ~Routed(x) /\ ~InUse(x)
  <2>1. CASE PlanCleanup(r)
    BY <1>1, <2>1 DEF PlanCleanup, Eligible, ActiveReleases, Unused, RowsOf,
       UsedExist
  <2>2. CASE PlanLatestOnly(r)
    BY <1>1, <2>2 DEF PlanLatestOnly, ActiveReleases, InUse
  <2> QED BY <2>1, <2>2
<1>2. /\ cleaner' = [mode |-> cleaner'.mode, release |-> cleaner'.release,
                    todo |-> cleaner'.todo]
      /\ cleaner'.release = r
      /\ UNCHANGED <<provider, rowVars, attemptVars, certifier, mishaps,
                     historyVars>>
  BY DEF PlanCleanup, PlanLatestOnly
<1>3. TypeOK'
  BY <1>2 DEF TypeOK, Routed
<1>4. UsedExist' /\ RoutesKnown' /\ RetiredIsUnused' /\ RoutesUniform'
  BY <1>2 DEF UsedExist, RoutesKnown, RetiredIsUnused, RoutesUniform,
     RoutingMode, Routed, InUse, Unfinished
<1>5. RiskIsExposed'
  BY <1>1, <1>2 DEF RiskIsExposed, Risky, Gone, Routed, InUse, Unfinished
<1>6. CleanerShape'
  BY <1>2 DEF CleanerShape
<1> QED BY <1>3, <1>4, <1>5, <1>6

(* What the cleaner deletes was at risk before. *)
LEMMA CleanerMoves ==
    ASSUME IInv, UNCHANGED <<readiness, role, attemptVars, historyVars>>,
           \/ cleaner' = NoCleanup
           \/ StepDone \/ cleaner' = cleaner
    PROVE  /\ CleanerShape' /\ RoutesUniform'
           /\ cleaner'.release \in {cleaner.release, NoRelease}
<1> USE DEF IInv, attemptVars
<1>1. CASE cleaner' = NoCleanup
  BY <1>1 DEF NoCleanup, CleanerShape, RoutesUniform, RoutingMode, Routed
<1>2. CASE StepDone
  <2>1. cleaner' = [mode |-> cleaner.mode, release |-> cleaner.release,
                    todo |-> Tail(cleaner.todo)]
    BY <1>2 DEF StepDone, CleanerShape
  <2> QED BY <2>1 DEF CleanerShape, RoutesUniform, RoutingMode, Routed
<1>3. CASE cleaner' = cleaner
  BY <1>3 DEF CleanerShape, RoutesUniform, RoutingMode, Routed
<1> QED BY <1>1, <1>2, <1>3

(* Resources go of the release that was at risk. *)
LEMMA DeleteProviderKeeps ==
    ASSUME IInv, DeleteProvider
    PROVE  IInv'
<1> USE DEF IInv, DeleteProvider, rowVars, attemptVars, historyVars
<1>1. /\ CleanerShape' /\ RoutesUniform'
      /\ cleaner'.release \in {cleaner.release, NoRelease}
  BY CleanerMoves
<1>2. TypeOK'
  BY <1>1 DEF TypeOK, Routed
<1>3. \A k \in DeploymentKinds, q \in Releases :
         /\ provider'[<<k, q>>] # "new" \/ provider[<<k, q>>] = "new"
         /\ provider'[<<k, q>>] = "gone" =>
               provider[<<k, q>>] = "gone" \/ q = cleaner.release
  BY DEF TypeOK
<1>4. UsedExist'
  BY <1>3, RowParts DEF UsedExist, Routed, InUse, Unfinished
<1>5. RoutesKnown' /\ RetiredIsUnused'
  BY DEF RoutesKnown, RetiredIsUnused, Routed, InUse, Unfinished
<1>6. \A q \in Releases : q \in Risky' => q \in Risky
  BY <1>1, <1>3, ReleasesArePositive DEF Risky, Gone
<1>7. RiskIsExposed'
  BY <1>6, RowParts DEF RiskIsExposed, Routed, InUse, Unfinished
<1> QED BY <1>1, <1>2, <1>4, <1>5, <1>7

(* A recorded deletion stays recorded. *)
LEMMA RecordKeeps ==
    ASSUME IInv, RecordingEnds \/ \E x \in Rows : RecordDeleted(x)
    PROVE  IInv'
<1> USE DEF IInv, RecordingEnds, RecordDeleted, rowVars, attemptVars,
            operatorVars, historyVars
<1>1. /\ CleanerShape' /\ RoutesUniform'
      /\ cleaner'.release \in {cleaner.release, NoRelease}
  BY CleanerMoves
<1>2. \/ deleted' = deleted
      \/ \E x \in Rows : deleted' = [deleted EXCEPT ![x] = TRUE]
  OBVIOUS
<1>3. /\ deleted' \in [Rows -> BOOLEAN]
      /\ \A x \in Rows : deleted[x] => deleted'[x]
  <2>1. ASSUME NEW x \in Rows, deleted' = [deleted EXCEPT ![x] = TRUE]
        PROVE  /\ deleted' \in [Rows -> BOOLEAN]
               /\ \A y \in Rows : deleted[y] => deleted'[y]
    BY <2>1 DEF TypeOK
  <2> QED BY <1>2, <2>1 DEF TypeOK
<1>4. UNCHANGED <<provider, readiness, role, accepted, blocked, quiet, attempt,
                  pinned, certifier, mishaps, exposed, unparked>>
  OBVIOUS
<1>5. TypeOK'
  BY <1>1, <1>3, <1>4 DEF TypeOK, Routed
<1>6. UsedExist' /\ RoutesKnown' /\ RetiredIsUnused'
  BY <1>3, <1>4 DEF UsedExist, RoutesKnown, RetiredIsUnused, Routed, InUse,
     Unfinished
<1>7. RiskIsExposed'
  BY <1>1, <1>4, RowParts, ReleasesArePositive
     DEF RiskIsExposed, Risky, Gone, Routed, InUse, Unfinished
<1> QED BY <1>1, <1>5, <1>6, <1>7

(* The guard of the retirement is what it promises. *)
LEMMA RetireKeeps ==
    ASSUME IInv, Retire
    PROVE  IInv'
<1> USE DEF IInv, Retire, attemptVars, historyVars
<1>1. /\ cleaner' = NoCleanup
      /\ cleaner'.release = NoRelease
      /\ CleanerShape'
  BY DEF NoCleanup, CleanerShape
<1>2. \/ readiness' = readiness
      \/ /\ MayRetire(cleaner.release, cleaner.mode)
         /\ readiness' = [x \in Rows |-> IF x \in RowsOf(cleaner.release)
                                         THEN "RETIRED" ELSE readiness[x]]
  OBVIOUS
<1>3. \A x \in Rows :
         \/ readiness'[x] = readiness[x]
         \/ /\ readiness'[x] = "RETIRED" /\ readiness[x] # "ABSENT"
            /\ ~Routed(x) /\ ~InUse(x) /\ deleted[x]
  BY <1>2 DEF MayRetire, RowsOf
<1>4. TypeOK'
  BY <1>1, <1>2 DEF TypeOK, Routed
<1>5. UsedExist' /\ RoutesKnown'
  BY <1>3 DEF UsedExist, RoutesKnown, Routed, InUse, Unfinished
<1>6. RetiredIsUnused'
  BY <1>3 DEF RetiredIsUnused, Routed, InUse, Unfinished
<1>7. RiskIsExposed'
  BY <1>1, RowParts, ReleasesArePositive
     DEF RiskIsExposed, Risky, Gone, Routed, InUse, Unfinished
<1>8. RoutesUniform'
  BY DEF RoutesUniform, RoutingMode, Routed
<1> QED BY <1>1, <1>4, <1>5, <1>6, <1>7, <1>8

(* A cleanup that is cut off leaves what is gone exposed or unused. *)
LEMMA CleanerDiesKeeps ==
    ASSUME IInv, CleanerDies
    PROVE  IInv'
<1> USE DEF IInv, CleanerDies, rowVars, attemptVars, historyVars
<1>1. /\ CleanerShape' /\ RoutesUniform'
      /\ cleaner'.release \in {cleaner.release, NoRelease}
  BY CleanerMoves
<1>2. mishaps' \in 0 .. MaxMishaps
  <2>1. mishaps \in 0 .. MaxMishaps
    BY DEF TypeOK
  <2> QED BY <2>1, MaxMishapsAssumption
<1>3. TypeOK'
  BY <1>1, <1>2 DEF TypeOK, Routed
<1>4. UsedExist' /\ RoutesKnown' /\ RetiredIsUnused'
  BY DEF UsedExist, RoutesKnown, RetiredIsUnused, Routed, InUse, Unfinished
<1>5. RiskIsExposed'
  BY <1>1, RowParts, ReleasesArePositive
     DEF RiskIsExposed, Risky, Gone, Routed, InUse, Unfinished
<1> QED BY <1>1, <1>3, <1>4, <1>5

(* The invariant is inductive. *)
LEMMA NextKeeps == IInv /\ [Next]_vars => IInv'
<1> SUFFICES ASSUME IInv, [Next]_vars PROVE IInv'
  OBVIOUS
<1>1. CASE Operate
  BY <1>1, DeployKeeps, ImportKeeps, RouteKeeps, SetBlockKeeps DEF Operate
<1>2. CASE Certify
  BY <1>2, CertifierRoutesKeeps, AcceptKeeps, FailCertificationKeeps,
     ParkKeeps, CertifierDiesKeeps DEF Certify
<1>3. CASE Work
  BY <1>3, AllocateKeeps, ClaimOrEndKeeps DEF Work
<1>4. CASE CleanUp
  BY <1>4, PlanKeeps, DeleteProviderKeeps, RecordKeeps, RetireKeeps,
     CleanerDiesKeeps DEF CleanUp
<1>5. CASE Drain
  BY <1>5, DrainKeeps
<1>6. CASE UNCHANGED vars
  <2>1. UNCHANGED <<provider, rowVars, attemptVars, operatorVars, historyVars>>
    BY <1>6 DEF vars, rowVars, attemptVars, operatorVars, historyVars
  <2> USE DEF rowVars, attemptVars, operatorVars, historyVars
  <2>2. TypeOK'
    BY <2>1 DEF IInv, TypeOK, Routed
  <2>3. UsedExist' /\ RoutesKnown' /\ RiskIsExposed' /\ RetiredIsUnused'
    BY <2>1 DEF IInv, UsedExist, RoutesKnown, RiskIsExposed, RetiredIsUnused,
       Routed, InUse, Unfinished, Risky, Gone
  <2> QED BY <2>1, <2>2, <2>3, FrameKeeps DEF IInv
<1> QED BY <1>1, <1>2, <1>3, <1>4, <1>5, <1>6 DEF Next

-----------------------------------------------------------------------------
(* What follows *)

(* The inductive invariant holds throughout. *)
THEOREM Safe == Spec => []IInv
BY InitHolds, NextKeeps, PTL DEF Spec

(* Every variable keeps its type, and no Validator has two deployments in   *)
(* one slot.                                                                *)
THEOREM TypeCorrect == Spec => []TypeOK
<1>1. IInv => TypeOK
  BY DEF IInv
<1> QED BY <1>1, Safe, PTL

(* All Validators of a backend run one release in one mode, for any number  *)
(* of them, wherever the commands are cut off.                              *)
THEOREM UniformRoutes == Spec => []RoutesUniform
<1>1. IInv => RoutesUniform
  BY DEF IInv
<1> QED BY <1>1, Safe, PTL

(* A retired row has no slot, no resource and no unfinished attempt. *)
THEOREM RetiredUnused == Spec => []RetiredIsUnused
<1>1. IInv => RetiredIsUnused
  BY DEF IInv
<1> QED BY <1>1, Safe, PTL

(* What is routed or in use has its provider resource, unless its release   *)
(* was routed in spite of its cleanup.                                      *)
THEOREM PresentWhenServed == Spec => []ServedIsPresent
<1>1. IInv => ServedIsPresent
  <2> SUFFICES ASSUME IInv, NEW x \in Rows, Routed(x) \/ InUse(x),
                      ReleaseOf(x) \notin exposed
               PROVE  provider[<<KindOf(x), ReleaseOf(x)>>] = "present"
    BY DEF ServedIsPresent
  <2>1. provider[<<KindOf(x), ReleaseOf(x)>>] # "new"
    BY DEF IInv, UsedExist
  <2>2. provider[<<KindOf(x), ReleaseOf(x)>>] # "gone"
    BY RowParts DEF IInv, RiskIsExposed, Risky, Gone
  <2> QED BY <2>1, <2>2, RowParts DEF IInv, TypeOK
<1> QED BY <1>1, Safe, PTL

(* New attempts of a live stage are pinned to accepted releases, or to a    *)
(* candidate that a certification left behind.                              *)
THEOREM AcceptedWork == Spec => LiveWorkIsAccepted
<1>1. ASSUME IInv, [Next]_vars, NEW a \in Attempts,
             attempt[a] = "none", attempt'[a] = "PENDING", Live
      PROVE  accepted[pinned'[a]] \/ ReleaseOf(pinned'[a]) \in unparked
  <2>1. PICK b \in Attempts : \E v \in Validators,
                                p \in {"FAST_RESPONSE", "LONG_RUNNING"} :
                                Allocate(b, v, p)
    <3>1. attempt' # attempt
      BY <1>1
    <3>2. ASSUME NEW b \in Attempts, Claim(b) \/ End(b) PROVE FALSE
      BY <1>1, <3>2 DEF Claim, End, Unfinished, IInv, TypeOK
    <3> QED BY <1>1, <3>1, <3>2
            DEF Next, Operate, Deploy, Import, Route, SetBlock, Certify,
                CertifyService, RoundTrip, CertifyJob, CertifierRoutes,
                Accept, Return, Settle, FailCertification, Park,
                CertifierDies, Work, CleanUp, PlanCleanup, PlanLatestOnly,
                StartCleanup, DeleteProvider, RecordDeleted, RecordingEnds,
                Retire, CleanerDies, Drain, attemptVars, vars
  <2>2. b = a
    BY <1>1, <2>1 DEF Allocate, IInv, TypeOK
  <2>3. pinned'[a] \in Rows /\ Routed(pinned'[a])
    <3>1. PICK v \in Validators, p \in {"FAST_RESPONSE", "LONG_RUNNING"} :
              Allocate(a, v, p)
      BY <2>1, <2>2
    <3>2. PICK y \in RouteOf(v, p) : pinned' = [pinned EXCEPT ![a] = y]
      BY <3>1 DEF Allocate
    <3>3. y \in Rows /\ Routed(y)
      BY <3>2 DEF RouteOf, RowIn, Routed
    <3> QED BY <1>1, <3>2, <3>3 DEF IInv, TypeOK
  <2>4. certifier = Idle
    BY <1>1, <2>1 DEF Live
  <2> QED BY <1>1, <2>3, <2>4 DEF IInv, RoutesKnown
<1>2. IInv /\ [Next]_vars =>
        [\A a \in Attempts :
          attempt[a] = "none" /\ attempt'[a] = "PENDING" /\ Live =>
             \/ accepted[pinned'[a]]
             \/ ReleaseOf(pinned'[a]) \in unparked]_vars
  BY <1>1
<1> QED BY <1>2, Safe, PTL DEF Spec, LiveWorkIsAccepted

(* A pending attempt of a blocked Service is not claimed. *)
THEOREM BlockedStaysPending == Spec => NoContactAfterBlock
<1>1. ASSUME IInv, [Next]_vars, NEW a \in Attempts,
             attempt[a] = "PENDING", attempt'[a] = "CLAIMED",
             KindOf(pinned[a]) = "SERVICE"
      PROVE  ~blocked[pinned[a]]
  <2>1. PICK b \in Attempts : Claim(b)
    <3>1. attempt' # attempt
      BY <1>1
    <3>2. ASSUME NEW b \in Attempts, End(b) PROVE FALSE
      BY <1>1, <3>2 DEF End, IInv, TypeOK
    <3>3. ASSUME NEW b \in Attempts, NEW v \in Validators,
                 NEW p \in {"FAST_RESPONSE", "LONG_RUNNING"},
                 Allocate(b, v, p)
          PROVE  FALSE
      BY <1>1, <3>3 DEF Allocate, IInv, TypeOK
    <3> QED BY <1>1, <3>1, <3>2, <3>3
            DEF Next, Operate, Deploy, Import, Route, SetBlock, Certify,
                CertifyService, RoundTrip, CertifyJob, CertifierRoutes,
                Accept, Return, Settle, FailCertification, Park,
                CertifierDies, Work, CleanUp, PlanCleanup, PlanLatestOnly,
                StartCleanup, DeleteProvider, RecordDeleted, RecordingEnds,
                Retire, CleanerDies, Drain, attemptVars, vars
  <2>2. b = a
    BY <1>1, <2>1 DEF Claim, IInv, TypeOK
  <2> QED BY <1>1, <2>1, <2>2 DEF Claim
<1>2. IInv /\ [Next]_vars =>
        [\A a \in Attempts :
          attempt[a] = "PENDING" /\ attempt'[a] = "CLAIMED"
          /\ KindOf(pinned[a]) = "SERVICE" => ~blocked[pinned[a]]]_vars
  BY <1>1
<1> QED BY <1>2, Safe, PTL DEF Spec, NoContactAfterBlock
=============================================================================
