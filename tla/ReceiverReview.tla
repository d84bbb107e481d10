---------------------------- MODULE ReceiverReview ----------------------------
(***************************************************************************)
(* A relying party reviews handoffs while time passes around it: policies  *)
(* are rotated, keys are stolen, used by the thief and reported, receipts  *)
(* are signed and get to the party late or never.  The party records its   *)
(* observations itself and takes snapshots of the current policy and of    *)
(* the key status that are authentic but may be as old as they allow.      *)
(* None of this is code: it is what ttrace/artifact_handoff.py asks of the *)
(* contexts it is given ("the receiver independently accepts policy        *)
(* archives, status completeness, observations and finality").             *)
(***************************************************************************)
EXTENDS NodeHandoff, FiniteSetsExt

CONSTANTS
  Policies,       \* the policies, by epoch
  IssuedAt,       \* when each of them replaces the one before
  Claims,         \* by role, what receipts claim: correlation, artifact, success
  Manifests,      \* what packages hold: artifact and correlation
  Expectation,    \* the party's: correlation, artifact, sources, finality
  WindowStart, Cutoff,
  Refresh,        \* how long a snapshot stays fresh
  Stealable,      \* keys a thief may get
  MaxTime,        \* bound on the clock
  MaxDeedTime,    \* bound on the time of thefts, reports and signatures
  MaxPerRole      \* bound on the receipts of each role

ASSUME ReviewAssumption ==
  /\ {WindowStart, Cutoff, Refresh, MaxTime, MaxDeedTime, MaxPerRole}
       \subseteq Nat
  /\ WindowStart <= Cutoff /\ Refresh > 0
  /\ \A i \in DOMAIN Policies : Policies[i].epoch = i /\ ValidPolicy(Policies[i])
  /\ IssuedAt \in Seq(Nat) /\ DOMAIN IssuedAt = DOMAIN Policies
  /\ IssuedAt # << >> /\ IssuedAt[1] = 0
  /\ \A i, j \in DOMAIN IssuedAt : i < j => IssuedAt[i] < IssuedAt[j]
  /\ DOMAIN Expectation.sources = Roles /\ DistinctRoles(Expectation.sources)
  /\ \A role \in Roles : Expectation.sources[role] \in Threads \ {Malformed}
  /\ Malformed \notin Roles \cup Nat /\ NaN \notin Nat

VARIABLES
  now,
  stolen,     \* the keys stolen, with the time
  events,     \* the key events reported, with the time of the report
  receipts,   \* every receipt there is
  genuine,    \* those signed by the holder of the role
  observed    \* when the party got a receipt

reviewVars == <<now, stolen, events, receipts, genuine, observed>>

-----------------------------------------------------------------------------
(* The policies issued by a time; the last of them is then in force. *)
Issued(at) == {i \in DOMAIN IssuedAt : IssuedAt[i] <= at}

InForce(at) == Max(Issued(at))

Tick ==
  /\ now < MaxTime
  /\ now' = now + 1
  /\ UNCHANGED <<stolen, events, receipts, genuine, observed>>

Steal(key) ==
  /\ now <= MaxDeedTime
  /\ key \notin DOMAIN stolen
  /\ stolen' = [k \in DOMAIN stolen \cup {key} |-> IF k = key THEN now ELSE stolen[k]]
  /\ UNCHANGED <<now, events, receipts, genuine, observed>>

(* One event for a key at most: it was revoked or compromised, as of any    *)
(* time up to the report.                                                   *)
Report(key, at) ==
  /\ now <= MaxDeedTime
  /\ \A e \in events : e.key # key
  /\ events' = events \cup {[key |-> key, at |-> at, reported |-> now]}
  /\ UNCHANGED <<now, stolen, receipts, genuine, observed>>

(* Step ids are told apart by role. *)
Receipt(role, epoch, ts, claim, signed) ==
  [id |-> role, role |-> role, key |-> Policies[epoch].roles[role].key,
   source |-> Policies[epoch].roles[role].source, epoch |-> epoch, ts |-> ts,
   correlation |-> claim.correlation, artifact |-> claim.artifact,
   success |-> claim.success, signed |-> signed]

Add(r) ==
  /\ now <= MaxDeedTime
  /\ Cardinality({q \in receipts : q.role = r.role}) < MaxPerRole
  /\ receipts' = receipts \cup {r}
  /\ UNCHANGED <<now, stolen, events, observed>>

(* The holder of a role signs under the policy in force, at its time. *)
Sign(role, claim) ==
  LET r == Receipt(role, InForce(now), now, claim, TRUE)
  IN  Add(r) /\ genuine' = genuine \cup {r}

(* A thief signs under any policy issued, with any date in the window. *)
Forge(role, epoch, ts, claim) ==
  /\ Policies[epoch].roles[role].key \in DOMAIN stolen
  /\ Add(Receipt(role, epoch, ts, claim, TRUE))
  /\ UNCHANGED genuine

(* Anyone can make up the receipt the party expects, but not its signature. *)
Fabricate(role) ==
  /\ Add(Receipt(role, 1, WindowStart,
                 [correlation |-> Expectation.correlation,
                  artifact |-> Expectation.artifact, success |-> TRUE], FALSE))
  /\ UNCHANGED genuine

Observe(r) ==
  /\ r \notin DOMAIN observed
  /\ observed' = [q \in DOMAIN observed \cup {r} |-> IF q = r THEN now ELSE observed[q]]
  /\ UNCHANGED <<now, stolen, events, receipts, genuine>>

ReviewInit ==
  /\ now = 0
  /\ stolen = << >> /\ events = {}
  /\ receipts = {} /\ genuine = {} /\ observed = << >>

ReviewNext ==
  \/ Tick
  \/ \E key \in Stealable : Steal(key)
  \/ \E key \in Stealable, at \in 0..now : Report(key, at)
  \/ \E role \in Roles : Fabricate(role) \/ \E claim \in Claims[role] : Sign(role, claim)
  \/ \E role \in Roles, epoch \in Issued(now), ts \in WindowStart..Cutoff :
       \E claim \in Claims[role] : Forge(role, epoch, ts, claim)
  \/ \E r \in receipts : Observe(r)

(* Time passes; nothing else has to happen. *)
ReviewSpec == ReviewInit /\ [][ReviewNext]_reviewVars /\ WF_reviewVars(Tick)

-----------------------------------------------------------------------------
(* The contexts a careful party can have: authentic snapshots of any age.   *)

KnownEvents(s) ==
  {[key |-> e.key, at |-> e.at] : e \in {f \in events : f.reported <= s}}

StatusAsOf(s) == [asOf |-> s, nextUpdate |-> s + Refresh, events |-> KnownEvents(s)]

CurrentAsOf(s) ==
  [policy |-> Policies[InForce(s)], asOf |-> s, nextUpdate |-> s + Refresh]

Expected ==
  [correlation |-> Expectation.correlation, artifact |-> Expectation.artifact,
   sources |-> Expectation.sources, start |-> WindowStart, cutoff |-> Cutoff,
   final |-> Expectation.final]

Context(at, statusAt, currentAt) ==
  [evaluation |-> at,
   archive    |-> {Policies[i] : i \in Issued(at)},
   current    |-> CurrentAsOf(currentAt),
   status     |-> StatusAsOf(statusAt),
   observed   |-> [r \in {q \in DOMAIN observed : observed[q] <= at} |-> observed[r]],
   expected   |-> Expected]

FreshTimes(at) == {s \in 0..at : at < s + Refresh}

Packages ==
  {[artifact |-> m.artifact, correlation |-> m.correlation, receipts |-> f] :
     m \in Manifests, f \in UNION {[R -> receipts] : R \in SUBSET Roles}}

-----------------------------------------------------------------------------
(* Properties. *)

(* Support means that both sides signed, see BothSidesSigned. *)
SupportedMeansBothSides ==
  \A statusAt \in FreshTimes(now) :
    LET ctx == Context(now, statusAt, now)
    IN  \A pkg \in Packages : Supported(ctx, pkg) => BothSidesSigned(ctx, pkg)

(***************************************************************************)
(* What a thief signed is never supported by a party that knows of the     *)
(* theft: whatever date the forged receipt bears, and however the rest of  *)
(* the package looks, a status with an event effective by the theft bars   *)
(* it.  Without such an event only stolen keys can lend support.           *)
(***************************************************************************)
ForgeryNeverSupported ==
  \A statusAt \in FreshTimes(now) :
    LET ctx == Context(now, statusAt, now)
    IN  \A pkg \in Packages : \A r \in Receipts(pkg) \ genuine :
          Supported(ctx, pkg) =>
            /\ r.key \in DOMAIN stolen
            /\ ~\E e \in KnownEvents(statusAt) : e.key = r.key /\ e.at <= stolen[r.key]

(***************************************************************************)
(* Reviews at different times agree.  Two parties with the observations of *)
(* a package and fresh status reach the same verdict on it, whatever was   *)
(* rotated or expired between them, unless just one of them knew an event  *)
(* effective by the time a receipt was observed.                           *)
(***************************************************************************)
ObservedBy(at, pkg) ==
  \A r \in Receipts(pkg) : r \in DOMAIN observed /\ observed[r] <= at

EventBetween(s1, s2, pkg) ==
  \E e \in events : \E r \in Receipts(pkg) :
    /\ (e.reported <= s1) # (e.reported <= s2)
    /\ e.key = r.key /\ e.at <= observed[r]

ReviewersAgree ==
  \A at \in Cutoff..(now - 1) : \A pkg \in {p \in Packages : ObservedBy(at, p)} :
    \A s1 \in FreshTimes(at), s2 \in FreshTimes(now) :
      ~EventBetween(s1, s2, pkg)
        => Handoff(Context(at, s1, at), pkg) = Handoff(Context(now, s2, now), pkg)

(***************************************************************************)
(* The two implementations agree.  Although one reconciles a validated     *)
(* trace and the other looks at two receipts, they reach the same verdict  *)
(* on every package, report the same sides as missing or out of scope and  *)
(* match or contradict alike, with finality declared or not.               *)
(***************************************************************************)
ImplementationsAgree ==
  \A final \in BOOLEAN :
    LET ctx == [Context(now, now, now) EXCEPT !.expected.final = final]
    IN  \A pkg \in {p \in Packages : ValidPackage(p)} :
          /\ CompareSnapshots(ctx, pkg) = Projection(ctx, pkg)
          /\ VerifyHandoff(ctx, pkg) = Handoff(ctx, pkg)

(***************************************************************************)
(* A policy that was replaced lapses: no matter which snapshots a party    *)
(* took, a receipt of an older epoch carries no current authority once the *)
(* next policy is in force for a whole refresh period.                     *)
(***************************************************************************)
Granted(r) ==
  \E statusAt, currentAt \in 0..now :
    CurrentlyAuthorized(Context(now, statusAt, currentAt), r)

ReplacedPolicyLapses ==
  \A r \in receipts :
    Granted(r) /\ r.epoch + 1 \in Issued(now) => now < IssuedAt[r.epoch + 1] + Refresh

(***************************************************************************)
(* A report takes hold: after an event of a key was reported, there comes  *)
(* a time from which no snapshot grants current authority to a receipt of  *)
(* that key.  For reports the bounded clock leaves a refresh period to.    *)
(***************************************************************************)
ReportTakesHold ==
  \A key \in Stealable :
    (\E e \in events : e.key = key /\ e.reported + Refresh <= MaxTime)
      ~> [](\A r \in receipts : r.key = key => ~Granted(r))
=============================================================================
