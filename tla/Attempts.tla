------------------------------ MODULE Attempts ------------------------------
(***************************************************************************)
(* Execution attempts of a Run: fenced recording, terminal immutability,   *)
(* orphan recovery, the execution ceiling, the bounded convergence loop    *)
(* and the spend of the grant.  Composes with RunControl, whose Run, lease *)
(* and grant documents the handler reads and whose grant it charges.       *)
(*                                                                         *)
(* Attempt ids are numbers whose order is that of the file names: the code *)
(* walks `sorted(glob("*.yaml"))`, and an id ends in random hexadecimals,  *)
(* so the order of names is not the order of time (`ended`).               *)
(***************************************************************************)
EXTENDS RunControl

CONSTANTS
  AttemptIds,
  Steps,               \* steps the callers dispatch
  Roles,               \* roles that record attempts
  Outcomes,            \* terminal statuses the runtime reports
  Summaries,           \* failure summaries; None is an empty one
  Costs,               \* usage.cost of a terminal attempt
  MaximumRemediation   \* maximum_remediation_cycles

NonSuccess == {"failed", "blocked", "cancelled", "timed_out"}
Terminal == NonSuccess \cup {"succeeded"}

ASSUME AttemptsAssumption ==
  /\ AttemptIds \subseteq Nat /\ IsFiniteSet(AttemptIds)
  /\ Outcomes \subseteq Terminal
  /\ Costs \subseteq Nat
  /\ MaximumRemediation \in Nat

VARIABLES
  attempt,   \* attempt[a]: the ExecutionAttempt document
  alerted    \* the <<run, unit, step>> with a CONVERGENCE BLOCKER event

attemptVars == <<attempt, alerted>>
allVars == <<vars, attemptVars>>

NoAttempt == [status |-> "none", lease |-> None, step |-> None,
              summary |-> None, cost |-> 0, ended |-> 0]
Attempt == [status : Terminal \cup {"none", "started"}, lease : Leases \cup {None},
            step : Steps \cup {None}, summary : Summaries \cup {None}, cost : Nat,
            ended : Nat]

AttemptsTypeOK ==
  /\ attempt \in [AttemptIds -> Attempt]
  /\ alerted \subseteq Runs \X WorkUnits \X Steps

AttemptsInit ==
  /\ Init
  /\ attempt = [a \in AttemptIds |-> NoAttempt]
  /\ alerted = {}

-----------------------------------------------------------------------------
(* The ceiling and the convergence loop *)

Recorded(a) == attempt[a].status # "none"
RunOf(a) == lease[attempt[a].lease].run
UnitOf(a) == lease[attempt[a].lease].wu

\* capability_for_step: the ceiling dimension of a step, None for ordinary work.
CapabilityForStep(s) ==
  CASE s \in CeilingDimensions                      -> s
    [] s \in {"review", "security_review", "audit"} -> "verification"
    [] s = "remediation"                            -> "sandbox_implementation"
    [] s = "integration_review"                     -> "integration_branch_merge"
    [] OTHER                                        -> None

\* is_step_permitted, conditional only for the steward's integration review.
IsStepPermitted(r, w, s, role) ==
  LET dimension == CapabilityForStep(s)
  IN dimension # None =>
       \/ ceiling[r][w][dimension] = "allowed"
       \/ /\ ceiling[r][w][dimension] = "conditional"
          /\ s = "integration_review" /\ role = "integration-steward"

\* attempts_for_step: started attempts count too.
AttemptsForStep(r, w, s) ==
  {a \in AttemptIds : /\ Recorded(a) /\ attempt[a].step = s
                      /\ RunOf(a) = r /\ UnitOf(a) = w}

Failed(P) == {a \in P : attempt[a].status \in NonSuccess /\ attempt[a].summary # None}

\* The last of P's failures in the order of the file names.
IsLastFailure(P, a) == a \in Failed(P) /\ \A b \in Failed(P) : b <= a

RepeatedIdenticalFailure(P) ==
  \E a, b \in Failed(P) :
    /\ IsLastFailure(P, b)
    /\ b # a /\ IsLastFailure(P \ {b}, a)
    /\ attempt[a].summary = attempt[b].summary

CountExhausted(n, s) ==
  \/ s = "remediation" /\ n >= MaximumRemediation
  \/ n >= MaximumAttempts

\* convergence_exhaustion_reason(P) is not None.
Exhausted(P, s) == RepeatedIdenticalFailure(P) \/ CountExhausted(Cardinality(P), s)

\* The same once the attempt just recorded is appended to P.
ExhaustedBy(P, s, outcome, summary) ==
  \/ IF outcome \in NonSuccess /\ summary # None
     THEN \E a \in P : IsLastFailure(P, a) /\ attempt[a].summary = summary
     ELSE RepeatedIdenticalFailure(P)
  \/ CountExhausted(Cardinality(P) + 1, s)

-----------------------------------------------------------------------------
(* RecordExecutionAttempt *)

\* The checks every path of the handler makes after the fencing ones.
Admitted(a, r, w, s, role) ==
  /\ IsStepPermitted(r, w, s, role)
  /\ ~Exhausted(AttemptsForStep(r, w, s) \ {a}, s)

Ends == Cardinality({a \in AttemptIds : attempt[a].status \in Terminal})

\* Mutant: spend is added for the start of an attempt and again for its end.
FinishChargedTwice(a, l, s, outcome, summary, cost) ==
  /\ attempt' = [attempt EXCEPT ![a] =
       [status |-> outcome, lease |-> l, step |-> s, summary |-> summary,
        cost |-> cost, ended |-> Ends + 1]]
  /\ grant' = [grant EXCEPT ![run[lease[l].run].grant].spend =
                  grant[run[lease[l].run].grant].spend + 2 * cost]
  /\ UNCHANGED <<run, held, ceiling, lease, unit, decision, checkpoint, merge, alerted>>

\* A terminal document is written, the grant charged, the exhaustion announced.
Finish(a, l, s, outcome, summary, cost) ==
  LET r == lease[l].run
      w == lease[l].wu
      g == run[r].grant
  IN /\ attempt' = [attempt EXCEPT ![a] =
          [status |-> outcome, lease |-> l, step |-> s, summary |-> summary,
           cost |-> cost, ended |-> Ends + 1]]
     /\ grant' = [grant EXCEPT ![g].spend = grant[g].spend + cost]
     /\ alerted' = IF ExhaustedBy(AttemptsForStep(r, w, s) \ {a}, s, outcome, summary)
                   THEN alerted \cup {<<r, w, s>>} ELSE alerted
     /\ UNCHANGED <<run, held, ceiling, lease, unit, decision, checkpoint, merge>>

StartAttempt(a, l, s, role) ==
  /\ MayWrite(l)
  /\ ~Recorded(a)
  /\ Admitted(a, lease[l].run, lease[l].wu, s, role)
  /\ attempt' = [attempt EXCEPT ![a] =
       [status |-> "started", lease |-> l, step |-> s, summary |-> None,
        cost |-> 0, ended |-> 0]]
  /\ UNCHANGED <<vars, alerted>>

\* Mutant: a terminal attempt may be recorded again by the current worker.
FinishAgain(a, l, s, role, outcome, summary, cost) ==
  /\ MayWrite(l)
  /\ Admitted(a, lease[l].run, lease[l].wu, s, role)
  /\ Finish(a, l, s, outcome, summary, cost)

\* A started attempt ends, or an attempt is recorded once it has ended; what a
\* started attempt says of itself is immutable.
FinishAttempt(a, l, s, role, outcome, summary, cost) ==
  /\ MayWrite(l)
  /\ \/ ~Recorded(a)
     \/ attempt[a].status = "started" /\ attempt[a].lease = l /\ attempt[a].step = s
  /\ Admitted(a, lease[l].run, lease[l].wu, s, role)
  /\ Finish(a, l, s, outcome, summary, cost)

\* The control plane ends a started attempt whose lease is no longer current.
RecoverOrphan(a, outcome, summary, cost) ==
  LET l == attempt[a].lease
  IN /\ attempt[a].status = "started"
     /\ Authorized(RunOf(a))
     /\ Serving(RunOf(a))
     /\ outcome \in {"timed_out", "cancelled"}
     /\ ~IsCurrent(RunOf(a), UnitOf(a), l)
     /\ Admitted(a, RunOf(a), UnitOf(a), attempt[a].step, "control-plane")
     /\ Finish(a, l, attempt[a].step, outcome, summary, cost)

RecordExecutionAttempt ==
  \E a \in AttemptIds :
    \/ \E l \in Leases, s \in Steps, role \in Roles :
         \/ StartAttempt(a, l, s, role)
         \/ \E outcome \in Outcomes, summary \in Summaries \cup {None}, cost \in Costs :
              FinishAttempt(a, l, s, role, outcome, summary, cost)
    \/ \E outcome \in Outcomes, summary \in Summaries \cup {None}, cost \in Costs :
         RecoverOrphan(a, outcome, summary, cost)

AttemptsNext == (Next /\ UNCHANGED attemptVars) \/ RecordExecutionAttempt

AttemptsSpec == AttemptsInit /\ [][AttemptsNext]_allVars

-----------------------------------------------------------------------------
(* Properties *)

\* The attempts that ended under grant g, and the units of cost P stands for.
EndedUnder(g) == {a \in AttemptIds : /\ attempt[a].status \in Terminal
                                     /\ run[RunOf(a)].grant = g}
CostUnits(P) == UNION {{a} \X (1 .. attempt[a].cost) : a \in P}

\* The grant is charged exactly once for every attempt that ended under it, and
\* only the attempt that crosses the budget may cross it: workers that finish
\* after another one spent the rest are refused, not charged.
BudgetIsAccounted ==
  \A g \in Grants :
    /\ grant[g].spend = Cardinality(CostUnits(EndedUnder(g)))
    /\ EndedUnder(g) # {} =>
         \E a \in EndedUnder(g) : grant[g].spend < MaximumSpend + attempt[a].cost

\* What an attempt is never changes, and its end is recorded once: a late worker,
\* a replacement and the orphan recovery cannot overwrite each other's verdict.
VerdictIsFinal ==
  [][\A a \in AttemptIds :
       /\ Recorded(a) => attempt'[a].lease = attempt[a].lease
                         /\ attempt'[a].step = attempt[a].step
       /\ attempt[a].status \in Terminal => attempt'[a] = attempt[a]]_allVars

\* What comments and docstrings say, and the code does not do (see PROJECT.json).

\* The last failure of P in time, and the last two being identical.
LatestFailure(P, a) == a \in Failed(P) /\ \A b \in Failed(P) : attempt[b].ended <= attempt[a].ended

\* "a step whose last two failures share the same signature is stopped rather than
\* retried blindly" (convergence.py).
IdenticalFailureStops ==
  [][\A a \in AttemptIds : ~Recorded(a) /\ attempt'[a].status # "none" =>
       LET l == attempt'[a].lease
           P == AttemptsForStep(lease[l].run, lease[l].wu, attempt'[a].step)
       IN ~ \E b, c \in Failed(P) :
              /\ b # c /\ LatestFailure(P, c) /\ LatestFailure(P \ {c}, b)
              /\ attempt[b].summary = attempt[c].summary]_allVars

\* "Finalize started attempts whose lease is gone or stale" (tick.py): while the
\* Run goes on, the control plane is able to end every attempt of a lost lease.
OrphansCanBeFinalized ==
  \A a \in AttemptIds :
    /\ attempt[a].status = "started"
    /\ Authorized(RunOf(a)) /\ Serving(RunOf(a))
    /\ ~IsCurrent(RunOf(a), UnitOf(a), attempt[a].lease)
    => Admitted(a, RunOf(a), UnitOf(a), attempt[a].step, "control-plane")
=============================================================================
