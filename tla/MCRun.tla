-------------------------------- MODULE MCRun --------------------------------
(***************************************************************************)
(* Three small instances of a Run in one: the workers of two Runs at one   *)
(* Work Unit (grants that lapse, and forks or a merge), two Work Units of  *)
(* one Run (caps; a ceiling, and the risk of one), and the attempts of a   *)
(* worker and its successor. The scenario is drawn at the start and the    *)
(* state constraint Within keeps the commands it leaves out away.          *)
(***************************************************************************)
EXTENDS Attempts, TLC

CONSTANTS u1, u2

VARIABLE scenario
Scenarios == {"workers", "units", "attempts"}

OneOrBoth == {{u1}, {u1, u2}}
HighRisk == [w \in WorkUnits |-> 2]

\* The default, and a request that would open a protected dimension.
Requests == {DefaultCeiling, [DefaultCeiling EXCEPT !["production_action"] = "allowed"]}

\* Runs and leases are told apart by nothing but their names.
Names == Permutations(Leases) \cup Permutations(Runs)

OpenedRuns == {r \in Runs : Opened(r)}
OneRun == Cardinality(OpenedRuns) <= 1 /\ Cardinality({l \in Leases : Issued(l)}) <= 2
NoLapse == (\A g \in Grants : Usable(g)) /\ (\A r \in Runs : ~run[r].overdue)
NoForks == \A d \in Decisions : decision[d] = NoDecision
NoMerges == \A m \in Merges : merge[m] = None
NoForkOrMerge == NoForks /\ NoMerges
NoAttempts == \A a \in AttemptIds : ~Recorded(a)
SameRisk(w) == unit[w].risk = InitialRisk[w]
OneUnit ==
  /\ \A r \in OpenedRuns :
       run[r].batch = {u1} /\ run[r].cap = 1 /\ ceiling[r][u1] = DefaultCeiling
  /\ unit[u2] = [status |-> InitialStatus, risk |-> InitialRisk[u2]]
  /\ unit[u1].status # "done" /\ SameRisk(u1)

Within ==
  \/ scenario = "workers" /\ OneUnit /\ NoAttempts /\ (NoForks \/ NoMerges)
  \/ /\ scenario = "units" /\ OneRun /\ NoLapse /\ NoForkOrMerge /\ NoAttempts
     /\ SameRisk(u2) /\ \A r \in OpenedRuns :
          run[r].batch = {u1, u2} /\ ceiling[r][u2] = DefaultCeiling
  \/ /\ scenario = "attempts" /\ OneUnit /\ OneRun /\ NoLapse /\ NoForkOrMerge

MCInit == AttemptsInit /\ scenario \in Scenarios
MCNext == AttemptsNext /\ UNCHANGED scenario
MCSpec == MCInit /\ [][MCNext]_<<allVars, scenario>>
=============================================================================
