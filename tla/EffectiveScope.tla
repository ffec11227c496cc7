--------------------------- MODULE EffectiveScope ---------------------------
(***************************************************************************)
(* Where an agent may write. Before every execution the scope of the Work  *)
(* Unit, the paths of the grant, those of the role and the execution       *)
(* ceiling are intersected into a contract (scope.py); after it the files  *)
(* that changed are held against the scope and the grant again, by another *)
(* code (boundary.py), and a file outside stops the whole Run.             *)
(*                                                                         *)
(* A path is a sequence of names; a pattern is a path (star FALSE), all    *)
(* that is below a directory ("src/**"), or what is below it and ends with *)
(* a name ("src/**/tests"). fnmatch lets a star match slashes too.         *)
(***************************************************************************)
EXTENDS Sequences, SequencesExt, FiniteSets

CONSTANTS
    WrittenPaths,   \* the files agents write
    ControlPlane,   \* CONTROL_PLANE_ONLY_PATH_PREFIXES, directories
    Outputs,        \* the directories of governed outputs of the Work Unit
    BuildDirs,      \* the names of directories of build output
    RoleTemplates,  \* what each role may write: a set of templates
    Mandates,       \* the Work Units with their grant and ceiling: instances of Mandate
    Anything,       \* an axis that does not apply
    MaxChanged      \* bound: uncommitted files of a worktree

VARIABLES
    mandate,    \* scope of the Work Unit, paths of the grant, ceiling of the Run
    stage,      \* of the Run, as far as this Work Unit is concerned
    pact,       \* the contract of the execution under way
    changed,    \* the files of the worktree that differ from its HEAD
    mutated,    \* the execution under way changed the Control Plane
    astray      \* history: an agent wrote a file outside the contract it was given

scopeVars == <<mandate, stage, pact, changed, mutated, astray>>

Tree(root) == [root |-> root, star |-> TRUE, tail |-> <<>>]
Exactly(path) == [root |-> path, star |-> FALSE, tail |-> <<>>]
Ending(root, tail) == [root |-> root, star |-> TRUE, tail |-> tail]

-----------------------------------------------------------------------------
(* Patterns                                                                *)

IsTree(p) == p.star /\ p.tail = <<>>

Matches(path, p) ==
    IF p.star
    THEN /\ IsStrictPrefix(p.root, path)
         /\ p.tail # <<>> => Len(path) > Len(p.root) + Len(p.tail) /\ IsSuffix(p.tail, path)
    ELSE path = p.root
Admits(patterns, path) == \E p \in patterns : Matches(path, p)

\* The text of a pattern without the stars it ends with, read as a path.
Literal(p) == IF p.star /\ p.tail # <<>> THEN p.root \o <<"**">> \o p.tail ELSE p.root

\* One pattern is taken to lie within another when its text, or a name below it, matches that.
Probes(p) == IF Literal(p) = <<>> THEN {<<".">>, <<"x">>} ELSE {Literal(p), Append(Literal(p), "x")}
Subsumes(outer, inner) == inner = outer \/ \E q \in Probes(inner) : Matches(q, outer)

\* Mutant: of two patterns the wider is kept.
IntersectWider(left, right) ==
    {p \in left : \E q \in right : Subsumes(p, q)}
    \cup {q \in right : \E p \in left : ~Subsumes(p, q) /\ Subsumes(q, p)}
Intersect(left, right) ==
    {p \in left : \E q \in right : Subsumes(q, p)}
    \cup {q \in right : \E p \in left : ~Subsumes(q, p) /\ Subsumes(p, q)}

InControlPlane(path) == \E c \in ControlPlane : IsStrictPrefix(c, path)
RootedIn(p, c) == IF p.star THEN IsPrefix(c, p.root) ELSE IsStrictPrefix(c, p.root)
Sanitized(patterns) ==
    {p \in patterns : \A c \in ControlPlane : ~RootedIn(p, c) /\ ~Matches(Append(c, "__boundary_probe__"), p)}

\* The directory of a tree, with its last slash, or the text of another pattern.
IsExcluded(p, exclude) ==
    IF IsTree(p) THEN \E e \in exclude : IsTree(e) /\ IsPrefix(e.root, p.root)
                 ELSE Admits(exclude, Literal(p))

-----------------------------------------------------------------------------
(* The contract                                                            *)

\* "<work-unit-scope>" stands for every entry of the scope, and what follows it is appended.
Below(p, names) ==
    IF names = <<>> THEN p ELSE IF p.star THEN Ending(p.root, p.tail \o names) ELSE Exactly(p.root \o names)
Resolve(template) ==
    IF template.symbolic THEN {Below(p, template.names) : p \in mandate.include} ELSE {Tree(template.names)}
RoleAxis(r) == LET resolved == UNION {Resolve(t) : t \in RoleTemplates[r]}
               IN IF resolved = {} THEN Anything ELSE resolved

ScopeAxis == IF mandate.include = {} THEN Anything ELSE mandate.include
GrantAxis == IF mandate.grant = Anything THEN Anything ELSE Sanitized(mandate.grant)
CeilingAxis == IF mandate.ceiling = Anything THEN Anything ELSE Sanitized(mandate.ceiling)

Narrow(scope, axis) ==
    IF axis = Anything THEN scope ELSE IF scope = Anything THEN axis ELSE Intersect(scope, axis)

\* The patterns an execution may write, or Anything when no axis applies.
Effective(role, ceiling) ==
    LET met == Narrow(Narrow(Narrow(ScopeAxis, GrantAxis), role), ceiling) IN
    IF met = Anything THEN Anything
    ELSE {p \in Sanitized(met) : ~IsExcluded(p, mandate.exclude)}

\* What refuses an execution before any agent runs.
Refused(role, ceiling) ==
    \/ \E p \in mandate.include, c \in ControlPlane : RootedIn(p, c)
    \/ /\ mandate.include # {} /\ GrantAxis \notin {Anything, {}}
       /\ Intersect(mandate.include, GrantAxis) = {}
    \/ Effective(role, ceiling) = {}

InContract(path) ==
    /\ ~InControlPlane(path)
    /\ pact = Anything \/ Admits(pact, path)
    /\ ~Admits(mandate.exclude, path)

-----------------------------------------------------------------------------
(* The executions of a Work Unit                                           *)

ScopeInit ==
    /\ mandate \in Mandates
    /\ stage = "approved" /\ pact = Anything /\ changed = {}
    /\ mutated = FALSE /\ astray = FALSE

\* The orchestrator does not start when the grant lets none of its Work Units write.
ConflictingGrant == GrantAxis # Anything /\ Refused(Anything, Anything)
StartOrchestrator ==
    /\ stage = "approved"
    /\ stage' = IF ConflictingGrant THEN "not_started" ELSE "idle"
    /\ UNCHANGED <<mandate, pact, changed, mutated, astray>>

Compile(r) ==
    /\ stage = "idle"
    /\ IF Refused(RoleAxis(r), CeilingAxis)
       THEN stage' = "blocked" /\ UNCHANGED pact
       ELSE stage' = "running" /\ pact' = Effective(RoleAxis(r), CeilingAxis)
    /\ UNCHANGED <<mandate, changed, mutated, astray>>

AgentWrites(path) ==
    /\ stage = "running"
    /\ IF InControlPlane(path) THEN mutated' = TRUE /\ UNCHANGED changed
       ELSE changed' = changed \cup {path} /\ Cardinality(changed') <= MaxChanged /\ UNCHANGED mutated
    /\ astray' = (astray \/ ~InContract(path))
    /\ UNCHANGED <<mandate, stage, pact>>

BuildOutput(path) == \E i \in DOMAIN path : path[i] \in BuildDirs
GovernedOutput(path) == \E d \in Outputs : IsStrictPrefix(d, path)

\* The paths of the role and the ceiling are not looked at.
WithinBounds(path) ==
    \/ GovernedOutput(path)
    \/ /\ ~Admits(mandate.exclude, path)
       /\ mandate.include = {} \/ Admits(mandate.include, path)
       /\ GrantAxis \in {Anything, {}} \/ Admits(GrantAxis, path)

\* What failed executions left in the worktree is inspected too.
Inspected == {path \in changed : ~BuildOutput(path)}
Violates == \E path \in Inspected : ~WithinBounds(path)

\* An accepted candidate is committed; a file outside stops the Run.
Inspect ==
    /\ stage = "running"
    /\ IF mutated \/ Violates THEN stage' = "stopped" /\ UNCHANGED changed
                              ELSE stage' = "idle" /\ changed' = changed \ Inspected
    /\ pact' = Anything /\ mutated' = FALSE
    /\ UNCHANGED <<mandate, astray>>

\* The agent did not succeed: its files stay in the worktree, and are not inspected.
AgentFails ==
    /\ stage = "running"
    /\ stage' = "idle" /\ pact' = Anything /\ mutated' = FALSE
    /\ UNCHANGED <<mandate, changed, astray>>

ScopeNext ==
    \/ StartOrchestrator
    \/ \E r \in DOMAIN RoleTemplates : Compile(r)
    \/ \E path \in WrittenPaths : AgentWrites(path)
    \/ Inspect
    \/ AgentFails

ScopeSpec == ScopeInit /\ [][ScopeNext]_scopeVars

-----------------------------------------------------------------------------
(* Two codes decide what an agent may write: the contract it is given is   *)
(* computed on patterns, the verdict that stops the Run on files, without  *)
(* the axes of role and ceiling. A Run stops with out_of_workspace_write   *)
(* only when some agent wrote a file that its contract did not admit, also *)
(* when a verdict falls on what failed executions of other roles left.     *)
InsideContractIsAccepted == stage = "stopped" => astray
=============================================================================
