------------------------------ MODULE Ensemble ------------------------------
(***************************************************************************)
(* An instance and the product repositories it governs: ensembles, their    *)
(* members, the composition of commits that is pinned for them, and what is *)
(* accepted of the product on a composition (handlers/ensemble.py,          *)
(* ensemble_composition.py, workspace.py, member_overlay.py). A command     *)
(* holds the project lock, which keeps other commands out but not commits   *)
(* in the repositories, whose HEADs it reads one by one. Its ensemble is    *)
(* the one its process found active when it started, before the lock.       *)
(***************************************************************************)
EXTENDS Naturals, Sequences, FiniteSets

CONSTANTS
    Ensembles, Members, Repos, Compositions, Shas,
    Clients,            \* processes that issue commands
    Absent,
    MaxProduct          \* bound: product records accepted

\* What a repository knows of itself: the ensemble and the member id it was linked with.
Link == [here : BOOLEAN, ensemble : Ensembles \cup {Absent}, member : Members \cup {Absent}]

ASSUME EnsembleAssumption ==
    /\ MaxProduct \in Nat
    /\ Absent \notin Ensembles \cup Members \cup Compositions \cup Link

VARIABLES
    ensembles,      \* members.yaml of each ensemble
    compositions,   \* the commits pinned, by ensemble and composition
    catalog,        \* the projection of the ensembles in catalog.yaml
    active,         \* the active ensemble of the instance
    heads, links,   \* HEAD and member-link.json of each repository
    frozen,         \* the detached checkouts of a composition
    clients,        \* the ensemble, and the member it started in, of each process
    busy,            \* the command that holds the project lock between two steps
    product         \* what was accepted of the product

ensVars == <<ensembles, compositions, catalog, active, heads, links, frozen, clients, busy, product>>
documents == <<ensembles, compositions, catalog, active>>

Checked == {"G4", "e2e", "visual"}
Products == Checked \cup {"G3", "release"}

EnsembleInit ==
    /\ ensembles = [e \in Ensembles |-> Absent]
    /\ compositions = [e \in Ensembles |-> [c \in Compositions |-> Absent]]
    /\ catalog = {} /\ active = Absent
    /\ heads \in [Repos -> Shas]
    /\ links = [r \in Repos |-> Absent]
    /\ frozen = {} /\ busy = Absent /\ product = <<>>
    /\ clients = [p \in Clients |-> Absent]

-----------------------------------------------------------------------------
(* Processes and the ensemble they work for                                *)

Enrolled(e) == e # Absent /\ ensembles[e] # Absent
Declared(e) == IF Enrolled(e) THEN DOMAIN ensembles[e].members ELSE {}
RepoOf(e, m) == ensembles[e].members[m]
CurrentOf(e) == ensembles[e].current

\* A process starts in the instance, or in a repository whose link leads to it.
Discover(p) ==
    /\ busy # Absent => busy.client # p
    /\ \/ clients' = [clients EXCEPT ![p] = [ensemble |-> active, member |-> Absent]]
       \/ \E r \in Repos :
             /\ links[r] # Absent /\ links[r].here
             /\ clients' = [clients EXCEPT ![p] = [ensemble |-> links[r].ensemble, member |-> links[r].member]]
    /\ UNCHANGED <<documents, heads, links, frozen, busy, product>>

\* From a member nothing may be commanded; the product wants a member to exist.
MayCommand(p) == busy = Absent /\ clients[p] # Absent /\ clients[p].member = Absent
MayCycle(p) == MayCommand(p) /\ Declared(clients[p].ensemble) # {}

Catalog(es) ==
    {[id |-> e, members |-> DOMAIN es[e].members, composition |-> es[e].current] :
        e \in {f \in Ensembles : es[f] # Absent}}

-----------------------------------------------------------------------------
(* Ensembles and members                                                   *)

RegisterEnsemble(p, e) ==
    /\ MayCommand(p)
    /\ ensembles[e] = Absent
    /\ ensembles' = [ensembles EXCEPT ![e] = [revision |-> 1, members |-> [m \in {} |-> Absent], current |-> Absent]]
    /\ catalog' = Catalog(ensembles')
    /\ UNCHANGED <<compositions, active, heads, links, frozen, clients, busy, product>>

SetActiveEnsemble(p, e) ==
    /\ MayCommand(p)
    /\ Enrolled(e)
    /\ active' = e
    /\ UNCHANGED <<ensembles, compositions, catalog, heads, links, frozen, clients, busy, product>>

\* Variant: any link to this instance may be rewritten.
LinkableHere(r, m) == links[r] # Absent => links[r].here

\* A repository keeps the instance and the member id it was first linked with.
Linkable(r, m) == links[r] # Absent => links[r].here /\ links[r].member = m

\* The overlay of the repository is written at once, the records of the instance when the
\* transaction commits.
LinkMember(p, e, m, r, expected) ==
    /\ MayCommand(p)
    /\ Enrolled(e)
    /\ ensembles[e].revision = expected /\ m \notin Declared(e)
    /\ Linkable(r, m)
    /\ links' = [links EXCEPT ![r] = [here |-> TRUE, ensemble |-> e, member |-> m]]
    /\ busy' = [client |-> p, kind |-> "member", ensemble |-> e, member |-> m, repo |-> r]
    /\ UNCHANGED <<documents, heads, frozen, clients, product>>

RegisterMember ==
    /\ busy # Absent /\ busy.kind = "member"
    /\ LET e == busy.ensemble
           ids == Declared(e) \cup {busy.member}
       IN ensembles' = [ensembles EXCEPT
            ![e].members = [m \in ids |-> IF m = busy.member THEN busy.repo ELSE ensembles[e].members[m]],
            ![e].revision = @ + 1]
    /\ catalog' = Catalog(ensembles')
    /\ busy' = Absent
    /\ UNCHANGED <<compositions, active, heads, links, frozen, clients, product>>

-----------------------------------------------------------------------------
(* Reading the HEADs                                                       *)

\* A command remembers the HEADs it has read; "since" is what each HEAD has been meanwhile.
Reading(p, kind, e, c, ms) ==
    [client |-> p, kind |-> kind, ensemble |-> e, composition |-> c, todo |-> ms,
     read |-> [m \in {} |-> Absent], since |-> [r \in Repos |-> {heads[r]}]]

ReadHead(m) ==
    /\ busy # Absent /\ busy.kind # "member"
    /\ m \in busy.todo
    /\ busy' = [busy EXCEPT !.todo = @ \ {m},
                          !.read = [n \in DOMAIN busy.read \cup {m} |->
                                      IF n = m THEN heads[RepoOf(busy.ensemble, m)] ELSE busy.read[n]]]
    /\ UNCHANGED <<documents, heads, links, frozen, clients, product>>

\* Refused, for an I/O error or because its process ends: the overlay of a member stays.
Abandon ==
    /\ busy # Absent
    /\ busy' = Absent
    /\ UNCHANGED <<documents, heads, links, frozen, clients, product>>

CommitIn(r, s) ==
    /\ heads[r] # s
    /\ heads' = [heads EXCEPT ![r] = s]
    /\ busy' = IF busy = Absent \/ busy.kind = "member" THEN busy ELSE [busy EXCEPT !.since[r] = @ \cup {s}]
    /\ UNCHANGED <<documents, links, frozen, clients, product>>

\* The repository becomes a member of another instance.
LinkElsewhere(r) ==
    /\ links[r] = Absent
    /\ links' = [links EXCEPT ![r] = [here |-> FALSE, ensemble |-> Absent, member |-> Absent]]
    /\ UNCHANGED <<documents, heads, frozen, clients, busy, product>>

-----------------------------------------------------------------------------
(* Compositions                                                            *)

Record(e, c, pins) ==
    /\ compositions' = [compositions EXCEPT ![e][c] = pins]
    /\ ensembles' = [ensembles EXCEPT ![e].current = c]
    /\ catalog' = Catalog(ensembles')
    /\ UNCHANGED <<active, heads, links, frozen, clients, product>>

Pinnable(p, e, c) ==
    /\ MayCommand(p)
    /\ Declared(e) # {}
    /\ compositions[e][c] = Absent

\* The commits are named, for exactly the declared members.
PinGiven(p, e, c, pins) ==
    /\ Pinnable(p, e, c)
    /\ Record(e, c, pins)
    /\ UNCHANGED busy

\* Or they are the HEADs.
BeginPin(p, e, c) ==
    /\ Pinnable(p, e, c)
    /\ busy' = Reading(p, "pin", e, c, Declared(e))
    /\ UNCHANGED <<documents, heads, links, frozen, clients, product>>

PinComposition ==
    /\ busy # Absent /\ busy.kind = "pin" /\ busy.todo = {}
    /\ Record(busy.ensemble, busy.composition, busy.read)
    /\ busy' = Absent

-----------------------------------------------------------------------------
(* The product on a composition                                            *)

Several(e) == Cardinality(Declared(e)) >= 2

\* Variant: the members the composition knows.
PinnedMembers(e, c) == DOMAIN compositions[e][c]

\* The members whose HEAD is compared: those that are declared now.
ComparedMembers(e, c) == Declared(e)

\* A gate, a release candidate, a proof or a verification begins. With two members or more
\* it is about the current composition; e2e evidence names the one it is of.
BeginProduct(p, kind, named) ==
    /\ MayCycle(p)
    /\ Len(product) < MaxProduct
    /\ LET e == clients[p].ensemble IN
         IF Several(e)
         THEN /\ CurrentOf(e) # Absent
              /\ kind = "e2e" => named = CurrentOf(e)
              /\ kind = "release" => named \in {CurrentOf(e), Absent}
              /\ busy' = Reading(p, kind, e, CurrentOf(e),
                                IF kind \in Checked THEN ComparedMembers(e, CurrentOf(e)) ELSE {})
         ELSE busy' = Reading(p, kind, e, Absent, {})
    /\ UNCHANGED <<documents, heads, links, frozen, clients, product>>

\* No HEAD has moved past its pin, and no pin is of a member that is not declared.
Live(e, c) ==
    /\ \A m \in DOMAIN busy.read : m \in DOMAIN compositions[e][c] /\ busy.read[m] = compositions[e][c][m]
    /\ DOMAIN compositions[e][c] \subseteq Declared(e)

Accept ==
    /\ busy # Absent /\ busy.kind \in Products /\ busy.todo = {}
    /\ LET e == busy.ensemble
           c == busy.composition
       IN /\ (c # Absent /\ busy.kind \in Checked) => Live(e, c)
          /\ (c # Absent /\ busy.kind = "visual") => Declared(e) \subseteq DOMAIN compositions[e][c]
          /\ product' = Append(product, [kind |-> busy.kind, ensemble |-> e, composition |-> c])
          /\ frozen' = IF c # Absent /\ busy.kind = "visual"
                       THEN frozen \cup {[ensemble |-> e, composition |-> c, member |-> m,
                                          sha |-> compositions[e][c][m]] : m \in Declared(e)}
                       ELSE frozen
    /\ busy' = Absent
    /\ UNCHANGED <<documents, heads, links, clients>>

-----------------------------------------------------------------------------

InstanceStep ==
    \/ \E p \in Clients : \/ Discover(p)
                          \/ \E e \in Ensembles : RegisterEnsemble(p, e) \/ SetActiveEnsemble(p, e)
                          \/ \E e \in Ensembles, m \in Members, r \in Repos, x \in 1..Cardinality(Members) + 1 :
                                LinkMember(p, e, m, r, x)
    \/ RegisterMember \/ Abandon
    \/ \E r \in Repos : LinkElsewhere(r) \/ \E s \in Shas : CommitIn(r, s)

CompositionStep ==
    \/ \E p \in Clients, e \in Ensembles, c \in Compositions :
          \/ BeginPin(p, e, c)
          \/ \E pins \in [Declared(e) -> Shas] : PinGiven(p, e, c, pins)
    \/ \E m \in Members : ReadHead(m)
    \/ PinComposition
    \/ \E p \in Clients, k \in Products, c \in Compositions \cup {Absent} : BeginProduct(p, k, c)
    \/ Accept

EnsembleNext == InstanceStep \/ CompositionStep

EnsembleSpec == EnsembleInit /\ [][EnsembleNext]_ensVars

-----------------------------------------------------------------------------

\* What is accepted of a product of several members is of the composition that is current for
\* its ensemble; a completion, e2e evidence or a visual verification was moreover of commits
\* that every member declared, also one that joined after the pin, had as its HEAD at some time
\* while the command ran (assert_composition_live).
ProductIsPinned ==
    [][ product' # product =>
          LET x == product'[Len(product')]
              e == x.ensemble
              pins == compositions[e][x.composition]
          IN Several(e) =>
               /\ x.composition # Absent /\ x.composition = CurrentOf(e)
               /\ x.kind \in Checked =>
                     /\ DOMAIN pins = Declared(e)
                     /\ \A m \in Declared(e) : pins[m] \in busy.since[RepoOf(e, m)] ]_ensVars

\* A repository that an ensemble declares as a member leads whoever works in it to this instance
\* as that member, also when a registration was cut short between the overlay and its commit, and
\* although several ensembles may declare the repository (write_member_overlay).
MembersAreLinked ==
    \A e \in Ensembles : \A m \in Declared(e) :
        /\ links[RepoOf(e, m)] # Absent
        /\ links[RepoOf(e, m)].here /\ links[RepoOf(e, m)].member = m
=============================================================================
