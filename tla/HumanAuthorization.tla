------------------------- MODULE HumanAuthorization -------------------------
(***************************************************************************)
(* The authorizations a human gives to the Core: one file per token in     *)
(* .ai-team/authorizations (core/commands/human_authorization.py), looked   *)
(* at by authorize_command before the handler and written by the handler's *)
(* own transaction, both under the project lock.                           *)
(***************************************************************************)
EXTENDS Naturals

CONSTANTS
    Auths,      \* identifiers of authorizations
    Targets,    \* what a command may be about
    NoAuth      \* the file of a token that does not exist

Commands == {"RegisterDesignArtifact", "SetDesignArtifactAuthority", "ResolveDecisionRequest",
             "RecordGateDecision", "RecordAcceptance", "RecordHumanFeedback",
             "IssueRunAuthorizationGrant", "RevokeRunAuthorizationGrant", "UpdateProjectProfile"}

\* What a command must be: the two that decide what is authoritative in a design.
StrictCommands == {"RegisterDesignArtifact", "SetDesignArtifactAuthority"}

VARIABLES
    auths,      \* the file of each token: what it was issued for, and whether it is used
    acts        \* how many accepted commands have rested on each token

authVars == <<auths, acts>>

Records == [command : Commands, target : Targets, consumed : BOOLEAN]

ASSUME NoAuthAssumption == NoAuth \notin Records

AuthTypeOK == auths \in [Auths -> Records \cup {NoAuth}] /\ acts \in [Auths -> Nat]

AuthInit == auths = [a \in Auths |-> NoAuth] /\ acts = [a \in Auths |-> 0]

\* Someone writes an authorization for one command on one target. No command of the Core does.
Issue(a, c, t) ==
    /\ auths[a] = NoAuth
    /\ auths' = [auths EXCEPT ![a] = [command |-> c, target |-> t, consumed |-> FALSE]]
    /\ acts' = acts

\* The test every command that carries a token goes through.
Unused(a) == auths[a] # NoAuth => ~auths[a].consumed

\* The stricter test: the Core holds the token, issued for this command and this target.
PreIssued(a, c, t) ==
    auths[a] # NoAuth /\ auths[a].command = c /\ auths[a].target = t /\ ~auths[a].consumed

MayAct(a, c, t) == Unused(a) /\ (c \in StrictCommands => PreIssued(a, c, t))

\* Variant: only the file of a token the Core holds is marked; another leaves no trace.
ConsumedIfHeld(a, c, t) ==
    IF auths[a] = NoAuth THEN auths ELSE [auths EXCEPT ![a].consumed = TRUE]

\* The token's file is marked used, and created when the token had none.
Consumed(a, c, t) ==
    [auths EXCEPT ![a] = IF auths[a] = NoAuth
                         THEN [command |-> c, target |-> t, consumed |-> TRUE]
                         ELSE [auths[a] EXCEPT !.consumed = TRUE]]

Consume(a, c, t) ==
    /\ auths' = Consumed(a, c, t)
    /\ acts' = [acts EXCEPT ![a] = @ + 1]

\* A token a human gave stands behind one accepted act, whatever commands carry it and however
\* many of them: a gate, an acceptance, a decision, a feedback, an authority level.
AuthorizationUsedOnce == \A a \in Auths : acts[a] <= 1
=============================================================================
