--------------------------- MODULE MCGatewayJournal ---------------------------
(***************************************************************************)
(* Small instances of GatewayJournal.  "auth" is a single-use human        *)
(* authorization and "a" and "b" are documents.  Two commands compete for  *)
(* the authorization; "note" expects no revision (a retry is not stopped   *)
(* by it) and "renote" reuses its idempotency key with another payload.    *)
(***************************************************************************)
EXTENDS GatewayJournal, TLC

MCTxIds == 1..3
MCDocs == {"auth", "a", "b"}
MCCommands == {"gateA", "gateB", "note", "renote"}
MCKeyOf == "gateA" :> "k1" @@ "gateB" :> "k2" @@ "note" :> "k3" @@ "renote" :> "k3"
MCWrites == "gateA" :> <<"auth", "a">> @@ "gateB" :> <<"auth", "b">>
            @@ "note" :> <<"a", "b">> @@ "renote" :> <<"b">>
MCExpect == "gateA" :> 0 @@ "gateB" :> 0
            @@ "note" :> AnyRevision @@ "renote" :> AnyRevision
MCEventful == {"gateA"}
Callers == Permutations(Procs)
=============================================================================
