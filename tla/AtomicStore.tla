----------------------------- MODULE AtomicStore -----------------------------
(***************************************************************************)
(* What the Command Gateway promises: a command takes effect at once on    *)
(* all the documents it writes, on the revision it expected, or not at all.*)
(***************************************************************************)
EXTENDS Naturals, Sequences, SequencesExt

CONSTANTS Commands, Docs, TxIds, Writes, Expect, AnyRevision, NoCmd

VARIABLES
  store,    \* store[d]: the transactions whose effect document d holds
  applied   \* applied[t]: the command transaction t applied, or NoCmd

Init ==
  /\ store = [d \in Docs |-> <<>>]
  /\ applied = [t \in TxIds |-> NoCmd]

Apply(t, c) ==
  /\ applied[t] = NoCmd
  /\ Expect[c] \in {AnyRevision, Len(store[Head(Writes[c])])}
  /\ store' = [d \in Docs |-> IF d \in Range(Writes[c]) THEN Append(store[d], t)
                               ELSE store[d]]
  /\ applied' = [applied EXCEPT ![t] = c]

Next == \E t \in TxIds, c \in Commands : Apply(t, c)

Spec == Init /\ [][Next]_<<store, applied>>
=============================================================================
