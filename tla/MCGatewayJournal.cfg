SPECIFICATION FairSpec
CONSTANTS
  Procs = {p1, p2}
  Recoverers = {r1}
  Commands <- MCCommands
  Docs <- MCDocs
  TxIds <- MCTxIds
  KeyOf <- MCKeyOf
  Writes <- MCWrites
  Expect <- MCExpect
  Eventful <- MCEventful
  AnyRevision = AnyRevision
  NoLock = NoLock
  OrphanLock = OrphanLock
  NoTx = NoTx
  NoCmd = NoCmd
  MaxFaults = 2
  CommandsWait = TRUE
  RecoverWaits = TRUE
INVARIANTS
  SameReceipt
  
  CommittedDurable

  
  
