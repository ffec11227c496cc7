--------------------------- MODULE DeliveryProofs ---------------------------
(***************************************************************************)
(* Theorems about the file queues of the framework, for every number of    *)
(* processes, items, crashes and retries: the work queue of the supervisor *)
(* (SupervisorQueue), the mails (Notifications) and the exports of the     *)
(* feedback (FeedbackOutbox).                                              *)
(***************************************************************************)
EXTENDS SupervisorQueue, Notifications, FeedbackOutbox, FiniteSetTheorems, TLAPS

-----------------------------------------------------------------------------
(* SupervisorQueue: the lock files *)

\* Where a process is while its lock file is there.
InSection == {"in", "bury", "check", "save", "leave"}

\* Who is in a section owns its lock file; who is about to unlink a stale lock
\* file is alone in that, and it is still the file of the dead process.
LockInv ==
  \A c \in Clients :
    LET n == LockOf(client[c].pc) IN
    /\ client[c].at \in InSection => lock[n] = c
    /\ client[c].at = "break" =>
         /\ lock[n] = Orphan
         /\ \A d \in Clients : client[d].at = "break" /\ LockOf(client[d].pc) = n => d = c

\* A process that writes or dies is somewhere, and None and Orphan are nobody.
LEMMA Somebody ==
  ASSUME NEW c \in Clients
  PROVE  c # None /\ c # Orphan
BY QueueAssumption DEF Clients

LEMMA QueueTypeInit == Init => QueueTypeOK
<1> SUFFICES ASSUME Init PROVE QueueTypeOK  OBVIOUS
<1>1. \A c \in Clients : client[c] = Idle  BY DEF Init
<1>2. QED  BY QueueAssumption DEF Init, QueueTypeOK, Idle, NoItem, OpenStates, Locks, Calls

\* The state of a process after a step that changes it at one place.
Client ==
  [pc : Calls \cup {"idle"}, at : {"want", "break", "in", "bury", "check", "save", "leave"},
   key : Keys \cup {None}, seen : ItemIds \cup {None}, lease : Nat \cup {None}, seq : Nat]
Item == [state : OpenStates \cup {"none", "completed", "gone"},
         key : Keys \cup {None}, lease : Nat \cup {None}, epoch : Nat, late : BOOLEAN]

LEMMA LockStepType ==
  ASSUME QueueTypeOK, NEW c \in Clients,
         \/ Enter(c) \/ JudgeStale(c) \/ BreakLock(c) \/ GiveUp(c) \/ Leave(c) \/ Begin(c)
         \/ Raise(c) \/ Die(c) \/ Promote(c)
  PROVE  QueueTypeOK'
<1> USE DEF QueueTypeOK, Goto
<1>1. Idle \in Client  BY DEF Idle, Client
<1>2. client \in [Clients -> Client]  BY DEF Client
<1>3. LockOf(client[c].pc) \in Locks  BY DEF LockOf, Locks
<1>0. ASSUME NEW at \in {"want", "break", "in", "bury", "check", "save", "leave"}, Goto(c, at)
      PROVE  client' \in [Clients -> Client]
  <2>1. [client[c] EXCEPT !.at = at] \in Client  BY <1>2, <1>0 DEF Client
  <2>2. client' = [client EXCEPT ![c] = [client[c] EXCEPT !.at = at]]  BY <1>2, <1>0
  <2> QED  BY <1>2, <2>1, <2>2
<1>4. CASE Enter(c)
  <2>1. client' \in [Clients -> Client]  BY <1>0, <1>4 DEF Enter
  <2> QED  BY <1>3, <1>4, <2>1 DEF Enter, store, Client
<1>5. CASE JudgeStale(c)  BY <1>2, <1>5 DEF JudgeStale, store, Client
<1>6. CASE BreakLock(c)  BY <1>2, <1>3, <1>6 DEF BreakLock, store, Client
<1>7. CASE GiveUp(c)  BY <1>1, <1>2, <1>7 DEF GiveUp, store, Client
<1>8. CASE Leave(c)
  <2>1. After(c) \in Calls \cup {"idle"}  BY DEF After, Calls
  <2>2. [client[c] EXCEPT !.pc = After(c), !.at = "want"] \in Client  BY <1>2, <2>1 DEF Client
  <2>3. client' = [client EXCEPT ![c] = IF After(c) = "idle" THEN Idle
                                         ELSE [client[c] EXCEPT !.pc = After(c), !.at = "want"]]
    BY <1>2, <1>8 DEF Leave
  <2>4. client' \in [Clients -> Client]  BY <1>1, <1>2, <2>2, <2>3
  <2> QED  BY <1>3, <1>8, <2>4 DEF Leave, store, Client
<1>9. CASE Begin(c)
  <2>1. ASSUME NEW k \in Keys PROVE [Idle EXCEPT !.pc = "reclaim", !.key = k] \in Client
    BY DEF Idle, Client, Calls
  <2>2. [Idle EXCEPT !.pc = "promote"] \in Client  BY DEF Idle, Client, Calls
  <2>3. client' \in [Clients -> Client]  BY <1>2, <1>9, <2>1, <2>2 DEF Begin
  <2> QED  BY <1>9, <2>3 DEF Begin, store, Client
<1>10. CASE Raise(c)  BY <1>1, <1>2, <1>3, <1>10 DEF Raise, store, Client
<1>11. CASE Die(c)  BY <1>1, <1>2, <1>11, QueueAssumption DEF Die, store, Client
<1>12. CASE Promote(c)  BY <1>2, <1>12 DEF Promote, store, Client
<1> QED  BY <1>4, <1>5, <1>6, <1>7, <1>8, <1>9, <1>10, <1>11, <1>12

\* The steps on items and on the cursor.
ItemStep(c) ==
  \/ ReclaimExpired(c) \/ Enqueue(c) \/ LeaseNext(c) \/ Acknowledge(c) \/ Complete(c)
  \/ Fail(c) \/ Bury(c)
CursorStep(c) == CreateEvent(c) \/ CheckCursor(c) \/ SaveCursor(c)

\* A process that remembers a lease remembers the item it is of.
SeenInv == \A c \in Clients : client[c].lease # None => client[c].seen \in ItemIds


\* The two records that are updated piece by piece keep their types.
LEMMA ClientUpdate ==
  ASSUME NEW s \in Client, NEW i \in ItemIds \cup {None}, NEW l \in Nat \cup {None},
         NEW k \in Keys \cup {None}
  PROVE  /\ [s EXCEPT !.at = "leave", !.key = k, !.seen = i, !.lease = l] \in Client
         /\ [s EXCEPT !.at = "leave", !.seen = i, !.lease = l] \in Client
BY DEF Client

LEMMA ItemUpdate ==
  ASSUME NEW x \in Item
  PROVE  /\ [x EXCEPT !.state = "queued", !.lease = None, !.late = FALSE] \in Item
         /\ [x EXCEPT !.state = "acknowledged"] \in Item
         /\ [x EXCEPT !.state = "completed", !.late = FALSE] \in Item
         /\ \A k \in Keys \cup {None} : [x EXCEPT !.state = "queued", !.key = k] \in Item
         /\ \A n \in Nat :
              [x EXCEPT !.state = "leased", !.late = FALSE, !.epoch = n, !.lease = n] \in Item
BY DEF Item, OpenStates

LEMMA ItemStepType ==
  ASSUME QueueTypeOK, SeenInv, NEW c \in Clients, ItemStep(c)
  PROVE  QueueTypeOK'
<1>1. client \in [Clients -> Client] /\ item \in [ItemIds -> Item] /\ buried \subseteq ItemIds
  BY DEF QueueTypeOK, Client, Item
<1>2. ASSUME NEW i \in ItemIds
      PROVE  /\ item[i].epoch \in Nat /\ item[i].epoch + 1 \in Nat
             /\ item[i].lease \in Nat \cup {None}
  BY <1>1 DEF Item
<1>3. /\ client[c] \in Client /\ client[c].seen \in ItemIds \cup {None}
      /\ client[c].key \in Keys \cup {None}
  BY <1>1 DEF Client
<1>4. client' \in [Clients -> Client]
  <2>1. CASE Enqueue(c)
    <3>1. PICK i \in ItemIds :
            client' = [client EXCEPT ![c] = [@ EXCEPT !.at = "leave", !.key = None, !.seen = i,
                                                !.lease = item[i].lease]]
      BY <2>1 DEF Enqueue, Open
    <3>2. [client[c] EXCEPT !.at = "leave", !.key = None, !.seen = i, !.lease = item[i].lease]
            \in Client
      BY <1>2, <1>3, ClientUpdate
    <3> QED  BY <1>1, <3>1, <3>2
  <2>2. CASE LeaseNext(c)
    <3>1. CASE Goto(c, "leave")  BY <1>1, <3>1 DEF Goto, Client
    <3>2. CASE ~Goto(c, "leave")
      <4>1. PICK i \in ItemIds :
              client' = [client EXCEPT ![c].at = "leave", ![c].seen = i,
                                       ![c].lease = item[i].epoch + 1]
        BY <2>2, <3>2 DEF LeaseNext
      <4> DEFINE n == item[i].epoch + 1
      <4>2. n \in Nat  BY <1>2
      <4>3. client' = [client EXCEPT ![c] = [client[c] EXCEPT !.at = "leave", !.seen = i, !.lease = n]]
        BY <1>1, <4>1
      <4> HIDE DEF n
      <4>4. [client[c] EXCEPT !.at = "leave", !.seen = i, !.lease = n] \in Client
        BY <1>3, <4>2, ClientUpdate
      <4> QED  BY <1>1, <4>3, <4>4
    <3> QED  BY <3>1, <3>2
  <2>3. CASE ReclaimExpired(c) \/ Acknowledge(c)
    <3>1. Goto(c, "leave")  BY <2>3 DEF ReclaimExpired, Acknowledge
    <3> QED  BY <1>1, <3>1 DEF Goto, Client
  <2>4. CASE Complete(c) \/ Fail(c) \/ Bury(c)
    <3>1. CASE Finished(c)
      <4>1. client' = [client EXCEPT ![c] = [client[c] EXCEPT !.at = "leave", !.seen = None, !.lease = None]]
        BY <1>1, <3>1 DEF Finished
      <4>2. [client[c] EXCEPT !.at = "leave", !.seen = None, !.lease = None] \in Client
        BY <1>3, ClientUpdate
      <4> QED  BY <1>1, <4>1, <4>2
    <3>2. CASE Goto(c, "bury")  BY <1>1, <3>2 DEF Goto, Client
    <3> QED  BY <2>4, <3>1, <3>2 DEF Complete, Fail, Bury
  <2> QED  BY <2>1, <2>2, <2>3, <2>4 DEF ItemStep
<1>5. item' \in [ItemIds -> Item]
  <2>1. CASE ReclaimExpired(c)
    <3>1. \A i \in ItemIds : item'[i] = item[i]
                \/ item'[i] = [item[i] EXCEPT !.state = "queued", !.lease = None, !.late = FALSE]
      BY <2>1 DEF ReclaimExpired
    <3>2. \A x \in Item : [x EXCEPT !.state = "queued", !.lease = None, !.late = FALSE] \in Item
      BY ItemUpdate
    <3>3. \A i \in ItemIds : item'[i] \in Item  BY <1>1, <3>1, <3>2
    <3> QED  BY <2>1, <3>3 DEF ReclaimExpired
  <2>2. CASE Enqueue(c)
    <3>1. CASE item' = item  BY <1>1, <3>1
    <3>2. CASE item' # item
      <4>1. PICK i \in ItemIds :
              item' = [item EXCEPT ![i].state = "queued", ![i].key = client[c].key]
        BY <2>2, <3>2 DEF Enqueue
      <4>2. item' = [item EXCEPT ![i] = [item[i] EXCEPT !.state = "queued", !.key = client[c].key]]
        BY <1>1, <4>1
      <4>3. [item[i] EXCEPT !.state = "queued", !.key = client[c].key] \in Item
        BY <1>1, <1>3, ItemUpdate
      <4> QED  BY <1>1, <4>2, <4>3
    <3> QED  BY <3>1, <3>2
  <2>3. CASE LeaseNext(c)
    <3>1. CASE item' = item  BY <1>1, <3>1
    <3>2. CASE item' # item
      <4>1. PICK i \in ItemIds :
              item' = [item EXCEPT ![i] = [@ EXCEPT !.state = "leased", !.late = FALSE,
                         !.epoch = item[i].epoch + 1, !.lease = item[i].epoch + 1]]
        BY <2>3, <3>2 DEF LeaseNext
      <4> DEFINE n == item[i].epoch + 1
      <4>2. item' = [item EXCEPT ![i] = [item[i] EXCEPT !.state = "leased", !.late = FALSE,
                                                       !.epoch = n, !.lease = n]]
        BY <4>1
      <4>3. n \in Nat  BY <1>2
      <4> HIDE DEF n
      <4>4. [item[i] EXCEPT !.state = "leased", !.late = FALSE, !.epoch = n, !.lease = n] \in Item
        BY <1>1, <4>3, ItemUpdate
      <4> QED  BY <1>1, <4>2, <4>4
    <3> QED  BY <3>1, <3>2
  <2>4. CASE Acknowledge(c)
    <3>1. \A i \in ItemIds : [item[i] EXCEPT !.state = "acknowledged"] \in Item
      BY <1>1, ItemUpdate
    <3> QED  BY <1>1, <2>4, <3>1 DEF Acknowledge
  <2>5. CASE Complete(c)
    <3>1. \A i \in ItemIds : [item[i] EXCEPT !.state = "completed", !.late = FALSE] \in Item
      BY <1>1, ItemUpdate
    <3>2. CASE Holds(c)
      <4> DEFINE i == client[c].seen
      <4>1. i \in ItemIds  BY <3>2 DEF Holds, SeenInv
      <4>2. item' = [item EXCEPT ![i] = [item[i] EXCEPT !.state = "completed", !.late = FALSE]]
        BY <1>1, <2>5, <3>2, <4>1 DEF Complete
      <4> QED  BY <1>1, <3>1, <4>1, <4>2
    <3> QED  BY <1>1, <2>5, <3>2 DEF Complete
  <2>6. CASE Fail(c)
    <3>1. \A i \in ItemIds :
            [item[i] EXCEPT !.state = "queued", !.lease = None, !.late = FALSE] \in Item
      BY <1>1, ItemUpdate
    <3> QED  BY <1>1, <2>6, <3>1 DEF Fail
  <2>7. CASE Bury(c)
    <3>1. [NoItem EXCEPT !.state = "gone"] \in Item  BY DEF NoItem, Item
    <3> QED  BY <1>1, <2>7, <3>1 DEF Bury
  <2> QED  BY <2>1, <2>2, <2>3, <2>4, <2>5, <2>6, <2>7 DEF ItemStep
<1>6. buried' \subseteq ItemIds
  <2>1. CASE Fail(c)
    <3>1. client[c].seen \in ItemIds  BY <2>1 DEF Fail, Holds, SeenInv
    <3> QED  BY <1>1, <2>1, <3>1 DEF Fail
  <2>2. CASE ~Fail(c)
    <3>1. buried' = buried
      BY <2>2 DEF ItemStep, ReclaimExpired, Enqueue, LeaseNext, Acknowledge, Complete, Bury
    <3> QED  BY <1>1, <3>1
  <2> QED  BY <2>1, <2>2
<1>7. UNCHANGED <<lock, cursor, crashes>>
  BY DEF ItemStep, ReclaimExpired, Enqueue, LeaseNext, Acknowledge, Complete, Fail, Bury
<1> QED  BY <1>4, <1>5, <1>6, <1>7 DEF QueueTypeOK, Client, Item

LEMMA CursorStepType ==
  ASSUME QueueTypeOK, NEW c \in Clients, CursorStep(c)
  PROVE  QueueTypeOK'
<1> USE DEF QueueTypeOK, Goto
<1>1. client \in [Clients -> Client]  BY DEF Client
<1>2. CASE CreateEvent(c)
  <2> DEFINE n == cursor + 1
  <2>1. n \in Nat  OBVIOUS
  <2>2. client' = [client EXCEPT ![c] = [client[c] EXCEPT !.at = "check", !.seq = n]]
    BY <1>1, <1>2 DEF CreateEvent
  <2> HIDE DEF n
  <2>3. [client[c] EXCEPT !.at = "check", !.seq = n] \in Client  BY <1>1, <2>1 DEF Client
  <2>4. client' \in [Clients -> Client]  BY <1>1, <2>2, <2>3
  <2> QED  BY <1>2, <2>4 DEF CreateEvent, store, Client
<1>3. CASE CheckCursor(c)  BY <1>1, <1>3 DEF CheckCursor, store, Client
<1>4. CASE SaveCursor(c)
  <2>1. client[c].seq \in Nat  BY <1>1 DEF Client
  <2>2. [client[c] EXCEPT !.at = "leave"] \in Client  BY <1>1 DEF Client
  <2>3. client' = [client EXCEPT ![c] = [client[c] EXCEPT !.at = "leave"]]  BY <1>1, <1>4 DEF SaveCursor
  <2>4. client' \in [Clients -> Client]  BY <1>1, <2>2, <2>3
  <2> QED  BY <1>4, <2>1, <2>4 DEF SaveCursor, Client
<1> QED  BY <1>2, <1>3, <1>4 DEF CursorStep

\* One daemon starts orchestrators at a time: what its instance lock is for
\* (SupervisorProofs).  Its successor after a crash is the same process here.
OneStarter == \A s, t \in Starters : s = t

\* An item without a holder has no lease.
LeaseInv == \A i \in ItemIds : item[i].state \in {"none", "queued", "gone"} => item[i].lease = None

\* Only a starter looks at items.
CallInv ==
  \A c \in Clients :
    /\ client[c].pc \in {"reclaim", "enqueue", "lease", "acknowledge", "finish"} => c \in Starters
    /\ client[c].pc = "reclaim" => client[c].lease = None
    /\ client[c].at = "bury" => c \in Starters /\ client[c].seen \in ItemIds

\* Whoever still has the lease it remembers has an item that is leased or
\* acknowledged: an item that was completed would keep its lease.
HoldInv == \A c \in Starters : Holds(c) => item[client[c].seen].state \in {"leased", "acknowledged"}

\* The property, without its cardinality.
UniqueInv == \A k \in Keys : \A i, j \in Open(k) : i = j

OpenInv == LeaseInv /\ CallInv /\ HoldInv /\ UniqueInv

\* A step inside a section leaves the lock files and the other processes alone.
LEMMA SectionStays ==
  ASSUME QueueTypeOK, NEW c \in Clients, ItemStep(c) \/ CursorStep(c) \/ Promote(c)
  PROVE  /\ lock' = lock
         /\ client[c].at \in InSection /\ client'[c].at \in InSection
         /\ client'[c].pc = client[c].pc
         /\ \A d \in Clients : d # c => client'[d] = client[d]
<1>0. client \in [Clients -> Client]  BY DEF QueueTypeOK, Client
<1>1. ASSUME NEW at \in InSection, Goto(c, at)
      PROVE  /\ client'[c].at = at /\ client'[c].pc = client[c].pc
             /\ \A d \in Clients : d # c => client'[d] = client[d]
  BY <1>0, <1>1 DEF Goto, Client
<1>2. ASSUME Finished(c)
      PROVE  /\ client'[c].at = "leave" /\ client'[c].pc = client[c].pc
             /\ \A d \in Clients : d # c => client'[d] = client[d]
  BY <1>0, <1>2 DEF Finished, Client
<1>3. CASE ReclaimExpired(c) \/ Acknowledge(c) \/ Promote(c)
  BY <1>1, <1>3 DEF ReclaimExpired, Acknowledge, Promote, Inside, InSection
<1>4. CASE Enqueue(c)
  <2>1. PICK i \in ItemIds :
          client' = [client EXCEPT ![c] = [@ EXCEPT !.at = "leave", !.key = None, !.seen = i,
                                              !.lease = item[i].lease]]
    BY <1>4 DEF Enqueue, Open
  <2> QED  BY <1>0, <1>4, <2>1 DEF Enqueue, Inside, InSection, Client
<1>5. CASE LeaseNext(c)
  <2>1. CASE Goto(c, "leave")  BY <1>1, <1>5, <2>1 DEF LeaseNext, Inside, InSection
  <2>2. CASE ~Goto(c, "leave")
    <3>1. PICK i \in ItemIds :
            client' = [client EXCEPT ![c].at = "leave", ![c].seen = i,
                                     ![c].lease = item[i].epoch + 1]
      BY <1>5, <2>2 DEF LeaseNext
    <3> DEFINE n == item[i].epoch + 1
    <3>2. client' = [client EXCEPT ![c] = [client[c] EXCEPT !.at = "leave", !.seen = i, !.lease = n]]
      BY <1>0, <3>1
    <3> HIDE DEF n
    <3>3. /\ client'[c].at = "leave" /\ client'[c].pc = client[c].pc
          /\ \A d \in Clients : d # c => client'[d] = client[d]
      BY <1>0, <3>2 DEF Client
    <3> QED  BY <1>5, <3>3 DEF LeaseNext, Inside, InSection
  <2> QED  BY <2>1, <2>2
<1>6. CASE Complete(c) \/ Fail(c) \/ Bury(c)
  BY <1>1, <1>2, <1>6 DEF Complete, Fail, Bury, Inside, InSection
<1>7. CASE CreateEvent(c)
  <2> DEFINE n == cursor + 1
  <2>1. client' = [client EXCEPT ![c].at = "check", ![c].seq = n]  BY <1>7 DEF CreateEvent
  <2> HIDE DEF n
  <2> QED  BY <1>0, <1>7, <2>1 DEF CreateEvent, Inside, InSection, Client
<1>8. CASE CheckCursor(c) \/ SaveCursor(c)
  BY <1>1, <1>8 DEF CheckCursor, SaveCursor, InSection
<1> QED  BY <1>3, <1>4, <1>5, <1>6, <1>7, <1>8 DEF ItemStep, CursorStep

LEMMA LockStep ==
  ASSUME SoleBreaker, QueueTypeOK, QueueTypeOK', LockInv, NEW c \in Clients,
         Begin(c) \/ Section(c) \/ JudgeStale(c) \/ BreakLock(c) \/ GiveUp(c) \/ Die(c)
  PROVE  LockInv'
<1>0. /\ client \in [Clients -> Client] /\ client' \in [Clients -> Client]
      /\ lock \in [Locks -> Clients \cup {None, Orphan}]
      /\ \A s : LockOf(s) \in Locks
  BY DEF QueueTypeOK, Client, LockOf, Locks
<1>1. CASE ItemStep(c) \/ CursorStep(c) \/ Promote(c)
  BY <1>0, <1>1, SectionStays DEF LockInv, InSection
<1>2. CASE Enter(c)
  <2>1. /\ client'[c].at = "in" /\ client'[c].pc = client[c].pc
        /\ \A d \in Clients : d # c => client'[d] = client[d]
    BY <1>0, <1>2 DEF Enter, Goto, Client
  <2>2. /\ lock'[LockOf(client[c].pc)] = c
        /\ \A n \in Locks : lock[n] # None => lock'[n] = lock[n]
    BY <1>0, <1>2 DEF Enter
  <2> QED  BY <1>0, <2>1, <2>2, Somebody, QueueAssumption DEF LockInv, InSection
<1>3. CASE JudgeStale(c)
  <2>1. /\ client'[c].at = "break" /\ client'[c].pc = client[c].pc /\ lock' = lock
        /\ \A d \in Clients : d # c => client'[d] = client[d]
    BY <1>0, <1>3 DEF JudgeStale, Goto, Client
  <2> QED  BY <1>0, <1>3, <2>1 DEF JudgeStale, LockInv, InSection
<1>4. CASE BreakLock(c)
  <2>1. /\ client'[c].at = "want" /\ client'[c].pc = client[c].pc
        /\ \A d \in Clients : d # c => client'[d] = client[d]
    BY <1>0, <1>4 DEF BreakLock, Goto, Client
  <2>2. \A n \in Locks : n # LockOf(client[c].pc) => lock'[n] = lock[n]
    BY <1>0, <1>4 DEF BreakLock
  <2> QED  BY <1>0, <1>4, <2>1, <2>2, Somebody DEF BreakLock, LockInv, InSection
<1>5. CASE Leave(c) \/ Raise(c)
  <2>1. /\ client'[c].at = "want" /\ \A d \in Clients : d # c => client'[d] = client[d]
    <3>1. CASE Raise(c)  BY <1>0, <3>1 DEF Raise, Idle
    <3>2. CASE Leave(c)
      <4> DEFINE next == [client[c] EXCEPT !.pc = After(c), !.at = "want"]
      <4>1. client' = [client EXCEPT ![c] = IF After(c) = "idle" THEN Idle ELSE next]
        BY <3>2 DEF Leave
      <4>2. next.at = "want"  BY <1>0 DEF Client
      <4> HIDE DEF next
      <4> QED  BY <1>0, <4>1, <4>2 DEF Idle
    <3> QED  BY <1>5, <3>1, <3>2
  <2>2. \A n \in Locks : n # LockOf(client[c].pc) => lock'[n] = lock[n]
    BY <1>0, <1>5 DEF Leave, Raise
  <2>3. lock[LockOf(client[c].pc)] = c  BY <1>5 DEF Leave, Raise, LockInv, InSection
  <2> QED  BY <1>0, <2>1, <2>2, <2>3, Somebody DEF LockInv, InSection
<1>6. CASE Begin(c) \/ GiveUp(c)
  <2>1. client[c].pc = "idle" \/ client[c].at = "want"  BY <1>6 DEF Begin, GiveUp
  <2>2. client'[c].at = "want" /\ lock' = lock /\ \A d \in Clients : d # c => client'[d] = client[d]
    <3>1. CASE GiveUp(c)  BY <1>0, <3>1 DEF GiveUp, Idle
    <3>2. CASE Begin(c)
      <4>1. PICK s \in {Idle} \cup {[Idle EXCEPT !.pc = "reclaim", !.key = k] : k \in Keys}
                        \cup {[Idle EXCEPT !.pc = "promote"]} :
              client' = [client EXCEPT ![c] = s]
        BY <3>2 DEF Begin
      <4>2. \A k \in Keys : [Idle EXCEPT !.pc = "reclaim", !.key = k].at = "want"  BY DEF Idle
      <4>3. Idle.at = "want" /\ [Idle EXCEPT !.pc = "promote"].at = "want"  BY DEF Idle
      <4>4. s.at = "want"  BY <4>1, <4>2, <4>3
      <4> QED  BY <1>0, <3>2, <4>1, <4>4 DEF Begin
    <3> QED  BY <1>6, <3>1, <3>2
  <2> QED  BY <1>0, <2>2 DEF LockInv, InSection
<1>7. CASE Die(c)
  <2>1. client'[c].at = "want" /\ \A d \in Clients : d # c => client'[d] = client[d]
    BY <1>0, <1>7 DEF Die, Idle
  <2>2. \A n \in Locks : lock[n] # c => lock'[n] = lock[n]  BY <1>0, <1>7 DEF Die
  <2> QED  BY <1>0, <2>1, <2>2, Somebody DEF LockInv, InSection
<1> QED  BY <1>1, <1>2, <1>3, <1>4, <1>5, <1>6, <1>7 DEF Section, ItemStep, CursorStep

\* What only an item's lease can do to a process: nothing.
LEMMA ExpireStep ==
  ASSUME QueueTypeOK, NEW i \in ItemIds, Expire(i)
  PROVE  QueueTypeOK' /\ UNCHANGED <<client, lock>>
<1>1. item \in [ItemIds -> Item]  BY DEF QueueTypeOK, Item
<1>2. item' \in [ItemIds -> Item]  BY <1>1 DEF Expire, Item
<1> QED  BY <1>2 DEF Expire, QueueTypeOK, Item

\* What a step does to what a process remembers of items: a new call remembers
\* nothing, enqueue and lease remember an item, the last step forgets it.
LEMMA Remembered ==
  ASSUME QueueTypeOK, NEW c \in Clients,
         Begin(c) \/ Section(c) \/ JudgeStale(c) \/ BreakLock(c) \/ GiveUp(c) \/ Die(c)
  PROVE  /\ \A d \in Clients : d # c => client'[d] = client[d]
         /\ \/ client'[c].seen = client[c].seen /\ client'[c].lease = client[c].lease
            \/ client'[c].lease = None
            \/ Enqueue(c) /\ \E i \in ItemIds :
                 client'[c].seen = i /\ client'[c].lease = item[i].lease
            \/ LeaseNext(c) /\ \E i \in ItemIds :
                 /\ item[i].state = "queued"
                 /\ item' = [item EXCEPT ![i] = [@ EXCEPT !.state = "leased", !.late = FALSE,
                               !.epoch = item[i].epoch + 1, !.lease = item[i].epoch + 1]]
                 /\ client'[c].seen = i /\ client'[c].lease = item[i].epoch + 1
<1>0. client \in [Clients -> Client] /\ item \in [ItemIds -> Item]
  BY DEF QueueTypeOK, Client, Item
<1>1. ASSUME NEW at, Goto(c, at)
      PROVE  /\ client'[c].seen = client[c].seen /\ client'[c].lease = client[c].lease
             /\ \A d \in Clients : d # c => client'[d] = client[d]
  BY <1>0, <1>1 DEF Goto, Client
<1>2. CASE \/ ReclaimExpired(c) \/ Acknowledge(c) \/ Promote(c) \/ CheckCursor(c) \/ SaveCursor(c)
           \/ Enter(c) \/ JudgeStale(c) \/ BreakLock(c)
  BY <1>1, <1>2 DEF ReclaimExpired, Acknowledge, Promote, CheckCursor, SaveCursor, Enter,
                    JudgeStale, BreakLock
<1>3. CASE Raise(c) \/ GiveUp(c) \/ Die(c)
  <2>1. client' = [client EXCEPT ![c] = Idle]  BY <1>3 DEF Raise, GiveUp, Die
  <2>2. Idle.lease = None  BY DEF Idle
  <2> QED  BY <1>0, <2>1, <2>2
<1>4. CASE Leave(c)
  <2> DEFINE next == [client[c] EXCEPT !.pc = After(c), !.at = "want"]
  <2>1. client' = [client EXCEPT ![c] = IF After(c) = "idle" THEN Idle ELSE next]
    BY <1>4 DEF Leave
  <2>2. next.seen = client[c].seen /\ next.lease = client[c].lease  BY <1>0 DEF Client
  <2> HIDE DEF next
  <2> QED  BY <1>0, <2>1, <2>2 DEF Idle
<1>5. CASE Begin(c)
  <2>1. \A k \in Keys : [Idle EXCEPT !.pc = "reclaim", !.key = k].lease = None  BY DEF Idle
  <2>2. [Idle EXCEPT !.pc = "promote"].lease = None  BY DEF Idle
  <2> QED  BY <1>0, <1>5, <2>1, <2>2 DEF Begin
<1>6. CASE Enqueue(c)
  <2>1. PICK i \in ItemIds :
          client' = [client EXCEPT ![c] = [@ EXCEPT !.at = "leave", !.key = None, !.seen = i,
                                              !.lease = item[i].lease]]
    BY <1>6 DEF Enqueue, Open
  <2>2. client'[c].seen = i /\ client'[c].lease = item[i].lease  BY <1>0, <2>1 DEF Client
  <2> QED  BY <1>0, <1>6, <2>1, <2>2
<1>7. CASE LeaseNext(c)
  <2>1. CASE Goto(c, "leave")  BY <1>1, <2>1
  <2>2. CASE ~Goto(c, "leave")
    <3>1. PICK i \in ItemIds :
            /\ item[i].state = "queued"
            /\ item' = [item EXCEPT ![i] = [@ EXCEPT !.state = "leased", !.late = FALSE,
                          !.epoch = item[i].epoch + 1, !.lease = item[i].epoch + 1]]
            /\ client' = [client EXCEPT ![c].at = "leave", ![c].seen = i,
                                        ![c].lease = item[i].epoch + 1]
      BY <1>7, <2>2 DEF LeaseNext
    <3> DEFINE n == item[i].epoch + 1
    <3>2. client' = [client EXCEPT ![c] = [client[c] EXCEPT !.at = "leave", !.seen = i, !.lease = n]]
      BY <1>0, <3>1
    <3> HIDE DEF n
    <3>3. /\ client'[c].seen = i /\ client'[c].lease = n
          /\ \A d \in Clients : d # c => client'[d] = client[d]
      BY <1>0, <3>2 DEF Client
    <3> QED  BY <1>7, <3>1, <3>3 DEF n
  <2> QED  BY <2>1, <2>2
<1>8. CASE Complete(c) \/ Bury(c) \/ Fail(c)
  <2>1. CASE Finished(c)
    <3>1. client' = [client EXCEPT ![c] = [client[c] EXCEPT !.at = "leave", !.seen = None, !.lease = None]]
      BY <1>0, <2>1 DEF Finished
    <3> QED  BY <1>0, <3>1 DEF Client
  <2>2. CASE Goto(c, "bury")  BY <1>1, <2>2
  <2> QED  BY <1>8, <2>1, <2>2 DEF Complete, Bury, Fail
<1>9. CASE CreateEvent(c)
  <2> DEFINE n == cursor + 1
  <2>1. client' = [client EXCEPT ![c] = [client[c] EXCEPT !.at = "check", !.seq = n]]
    BY <1>0, <1>9 DEF CreateEvent
  <2> HIDE DEF n
  <2> QED  BY <1>0, <2>1 DEF Client
<1> QED  BY <1>2, <1>3, <1>4, <1>5, <1>6, <1>7, <1>8, <1>9 DEF Section

LEMMA QueueInductive == Init /\ [][Next]_vars => [](QueueTypeOK /\ SeenInv)
<1>1. Init => QueueTypeOK /\ SeenInv
  BY QueueTypeInit DEF Init, SeenInv, Idle
<1>2. QueueTypeOK /\ SeenInv /\ [Next]_vars => (QueueTypeOK /\ SeenInv)'
  <2> SUFFICES ASSUME QueueTypeOK, SeenInv, [Next]_vars PROVE (QueueTypeOK /\ SeenInv)'
    OBVIOUS
  <2>1. CASE UNCHANGED vars
    BY <2>1 DEF vars, store, QueueTypeOK, SeenInv, OpenStates
  <2>2. ASSUME NEW c \in Clients,
               Begin(c) \/ Section(c) \/ JudgeStale(c) \/ BreakLock(c) \/ GiveUp(c) \/ Die(c)
        PROVE  (QueueTypeOK /\ SeenInv)'
    <3>1. QueueTypeOK'
      BY <2>2, LockStepType, ItemStepType, CursorStepType DEF Section, ItemStep, CursorStep
    <3>2. SeenInv'
      BY <2>2, Remembered DEF SeenInv
    <3> QED  BY <3>1, <3>2
  <2>3. ASSUME NEW i \in ItemIds, Expire(i) PROVE (QueueTypeOK /\ SeenInv)'
    BY <2>3, ExpireStep DEF SeenInv
  <2> QED  BY <2>1, <2>2, <2>3 DEF Next
<1> QED  BY <1>1, <1>2, PTL

\* The items, the processes, the lock files and the cursor of the supervisor's
\* queue keep their types, whatever dies and whatever lock is taken away.
THEOREM QueueTypeCorrect == Spec => []QueueTypeOK
BY QueueInductive, PTL DEF Spec

\* At most one process works under queue.lock, and one under journal.lock, as
\* long as nobody judges a lock file stale while another is about to unlink it.
THEOREM LockExcludes == SoleBreaker /\ Spec => []LockIsExclusive
<1> SUFFICES ASSUME SoleBreaker PROVE Spec => []LockIsExclusive  OBVIOUS
<1>1. Init => LockInv  BY DEF Init, LockInv, Idle, InSection
<1>2. QueueTypeOK /\ QueueTypeOK' /\ LockInv /\ [Next]_vars => LockInv'
  <2> SUFFICES ASSUME QueueTypeOK, QueueTypeOK', LockInv, [Next]_vars PROVE LockInv'
    OBVIOUS
  <2>1. CASE UNCHANGED vars  BY <2>1 DEF vars, LockInv
  <2>2. CASE \E i \in ItemIds : Expire(i)  BY <2>2, ExpireStep DEF LockInv
  <2> QED  BY <2>1, <2>2, LockStep DEF Next
<1>3. LockInv => LockIsExclusive
  BY DEF LockInv, LockIsExclusive, InSection
<1> QED  BY <1>1, <1>2, <1>3, QueueInductive, PTL DEF Spec

-----------------------------------------------------------------------------
(* SupervisorQueue: one open item for a key *)

\* An item that is open after a step was open before it, with the same key.
Keeps(i) == item'[i].state \in OpenStates =>
              item[i].state \in OpenStates /\ item'[i].key = item[i].key

\* Only enqueue opens an item, and no step leaves a lease where nobody has it.
LEMMA ItemsKept ==
  ASSUME QueueTypeOK, SeenInv, OpenInv, NEW c \in Clients, ItemStep(c)
  PROVE  c \in Starters /\ LeaseInv' /\ (Enqueue(c) \/ \A i \in ItemIds : Keeps(i))
<1>0. item \in [ItemIds -> Item] /\ LeaseInv  BY DEF QueueTypeOK, Item, OpenInv
<1>1. c \in Starters
  BY DEF OpenInv, CallInv, ItemStep, ReclaimExpired, Enqueue, LeaseNext, Acknowledge, Complete,
         Fail, Bury, Inside
<1>2. CASE ReclaimExpired(c)
  <2>1. ASSUME NEW i \in ItemIds
        PROVE  Keeps(i) /\ (item'[i].state \in {"none", "queued", "gone"} => item'[i].lease = None)
    <3>1. item[i] \in Item  BY <1>0
    <3>2. CASE item[i].state \in {"leased", "acknowledged"} /\ item[i].late
      <4>1. item'[i] = [item[i] EXCEPT !.state = "queued", !.lease = None, !.late = FALSE]
        BY <1>2, <3>2 DEF ReclaimExpired
      <4> QED  BY <3>1, <3>2, <4>1 DEF Keeps, OpenStates, Item
    <3>3. CASE ~(item[i].state \in {"leased", "acknowledged"} /\ item[i].late)
      <4>1. item'[i] = item[i]  BY <1>2, <3>3 DEF ReclaimExpired
      <4> QED  BY <1>0, <4>1 DEF Keeps, LeaseInv
    <3> QED  BY <3>2, <3>3
  <2> QED  BY <1>1, <2>1 DEF LeaseInv
<1>3. CASE item' = item  BY <1>0, <1>1, <1>3 DEF LeaseInv, Keeps
<1>4. CASE Enqueue(c) /\ item' # item
  <2>1. PICK i \in ItemIds :
          /\ item[i].state = "none"
          /\ item' = [item EXCEPT ![i].state = "queued", ![i].key = client[c].key]
    BY <1>4 DEF Enqueue
  <2>2. item' = [item EXCEPT ![i] = [item[i] EXCEPT !.state = "queued", !.key = client[c].key]]
    BY <1>0, <2>1
  <2>3. item[i].lease = None  BY <1>0, <2>1 DEF LeaseInv
  <2>4. LeaseInv'  BY <1>0, <2>2, <2>3 DEF LeaseInv, Item
  <2> QED  BY <1>1, <1>4, <2>4
<1>5. CASE LeaseNext(c) /\ item' # item
  <2>1. PICK i \in ItemIds :
          /\ item[i].state = "queued"
          /\ item' = [item EXCEPT ![i] = [@ EXCEPT !.state = "leased", !.late = FALSE,
                        !.epoch = item[i].epoch + 1, !.lease = item[i].epoch + 1]]
    BY <1>5 DEF LeaseNext
  <2> DEFINE n == item[i].epoch + 1
             x == [item[i] EXCEPT !.state = "leased", !.late = FALSE, !.epoch = n, !.lease = n]
  <2>2. item' = [item EXCEPT ![i] = x]  BY <2>1
  <2> HIDE DEF n
  <2>3. x.state = "leased" /\ x.key = item[i].key  BY <1>0 DEF Item
  <2> HIDE DEF x
  <2> QED  BY <1>0, <1>1, <2>1, <2>2, <2>3 DEF LeaseInv, Keeps, OpenStates
<1>6. CASE Acknowledge(c) /\ item' # item
  <2> DEFINE i == client[c].seen
             x == [item[i] EXCEPT !.state = "acknowledged"]
  <2>1. Holds(c) /\ i \in ItemIds  BY <1>6 DEF Acknowledge, Holds, SeenInv
  <2>2. item' = [item EXCEPT ![i] = x]  BY <1>0, <1>6, <2>1 DEF Acknowledge
  <2>3. x.state = "acknowledged" /\ x.key = item[i].key  BY <1>0, <2>1 DEF Item
  <2>4. item[i].state \in OpenStates  BY <1>1, <2>1 DEF OpenInv, HoldInv, OpenStates
  <2> HIDE DEF x
  <2> QED  BY <1>0, <1>1, <2>1, <2>2, <2>3, <2>4 DEF LeaseInv, Keeps
<1>7. CASE Complete(c) /\ item' # item
  <2> DEFINE i == client[c].seen
             x == [item[i] EXCEPT !.state = "completed", !.late = FALSE]
  <2>1. Holds(c) /\ i \in ItemIds  BY <1>7 DEF Complete, Holds, SeenInv
  <2>2. item' = [item EXCEPT ![i] = x]  BY <1>0, <1>7, <2>1 DEF Complete
  <2>3. x.state = "completed"  BY <1>0, <2>1 DEF Item
  <2> HIDE DEF x
  <2> QED  BY <1>0, <1>1, <2>1, <2>2, <2>3 DEF LeaseInv, Keeps, OpenStates
<1>8. CASE Fail(c) /\ item' # item
  <2> DEFINE i == client[c].seen
             x == [item[i] EXCEPT !.state = "queued", !.lease = None, !.late = FALSE]
  <2>1. Holds(c) /\ i \in ItemIds  BY <1>8 DEF Fail, Holds, SeenInv
  <2>2. item' = [item EXCEPT ![i] = x]  BY <1>0, <1>8, <2>1 DEF Fail
  <2>3. x.state = "queued" /\ x.lease = None /\ x.key = item[i].key  BY <1>0, <2>1 DEF Item
  <2>4. item[i].state \in OpenStates  BY <1>1, <2>1 DEF OpenInv, HoldInv, OpenStates
  <2> HIDE DEF x
  <2> QED  BY <1>0, <1>1, <2>1, <2>2, <2>3, <2>4 DEF LeaseInv, Keeps
<1>9. CASE Bury(c)
  <2> DEFINE x == [NoItem EXCEPT !.state = "gone"]
  <2>1. client[c].seen \in ItemIds  BY <1>9 DEF Bury, OpenInv, CallInv
  <2>2. x.state = "gone" /\ x.lease = None  BY DEF NoItem
  <2>3. item' = [item EXCEPT ![client[c].seen] = x]  BY <1>9 DEF Bury
  <2> HIDE DEF x
  <2> QED  BY <1>0, <1>1, <2>1, <2>2, <2>3 DEF LeaseInv, Keeps, OpenStates
<1> QED  BY <1>2, <1>3, <1>4, <1>5, <1>6, <1>7, <1>8, <1>9 DEF ItemStep

\* A call follows another, so that only a starter comes to a call on items.
LEMMA CallStep ==
  ASSUME QueueTypeOK, SeenInv, CallInv, NEW c \in Clients,
         Begin(c) \/ Section(c) \/ JudgeStale(c) \/ BreakLock(c) \/ GiveUp(c) \/ Die(c)
  PROVE  CallInv'
<1> DEFINE OnItems == {"reclaim", "enqueue", "lease", "acknowledge", "finish"}
<1>0. client \in [Clients -> Client]  BY DEF QueueTypeOK, Client
<1>1. \A d \in Clients : d # c => client'[d] = client[d]  BY Remembered
<1> SUFFICES /\ client'[c].pc \in OnItems => c \in Starters
             /\ client'[c].pc = "reclaim" => client'[c].lease = None
             /\ client'[c].at = "bury" => c \in Starters /\ client'[c].seen \in ItemIds
  BY <1>1 DEF CallInv
<1>2. ASSUME NEW at \in {"want", "break", "in", "check", "save", "leave"}, Goto(c, at)
      PROVE  /\ client'[c].at = at /\ client'[c].pc = client[c].pc
             /\ client'[c].lease = client[c].lease
  BY <1>0, <1>2 DEF Goto, Client
<1>3. CASE \/ ReclaimExpired(c) \/ Acknowledge(c) \/ Promote(c) \/ CheckCursor(c) \/ SaveCursor(c)
           \/ Enter(c) \/ JudgeStale(c) \/ BreakLock(c)
  <2>1. \E at \in {"want", "break", "in", "check", "save", "leave"} : Goto(c, at)
    BY <1>3 DEF ReclaimExpired, Acknowledge, Promote, CheckCursor, SaveCursor, Enter, JudgeStale,
                BreakLock
  <2> QED  BY <1>2, <2>1 DEF CallInv
<1>4. CASE Raise(c) \/ GiveUp(c) \/ Die(c)
  <2>1. client' = [client EXCEPT ![c] = Idle]  BY <1>4 DEF Raise, GiveUp, Die
  <2>2. Idle.pc = "idle" /\ Idle.at = "want"  BY DEF Idle
  <2> QED  BY <1>0, <2>1, <2>2
<1>5. CASE Begin(c)
  <2>1. CASE c \in Starters /\ \E k \in Keys :
               client' = [client EXCEPT ![c] = [Idle EXCEPT !.pc = "reclaim", !.key = k]]
    <3>1. \A k \in Keys : /\ [Idle EXCEPT !.pc = "reclaim", !.key = k].lease = None
                          /\ [Idle EXCEPT !.pc = "reclaim", !.key = k].at = "want"
      BY DEF Idle
    <3> QED  BY <1>0, <2>1, <3>1
  <2>2. CASE client' = [client EXCEPT ![c] = [Idle EXCEPT !.pc = "promote"]]
    BY <1>0, <2>2 DEF Idle
  <2> QED  BY <1>5, <2>1, <2>2 DEF Begin
<1>6. CASE Leave(c)
  <2> DEFINE next == [client[c] EXCEPT !.pc = After(c), !.at = "want"]
  <2>1. client' = [client EXCEPT ![c] = IF After(c) = "idle" THEN Idle ELSE next]
    BY <1>6 DEF Leave
  <2>2. /\ next.at = "want" /\ next.pc = After(c) /\ Idle.at = "want" /\ Idle.pc = "idle"
    BY <1>0 DEF Client, Idle
  <2>3. /\ After(c) \in OnItems => client[c].pc \in OnItems
        /\ After(c) # "reclaim"
    BY DEF After
  <2> HIDE DEF next
  <2>4. client'[c].at = "want" /\ (client'[c].pc = "idle" \/ client'[c].pc = After(c))
    BY <1>0, <2>1, <2>2
  <2> QED  BY <2>3, <2>4 DEF CallInv
<1>7. CASE Enqueue(c)
  <2>1. PICK i \in ItemIds :
          client' = [client EXCEPT ![c] = [@ EXCEPT !.at = "leave", !.key = None, !.seen = i,
                                              !.lease = item[i].lease]]
    BY <1>7 DEF Enqueue, Open
  <2>2. client'[c].at = "leave" /\ client'[c].pc = client[c].pc  BY <1>0, <2>1 DEF Client
  <2> QED  BY <1>7, <2>2 DEF Enqueue, Inside, CallInv
<1>8. CASE LeaseNext(c)
  <2>1. CASE Goto(c, "leave")  BY <1>2, <2>1 DEF CallInv
  <2>2. CASE ~Goto(c, "leave")
    <3>1. PICK i \in ItemIds :
            client' = [client EXCEPT ![c].at = "leave", ![c].seen = i,
                                     ![c].lease = item[i].epoch + 1]
      BY <1>8, <2>2 DEF LeaseNext
    <3> DEFINE n == item[i].epoch + 1
    <3>2. client' = [client EXCEPT ![c] = [client[c] EXCEPT !.at = "leave", !.seen = i, !.lease = n]]
      BY <1>0, <3>1
    <3> HIDE DEF n
    <3>3. client'[c].at = "leave" /\ client'[c].pc = client[c].pc  BY <1>0, <3>2 DEF Client
    <3> QED  BY <1>8, <3>3 DEF LeaseNext, Inside, CallInv
  <2> QED  BY <2>1, <2>2
<1>9. CASE Complete(c) \/ Bury(c) \/ Fail(c)
  <2>1. CASE Finished(c)
    <3>1. client' = [client EXCEPT ![c] = [client[c] EXCEPT !.at = "leave", !.seen = None, !.lease = None]]
      BY <1>0, <2>1 DEF Finished
    <3>2. client'[c].at = "leave" /\ client'[c].pc = client[c].pc /\ client'[c].lease = None
      BY <1>0, <3>1 DEF Client
    <3> QED  BY <3>2 DEF CallInv
  <2>2. CASE Fail(c) /\ Goto(c, "bury")
    <3>1. client'[c].pc = client[c].pc /\ client'[c].seen = client[c].seen
      BY <1>0, <2>2 DEF Goto, Client
    <3> QED  BY <2>2, <3>1 DEF Fail, Inside, Holds, SeenInv, CallInv
  <2> QED  BY <1>9, <2>1, <2>2 DEF Complete, Bury, Fail
<1>10. CASE CreateEvent(c)
  <2> DEFINE n == cursor + 1
  <2>1. client' = [client EXCEPT ![c] = [client[c] EXCEPT !.at = "check", !.seq = n]]
    BY <1>0, <1>10 DEF CreateEvent
  <2> HIDE DEF n
  <2>2. client'[c].at = "check" /\ client'[c].pc = client[c].pc /\ client'[c].lease = client[c].lease
    BY <1>0, <2>1 DEF Client
  <2> QED  BY <2>2 DEF CallInv
<1> QED  BY <1>3, <1>4, <1>5, <1>6, <1>7, <1>8, <1>9, <1>10 DEF Section

LEMMA HoldStep ==
  ASSUME OneStarter, QueueTypeOK, QueueTypeOK', SeenInv, OpenInv, NEW c \in Clients,
         Begin(c) \/ Section(c) \/ JudgeStale(c) \/ BreakLock(c) \/ GiveUp(c) \/ Die(c)
  PROVE  HoldInv'
<1>0. /\ item \in [ItemIds -> Item] /\ item' \in [ItemIds -> Item]
      /\ client \in [Clients -> Client] /\ client' \in [Clients -> Client]
  BY DEF QueueTypeOK, Item, Client
<1>1. CASE item' = item
  <2> SUFFICES ASSUME NEW d \in Starters, Holds(d)'
               PROVE  item[client'[d].seen].state \in {"leased", "acknowledged"}
    BY <1>1 DEF HoldInv
  <2>1. d \in Clients  BY DEF Clients
  <2>2. CASE client'[d].seen = client[d].seen /\ client'[d].lease = client[d].lease
    <3>1. Holds(d)  BY <1>1, <2>2 DEF Holds
    <3> QED  BY <2>2, <3>1 DEF OpenInv, HoldInv
  <2>3. CASE client'[d].lease = None  BY <2>3 DEF Holds
  <2>4. CASE d = c /\ Enqueue(c)
    <3>1. PICK i \in ItemIds :
            /\ i \in Open(client[c].key) \/ item[i].state = "none"
            /\ client' = [client EXCEPT ![c] = [@ EXCEPT !.at = "leave", !.key = None, !.seen = i,
                                                !.lease = item[i].lease]]
      BY <2>4 DEF Enqueue, Open
    <3>2. client'[c].seen = i /\ client'[c].lease = item[i].lease  BY <1>0, <3>1 DEF Client
    <3>3. item[i].lease # None  BY <2>4, <3>2 DEF Holds
    <3> QED  BY <2>4, <3>1, <3>2, <3>3 DEF Open, OpenStates, OpenInv, LeaseInv
  <2>5. CASE d = c /\ LeaseNext(c) /\ \E i \in ItemIds :
               /\ item[i].state = "queued"
               /\ item' = [item EXCEPT ![i] = [@ EXCEPT !.state = "leased", !.late = FALSE,
                             !.epoch = item[i].epoch + 1, !.lease = item[i].epoch + 1]]
    <3>1. PICK i \in ItemIds :
            /\ item[i].state = "queued"
            /\ item' = [item EXCEPT ![i] = [@ EXCEPT !.state = "leased", !.late = FALSE,
                          !.epoch = item[i].epoch + 1, !.lease = item[i].epoch + 1]]
      BY <2>5
    <3> DEFINE n == item[i].epoch + 1
               x == [item[i] EXCEPT !.state = "leased", !.late = FALSE, !.epoch = n, !.lease = n]
    <3>2. item' = [item EXCEPT ![i] = x]  BY <3>1
    <3> HIDE DEF n
    <3>3. x.state = "leased"  BY <1>0 DEF Item
    <3> HIDE DEF x
    <3> QED  BY <1>0, <1>1, <3>1, <3>2, <3>3
  <2> QED  BY <2>1, <2>2, <2>3, <2>4, <2>5, Remembered
<1>2. CASE item' # item
  <2>1. ItemStep(c)
    BY <1>2 DEF Section, ItemStep, Enter, Leave, Promote, CreateEvent, CheckCursor, SaveCursor,
                Raise, Begin, JudgeStale, BreakLock, GiveUp, Die, store
  <2>2. c \in Starters /\ LeaseInv  BY <2>1, ItemsKept DEF OpenInv
  <2>3. \A d \in Starters : d = c  BY <2>2 DEF OneStarter
  <2> SUFFICES ASSUME Holds(c)'
               PROVE  item'[client'[c].seen].state \in {"leased", "acknowledged"}
    BY <2>3 DEF HoldInv
  <2>4. client'[c].lease # None  BY DEF Holds
  <2>5. CASE ReclaimExpired(c)
    <3>1. client[c].pc = "reclaim"  BY <2>5 DEF ReclaimExpired, Inside
    <3>2. client'[c].lease = client[c].lease
      BY <1>0, <2>5 DEF ReclaimExpired, Goto, Client
    <3> QED  BY <2>4, <3>1, <3>2 DEF OpenInv, CallInv
  <2>6. CASE Enqueue(c)
    <3>1. PICK i \in ItemIds :
            /\ item[i].state = "none"
            /\ client' = [client EXCEPT ![c] = [@ EXCEPT !.at = "leave", !.key = None, !.seen = i,
                                                !.lease = item[i].lease]]
      BY <1>2, <2>6 DEF Enqueue
    <3>2. client'[c].lease = item[i].lease  BY <1>0, <3>1 DEF Client
    <3> QED  BY <2>2, <2>4, <3>1, <3>2 DEF LeaseInv
  <2>7. CASE LeaseNext(c)
    <3>1. PICK i \in ItemIds :
            /\ item' = [item EXCEPT ![i] = [@ EXCEPT !.state = "leased", !.late = FALSE,
                          !.epoch = item[i].epoch + 1, !.lease = item[i].epoch + 1]]
            /\ client' = [client EXCEPT ![c].at = "leave", ![c].seen = i,
                                        ![c].lease = item[i].epoch + 1]
      BY <1>2, <2>7 DEF LeaseNext
    <3> DEFINE n == item[i].epoch + 1
               x == [item[i] EXCEPT !.state = "leased", !.late = FALSE, !.epoch = n, !.lease = n]
    <3>2. item' = [item EXCEPT ![i] = x]  BY <3>1
    <3>3. client' = [client EXCEPT ![c] = [client[c] EXCEPT !.at = "leave", !.seen = i, !.lease = n]]
      BY <1>0, <3>1
    <3> HIDE DEF n
    <3>4. x.state = "leased"  BY <1>0 DEF Item
    <3>5. client'[c].seen = i  BY <1>0, <3>3 DEF Client
    <3> HIDE DEF x
    <3> QED  BY <1>0, <3>2, <3>4, <3>5
  <2>8. CASE Acknowledge(c)
    <3>1. Holds(c) /\ client[c].seen \in ItemIds
      BY <1>2, <2>8 DEF Acknowledge, Holds, SeenInv
    <3>2. client'[c].seen = client[c].seen  BY <1>0, <2>8 DEF Acknowledge, Goto, Client
    <3>3. item'[client[c].seen].state = "acknowledged"
      BY <1>0, <2>8, <3>1 DEF Acknowledge, Item
    <3> QED  BY <3>2, <3>3
  <2>9. CASE Complete(c) \/ Bury(c) \/ Fail(c)
    <3>1. Finished(c)  BY <1>2, <2>9 DEF Complete, Bury, Fail
    <3>2. client' = [client EXCEPT ![c] = [client[c] EXCEPT !.at = "leave", !.seen = None, !.lease = None]]
      BY <1>0, <3>1 DEF Finished
    <3>3. client'[c].lease = None  BY <1>0, <3>2 DEF Client
    <3> QED  BY <2>4, <3>3
  <2> QED  BY <2>1, <2>5, <2>6, <2>7, <2>8, <2>9 DEF ItemStep
<1> QED  BY <1>1, <1>2

LEMMA UniqueStep ==
  ASSUME QueueTypeOK, SeenInv, OpenInv, NEW c \in Clients,
         Begin(c) \/ Section(c) \/ JudgeStale(c) \/ BreakLock(c) \/ GiveUp(c) \/ Die(c)
  PROVE  LeaseInv' /\ UniqueInv'
<1>0. item \in [ItemIds -> Item]  BY DEF QueueTypeOK, Item
<1>1. CASE item' = item  BY <1>1 DEF OpenInv, LeaseInv, UniqueInv, Open
<1>2. CASE item' # item
  <2>1. ItemStep(c)
    BY <1>2 DEF Section, ItemStep, Enter, Leave, Promote, CreateEvent, CheckCursor, SaveCursor,
                Raise, Begin, JudgeStale, BreakLock, GiveUp, Die, store
  <2>2. LeaseInv'  BY <2>1, ItemsKept
  <2>3. CASE \A i \in ItemIds : Keeps(i)
    <3>1. \A k \in Keys : Open(k)' \subseteq Open(k)  BY <2>3 DEF Open, Keeps
    <3> QED  BY <2>2, <3>1 DEF OpenInv, UniqueInv
  <2>4. CASE Enqueue(c)
    <3>1. PICK i \in ItemIds :
            /\ Open(client[c].key) = {}
            /\ item' = [item EXCEPT ![i].state = "queued", ![i].key = client[c].key]
      BY <1>2, <2>4 DEF Enqueue
    <3>2. item' = [item EXCEPT ![i] = [item[i] EXCEPT !.state = "queued", !.key = client[c].key]]
      BY <1>0, <3>1
    <3>3. /\ item'[i].key = client[c].key
          /\ \A j \in ItemIds : j # i => item'[j] = item[j]
      BY <1>0, <3>2 DEF Item
    <3>4. ASSUME NEW k \in Keys, NEW j \in Open(k)' PROVE j = i \/ (j \in Open(k) /\ k # client[c].key)
      BY <3>1, <3>3, <3>4 DEF Open
    <3>5. ASSUME NEW k \in Keys, i \in Open(k)' PROVE k = client[c].key
      BY <3>3, <3>5 DEF Open
    <3> QED  BY <2>2, <3>4, <3>5 DEF OpenInv, UniqueInv
  <2> QED  BY <2>1, <2>3, <2>4, ItemsKept
<1> QED  BY <1>1, <1>2

\* An item's lease that has run out changes neither its state nor its lease.
LEMMA ExpireKeeps ==
  ASSUME QueueTypeOK, SeenInv, OpenInv, NEW i \in ItemIds, Expire(i)
  PROVE  OpenInv'
<1>0. item \in [ItemIds -> Item] /\ client' = client
  BY DEF QueueTypeOK, Item, Expire
<1>1. \A j \in ItemIds : /\ item'[j].state = item[j].state /\ item'[j].key = item[j].key
                         /\ item'[j].lease = item[j].lease
  BY <1>0 DEF Expire, Item
<1>2. LeaseInv' /\ UniqueInv'  BY <1>1 DEF OpenInv, LeaseInv, UniqueInv, Open
<1>3. CallInv'  BY <1>0 DEF OpenInv, CallInv
<1>4. ASSUME NEW c \in Starters, Holds(c)'
      PROVE  item'[client'[c].seen].state \in {"leased", "acknowledged"}
  <2>1. client[c].seen \in ItemIds  BY <1>0, <1>4 DEF Holds, SeenInv, Clients
  <2>2. Holds(c)  BY <1>0, <1>1, <1>4, <2>1 DEF Holds
  <2> QED  BY <1>0, <1>1, <2>1, <2>2 DEF OpenInv, HoldInv
<1>5. HoldInv'  BY <1>4 DEF HoldInv
<1> QED  BY <1>2, <1>3, <1>5 DEF OpenInv

\* Where one daemon starts orchestrators at a time, one start request of a
\* dedupe key is open at a time, over crashes of the daemon at any step, leases
\* that expire, leases adopted from an item enqueued before, and retries.
THEOREM OneStartRequest == OneStarter /\ Spec => []OneOpenItemPerKey
<1> SUFFICES ASSUME OneStarter PROVE Spec => []OneOpenItemPerKey  OBVIOUS
<1>1. Init => OpenInv
  BY DEF Init, OpenInv, LeaseInv, CallInv, HoldInv, Holds, UniqueInv, Open, OpenStates, Clients,
         Idle, NoItem
<1>2. /\ QueueTypeOK /\ SeenInv /\ (QueueTypeOK /\ SeenInv)' /\ OpenInv /\ [Next]_vars
      => OpenInv'
  <2> SUFFICES ASSUME QueueTypeOK, SeenInv, QueueTypeOK', OpenInv, [Next]_vars PROVE OpenInv'
    OBVIOUS
  <2>1. CASE UNCHANGED vars
    BY <2>1 DEF vars, store, OpenInv, LeaseInv, CallInv, HoldInv, Holds, UniqueInv, Open
  <2>2. ASSUME NEW c \in Clients,
               Begin(c) \/ Section(c) \/ JudgeStale(c) \/ BreakLock(c) \/ GiveUp(c) \/ Die(c)
        PROVE  OpenInv'
    BY <2>2, CallStep, HoldStep, UniqueStep DEF OpenInv
  <2> QED  BY <2>1, <2>2, ExpireKeeps DEF Next
<1>3. QueueTypeOK /\ OpenInv => OneOpenItemPerKey
  <2> SUFFICES ASSUME UniqueInv, NEW k \in Keys PROVE Cardinality(Open(k)) <= 1
    BY DEF OpenInv, OneOpenItemPerKey
  <2>1. CASE Open(k) = {}  BY <2>1, FS_EmptySet
  <2>2. ASSUME NEW i \in Open(k) PROVE Cardinality(Open(k)) <= 1
    <3>1. Open(k) = {i}  BY DEF UniqueInv
    <3>2. Cardinality({i}) = 1  BY FS_Singleton
    <3> QED  BY <3>1, <3>2
  <2> QED  BY <2>1, <2>2
<1> QED  BY <1>1, <1>2, <1>3, QueueInductive, PTL DEF Spec

-----------------------------------------------------------------------------
(* Notifications: one mail for a version of a document *)

Active(d) == dispatcher[d].pc \notin {"idle", "lock"}

\* A call that has taken the lock file owns it until it releases it or dies.
MailLockInv == \A d \in Dispatchers : Active(d) => mailLock = d

\* What a call is about to send is not sent yet and has attempts left.
Owed(n) == note[n].status \in {"pending", "failed"} /\ note[n].attempts < MaxMails
BatchInv ==
  \A d \in Dispatchers :
    /\ At(d, "send") => \A n \in dispatcher[d].batch : Owed(n)
    /\ dispatcher[d].pc \in {"mark sent", "mark failed"} =>
         /\ dispatcher[d].group # {} /\ dispatcher[d].batch \cap dispatcher[d].group = {}
         /\ \A n \in dispatcher[d].batch \cup dispatcher[d].group : Owed(n)

\* A mail that reached its reader is in the record of its notification, or in
\* the hands of the one call that is about to write it there.
MailInv ==
  \A n \in Notes :
    told[n] = IF note[n].status = "sent" \/ \E d \in Dispatchers : n \in Unrecorded(d)
              THEN 1 ELSE 0

\* A document that asks has a version, the one a notification is named for.
VersionInv == \A s \in Documents : document[s].asks => document[s].version \in 1 .. MaxVersion

Note == [status : {"none", "pending", "failed", "sent"}, delivery : {"off", "immediate", "digest"},
         attempts : 0 .. MaxMails, early : BOOLEAN]
Dispatcher ==
  [pc : {"idle", "lock", "scan", "enqueue", "send", "mark sent", "mark failed", "release"},
   digest : BOOLEAN, password : BOOLEAN, batch : SUBSET Notes, group : SUBSET Notes]

NShape ==
  /\ document \in [Documents -> [asks : BOOLEAN, version : 0 .. MaxVersion]]
  /\ delivery \in [Documents -> {"off", "immediate", "digest"}] /\ password \in BOOLEAN
  /\ note \in [Notes -> Note]
  /\ mailLock \in Dispatchers \cup {Nobody, Gone}
  /\ dispatcher \in [Dispatchers -> Dispatcher]

NInv == NShape /\ VersionInv /\ MailLockInv /\ BatchInv /\ MailInv

LEMMA FirstIsOne ==
  ASSUME NEW ns, ns # {}
  PROVE  First(ns) \in ns
BY DEF First

LEMMA NotifyInitially == NotifyInit => NInv
<1> SUFFICES ASSUME NotifyInit PROVE NInv  OBVIOUS
<1> USE NotificationsAssumption DEF NotifyInit
<1>1. NoNote \in Note /\ Quiet \in Dispatcher  BY DEF NoNote, Note, Quiet, Dispatcher
<1>2. NShape
  <2>1. document \in [Documents -> [asks : BOOLEAN, version : 0 .. MaxVersion]]  OBVIOUS
  <2> QED  BY <1>1, <2>1 DEF NShape
<1>3. VersionInv /\ MailLockInv /\ BatchInv
  BY DEF VersionInv, MailLockInv, Active, BatchInv, At, Quiet
<1>4. MailInv  BY DEF MailInv, Unrecorded, At, NoNote, Quiet
<1> QED  BY <1>2, <1>3, <1>4 DEF NInv

\* A change of the project, or the end of a backoff.
LEMMA ProjectStep ==
  ASSUME NInv, \/ \E s \in Documents : Ask(s) \/ Settle(s)
               \/ ConfigureSecret \/ \E n \in Notes : BackoffEnds(n)
  PROVE  NInv'
<1>0. NShape /\ VersionInv  BY DEF NInv
<1>1. ASSUME UNCHANGED <<note, mailLock, dispatcher, told>>
      PROVE  MailLockInv' /\ BatchInv' /\ MailInv'
  BY <1>1 DEF NInv, MailLockInv, Active, BatchInv, Owed, MailInv, Unrecorded, At
<1>2. ASSUME NEW s \in Documents, Ask(s) PROVE NInv'
  <2> DEFINE v == document[s].version + 1
  <2>1. v \in 1 .. MaxVersion  BY <1>0, <1>2, NotificationsAssumption DEF Ask, NShape
  <2>2. document' = [document EXCEPT ![s] = [asks |-> TRUE, version |-> v]]  BY <1>2 DEF Ask
  <2> HIDE DEF v
  <2>3. /\ document' \in [Documents -> [asks : BOOLEAN, version : 0 .. MaxVersion]]
        /\ VersionInv'
    BY <1>0, <2>1, <2>2, NotificationsAssumption DEF NShape, VersionInv
  <2> QED  BY <1>0, <1>1, <1>2, <2>3 DEF NInv, NShape, Ask
<1>3. ASSUME NEW s \in Documents, Settle(s) PROVE NInv'
  <2>1. /\ document' \in [Documents -> [asks : BOOLEAN, version : 0 .. MaxVersion]]
        /\ VersionInv'
    BY <1>0, <1>3 DEF NShape, VersionInv, Settle
  <2> QED  BY <1>0, <1>1, <1>3, <2>1 DEF NInv, NShape, Settle
<1>4. CASE ConfigureSecret
  <2>1. NShape' /\ VersionInv'  BY <1>0, <1>4 DEF NShape, VersionInv, ConfigureSecret
  <2> QED  BY <1>0, <1>1, <1>4, <2>1 DEF NInv, ConfigureSecret
<1>5. ASSUME NEW n \in Notes, BackoffEnds(n) PROVE NInv'
  <2>0. [note[n] EXCEPT !.early = FALSE] \in Note  BY <1>0 DEF NShape, Note
  <2>1. note' \in [Notes -> Note]  BY <1>0, <1>5, <2>0 DEF BackoffEnds, NShape
  <2>2. \A m \in Notes : note'[m].status = note[m].status /\ note'[m].attempts = note[m].attempts
    BY <1>0, <1>5 DEF BackoffEnds, NShape, Note
  <2>3. UNCHANGED <<projectVars, mailLock, dispatcher, told>>  BY <1>5 DEF BackoffEnds
  <2>4. \A d \in Dispatchers : dispatcher[d].batch \cup dispatcher[d].group \subseteq Notes
    BY <1>0 DEF NShape, Dispatcher
  <2>5. BatchInv'  BY <2>2, <2>3, <2>4 DEF NInv, BatchInv, Owed, At
  <2> QED  BY <1>0, <2>1, <2>2, <2>3, <2>5
           DEF projectVars, NInv, NShape, VersionInv, MailLockInv, Active, MailInv, Unrecorded, At
<1> QED  BY <1>2, <1>3, <1>4, <1>5

\* While a call is active no other one is.
LEMMA Alone ==
  ASSUME NInv, NEW d \in Dispatchers, Active(d), NEW e \in Dispatchers, e # d
  PROVE  ~Active(e) /\ Unrecorded(e) = {}
BY DEF NInv, MailLockInv, Active, Unrecorded, At

\* Where nobody else is at work, the mails on their way are those of one call.
LEMMA InHand ==
  ASSUME NInv, NEW d \in Dispatchers, Active(d), NEW n
  PROVE  (\E e \in Dispatchers : n \in Unrecorded(e)) <=> n \in Unrecorded(d)
<1>1. ASSUME NEW e \in Dispatchers, n \in Unrecorded(e) PROVE e = d  BY <1>1, Alone
<1> QED  BY <1>1

\* A step of one call that sends nothing and marks nothing.
LEMMA QuietStep ==
  ASSUME NInv, NEW d \in Dispatchers, NEW x \in Dispatcher,
         dispatcher' = [dispatcher EXCEPT ![d] = x],
         Unrecorded(d) = {}, x.pc # "mark sent", x.pc # "mark failed",
         x.pc = "send" => \A n \in x.batch : Owed(n)',
         UNCHANGED <<projectVars, told>>,
         note' \in [Notes -> Note],
         \A n \in Notes : /\ note'[n].status = "sent" <=> note[n].status = "sent"
                          /\ Owed(n) => Owed(n)',
         mailLock' \in Dispatchers \cup {Nobody, Gone},
         x.pc \notin {"idle", "lock"} => mailLock' = d,
         mailLock' = mailLock \/ mailLock = Nobody \/ mailLock = d
  PROVE  NInv'
<1>0. NShape  BY DEF NInv
<1>1. dispatcher \in [Dispatchers -> Dispatcher]  BY <1>0 DEF NShape
<1>2. NShape'  BY <1>0, <1>1 DEF NShape, projectVars
<1>3. VersionInv'  BY DEF NInv, VersionInv, projectVars
<1>4. dispatcher'[d] = x /\ \A e \in Dispatchers : e # d => dispatcher'[e] = dispatcher[e]
  BY <1>1
<1>5. MailLockInv'
  BY <1>4, NotificationsAssumption DEF NInv, MailLockInv, Active
<1>6. BatchInv'
  <2>1. \A e \in Dispatchers : dispatcher[e].batch \cup dispatcher[e].group \subseteq Notes
    BY <1>1 DEF Dispatcher
  <2>2. ASSUME NEW e \in Dispatchers, e # d
        PROVE  /\ At(e, "send")' => \A n \in dispatcher'[e].batch : Owed(n)'
               /\ dispatcher'[e].pc \in {"mark sent", "mark failed"} =>
                    /\ dispatcher'[e].group # {} /\ dispatcher'[e].batch \cap dispatcher'[e].group = {}
                    /\ \A n \in dispatcher'[e].batch \cup dispatcher'[e].group : Owed(n)'
    BY <1>4, <2>1, <2>2 DEF NInv, BatchInv, At
  <2>3. /\ At(d, "send")' => \A n \in dispatcher'[d].batch : Owed(n)'
        /\ dispatcher'[d].pc \notin {"mark sent", "mark failed"}
    BY <1>4 DEF At
  <2> QED  BY <2>2, <2>3 DEF BatchInv
<1>7. MailInv'
  <2>1. Unrecorded(d)' = {}  BY <1>4 DEF Unrecorded, At
  <2>2. ASSUME NEW e \in Dispatchers, e # d PROVE Unrecorded(e)' = Unrecorded(e)
    <3>1. dispatcher'[e] = dispatcher[e]  BY <1>4, <2>2
    <3> QED  BY ONLY <3>1 DEF Unrecorded, At
  <2> QED  BY <2>1, <2>2 DEF NInv, MailInv
<1> QED  BY <1>2, <1>3, <1>5, <1>6, <1>7 DEF NInv

\* The steps before the mails, and those after the last one.
LEMMA QuietSteps ==
  ASSUME NInv, NEW d \in Dispatchers,
         \/ Dispatch(d) \/ TakeLock(d) \/ TimeOut(d) \/ ScanCandidates(d) \/ Enqueue1(d)
         \/ Collect(d) \/ SendingDone(d) \/ ReleaseLock(d)
  PROVE  NInv'
<1>0. NShape /\ dispatcher \in [Dispatchers -> Dispatcher] /\ dispatcher[d] \in Dispatcher
  BY DEF NInv, NShape
<1>1. Quiet \in Dispatcher /\ Quiet.pc = "idle"  BY DEF Quiet, Dispatcher
<1>2. Nobody \notin Dispatchers  BY NotificationsAssumption
<1>3. CASE Dispatch(d)
  <2> DEFINE x == [Quiet EXCEPT !.pc = "lock", !.password = password]
  <2>1. x \in Dispatcher /\ x.pc = "lock"  BY <1>0 DEF Quiet, Dispatcher, NShape
  <2>2. dispatcher' = [dispatcher EXCEPT ![d] = x] /\ Unrecorded(d) = {}
    BY <1>3 DEF Dispatch, Unrecorded, At
  <2> HIDE DEF x
  <2> QED  BY <1>0, <1>3, <2>1, <2>2, QuietStep DEF Dispatch, NShape, Owed
<1>4. CASE TakeLock(d)
  <2> DEFINE x == [dispatcher[d] EXCEPT !.pc = "scan"]
  <2>1. x \in Dispatcher /\ x.pc = "scan"  BY <1>0 DEF Dispatcher
  <2>2. dispatcher' = [dispatcher EXCEPT ![d] = x] /\ Unrecorded(d) = {}
    BY <1>0, <1>4 DEF TakeLock, Move, Unrecorded, At
  <2> HIDE DEF x
  <2> QED  BY <1>0, <1>4, <2>1, <2>2, QuietStep DEF TakeLock, NShape, Owed
<1>5. CASE TimeOut(d)
  <2>1. Unrecorded(d) = {}  BY <1>5 DEF TimeOut, Unrecorded, At
  <2> QED  BY <1>0, <1>1, <1>5, <2>1, QuietStep DEF TimeOut, NShape, Owed
<1>6. CASE ScanCandidates(d)
  <2> DEFINE asked == {<<s, document[s].version>> :
                         s \in {t \in Documents : document[t].asks /\ delivery[t] # "off"}}
             x == [dispatcher[d] EXCEPT !.pc = "enqueue", !.batch = asked]
  <2>1. asked \subseteq Notes
    BY DEF NInv, VersionInv, Notes
  <2>2. dispatcher' = [dispatcher EXCEPT ![d] = x]  BY <1>0, <1>6 DEF ScanCandidates
  <2> HIDE DEF asked
  <2>3. x \in Dispatcher /\ x.pc = "enqueue"  BY <1>0, <2>1 DEF Dispatcher
  <2>4. Active(d) /\ Unrecorded(d) = {}  BY <1>6 DEF ScanCandidates, Unrecorded, At, Active
  <2>5. mailLock = d  BY <2>4 DEF NInv, MailLockInv
  <2> HIDE DEF x
  <2> QED  BY <1>0, <1>6, <2>2, <2>3, <2>4, <2>5, QuietStep DEF ScanCandidates, NShape, Owed
<1>7. CASE Enqueue1(d)
  <2> DEFINE n == First(dispatcher[d].batch)
             x == [dispatcher[d] EXCEPT !.batch = dispatcher[d].batch \ {n}]
  <2>1. n \in Notes /\ n[1] \in Documents
    <3>1. n \in dispatcher[d].batch  BY <1>7, FirstIsOne DEF Enqueue1
    <3>2. dispatcher[d].batch \subseteq Notes  BY <1>0 DEF Dispatcher
    <3> QED  BY <3>1, <3>2 DEF Notes
  <2>2. dispatcher' = [dispatcher EXCEPT ![d] = x]  BY <1>0, <1>7 DEF Enqueue1
  <2>3. x \in Dispatcher /\ x.pc = "enqueue"  BY <1>0, <1>7 DEF Dispatcher, Enqueue1, At
  <2>4. Active(d) /\ Unrecorded(d) = {}  BY <1>7 DEF Enqueue1, Unrecorded, At, Active
  <2>5. mailLock = d  BY <2>4 DEF NInv, MailLockInv
  <2>6. /\ note' \in [Notes -> Note]
        /\ \A m \in Notes : /\ note'[m].status = "sent" <=> note[m].status = "sent"
                            /\ Owed(m) => Owed(m)'
    <3>1. CASE note[n].status # "none"
      <4>1. note' = note  BY <1>7, <3>1 DEF Enqueue1
      <4>2. \A m \in Notes : Owed(m)' = Owed(m)  BY <4>1 DEF Owed
      <4> QED  BY <1>0, <4>1, <4>2 DEF NShape
    <3>2. CASE note[n].status = "none"
      <4> DEFINE way == delivery[n[1]]
                 y == [NoNote EXCEPT !.status = "pending", !.delivery = way]
      <4>1. note' = [note EXCEPT ![n] = y]  BY <1>7, <3>2 DEF Enqueue1
      <4>2. way \in {"off", "immediate", "digest"}  BY <1>0, <2>1 DEF NShape
      <4> HIDE DEF way
      <4>3. y \in Note /\ y.status = "pending"
        <5>1. NoNote \in Note  BY NotificationsAssumption DEF NoNote, Note
        <5> QED  BY <4>2, <5>1 DEF Note
      <4> HIDE DEF y, n
      <4>4. \A m \in Notes : note'[m] = IF m = n THEN y ELSE note[m]
        BY <1>0, <4>1 DEF NShape
      <4>5. note' \in [Notes -> Note]  BY <1>0, <2>1, <4>1, <4>3 DEF NShape
      <4>6. ~Owed(n)  BY <3>2 DEF Owed
      <4> QED  BY <3>2, <4>3, <4>4, <4>5, <4>6 DEF Owed
    <3> QED  BY <3>1, <3>2
  <2> HIDE DEF x, n
  <2> QED  BY <1>0, <1>7, <2>2, <2>3, <2>4, <2>5, <2>6, QuietStep DEF Enqueue1, NShape
<1>8. CASE Collect(d)
  <2>1. Active(d) /\ Unrecorded(d) = {}  BY <1>8 DEF Collect, Unrecorded, At, Active
  <2>2. mailLock = d  BY <2>1 DEF NInv, MailLockInv
  <2>3. PICK digest \in BOOLEAN :
          \/ dispatcher' = [dispatcher EXCEPT ![d] = [dispatcher[d] EXCEPT !.pc = "send",
                              !.digest = digest, !.batch = PendingRecords]]
          \/ dispatcher' = [dispatcher EXCEPT ![d] = [dispatcher[d] EXCEPT !.pc = "release"]]
    BY <1>0, <1>8 DEF Collect, Move
  <2> DEFINE x == [dispatcher[d] EXCEPT !.pc = "send", !.digest = digest, !.batch = PendingRecords]
             y == [dispatcher[d] EXCEPT !.pc = "release"]
  <2>4. PendingRecords \subseteq Notes /\ \A n \in PendingRecords : Owed(n)
    <3>1. \A n \in Notes : note[n].attempts \in 0 .. MaxMails  BY <1>0 DEF NShape, Note
    <3> QED  BY <3>1 DEF PendingRecords, Owed
  <2>5. x \in Dispatcher /\ x.pc = "send" /\ x.batch = PendingRecords
    BY <1>0, <2>4 DEF Dispatcher
  <2>6. y \in Dispatcher /\ y.pc = "release"  BY <1>0 DEF Dispatcher
  <2>7. \A n \in Notes : Owed(n)' = Owed(n)  BY <1>8 DEF Collect, Owed
  <2>8. CASE dispatcher' = [dispatcher EXCEPT ![d] = x]
    <3> HIDE DEF x
    <3> QED  BY <1>0, <1>8, <2>1, <2>2, <2>4, <2>5, <2>7, <2>8, QuietStep DEF Collect, NShape
  <2>9. CASE dispatcher' = [dispatcher EXCEPT ![d] = y]
    <3> HIDE DEF y
    <3> QED  BY <1>0, <1>8, <2>1, <2>2, <2>6, <2>7, <2>9, QuietStep DEF Collect, NShape
  <2> QED  BY <2>3, <2>8, <2>9
<1>9. CASE SendingDone(d)
  <2> DEFINE x == [Quiet EXCEPT !.pc = "release"]
  <2>1. x \in Dispatcher /\ x.pc = "release"  BY DEF Quiet, Dispatcher
  <2>2. Active(d) /\ Unrecorded(d) = {}  BY <1>9 DEF SendingDone, Unrecorded, At, Active
  <2>3. mailLock = d /\ dispatcher' = [dispatcher EXCEPT ![d] = x]
    BY <1>9, <2>2 DEF NInv, MailLockInv, SendingDone
  <2> HIDE DEF x
  <2> QED  BY <1>0, <1>9, <2>1, <2>2, <2>3, QuietStep DEF SendingDone, NShape, Owed
<1>10. CASE ReleaseLock(d)
  <2>1. Active(d) /\ Unrecorded(d) = {}  BY <1>10 DEF ReleaseLock, Unrecorded, At, Active
  <2>2. mailLock = d  BY <2>1 DEF NInv, MailLockInv
  <2> QED  BY <1>0, <1>1, <1>10, <2>1, <2>2, QuietStep DEF ReleaseLock, NShape, Owed
<1> QED  BY <1>3, <1>4, <1>5, <1>6, <1>7, <1>8, <1>9, <1>10

\* A step of the call that owns the lock file: the state of nobody else counts.
LEMMA OwnStep ==
  ASSUME NInv, NEW d \in Dispatchers, Active(d), NEW x \in Dispatcher,
         dispatcher' = [dispatcher EXCEPT ![d] = x],
         UNCHANGED <<projectVars>>, note' \in [Notes -> Note],
         \/ mailLock' = d /\ x.pc \notin {"idle", "lock"}
         \/ mailLock' \in Dispatchers \cup {Nobody, Gone} /\ x.pc = "idle",
         x.pc = "send" => \A n \in x.batch : Owed(n)',
         x.pc \in {"mark sent", "mark failed"} =>
           /\ x.group # {} /\ x.batch \cap x.group = {}
           /\ \A n \in x.batch \cup x.group : Owed(n)',
         \A n \in Notes :
           told'[n] = IF note'[n].status = "sent" \/ (x.pc = "mark sent" /\ n \in x.group)
                      THEN 1 ELSE 0
  PROVE  NInv'
<1>0. NShape /\ dispatcher \in [Dispatchers -> Dispatcher]  BY DEF NInv, NShape
<1>1. dispatcher'[d] = x /\ \A e \in Dispatchers : e # d => dispatcher'[e] = dispatcher[e]
  BY <1>0
<1>2. mailLock' \in Dispatchers \cup {Nobody, Gone}  OBVIOUS
<1>3. NShape' /\ VersionInv'  BY <1>0, <1>2 DEF NInv, NShape, VersionInv, projectVars
<1>4. ASSUME NEW e \in Dispatchers, e # d
      PROVE  /\ dispatcher'[e].pc \in {"idle", "lock"} /\ dispatcher'[e] = dispatcher[e]
  BY <1>1, <1>4, Alone DEF Active
<1>5. MailLockInv'  BY <1>1, <1>4 DEF MailLockInv, Active
<1>6. BatchInv'
  BY <1>1, <1>4 DEF BatchInv, At
<1>7. MailInv'
  <2>1. \A e \in Dispatchers : e # d => Unrecorded(e)' = {}  BY <1>4 DEF Unrecorded, At
  <2>2. \A n : n \in Unrecorded(d)' <=> x.pc = "mark sent" /\ n \in x.group
    BY <1>1 DEF Unrecorded, At
  <2>3. \A n : (\E e \in Dispatchers : n \in Unrecorded(e)') <=> x.pc = "mark sent" /\ n \in x.group
    BY <2>1, <2>2
  <2> QED  BY <2>3 DEF MailInv
<1> QED  BY <1>3, <1>5, <1>6, <1>7 DEF NInv

\* A call sends: the notifications of the mail were not told before.
LEMMA SendStep1 ==
  ASSUME NInv, NEW d \in Dispatchers, SendGroup(d)
  PROVE  NInv'
<1>0. NShape /\ dispatcher \in [Dispatchers -> Dispatcher] /\ dispatcher[d] \in Dispatcher
  BY DEF NInv, NShape
<1>1. Active(d) /\ At(d, "send") /\ Unrecorded(d) = {}
  BY DEF SendGroup, At, Active, Unrecorded
<1>2. mailLock = d  BY <1>1 DEF NInv, MailLockInv
<1> DEFINE ns == NextMail(d)
<1>3. ns \subseteq dispatcher[d].batch /\ ns # {}
  <2>1. ns # {}  BY DEF SendGroup
  <2>2. Immediate(d) \subseteq dispatcher[d].batch /\ Digests(d) \subseteq dispatcher[d].batch
    BY DEF Immediate, Digests
  <2>3. Immediate(d) # {} => First(Immediate(d)) \in dispatcher[d].batch
    BY <2>2, FirstIsOne
  <2> QED  BY <2>1, <2>2, <2>3 DEF NextMail
<1>4. \A n \in dispatcher[d].batch : Owed(n)  BY <1>1 DEF NInv, BatchInv
<1>5. dispatcher[d].batch \subseteq Notes  BY <1>0 DEF Dispatcher
<1>6. \A n \in Notes : told[n] = IF note[n].status = "sent" THEN 1 ELSE 0
  BY <1>1, InHand DEF NInv, MailInv
<1>7. PICK raised \in BOOLEAN :
        /\ dispatcher' = [dispatcher EXCEPT ![d].pc = IF raised THEN "mark failed" ELSE "mark sent",
                            ![d].batch = @ \ ns, ![d].group = ns]
        /\ told' = [n \in Notes |-> told[n] + IF ~raised /\ n \in ns THEN 1 ELSE 0]
  BY DEF SendGroup
<1> DEFINE pc == IF raised THEN "mark failed" ELSE "mark sent"
           x == [dispatcher[d] EXCEPT !.pc = pc, !.batch = dispatcher[d].batch \ ns, !.group = ns]
<1> HIDE DEF ns
<1>8. dispatcher' = [dispatcher EXCEPT ![d] = x]  BY <1>0, <1>7
<1>9. pc \in {"mark failed", "mark sent"} /\ (pc = "mark sent" <=> ~raised)  OBVIOUS
<1> HIDE DEF pc
<1>10. /\ x \in Dispatcher /\ x.pc = pc /\ x.group = ns /\ x.batch = dispatcher[d].batch \ ns
  BY <1>0, <1>3, <1>5, <1>9 DEF Dispatcher
<1> HIDE DEF x
<1>11. UNCHANGED <<projectVars, note, mailLock>>  BY DEF SendGroup
<1>12. \A n \in Notes : Owed(n)' = Owed(n)  BY <1>11 DEF Owed
<1>13. \A n \in ns : note[n].status # "sent"  BY <1>3, <1>4 DEF Owed
<1>14. \A n \in Notes : told'[n] = IF note'[n].status = "sent" \/ (x.pc = "mark sent" /\ n \in x.group)
                                   THEN 1 ELSE 0
  <2> SUFFICES ASSUME NEW n \in Notes
               PROVE  told'[n] = IF note[n].status = "sent" \/ (x.pc = "mark sent" /\ n \in x.group)
                                 THEN 1 ELSE 0
    BY <1>11
  <2>1. told'[n] = told[n] + IF ~raised /\ n \in ns THEN 1 ELSE 0  BY <1>7
  <2>2. x.pc = "mark sent" /\ n \in x.group <=> ~raised /\ n \in ns  BY <1>9, <1>10
  <2>3. CASE ~raised /\ n \in ns
    <3>1. told'[n] = told[n] + 1  BY <2>1, <2>3, Zenon
    <3>2. note[n].status # "sent"  BY <1>13, <2>3
    <3>3. told[n] = 0  BY <1>6, <3>2
    <3>4. told'[n] = 1  BY <3>1, <3>3
    <3> QED  BY <2>2, <2>3, <3>4
  <2>4. CASE ~(~raised /\ n \in ns)
    <3>1. told'[n] = told[n] + 0  BY <2>1, <2>4, Zenon
    <3>2. told[n] \in {0, 1}  BY <1>6
    <3>3. told'[n] = told[n]  BY <3>1, <3>2
    <3> QED  BY <1>6, <2>2, <2>4, <3>3
  <2> QED  BY <2>3, <2>4
<1>15. note' \in [Notes -> Note]  BY <1>0, <1>11 DEF NShape
<1>16. \A n \in x.batch \cup x.group : Owed(n)'  BY <1>3, <1>4, <1>5, <1>10, <1>12
<1>17. x.group # {} /\ x.batch \cap x.group = {} /\ x.pc \notin {"idle", "lock", "send"}
  BY <1>3, <1>9, <1>10
<1> QED  BY <1>1, <1>2, <1>8, <1>10, <1>11, <1>14, <1>15, <1>16, <1>17, OwnStep

\* A call writes what became of a mail into one record of its group.
LEMMA MarkStep ==
  ASSUME NInv, NEW d \in Dispatchers, MarkSent(d) \/ MarkFailed(d)
  PROVE  NInv'
<1>0. NShape /\ dispatcher \in [Dispatchers -> Dispatcher] /\ dispatcher[d] \in Dispatcher
  BY DEF NInv, NShape
<1>1. Active(d) /\ dispatcher[d].pc \in {"mark sent", "mark failed"}
  BY DEF MarkSent, MarkFailed, At, Active
<1>2. mailLock = d  BY <1>1 DEF NInv, MailLockInv
<1> DEFINE g == dispatcher[d].group
           b == dispatcher[d].batch
           n == First(g)
           pc == IF g = {n} THEN "send" ELSE dispatcher[d].pc
           x == [dispatcher[d] EXCEPT !.group = g \ {n}, !.pc = pc]
<1>3. g # {} /\ b \cap g = {} /\ \A m \in b \cup g : Owed(m)  BY <1>1 DEF NInv, BatchInv
<1>4. g \subseteq Notes /\ b \subseteq Notes  BY <1>0 DEF Dispatcher
<1>5. n \in g  BY <1>3, FirstIsOne
<1>6. dispatcher' = [dispatcher EXCEPT ![d] = x]
  BY <1>0 DEF MarkSent, MarkFailed, Marked
<1>7. UNCHANGED <<projectVars, mailLock, told>>  BY DEF MarkSent, MarkFailed
<1>8. /\ note' \in [Notes -> Note] /\ \A m \in Notes : m # n => note'[m] = note[m]
      /\ note'[n].status = IF At(d, "mark sent") THEN "sent" ELSE "failed"
  <2>1. CASE MarkSent(d)
    <3> HIDE DEF n
    <3> DEFINE y == [note[n] EXCEPT !.status = "sent"]
    <3>1. note' = [note EXCEPT ![n] = y]
      BY <1>0, <2>1 DEF MarkSent, NShape, n
    <3>2. note[n] \in Note  BY <1>0, <1>4, <1>5 DEF NShape
    <3>3. y \in Note /\ y.status = "sent"  BY <3>2 DEF Note
    <3> HIDE DEF y
    <3> QED  BY <1>0, <1>4, <1>5, <2>1, <3>1, <3>3 DEF MarkSent, NShape
  <2>2. CASE MarkFailed(d)
    <3> DEFINE tries == note[n].attempts + 1
               y == [note[n] EXCEPT !.status = "failed", !.early = TRUE, !.attempts = tries]
    <3>1. note' = [note EXCEPT ![n] = y]  BY <2>2 DEF MarkFailed
    <3> HIDE DEF n
    <3>2. tries \in 0 .. MaxMails
      <4>1. note[n].attempts \in 0 .. MaxMails /\ note[n].attempts < MaxMails
        BY <1>0, <1>3, <1>4, <1>5 DEF NShape, Note, Owed
      <4> QED  BY <4>1, NotificationsAssumption
    <3> HIDE DEF tries
    <3>3. note[n] \in Note  BY <1>0, <1>4, <1>5 DEF NShape
    <3>4. y \in Note /\ y.status = "failed"  BY <3>2, <3>3 DEF Note
    <3> HIDE DEF y
    <3> QED  BY <1>0, <1>4, <1>5, <2>2, <3>1, <3>4 DEF MarkFailed, NShape, At
  <2> QED  BY <2>1, <2>2
<1> HIDE DEF n
<1>9. pc \in {"send", "mark sent", "mark failed"} /\ (pc # "send" => pc = dispatcher[d].pc)
  BY <1>1
<1>10. pc = "send" <=> g = {n}  BY <1>1
<1> HIDE DEF pc
<1>11. x \in Dispatcher /\ x.pc = pc /\ x.group = g \ {n} /\ x.batch = b
  BY <1>0, <1>9 DEF Dispatcher
<1>12. ASSUME NEW m \in b \cup (g \ {n}) PROVE Owed(m)'
  <2>1. m # n /\ m \in Notes  BY <1>3, <1>4, <1>5
  <2>2. note'[m] = note[m]  BY <1>8, <2>1
  <2> QED  BY <1>3, <2>2 DEF Owed
<1>13. ASSUME NEW m \in Notes
       PROVE  told'[m] = IF note'[m].status = "sent" \/ (x.pc = "mark sent" /\ m \in x.group)
                         THEN 1 ELSE 0
  <2>1. told'[m] = IF note[m].status = "sent" \/ m \in Unrecorded(d) THEN 1 ELSE 0
    BY <1>1, <1>7, InHand DEF NInv, MailInv
  <2>2. note[n].status # "sent"  BY <1>3, <1>5 DEF Owed
  <2>3. CASE At(d, "mark sent")
    <3>1. m \in Unrecorded(d) <=> m \in g  BY <2>3 DEF Unrecorded
    <3>2. x.pc = "mark sent" /\ m \in x.group <=> m \in g \ {n}
      BY <1>9, <1>10, <1>11, <2>3 DEF At
    <3> QED  BY <1>5, <1>8, <2>1, <2>3, <3>1, <3>2
  <2>4. CASE ~At(d, "mark sent")
    <3>1. m \notin Unrecorded(d)  BY <2>4 DEF Unrecorded
    <3>2. x.pc # "mark sent"  BY <1>9, <1>11, <2>4 DEF At
    <3> QED  BY <1>8, <2>1, <2>2, <2>4, <3>1, <3>2
  <2> QED  BY <2>3, <2>4
<1>14. x.pc \in {"mark sent", "mark failed"} => x.group # {}
  BY <1>5, <1>10, <1>11
<1> HIDE DEF x
<1> QED  BY <1>1, <1>2, <1>3, <1>6, <1>7, <1>8, <1>9, <1>11, <1>12, <1>13, <1>14, OwnStep

\* A mishap takes back what its call has told and not recorded.
LEMMA Mishap ==
  ASSUME NInv, NEW d \in Dispatchers, WriteFails(d) \/ DispatcherDies(d)
  PROVE  NInv'
<1>0. NShape /\ dispatcher \in [Dispatchers -> Dispatcher] /\ dispatcher[d] \in Dispatcher
  BY DEF NInv, NShape
<1>1. Active(d)  BY DEF WriteFails, DispatcherDies, Active
<1>2. mailLock = d  BY <1>1 DEF NInv, MailLockInv
<1> DEFINE r == [Quiet EXCEPT !.pc = "release"]
<1>3. /\ Quiet \in Dispatcher /\ Quiet.pc = "idle"
      /\ r \in Dispatcher /\ r.pc = "release"
  BY DEF Quiet, Dispatcher
<1>4. UNCHANGED <<projectVars, note>>  BY DEF WriteFails, DispatcherDies
<1>5. note' \in [Notes -> Note]  BY <1>0, <1>4 DEF NShape
<1>6. ASSUME NEW n \in Unrecorded(d) PROVE note[n].status # "sent"
  BY <1>6 DEF NInv, BatchInv, Unrecorded, At, Owed
<1>7. \A n \in Notes : told'[n] = IF note'[n].status = "sent" THEN 1 ELSE 0
  <2> SUFFICES ASSUME NEW n \in Notes
               PROVE  told'[n] = IF note[n].status = "sent" THEN 1 ELSE 0
    BY <1>4
  <2>1. told'[n] = told[n] - IF n \in Unrecorded(d) THEN 1 ELSE 0
    BY DEF WriteFails, DispatcherDies, Forget
  <2>2. told[n] = IF note[n].status = "sent" \/ n \in Unrecorded(d) THEN 1 ELSE 0
    BY <1>1, InHand DEF NInv, MailInv
  <2> QED  BY <1>6, <2>1, <2>2
<1>8. CASE WriteFails(d)
  <2>1. dispatcher' = [dispatcher EXCEPT ![d] = r] /\ mailLock' = mailLock
    BY <1>8 DEF WriteFails
  <2> HIDE DEF r
  <2> QED  BY <1>1, <1>2, <1>3, <1>4, <1>5, <1>7, <2>1, OwnStep
<1>9. CASE DispatcherDies(d)
  <2>1. dispatcher' = [dispatcher EXCEPT ![d] = Quiet] /\ mailLock' = Gone
    BY <1>2, <1>9 DEF DispatcherDies
  <2> QED  BY <1>1, <1>3, <1>4, <1>5, <1>7, <2>1, OwnStep
<1> QED  BY <1>8, <1>9

LEMMA NotifyInductive == NotifySpec => []NInv
<1>1. NInv /\ [NotifyNext]_notifyVars => NInv'
  <2> SUFFICES ASSUME NInv, [NotifyNext]_notifyVars PROVE NInv'  OBVIOUS
  <2>1. CASE UNCHANGED notifyVars
    BY <2>1 DEF notifyVars, projectVars, NInv, NShape, VersionInv, MailLockInv, Active, BatchInv,
                Owed, At, MailInv, Unrecorded
  <2>2. ASSUME NEW d \in Dispatchers,
               Dispatch(d) \/ DispatchStep(d) \/ WriteFails(d) \/ DispatcherDies(d)
        PROVE  NInv'
    BY <2>2, QuietSteps, SendStep1, MarkStep, Mishap DEF DispatchStep
  <2> QED  BY <2>1, <2>2, ProjectStep DEF NotifyNext
<1> QED  BY <1>1, NotifyInitially, PTL DEF NotifySpec

\* The records of the notifications, the documents and the calls keep their
\* types: no record has more attempts than MAX_ATTEMPTS, no call handles
\* anything but notifications of versions that exist.
THEOREM NotificationsTypeCorrect == NotifySpec => []NotificationsTypeOK
<1>1. NInv => NotificationsTypeOK
  <2> SUFFICES ASSUME NShape PROVE NotificationsTypeOK  BY DEF NInv
  <2>1. \A n \in Notes : note[n] \in Note  BY DEF NShape
  <2>2. \A d \in Dispatchers : dispatcher[d] \in Dispatcher  BY DEF NShape
  <2>3. \A d \in Dispatchers : dispatcher[d].batch \cup dispatcher[d].group \subseteq Notes
    BY <2>2 DEF Dispatcher
  <2>4. \A n \in Notes : /\ note[n].status \in {"none", "pending", "failed", "sent"}
                         /\ note[n].attempts \in 0 .. MaxMails
    BY <2>1 DEF Note
  <2> QED  BY <2>3, <2>4 DEF NShape, NotificationsTypeOK
<1> QED  BY <1>1, NotifyInductive, PTL

\* However many workers dispatch at once, a version of a document is told once,
\* apart from the mails whose record a crash, a failed write or a lost answer
\* of the server prevented.
THEOREM NobodyIsToldTwice == NotifySpec => []ToldOnce
<1>1. NInv => ToldOnce
  <2> SUFFICES ASSUME MailInv, NEW n \in Notes PROVE told[n] <= 1  BY DEF NInv, ToldOnce
  <2> QED  BY DEF MailInv
<1> QED  BY <1>1, NotifyInductive, PTL

-----------------------------------------------------------------------------
(* FeedbackOutbox: an accepted export stays until the tunnel has it *)

Statuses == {"pending", "failed", "transmitted", "skipped"}
Sender ==
  [pc : {"rest", "next", "post", "posted", "unlink"}, consent : BOOLEAN, credentials : BOOLEAN,
   todo : SUBSET Exports, export : Exports \cup {0}, tries : Nat, status : Statuses,
   fresh : BOOLEAN]

FShape ==
  /\ consent \in BOOLEAN /\ credentials \in BOOLEAN
  /\ outbox \in [Exports -> {"none", "failed", "skipped"}] /\ number \in [Exports -> Nat]
  /\ transmitted \subseteq Exports /\ metrics \subseteq Exports /\ stale \subseteq Exports
  /\ received \subseteq Exports /\ accepted \subseteq Exports
  /\ sender \in [Senders -> Sender]

\* One submission at a time, under the project lock: what it is to build has a
\* number that nobody else takes.
SubmitInv ==
  /\ \A p, q \in Submitters : ~At2(p, "rest") /\ ~At2(q, "rest") => p = q
  /\ \A p \in Submitters : ~At2(p, "rest") /\ ~sender[p].fresh => Cardinality(Built) < MaxExports

\* What a call has in hand, and that the tunnel has what it answered for.
HandInv ==
  \A p \in Senders :
    /\ sender[p].pc \in {"post", "posted", "unlink"} => sender[p].export \in Exports
    /\ sender[p].fresh => p \in Submitters /\ sender[p].pc \in {"post", "posted"}
    /\ sender[p].status = "transmitted" => sender[p].pc \in {"posted", "unlink"}
    /\ (At2(p, "posted") /\ sender[p].status = "transmitted") \/ At2(p, "unlink") =>
         sender[p].export \in received

FInv == FShape /\ SubmitInv /\ HandInv /\ KeptUntilReceived

\* A set of exports has a first one: the exports before each of its members form
\* a strictly smaller set the earlier the member is.
LEMMA LeastExists ==
  ASSUME NEW S, S \subseteq Exports, S # {}
  PROVE  Least(S) \in S
<1> DEFINE Before(m) == {k \in Exports : k < m}
           Less == StrictSubsetOrdering(Exports)
           Sets == {Before(m) : m \in S}
<1>0. \A m \in Exports : m \in Nat  BY FeedbackAssumption DEF Exports
<1>1. IsFiniteSet(Exports)  BY FS_Interval, FeedbackAssumption DEF Exports
<1>2. IsWellFoundedOn(Less, SUBSET Exports)
  BY <1>1, FS_StrictSubsetOrderingWellFounded, FS_FiniteSubsetsOfFinite
<1>3. Sets \subseteq SUBSET Exports /\ Sets # {}  OBVIOUS
<1>4. \A A, B \in SUBSET Exports : A \subseteq B /\ A # B => <<A, B>> \in Less
  BY DEF StrictSubsetOrdering
<1>5. PICK A \in Sets : \A B \in Sets : ~(<<B, A>> \in Less)
  <2> HIDE DEF Less, Sets
  <2> QED  BY <1>2, <1>3, WFMin
<1>6. PICK m \in S : A = Before(m)  BY <1>5
<1>7. ASSUME NEW k \in S PROVE m <= k
  <2> SUFFICES ASSUME k < m PROVE FALSE  BY <1>0
  <2>1. Before(k) \subseteq A /\ k \in A /\ k \notin Before(k)  BY <1>0, <1>6
  <2>2. Before(k) \in SUBSET Exports /\ A \in SUBSET Exports /\ Before(k) \in Sets  BY <1>3, <1>5
  <2> HIDE DEF Less, Sets, Before
  <2> QED  BY <1>4, <1>5, <2>1, <2>2
<1> QED  BY <1>6, <1>7 DEF Least

LEMMA FeedbackInitially == FeedbackInit => FInv
<1> SUFFICES ASSUME FeedbackInit PROVE FInv  OBVIOUS
<1>1. AtRest \in Sender  BY DEF AtRest, Sender, Statuses
<1>2. FShape  BY <1>1 DEF FeedbackInit, FShape
<1>3. SubmitInv  BY DEF FeedbackInit, SubmitInv, At2, AtRest, Senders
<1>4. HandInv  BY DEF FeedbackInit, HandInv, At2, AtRest
<1>5. KeptUntilReceived  BY DEF FeedbackInit, KeptUntilReceived
<1> QED  BY <1>2, <1>3, <1>4, <1>5 DEF FInv

LEMMA OutsideStep ==
  ASSUME FInv, ChangeConsent \/ Enroll \/ \E e \in Exports : NewSchema(e)
  PROVE  FInv'
<1>1. UNCHANGED <<files, number, received, accepted, sender>>
  BY DEF ChangeConsent, Enroll, NewSchema
<1>2. consent' \in BOOLEAN /\ credentials' \in BOOLEAN /\ stale' \subseteq Exports
  BY DEF ChangeConsent, Enroll, NewSchema, FInv, FShape, settings
<1>3. FShape'  BY <1>1, <1>2 DEF FInv, FShape, files
<1>4. SubmitInv' /\ HandInv' /\ KeptUntilReceived'
  BY <1>1 DEF FInv, SubmitInv, HandInv, KeptUntilReceived, At2, Built, files
<1> QED  BY <1>3, <1>4 DEF FInv

\* A step of a call that neither begins nor builds: it keeps what it was built
\* for, and what the others have in hand is not taken from the tunnel.
LEMMA CallKept ==
  ASSUME FInv, NEW p \in Senders, NEW x \in Sender,
         sender' = [sender EXCEPT ![p] = x],
         UNCHANGED <<settings, stale, number>>,
         outbox' \in [Exports -> {"none", "failed", "skipped"}],
         transmitted' \subseteq Exports, metrics' \subseteq Exports,
         received' \subseteq Exports, accepted' \subseteq Exports,
         received \subseteq received',
         x.pc # "rest" => ~At2(p, "rest") /\ x.fresh = sender[p].fresh,
         x.pc \in {"post", "posted", "unlink"} => x.export \in Exports,
         x.fresh => p \in Submitters /\ x.pc \in {"post", "posted"},
         x.status = "transmitted" => x.pc \in {"posted", "unlink"},
         (x.pc = "posted" /\ x.status = "transmitted") \/ x.pc = "unlink" => x.export \in received',
         KeptUntilReceived'
  PROVE  FInv'
<1>0. FShape /\ sender \in [Senders -> Sender]  BY DEF FInv, FShape
<1>1. FShape'  BY <1>0 DEF FShape, settings
<1>2. sender'[p] = x /\ \A q \in Senders : q # p => sender'[q] = sender[q]  BY <1>0
<1>3. SubmitInv'
  <2>1. Built' = Built  BY DEF Built
  <2>2. \A q \in Submitters : q \in Senders  BY DEF Senders
  <2>3. ASSUME NEW q \in Submitters, ~At2(q, "rest")'
        PROVE  ~At2(q, "rest") /\ sender'[q].fresh = sender[q].fresh
    BY <1>2, <2>2, <2>3 DEF At2
  <2>4. \A q, r \in Submitters : ~At2(q, "rest")' /\ ~At2(r, "rest")' => q = r
    BY <2>3 DEF FInv, SubmitInv
  <2>5. \A q \in Submitters : ~At2(q, "rest")' /\ ~sender'[q].fresh => Cardinality(Built) < MaxExports
    BY <2>3 DEF FInv, SubmitInv
  <2> QED  BY <2>1, <2>4, <2>5 DEF SubmitInv
<1>4. HandInv'
  BY <1>2 DEF FInv, HandInv, At2
<1> QED  BY <1>1, <1>3, <1>4 DEF FInv

\* The steps of a flush, and the end of any call.
LEMMA FlushSteps ==
  ASSUME FInv, NEW p \in Senders,
         \/ NextFile(p) \/ Post(p) \/ Refused(p) \/ RecordPost(p) \/ Unlink(p) \/ FlushDone(p)
         \/ FileExport(p) \/ SenderDies(p)
  PROVE  FInv'
<1>0. FShape /\ sender \in [Senders -> Sender] /\ sender[p] \in Sender  BY DEF FInv, FShape
<1>1. AtRest \in Sender /\ AtRest.pc = "rest" /\ ~AtRest.fresh /\ AtRest.status = "pending"
  BY DEF AtRest, Sender, Statuses
<1>2. KeptUntilReceived  BY DEF FInv
<1> DEFINE e == sender[p].export
<1>3. CASE NextFile(p)
  <2> DEFINE f == Least(sender[p].todo)
             todo == sender[p].todo \ {f}
             x == [sender[p] EXCEPT !.pc = "post", !.export = f, !.tries = 0, !.todo = todo]
             y == [sender[p] EXCEPT !.todo = todo]
  <2>1. sender[p].todo \subseteq Exports  BY <1>0 DEF Sender
  <2>2. f \in Exports  BY <1>3, <2>1, LeastExists DEF NextFile
  <2>3. \/ sender' = [sender EXCEPT ![p] = x] \/ sender' = [sender EXCEPT ![p] = y]
    BY <1>0, <1>3 DEF NextFile
  <2>4. /\ At2(p, "next") /\ UNCHANGED <<settings, transmitted, metrics, stale, number, received, accepted>>
        /\ outbox' = outbox \/ outbox' = [outbox EXCEPT ![f] = "skipped"]
    BY <1>3 DEF NextFile
  <2> HIDE DEF f
  <2>5. /\ x \in Sender /\ x.pc = "post" /\ x.export = f /\ x.fresh = sender[p].fresh
        /\ x.status = sender[p].status
    BY <1>0, <2>1, <2>2 DEF Sender
  <2>6. y \in Sender /\ y.pc = "next" /\ y.fresh = sender[p].fresh /\ y.status = sender[p].status
    BY <1>0, <2>1, <2>4 DEF Sender, At2
  <2>7. sender[p].fresh = FALSE /\ sender[p].status # "transmitted"
    BY <1>0, <2>4 DEF FInv, HandInv, At2, Sender
  <2>8. outbox' \in [Exports -> {"none", "failed", "skipped"}] /\ KeptUntilReceived'
    <3>1. \A g \in Exports : outbox[g] # "none" => outbox'[g] # "none"  BY <1>0, <2>4 DEF FShape
    <3>2. accepted \subseteq Exports  BY <1>0 DEF FShape
    <3> QED  BY <1>0, <1>2, <2>4, <3>1, <3>2 DEF FShape, KeptUntilReceived
  <2> HIDE DEF x, y
  <2>9. CASE sender' = [sender EXCEPT ![p] = x]
    BY <1>0, <2>2, <2>4, <2>5, <2>7, <2>8, <2>9, CallKept DEF FShape, At2
  <2>10. CASE sender' = [sender EXCEPT ![p] = y]
    BY <1>0, <2>4, <2>6, <2>7, <2>8, <2>10, CallKept DEF FShape, At2
  <2> QED  BY <2>3, <2>9, <2>10
<1>4. CASE Post(p)
  <2>1. PICK reached \in BOOLEAN, answered \in BOOLEAN :
          /\ answered => reached
          /\ received' = IF reached THEN received \cup {e} ELSE received
          /\ sender' = [sender EXCEPT ![p] =
               IF answered THEN [@ EXCEPT !.pc = "posted", !.status = "transmitted"]
               ELSE IF sender[p].credentials /\ sender[p].tries + 1 < MaxTries
                      THEN [@ EXCEPT !.tries = sender[p].tries + 1]
               ELSE [@ EXCEPT !.pc = "posted", !.status = "failed"]]
    BY <1>4 DEF Post
  <2>2. At2(p, "post") /\ UNCHANGED <<settings, files, stale, number, accepted>>  BY <1>4 DEF Post
  <2>3. e \in Exports /\ (sender[p].fresh => p \in Submitters) /\ sender[p].status # "transmitted"
    BY <2>2 DEF FInv, HandInv, At2
  <2>4. received' \subseteq Exports /\ received \subseteq received' /\ KeptUntilReceived'
    BY <1>0, <1>2, <2>1, <2>2, <2>3 DEF FShape, KeptUntilReceived, files
  <2> DEFINE n == sender[p].tries + 1
             x == [sender[p] EXCEPT !.pc = "posted", !.status = "transmitted"]
             y == [sender[p] EXCEPT !.tries = n]
             z == [sender[p] EXCEPT !.pc = "posted", !.status = "failed"]
  <2>5. n \in Nat  BY <1>0 DEF Sender
  <2>6. \/ answered /\ sender' = [sender EXCEPT ![p] = x]
        \/ sender' = [sender EXCEPT ![p] = y] \/ sender' = [sender EXCEPT ![p] = z]
    BY <2>1
  <2> HIDE DEF n
  <2>7. /\ x \in Sender /\ x.pc = "posted" /\ x.status = "transmitted" /\ x.export = e
        /\ x.fresh = sender[p].fresh
        /\ y \in Sender /\ y.pc = "post" /\ y.status = sender[p].status /\ y.export = e
        /\ y.fresh = sender[p].fresh
        /\ z \in Sender /\ z.pc = "posted" /\ z.status = "failed" /\ z.export = e
        /\ z.fresh = sender[p].fresh
    BY <1>0, <2>2, <2>5 DEF Sender, Statuses, At2
  <2>8. /\ outbox' \in [Exports -> {"none", "failed", "skipped"}] /\ transmitted' \subseteq Exports
        /\ metrics' \subseteq Exports /\ accepted' \subseteq Exports
    BY <1>0, <2>2 DEF FShape, files
  <2>9. answered => e \in received'  BY <2>1
  <2>10. ~At2(p, "rest")  BY <2>2 DEF At2
  <2> HIDE DEF x, y, z
  <2>11. CASE answered /\ sender' = [sender EXCEPT ![p] = x]
    BY <2>2, <2>3, <2>4, <2>7, <2>8, <2>9, <2>10, <2>11, CallKept
  <2>12. CASE sender' = [sender EXCEPT ![p] = y]
    BY <2>2, <2>3, <2>4, <2>7, <2>8, <2>10, <2>12, CallKept
  <2>13. CASE sender' = [sender EXCEPT ![p] = z]
    BY <2>2, <2>3, <2>4, <2>7, <2>8, <2>10, <2>13, CallKept
  <2> QED  BY <2>6, <2>11, <2>12, <2>13
<1>5. CASE Refused(p) \/ FlushDone(p) \/ SenderDies(p)
  <2>1. /\ sender' = [sender EXCEPT ![p] = AtRest]
        /\ UNCHANGED <<settings, files, stale, number, received, accepted>>
    BY <1>5 DEF Refused, FlushDone, SenderDies, Ends2
  <2>2. FShape' => /\ outbox' \in [Exports -> {"none", "failed", "skipped"}]
                   /\ transmitted' \subseteq Exports /\ metrics' \subseteq Exports
                   /\ received' \subseteq Exports /\ accepted' \subseteq Exports
    BY DEF FShape
  <2>3. FShape'  BY <1>0, <1>1, <2>1 DEF FShape, settings, files
  <2>4. KeptUntilReceived'  BY <1>2, <2>1 DEF KeptUntilReceived, files
  <2> QED  BY <1>1, <2>1, <2>2, <2>3, <2>4, CallKept
<1>6. CASE RecordPost(p)
  <2>1. /\ At2(p, "posted") /\ ~sender[p].fresh
        /\ UNCHANGED <<settings, metrics, stale, number, received, accepted>>
    BY <1>6 DEF RecordPost
  <2>2. e \in Exports  BY <2>1 DEF FInv, HandInv, At2
  <2> DEFINE x == [sender[p] EXCEPT !.pc = "unlink"]
             y == [sender[p] EXCEPT !.pc = "next", !.status = "pending"]
  <2>3. /\ x \in Sender /\ x.pc = "unlink" /\ x.export = e /\ x.fresh = FALSE
        /\ y \in Sender /\ y.pc = "next" /\ y.status = "pending" /\ y.fresh = FALSE
    BY <1>0, <2>1 DEF Sender, Statuses
  <2>4. sender[p].fresh = FALSE /\ ~At2(p, "rest")  BY <1>0, <2>1 DEF Sender, At2
  <2>5. CASE sender[p].status = "transmitted"
    <3>1. /\ sender' = [sender EXCEPT ![p] = x]
          /\ transmitted' = transmitted \cup {e} /\ outbox' = outbox
      BY <1>0, <1>6, <2>5 DEF RecordPost
    <3>2. e \in received  BY <2>1, <2>5 DEF FInv, HandInv
    <3>3. KeptUntilReceived'  BY <1>2, <2>1, <3>1 DEF KeptUntilReceived
    <3> HIDE DEF x, y
    <3> QED  BY <1>0, <2>1, <2>2, <2>3, <2>4, <3>1, <3>2, <3>3, CallKept DEF FShape
  <2>6. CASE sender[p].status # "transmitted"
    <3>1. /\ sender' = [sender EXCEPT ![p] = y]
          /\ outbox' = [outbox EXCEPT ![e] = "failed"] /\ transmitted' = transmitted
      BY <1>0, <1>6, <2>6 DEF RecordPost
    <3>2. \A g \in Exports : outbox[g] # "none" => outbox'[g] # "none"  BY <1>0, <3>1 DEF FShape
    <3>3. KeptUntilReceived'  BY <1>0, <1>2, <2>1, <3>2 DEF KeptUntilReceived, FShape
    <3> HIDE DEF x, y
    <3> QED  BY <1>0, <2>1, <2>2, <2>3, <2>4, <3>1, <3>3, CallKept DEF FShape
  <2> QED  BY <2>5, <2>6
<1>7. CASE Unlink(p)
  <2>1. /\ At2(p, "unlink")
        /\ UNCHANGED <<settings, transmitted, metrics, stale, number, received, accepted>>
        /\ outbox' = [outbox EXCEPT ![e] = "none"] \/ outbox' = outbox
    BY <1>7 DEF Unlink
  <2>2. e \in Exports /\ e \in received /\ sender[p].fresh = FALSE
    BY <1>0, <2>1 DEF FInv, HandInv, At2, Sender
  <2> DEFINE x == [sender[p] EXCEPT !.pc = "next", !.status = "pending"]
  <2>3. x \in Sender /\ x.pc = "next" /\ x.status = "pending" /\ x.fresh = FALSE
    BY <1>0, <2>2 DEF Sender, Statuses
  <2>4. sender' = [sender EXCEPT ![p] = x] /\ ~At2(p, "rest")
    BY <1>0, <1>7, <2>1 DEF Unlink, At2
  <2>5. \A g \in Exports : g # e => outbox'[g] = outbox[g]  BY <1>0, <2>1 DEF FShape
  <2>6. KeptUntilReceived'  BY <1>0, <1>2, <2>1, <2>2, <2>5 DEF KeptUntilReceived, FShape
  <2>7. /\ outbox' \in [Exports -> {"none", "failed", "skipped"}] /\ transmitted' \subseteq Exports
        /\ metrics' \subseteq Exports /\ received' \subseteq Exports /\ accepted' \subseteq Exports
    BY <1>0, <2>1, <2>2 DEF FShape
  <2> HIDE DEF x
  <2> QED  BY <2>1, <2>2, <2>3, <2>4, <2>6, <2>7, CallKept
<1>8. CASE FileExport(p)
  <2>1. /\ At2(p, "posted") /\ sender[p].fresh /\ sender' = [sender EXCEPT ![p] = AtRest]
        /\ UNCHANGED <<settings, transmitted, stale, number, received>>
    BY <1>8 DEF FileExport, Ends2
  <2>2. e \in Exports  BY <2>1 DEF FInv, HandInv, At2
  <2>3. /\ outbox' \in [Exports -> {"none", "failed", "skipped"}]
        /\ transmitted' \subseteq Exports /\ metrics' \subseteq Exports
        /\ received' \subseteq Exports /\ accepted' \subseteq Exports
    BY <1>0, <1>8, <2>1, <2>2 DEF FileExport, FShape
  <2>4. KeptUntilReceived'
    <3>1. CASE sender[p].status = "failed"
      <4>1. outbox' = [outbox EXCEPT ![e] = "failed"] /\ accepted' = accepted \cup {e}
        BY <1>8, <3>1 DEF FileExport
      <4>2. outbox'[e] = "failed" /\ \A g \in Exports : g # e => outbox'[g] = outbox[g]
        BY <1>0, <2>2, <4>1 DEF FShape
      <4> QED  BY <1>0, <1>2, <2>1, <4>1, <4>2 DEF KeptUntilReceived, FShape
    <3>2. CASE sender[p].status # "failed"
      <4>1. UNCHANGED <<outbox, accepted>>  BY <1>8, <3>2 DEF FileExport
      <4> QED  BY <1>2, <2>1, <4>1 DEF KeptUntilReceived
    <3> QED  BY <3>1, <3>2
  <2> QED  BY <1>1, <2>1, <2>3, <2>4, CallKept
<1> QED  BY <1>3, <1>4, <1>5, <1>6, <1>7, <1>8

\* A call begins: a submission only when no other is at work and there is
\* something left to build.
LEMMA BeginStep ==
  ASSUME FInv, NEW p \in Senders, Begin2(p)
  PROVE  FInv'
<1>0. FShape /\ sender \in [Senders -> Sender]  BY DEF FInv, FShape
<1> DEFINE x == [AtRest EXCEPT !.pc = "next", !.todo = Glob,
                   !.consent = consent, !.credentials = credentials]
<1>1. /\ At2(p, "rest") /\ sender' = [sender EXCEPT ![p] = x]
      /\ p \in Submitters => /\ \A q \in Submitters : At2(q, "rest")
                             /\ Cardinality(Built) < MaxExports
      /\ UNCHANGED <<settings, files, stale, number, received, accepted>>
  BY DEF Begin2
<1>2. Glob \subseteq Exports  BY DEF Glob
<1>3. x \in Sender /\ x.pc = "next" /\ x.fresh = FALSE /\ x.status = "pending"
  BY <1>0, <1>2 DEF FShape, AtRest, Sender, Statuses
<1> HIDE DEF x
<1>4. sender'[p] = x /\ \A q \in Senders : q # p => sender'[q] = sender[q]  BY <1>0, <1>1
<1>5. FShape'  BY <1>0, <1>1, <1>3 DEF FShape, settings, files
<1>6. SubmitInv'
  <2>1. Built' = Built  BY <1>1 DEF Built
  <2>2. \A q \in Submitters : q \in Senders  BY DEF Senders
  <2>3. CASE p \in Submitters
    <3>1. \A q \in Submitters : q # p => At2(q, "rest")'  BY <1>1, <1>4, <2>2, <2>3 DEF At2
    <3> QED  BY <1>1, <2>1, <2>3, <3>1 DEF SubmitInv
  <2>4. CASE p \notin Submitters
    <3>1. \A q \in Submitters : sender'[q] = sender[q]  BY <1>4, <2>2, <2>4
    <3> QED  BY <2>1, <3>1 DEF FInv, SubmitInv, At2
  <2> QED  BY <2>3, <2>4
<1>7. HandInv'  BY <1>1, <1>3, <1>4 DEF FInv, HandInv, At2
<1>8. KeptUntilReceived'  BY <1>1 DEF FInv, KeptUntilReceived, files
<1> QED  BY <1>5, <1>6, <1>7, <1>8 DEF FInv

\* The export that is built is a new one of Exports: fewer than MaxExports were
\* built, which is why it has a number.
LEMMA BuildStep ==
  ASSUME FInv, NEW p \in Senders, BuildExport(p)
  PROVE  FInv'
<1>0. /\ FShape /\ sender \in [Senders -> Sender] /\ sender[p] \in Sender
      /\ MaxExports \in Nat
  BY FeedbackAssumption DEF FInv, FShape
<1> DEFINE e == Cardinality(Built) + 1
           x == [sender[p] EXCEPT !.export = e, !.fresh = TRUE, !.tries = 0,
                   !.pc = IF sender[p].consent THEN "post" ELSE "posted",
                   !.status = IF sender[p].consent THEN "pending" ELSE "skipped"]
<1>1. /\ At2(p, "next") /\ p \in Submitters /\ number' = [number EXCEPT ![e] = NextSequence]
      /\ sender' = [sender EXCEPT ![p] = x]
      /\ UNCHANGED <<settings, files, stale, received, accepted>>
  BY DEF BuildExport
<1>2. IsFiniteSet(Exports)  BY <1>0, FS_Interval DEF Exports
<1>3. Cardinality(Built) \in Nat
  BY <1>2, FS_Subset, FS_CardinalityType DEF Built
<1>4. NextSequence \in Nat
  <2>1. Cardinality(metrics) \in Nat
    BY <1>0, <1>2, FS_Subset, FS_CardinalityType DEF FShape
  <2>2. Cardinality(Glob) \in Nat  BY <1>2, FS_Subset, FS_CardinalityType DEF Glob
  <2> QED  BY <2>1, <2>2 DEF NextSequence
<1>5. ~sender[p].fresh  BY <1>1 DEF FInv, HandInv, At2
<1>6. Cardinality(Built) < MaxExports  BY <1>1, <1>5 DEF FInv, SubmitInv, At2
<1>7. e \in Exports  BY <1>0, <1>3, <1>6 DEF Exports
<1> HIDE DEF e
<1>8. /\ x \in Sender /\ x.pc \in {"post", "posted"} /\ x.export = e /\ x.fresh = TRUE
      /\ x.status \in {"pending", "skipped"}
  BY <1>0, <1>7 DEF Sender, Statuses
<1> HIDE DEF x
<1>9. sender'[p] = x /\ \A q \in Senders : q # p => sender'[q] = sender[q]  BY <1>0, <1>1
<1>10. FShape'
  <2>1. number' \in [Exports -> Nat]  BY <1>0, <1>1, <1>4 DEF FShape
  <2> QED  BY <1>0, <1>1, <1>8, <2>1 DEF FShape, settings, files
<1>11. SubmitInv'
  <2>1. \A q \in Submitters : q # p => At2(q, "rest")  BY <1>1 DEF FInv, SubmitInv, At2
  <2>2. \A q \in Submitters : q # p => At2(q, "rest")'  BY <1>9, <2>1 DEF At2, Senders
  <2> QED  BY <1>8, <1>9, <2>2 DEF SubmitInv
<1>12. HandInv'  BY <1>1, <1>7, <1>8, <1>9 DEF FInv, HandInv, At2
<1>13. KeptUntilReceived'  BY <1>1 DEF FInv, KeptUntilReceived, files
<1> QED  BY <1>10, <1>11, <1>12, <1>13 DEF FInv

LEMMA FeedbackInductive == FInv /\ [FeedbackNext]_fbVars => FInv'
<1> SUFFICES ASSUME FInv, [FeedbackNext]_fbVars PROVE FInv'  OBVIOUS
<1>1. CASE ChangeConsent \/ Enroll \/ \E e \in Exports : NewSchema(e)  BY <1>1, OutsideStep
<1>2. ASSUME NEW p \in Senders, Begin2(p) PROVE FInv'  BY <1>2, BeginStep
<1>3. ASSUME NEW p \in Senders, BuildExport(p) PROVE FInv'  BY <1>3, BuildStep
<1>4. ASSUME NEW p \in Senders, SendStep(p) \/ SenderDies(p), ~BuildExport(p) PROVE FInv'
  BY <1>4, FlushSteps DEF SendStep
<1>5. CASE UNCHANGED fbVars
  BY <1>5 DEF fbVars, FInv, FShape, SubmitInv, HandInv, KeptUntilReceived, At2, Built,
              settings, files
<1> QED  BY <1>1, <1>2, <1>3, <1>4, <1>5 DEF FeedbackNext, SendStep

LEMMA FeedbackInvariant == FeedbackSpec => []FInv
<1> QED  BY FeedbackInitially, FeedbackInductive, PTL DEF FeedbackSpec

\* What a call has to flush are exports, and no file holds a status that the
\* code does not write.
THEOREM FeedbackTypeCorrect == FeedbackSpec => []FeedbackTypeOK
<1>1. FInv => FeedbackTypeOK
  <2> SUFFICES ASSUME FInv PROVE FeedbackTypeOK  OBVIOUS
  <2>1. ASSUME NEW p \in Senders PROVE sender[p] \in Sender  BY DEF FInv, FShape
  <2> QED  BY <2>1 DEF FInv, FShape, FeedbackTypeOK, Sender, Statuses
<1> QED  BY <1>1, FeedbackInvariant, PTL

\* An export of an accepted submission stays in the outbox until the tunnel has
\* it, whatever flushes and submissions are at work on the files, whichever
\* answers are lost and whichever calls are cut off (submit.py, flush_outbox:
\* only what was answered for is removed, and what is removed is what was posted).
THEOREM AcceptedIsKept == FeedbackSpec => []KeptUntilReceived
<1>1. FInv => KeptUntilReceived  BY DEF FInv
<1> QED  BY <1>1, FeedbackInvariant, PTL
=============================================================================
