-------------------------- MODULE CoordinatorSafety --------------------------
(***************************************************************************)
(* What the coordinator promises across crashes, lost acknowledgements and *)
(* resumed runs, for every number of workers and runs.                     *)
(*                                                                         *)
(* Fenced says which process an action is for and what its intervention    *)
(* ended as; Cool, that every state in memory or on disk remembers the     *)
(* last actions; Told and Loaded, that what a state tells of a performed   *)
(* action is true and comes back in a resumed run; SmallRun, that what is  *)
(* saved is small.  Each is inductive together with CInv (see              *)
(* CoordinatorProofs) and those before it.                                 *)
(***************************************************************************)
EXTENDS CoordinatorProofs

-----------------------------------------------------------------------------
(* Actions, fences and boot ids. *)

\* An action that a worker performed ended in none of these ...
Undone == {"AUTHORIZED", "SUPERSEDED", "FAILED"}

\* ... and in one of these only if a worker performed it.
Answering == {"ACKNOWLEDGED", "EFFECTIVE", "PARTIALLY_EFFECTIVE", "INEFFECTIVE"}

\* What is kept of an action that was performed.
Performance == [boot : Nat \ {0}, attempt : Nat, target : Workloads,
                fence : Fence, at : Nat]

\* The actions on their way to a worker, and that an acknowledgement is on its
\* way back.
ActionsTo(p) ==
    { toWorker[p][n] : n \in { k \in DOMAIN toWorker[p] :
                                 toWorker[p][k].type = "ACTION_AUTHORIZE" } }

AckFrom(p) == \E n \in DOMAIN toCoord[p] : toCoord[p][n].type = "ACTION_ACK"

\* A governor's state knows a boot id from a hello or from a fence.
Mentions(m, b) ==
    \/ \E w \in Workloads : m.authority.boots[w] = b
    \/ \E i \in DOMAIN m.interventions : m.interventions[i].fence.workerBoot = b

\* Action m, sent or performed, is that of the intervention of this run.
OfCurrent(m) ==
    /\ pc \in Sent
    /\ m.attempt = Current
    /\ m.fence = interventions[Current].fence
    /\ interventions[Current].state \notin Undone

\* Action m is none of this run: no intervention of it will have its fence.
Unclaimed(m) ==
    /\ (\E w \in Workloads : authority.boots[w] = m.fence.workerBoot)
          => m.attempt <= recovered
    /\ m.attempt \in DOMAIN interventions
       /\ interventions[m.attempt].fence = m.fence
          => /\ m.attempt <= recovered
             /\ interventions[m.attempt].state \notin Undone

\* A run that resumes from s finds action m to be none of its own.
KnownTo(m, s) ==
    /\ (\E w \in Workloads : s.authority.boots[w] = m.fence.workerBoot)
          => m.attempt <= Len(s.interventions)
    /\ m.attempt \in DOMAIN s.interventions
       /\ s.interventions[m.attempt].fence = m.fence
          => s.interventions[m.attempt].state \notin Undone

\* The action of this run was performed by the worker its fence names.
Backed ==
    \E a \in performed : /\ a.attempt = Current
                         /\ a.fence = interventions[Current].fence

\* Boot ids count the processes: one known to anybody was given out, and no
\* two processes have the same.
BootsCounted ==
    /\ \A m \in Snapshots \cup {Memory} : \A b \in Nat :
          Mentions(m, b) => b <= starts
    /\ \A p \in Procs : boot[p] <= starts
    /\ \A p, q \in Procs : Running(p) /\ boot[p] = boot[q] => p = q

\* The boot id that the governor has for a worker is that of the process at the
\* connection, and no saved state knows it before an action was sent.
ConnsFenced ==
    /\ \A w \in Workloads : conns[w] # NoProc /\ Running(conns[w])
          => authority.boots[w] = boot[conns[w]]
    /\ pc \in Sent \cup {"dispatch", "send"}
          => interventions[Current].fence.workerBoot
                = authority.boots[interventions[Current].target]
    /\ pc \in Unsent => \A p \in linked : Running(p) =>
          \A s \in Snapshots : ~Mentions(s, boot[p])

\* The boot id in a hello that waits is that of the process that sent it and of
\* no other, and no action was performed under it.
Fresh(p, b) ==
    /\ b \in 1..starts
    /\ boot[p] \in {0, b}
    /\ \A q \in Procs \ {p} : boot[q] # b
    /\ \A a \in performed : a.boot # b

HellosFresh ==
    \A n \in DOMAIN backlog :
        ~(pc = "evidence" /\ n = 1)
           => Fresh(backlog[n], toCoord[backlog[n]][1].boot)

\* An action on its way is for the very process its fence names; on an open
\* connection it is the one of this run, on a closed one it is none.
ActionsClaimed ==
    \A p \in Procs : \A m \in ActionsTo(p) :
        /\ m.fence.workerBoot = boot[p]
        /\ IF p \in linked THEN OfCurrent(m) ELSE Unclaimed(m)
        /\ \A s \in Snapshots : KnownTo(m, s)

\* So it is with one that was performed.
PerformedClaimed ==
    \A a \in performed :
        /\ a \in Performance
        /\ a.boot = a.fence.workerBoot /\ a.boot <= starts
        /\ Unclaimed(a) \/ OfCurrent(a)
        /\ \A s \in Snapshots : KnownTo(a, s)

\* What is acknowledged was performed.
AcksBacked ==
    /\ \A p \in Procs : AckFrom(p) => pc \in Sent /\ Backed
    /\ pc \in Sent /\ interventions[Current].state \in Answering => Backed

\* Every action is performed by the process it was authorized for, and ends as
\* what it is.
Fenced ==
    /\ BootsCounted
    /\ ConnsFenced
    /\ HellosFresh
    /\ ActionsClaimed
    /\ PerformedClaimed
    /\ AcksBacked

-----------------------------------------------------------------------------
\* The sorts of what the fences are about, and where the intervention of this
\* run is.
Sorted ==
    /\ interventions \in Seq(InterventionRecord)
    /\ DOMAIN interventions = 1..Len(interventions)
    /\ Len(interventions) \in Nat /\ recovered \in Nat
    /\ recovered <= Len(interventions)
    /\ authority \in AuthorityContext
    /\ conns \in [Workloads -> Procs \cup {NoProc}]
    /\ linked \in SUBSET Procs
    /\ starts \in Nat /\ boot \in [Procs -> Nat]
    /\ toWorker \in [Procs -> Seq(ToWorker)]
    /\ toCoord \in [Procs -> Seq(FromWorker)]
    /\ pc \in Sent \cup {"dispatch", "send"}
          => Current \in DOMAIN interventions /\ Current = recovered + 1
    /\ \A p \in Procs : \A m \in ActionsTo(p) :
          /\ m.attempt \in Nat /\ m.fence \in Fence
          /\ m.target \in Workloads /\ m.at \in Nat
          /\ boot[p] # 0

\* The sorts follow from the types.
LEMMA Sorts == ASSUME CInv PROVE Sorted
<1>1. /\ interventions \in Seq(InterventionRecord) /\ authority \in AuthorityContext
      /\ recovered \in Nat
  BY DEF CInv, TypeOK, Phase
<1>2. NetworkTypes
  BY DEF CInv, Links
<1>3. DOMAIN interventions = 1..Len(interventions) /\ Len(interventions) \in Nat
  BY <1>1
<1>4. /\ recovered <= Len(interventions)
      /\ pc \in Sent \cup {"dispatch", "send"}
            => Current \in DOMAIN interventions /\ Current = recovered + 1
  <2>1. pc \in {"down"} \cup Admitting \cup Acting
    BY <1>2 DEF NetworkTypes
  <2>2. pc = "down" => recovered = 0
    BY DEF CInv, Phase
  <2>3. pc \in Admitting \cup {"decide"} => Len(interventions) = recovered
    BY DEF CInv, Phase
  <2>4. pc \in Acting \ {"decide"} => Len(interventions) = recovered + 1
    BY DEF CInv, Phase
  <2>5. Sent \cup {"dispatch", "send"} \subseteq Acting \ {"decide"}
    BY DEF Sent, Acting
  <2>6. recovered <= Len(interventions)
    <3>1. \/ Len(interventions) = recovered \/ Len(interventions) = recovered + 1
          \/ recovered = 0
      BY <2>1, <2>2, <2>3, <2>4 DEF Admitting, Acting
    <3>2. \A r, l \in Nat : l = r \/ l = r + 1 \/ r = 0 => r <= l
      OBVIOUS
    <3>. QED
      BY <1>1, <1>3, <3>1, <3>2
  <2>7. Len(interventions) = recovered + 1 => Len(interventions) \in 1..Len(interventions)
    BY <1>1, <1>3
  <2>. QED
    BY <1>3, <2>4, <2>5, <2>6, <2>7 DEF Current
<1>5. \A p \in Procs : \A m \in ActionsTo(p) :
         /\ m.attempt \in Nat /\ m.fence \in Fence
         /\ m.target \in Workloads /\ m.at \in Nat
         /\ boot[p] # 0
  <2>1. ASSUME NEW p \in Procs, NEW m \in ActionsTo(p)
        PROVE  /\ m.attempt \in Nat /\ m.fence \in Fence
               /\ m.target \in Workloads /\ m.at \in Nat
               /\ boot[p] # 0
    <3>1. PICK n \in DOMAIN toWorker[p] :
             m = toWorker[p][n] /\ m.type = "ACTION_AUTHORIZE"
      BY <2>1 DEF ActionsTo
    <3>2. toWorker[p] \in Seq(ToWorker)
      BY <1>2 DEF NetworkTypes
    <3>3. m \in ToWorker
      BY <3>1, <3>2
    <3>4. boot[p] # 0
      BY <3>1 DEF CInv, Links, QuietBefore, Running
    <3>. QED
      BY <3>1, <3>3, <3>4 DEF ToWorker
  <2>. QED
    BY <2>1
<1>. QED
  BY <1>1, <1>2, <1>3, <1>4, <1>5 DEF NetworkTypes, Sorted

-----------------------------------------------------------------------------
(* What an ordinary step does to all this. *)

\* The same interventions under the same authority: only the state of the one
\* of this run may change.
SameRecord ==
    /\ authority' = authority /\ recovered' = recovered
    /\ Len(interventions') = Len(interventions)
    /\ \A i \in DOMAIN interventions :
          /\ interventions'[i].fence = interventions[i].fence
          /\ interventions'[i].target = interventions[i].target
          /\ i \in 1..recovered => interventions'[i].state = interventions[i].state

\* And where the run is goes with it.
RecordKept ==
    /\ SameRecord
    /\ conns' = conns
    /\ pc \in Sent => pc' \in Sent
    /\ pc' \in Sent \cup {"dispatch", "send"}
          => pc \in Sent \cup {"dispatch", "send"}
    /\ pc' \in Unsent => pc \in Unsent \/ linked = {}
    /\ pc \in Sent /\ interventions[Current].state \notin Undone
          => interventions'[Current].state \notin Undone
    /\ pc' \in Sent /\ interventions'[Current].state \in Answering
          => \/ pc \in Sent /\ interventions[Current].state \in Answering
             \/ \E p \in Procs : AckFrom(p)

\* An action that is sent, and one that is performed.
Sends(m, p) ==
    /\ m.fence.workerBoot = boot[p]
    /\ p \in linked /\ OfCurrent(m)'
    /\ \A s \in Snapshots : KnownTo(m, s)

Performs(a) ==
    /\ a \in Performance
    /\ a.boot = a.fence.workerBoot /\ a.boot <= starts
    /\ Unclaimed(a) \/ OfCurrent(a)
    /\ \A s \in Snapshots : KnownTo(a, s)

\* Processes may end and frames be taken; frames that are added are an action,
\* of this run, and an acknowledgement, of an action that was performed.
FramesFenced ==
    /\ starts' = starts /\ linked' = linked
    /\ performed \subseteq performed'
    /\ \A a \in performed' \ performed : Performs(a)
    /\ \A p \in Procs : boot'[p] \in {boot[p], 0}
    /\ \A p \in Procs : \A m \in ActionsTo(p)' : 
          \/ m \in ActionsTo(p)
          \/ Snapshots' \subseteq Snapshots /\ Sends(m, p)
    /\ \A p \in Procs : AckFrom(p)' =>
          \/ AckFrom(p)
          \/ pc \in Sent /\ pc' \in Sent /\ Backed'

\* What is saved is what is in memory after the action.
SavesAfter ==
    \/ Snapshots' \subseteq Snapshots
    \/ /\ pc \in Sent /\ pc' \in Sent
       /\ Snapshots' \subseteq Snapshots \cup {Memory}

\* An action that nobody claims stays one when no record changes.
LEMMA UnclaimedKept ==
    ASSUME Sorted, Sorted', SameRecord, NEW m, Unclaimed(m)
    PROVE  Unclaimed(m)'
<1>1. /\ DOMAIN interventions' = DOMAIN interventions
      /\ DOMAIN interventions = 1..Len(interventions)
      /\ recovered \in Nat
  BY DEF Sorted, SameRecord
<1>2. ASSUME m.attempt \in DOMAIN interventions',
             interventions'[m.attempt].fence = m.fence
      PROVE  m.attempt <= recovered' /\ interventions'[m.attempt].state \notin Undone
  <2>1. /\ m.attempt \in DOMAIN interventions
        /\ interventions[m.attempt].fence = m.fence
    BY <1>1, <1>2 DEF SameRecord
  <2>2. m.attempt <= recovered /\ interventions[m.attempt].state \notin Undone
    BY <2>1 DEF Unclaimed
  <2>3. m.attempt \in 1..recovered
    BY <1>1, <2>1, <2>2
  <2>. QED
    BY <2>1, <2>2, <2>3 DEF SameRecord
<1>3. (\E w \in Workloads : authority'.boots[w] = m.fence.workerBoot)
         => m.attempt <= recovered'
  BY DEF SameRecord, Unclaimed
<1>. QED
  BY <1>2, <1>3 DEF Unclaimed

\* The action of this run stays the action of this run.
LEMMA OfCurrentKept ==
    ASSUME Sorted, Sorted', RecordKept, NEW m, OfCurrent(m)
    PROVE  OfCurrent(m)'
<1>1. Current' = Current
  BY DEF RecordKept, SameRecord, Current
<1>2. Current \in DOMAIN interventions
  BY DEF Sorted, OfCurrent
<1>. QED
  BY <1>1, <1>2 DEF OfCurrent, RecordKept, SameRecord

\* An intervention whose action was performed stays one.
LEMMA BackedKept ==
    ASSUME Sorted, RecordKept, FramesFenced, pc \in Sent, Backed
    PROVE  Backed'
<1>1. Current' = Current
  BY DEF RecordKept, SameRecord, Current
<1>2. Current \in DOMAIN interventions
  BY DEF Sorted
<1>. QED
  BY <1>1, <1>2 DEF Backed, RecordKept, SameRecord, FramesFenced

\* What is in memory after the action knows every action.
LEMMA KnownToMemory ==
    ASSUME Sorted, NEW m, m.attempt \in Nat, Unclaimed(m) \/ OfCurrent(m)
    PROVE  KnownTo(m, Memory)
<1>1. /\ Memory.interventions = interventions
      /\ Memory.authority = authority
  BY DEF Memory
<1>2. CASE Unclaimed(m)
  <2>1. recovered <= Len(interventions) /\ recovered \in Nat
        /\ Len(interventions) \in Nat
    BY DEF Sorted
  <2>2. m.attempt <= recovered => m.attempt <= Len(interventions)
    BY <2>1
  <2>. QED
    BY <1>1, <1>2, <2>2 DEF Unclaimed, KnownTo
<1>3. CASE OfCurrent(m)
  <2>1. m.attempt <= Len(interventions)
    BY <1>3 DEF Sorted, OfCurrent, Current
  <2>. QED
    BY <1>1, <1>3, <2>1 DEF OfCurrent, KnownTo
<1>. QED
  BY <1>2, <1>3

\* After a step that saves, every saved state knows every action.
LEMMA KnownAfterSave ==
    ASSUME Sorted, SavesAfter, NEW m, m.attempt \in Nat,
           Unclaimed(m) \/ OfCurrent(m), \A s \in Snapshots : KnownTo(m, s)
    PROVE  \A s \in Snapshots' : KnownTo(m, s)
  BY KnownToMemory DEF SavesAfter

\* A sequence has the domain its length says.
LEMMA SameDomain ==
    ASSUME NEW S, NEW T, NEW s \in Seq(S), NEW t \in Seq(T), Len(t) = Len(s)
    PROVE  DOMAIN t = DOMAIN s
  OBVIOUS

\* No boot id is mentioned by the memory that was not before.
LEMMA MentionsKept ==
    ASSUME Sorted, Sorted', SameRecord, NEW b
    PROVE  Mentions(Memory', b) => Mentions(Memory, b)
<1>1. /\ Memory.interventions = interventions
      /\ Memory.authority = authority
      /\ Memory'.interventions = interventions'
      /\ Memory'.authority = authority'
  BY DEF Memory
<1>2. DOMAIN interventions' = DOMAIN interventions
  <2>1. /\ interventions \in Seq(InterventionRecord)
        /\ interventions' \in Seq(InterventionRecord)
    BY DEF Sorted
  <2>2. Len(interventions') = Len(interventions)
    BY DEF SameRecord
  <2>. QED
    BY <2>1, <2>2, SameDomain
<1>. QED
  BY <1>1, <1>2 DEF Mentions, SameRecord

\* No boot id that is known is one of the future.
LEMMA BootsKept ==
    ASSUME Sorted, Sorted', BootsCounted, SameRecord, FramesFenced, SavesAfter
    PROVE  BootsCounted'
<1>1. ASSUME NEW m \in (Snapshots \cup {Memory})', NEW b \in Nat, Mentions(m, b)
      PROVE  b <= starts'
  <2>1. starts' = starts
    BY DEF FramesFenced
  <2>2. CASE m = Memory'
    BY <1>1, <2>1, <2>2, MentionsKept DEF BootsCounted
  <2>3. CASE m \in Snapshots'
    <3>1. m \in Snapshots \cup {Memory}
      BY <2>3 DEF SavesAfter
    <3>. QED
      BY <1>1, <2>1, <3>1 DEF BootsCounted
  <2>. QED
    BY <2>2, <2>3
<1>2. /\ boot \in [Procs -> Nat] /\ boot' \in [Procs -> Nat] /\ starts \in Nat
      /\ starts' = starts
      /\ \A p \in Procs : boot'[p] \in {boot[p], 0}
  BY DEF Sorted, FramesFenced
<1>3. \A p \in Procs : boot'[p] <= starts'
  BY <1>2 DEF BootsCounted
<1>4. ASSUME NEW p \in Procs, NEW q \in Procs, boot'[p] # 0, boot'[p] = boot'[q]
      PROVE  p = q
  <2>1. boot[p] # 0 /\ boot[p] = boot[q]
    BY <1>2, <1>4
  <2>. QED
    BY <2>1 DEF BootsCounted, Running
<1>. QED
  BY <1>1, <1>3, <1>4 DEF BootsCounted, Running

\* A connection stays that of the process whose boot id is on record.
LEMMA ConnsKept ==
    ASSUME Sorted, Sorted', ConnsFenced, RecordKept, FramesFenced, SavesAfter
    PROVE  ConnsFenced'
<1>1. /\ conns \in [Workloads -> Procs \cup {NoProc}]
      /\ conns' = conns /\ authority' = authority
      /\ linked' = linked /\ linked \in SUBSET Procs
      /\ \A p \in Procs : boot'[p] \in {boot[p], 0}
  BY DEF Sorted, RecordKept, SameRecord, FramesFenced
<1>2. \A w \in Workloads : conns'[w] # NoProc /\ boot'[conns'[w]] # 0
         => authority'.boots[w] = boot'[conns'[w]]
  BY <1>1 DEF ConnsFenced, Running
<1>3. ASSUME pc' \in Sent \cup {"dispatch", "send"}
      PROVE  interventions'[Current'].fence.workerBoot
                = authority'.boots[interventions'[Current'].target]
  <2>1. Current' = Current
    BY DEF RecordKept, SameRecord, Current
  <2>2. pc \in Sent \cup {"dispatch", "send"}
    BY <1>3 DEF RecordKept
  <2>3. Current \in DOMAIN interventions
    BY <2>2 DEF Sorted
  <2>. QED
    BY <1>1, <2>1, <2>2, <2>3 DEF ConnsFenced, RecordKept, SameRecord
<1>4. ASSUME pc' \in Unsent
      PROVE  \A p \in linked' : boot'[p] # 0 =>
                \A s \in Snapshots' : ~Mentions(s, boot'[p])
  <2>1. pc \in Unsent \/ linked = {}
    BY <1>4 DEF RecordKept
  <2>2. CASE linked = {}
    BY <1>1, <2>2
  <2>3. CASE pc \in Unsent
    <3>1. Snapshots' \subseteq Snapshots
      BY <2>3 DEF SavesAfter, Unsent, Sent, Acting
    <3>2. \A p \in linked : boot'[p] # 0 => boot'[p] = boot[p] /\ boot[p] # 0
      BY <1>1
    <3>. QED
      BY <1>1, <2>3, <3>1, <3>2 DEF ConnsFenced, Running
  <2>. QED
    BY <2>1, <2>2, <2>3
<1>. QED
  BY <1>2, <1>3, <1>4 DEF ConnsFenced, Running

\* An action on its way stays one for the process its fence names.
LEMMA ActionsKept ==
    ASSUME Sorted, Sorted', ActionsClaimed, RecordKept, FramesFenced, SavesAfter
    PROVE  ActionsClaimed'
<1>. SUFFICES ASSUME NEW p \in Procs, NEW m \in ActionsTo(p)'
              PROVE  /\ m.fence.workerBoot = boot'[p]
                     /\ IF p \in linked' THEN OfCurrent(m)' ELSE Unclaimed(m)'
                     /\ \A s \in Snapshots' : KnownTo(m, s)
  BY DEF ActionsClaimed
<1>1. boot'[p] = boot[p] /\ linked' = linked /\ m.attempt \in Nat
  <2>1. boot'[p] # 0
    BY DEF Sorted
  <2>2. m.attempt \in Nat
    BY DEF Sorted
  <2>. QED
    BY <2>1, <2>2 DEF FramesFenced
<1>2. CASE m \in ActionsTo(p)
  <2>1. /\ m.fence.workerBoot = boot[p]
        /\ IF p \in linked THEN OfCurrent(m) ELSE Unclaimed(m)
        /\ \A s \in Snapshots : KnownTo(m, s)
    BY <1>2 DEF ActionsClaimed
  <2>2. IF p \in linked THEN OfCurrent(m)' ELSE Unclaimed(m)'
    BY <2>1, OfCurrentKept, UnclaimedKept DEF RecordKept
  <2>3. \A s \in Snapshots' : KnownTo(m, s)
    BY <1>1, <2>1, KnownAfterSave
  <2>. QED
    BY <1>1, <2>1, <2>2, <2>3
<1>3. CASE Sends(m, p) /\ Snapshots' \subseteq Snapshots
  BY <1>1, <1>3 DEF Sends
<1>. QED
  BY <1>2, <1>3 DEF FramesFenced

\* An action that was performed stays that of this run, or nobody's.
LEMMA PerformedKept ==
    ASSUME Sorted, Sorted', PerformedClaimed, RecordKept, FramesFenced, SavesAfter
    PROVE  PerformedClaimed'
<1>. SUFFICES ASSUME NEW a \in performed'
              PROVE  /\ a \in Performance
                     /\ a.boot = a.fence.workerBoot /\ a.boot <= starts'
                     /\ Unclaimed(a)' \/ OfCurrent(a)'
                     /\ \A s \in Snapshots' : KnownTo(a, s)
  BY DEF PerformedClaimed
<1>1. Performs(a)
  BY DEF PerformedClaimed, Performs, FramesFenced
<1>2. Unclaimed(a)' \/ OfCurrent(a)'
  BY <1>1, UnclaimedKept, OfCurrentKept DEF Performs, RecordKept
<1>3. a.attempt \in Nat /\ starts' = starts
  BY <1>1 DEF Performs, Performance, FramesFenced
<1>4. \A s \in Snapshots' : KnownTo(a, s)
  BY <1>1, <1>3, KnownAfterSave DEF Performs
<1>. QED
  BY <1>1, <1>2, <1>3, <1>4 DEF Performs

\* An acknowledgement stays that of an action that was performed.
LEMMA AcksKept ==
    ASSUME Sorted, Sorted', AcksBacked, RecordKept, FramesFenced
    PROVE  AcksBacked'
<1>1. ASSUME NEW p \in Procs, AckFrom(p)'
      PROVE  pc' \in Sent /\ Backed'
  <2>1. CASE AckFrom(p)
    BY <2>1, BackedKept DEF AcksBacked, RecordKept
  <2>2. CASE pc \in Sent /\ pc' \in Sent /\ Backed'
    BY <2>2
  <2>. QED
    BY <1>1, <2>1, <2>2 DEF FramesFenced
<1>2. ASSUME pc' \in Sent, interventions'[Current'].state \in Answering
      PROVE  Backed'
  <2>1. Current' = Current
    BY DEF RecordKept, SameRecord, Current
  <2>2. pc \in Sent /\ Backed
    BY <1>2, <2>1 DEF AcksBacked, RecordKept
  <2>. QED
    BY <2>2, BackedKept
<1>. QED
  BY <1>1, <1>2 DEF AcksBacked

-----------------------------------------------------------------------------
(* The steps that change what an action can be held against. *)

\* The frames and the processes in a step that changes the record: none is
\* added, none starts.
NoFrames ==
    /\ starts' = starts
    /\ \A p \in Procs : boot'[p] \in {boot[p], 0}
    /\ \A p \in Procs : ActionsTo(p)' \subseteq ActionsTo(p)
    /\ Snapshots' \subseteq Snapshots

\* The run ends: whatever is on its way is of no run.
LEMMA EndKeepsFenced ==
    ASSUME Sorted, Sorted', BootsCounted, ActionsClaimed, PerformedClaimed,
           NoFrames, Memory' = BlankMemory, recovered' = 0, pc' = "down",
           \A w \in Workloads : conns'[w] = NoProc, linked' = {},
           performed' = performed, \A p \in Procs : ~AckFrom(p)'
    PROVE  BootsCounted' /\ ConnsFenced' /\ ActionsClaimed' /\ PerformedClaimed'
           /\ AcksBacked'
<1>1. /\ interventions' = << >> /\ DOMAIN interventions' = {}
      /\ \A w \in Workloads : authority'.boots[w] = 0
  BY DEF Memory, BlankMemory
<1>2. /\ DOMAIN Memory'.interventions = {}
      /\ \A w \in Workloads : Memory'.authority.boots[w] = 0
  BY DEF BlankMemory
<1>3. BootsCounted'
  <2>1. starts \in Nat /\ starts' = starts
    BY DEF Sorted, NoFrames
  <2>2. \A m \in Snapshots' \cup {Memory'} : \A b \in Nat :
           Mentions(m, b) => b <= starts'
    BY <1>2, <2>1 DEF BootsCounted, NoFrames, Mentions
  <2>3. /\ boot \in [Procs -> Nat] /\ boot' \in [Procs -> Nat]
        /\ \A p \in Procs : boot'[p] \in {boot[p], 0}
    BY DEF Sorted, NoFrames
  <2>4. \A p \in Procs : boot'[p] <= starts'
    BY <2>1, <2>3 DEF BootsCounted
  <2>5. ASSUME NEW p \in Procs, NEW q \in Procs, boot'[p] # 0, boot'[p] = boot'[q]
        PROVE  p = q
    <3>1. boot[p] # 0 /\ boot[p] = boot[q]
      BY <2>3, <2>5
    <3>. QED
      BY <3>1 DEF BootsCounted, Running
  <2>. QED
    BY <2>2, <2>4, <2>5 DEF BootsCounted, Running
<1>4. ConnsFenced'
  BY DEF ConnsFenced, Sent, Unsent, Acting
<1>5. ASSUME NEW m, m.fence.workerBoot # 0
      PROVE  Unclaimed(m)'
  BY <1>1, <1>5 DEF Unclaimed
<1>6. ActionsClaimed'
  <2>1. ASSUME NEW p \in Procs, NEW m \in ActionsTo(p)'
        PROVE  /\ m.fence.workerBoot = boot'[p]
               /\ Unclaimed(m)'
               /\ \A s \in Snapshots' : KnownTo(m, s)
    <3>1. /\ m \in ActionsTo(p) /\ boot'[p] # 0 /\ boot'[p] = boot[p]
      BY DEF NoFrames, Sorted
    <3>2. Unclaimed(m)'
      BY <1>5, <3>1 DEF ActionsClaimed
    <3>. QED
      BY <3>1, <3>2 DEF ActionsClaimed, NoFrames
  <2>. QED
    BY <2>1 DEF ActionsClaimed
<1>7. PerformedClaimed'
  BY <1>5 DEF PerformedClaimed, NoFrames, Performance
<1>8. AcksBacked'
  BY DEF AcksBacked, Sent, Acting
<1>. QED
  BY <1>3, <1>4, <1>6, <1>7, <1>8

\* A run resumes: what was saved knows every action.
LEMMA ResumeKeepsFenced ==
    ASSUME Sorted, Sorted', BootsCounted, ActionsClaimed, PerformedClaimed,
           AcksBacked, NoFrames, boot' = boot,
           NEW s \in Snapshots, s \in GovernorState,
           Memory' = Restarted(s), recovered' = Len(s.interventions),
           pc = "down", pc' = "accept",
           conns' = conns, \A w \in Workloads : conns[w] = NoProc,
           linked' = linked, linked = {}, performed' = performed,
           \A p \in Procs : AckFrom(p)' => AckFrom(p)
    PROVE  BootsCounted' /\ ConnsFenced' /\ ActionsClaimed' /\ PerformedClaimed'
           /\ AcksBacked'
<1>1. /\ Memory'.interventions = interventions'
      /\ Memory'.authority = authority'
  BY DEF Memory
<1>2. /\ s.interventions \in Seq(InterventionRecord)
      /\ s.authority \in AuthorityContext
      /\ DOMAIN s.interventions = 1..Len(s.interventions)
      /\ Len(s.interventions) \in Nat
  BY DEF GovernorState
<1>3. Len(interventions') = Len(s.interventions)
  BY <1>1, RestartedType
<1>4. DOMAIN interventions' = DOMAIN s.interventions
  BY <1>2, <1>3 DEF Sorted
<1>5. \A i \in DOMAIN s.interventions :
         /\ interventions'[i].fence = s.interventions[i].fence
         /\ s.interventions[i].state \notin Undone
               => interventions'[i].state \notin Undone
  <2>1. ASSUME NEW i \in DOMAIN s.interventions
        PROVE  /\ interventions'[i].fence = s.interventions[i].fence
               /\ s.interventions[i].state \notin Undone
                     => interventions'[i].state \notin Undone
    <3>1. s.interventions[i] \in InterventionRecord
      BY <1>2
    <3>2. interventions'[i] = OrphanedIntervention(s.interventions[i])
      BY <1>1, <1>2, RestartedType
    <3>. QED
      BY <3>1, <3>2 DEF OrphanedIntervention, InterventionRecord, Undone
  <2>. QED
    BY <2>1
<1>6. \A w \in Workloads : authority'.boots[w] = s.authority.boots[w]
  <2>1. authority' = [s.authority EXCEPT !.epoch = @ + 1]
    BY <1>1, RestartedType
  <2>. QED
    BY <1>2, <2>1 DEF AuthorityContext
<1>7. \A b \in Nat : Mentions(Memory', b) => Mentions(s, b)
  BY <1>1, <1>4, <1>5, <1>6 DEF Mentions
<1>8. BootsCounted'
  <2>1. \A m \in Snapshots' \cup {Memory'} : \A b \in Nat :
           Mentions(m, b) => b <= starts'
    BY <1>7 DEF BootsCounted, NoFrames
  <2>. QED
    BY <2>1 DEF BootsCounted, NoFrames, Running
<1>9. ConnsFenced'
  BY DEF ConnsFenced, Sent, Unsent, Acting
<1>10. ASSUME NEW m, KnownTo(m, s)
       PROVE  Unclaimed(m)'
  <2>1. ASSUME m.attempt \in DOMAIN interventions',
               interventions'[m.attempt].fence = m.fence
        PROVE  m.attempt <= recovered' /\ interventions'[m.attempt].state \notin Undone
    <3>1. m.attempt \in DOMAIN s.interventions /\ m.attempt <= recovered'
      BY <1>2, <1>4, <2>1
    <3>. QED
      BY <1>5, <1>10, <2>1, <3>1 DEF KnownTo
  <2>2. (\E w \in Workloads : authority'.boots[w] = m.fence.workerBoot)
           => m.attempt <= recovered'
    BY <1>6, <1>10 DEF KnownTo
  <2>. QED
    BY <2>1, <2>2 DEF Unclaimed
<1>11. ActionsClaimed'
  <2>1. \A p \in Procs : \A m \in ActionsTo(p)' :
           /\ m \in ActionsTo(p) /\ KnownTo(m, s)
    BY DEF ActionsClaimed, NoFrames
  <2>. QED
    BY <1>10, <2>1 DEF ActionsClaimed, NoFrames
<1>12. PerformedClaimed'
  BY <1>10 DEF PerformedClaimed, NoFrames
<1>13. AcksBacked'
  BY DEF AcksBacked, Sent, Acting
<1>. QED
  BY <1>8, <1>9, <1>11, <1>12, <1>13

\* A frame that is taken takes no acknowledgement anywhere.
LEMMA AcksTaken ==
    ASSUME NetworkTypes, NEW q \in Procs, Arrived(q), toCoord' = Taken(q)
    PROVE  \A p \in Procs : AckFrom(p)' => AckFrom(p)
<1>. SUFFICES ASSUME NEW p \in Procs, AckFrom(p)' PROVE AckFrom(p)
  OBVIOUS
<1>1. /\ toCoord[q] \in Seq(FromWorker) /\ toCoord[q] # << >>
      /\ toCoord'[q] = Tail(toCoord[q])
      /\ \A r \in Procs \ {q} : toCoord'[r] = toCoord[r]
  BY TakenType DEF NetworkTypes, Arrived
<1>2. CASE p # q
  BY <1>1, <1>2 DEF AckFrom
<1>3. CASE p = q
  <2>1. PICK n \in DOMAIN Tail(toCoord[q]) : Tail(toCoord[q])[n].type = "ACTION_ACK"
    BY <1>1, <1>3 DEF AckFrom
  <2>2. /\ Tail(toCoord[q]) \in Seq(FromWorker)
        /\ Len(Tail(toCoord[q])) = Len(toCoord[q]) - 1
        /\ \A k \in 1..(Len(toCoord[q]) - 1) : Tail(toCoord[q])[k] = toCoord[q][k + 1]
    BY <1>1, ChannelsType
  <2>3. n \in 1..(Len(toCoord[q]) - 1)
    BY <2>1, <2>2
  <2>4. n + 1 \in DOMAIN toCoord[q]
    BY <1>1, <2>3
  <2>. QED
    BY <1>3, <2>1, <2>2, <2>3, <2>4 DEF AckFrom
<1>. QED
  BY <1>2, <1>3

\* The authority takes up the boot id of a hello, which nothing was ever done
\* under.
LEMMA HelloKeepsFenced ==
    ASSUME CInv, Sorted, Sorted', BootsCounted, ConnsFenced, HellosFresh,
           ActionsClaimed, PerformedClaimed, AcksBacked,
           AdmitHello, Snapshots' \subseteq Snapshots
    PROVE  BootsCounted' /\ ConnsFenced' /\ ActionsClaimed' /\ PerformedClaimed'
           /\ AcksBacked'
<1>. DEFINE v == WorkerOf[Peer]
            b == Received(Peer).boot
<1>1. /\ pc = "accept" /\ pc' = "evidence" /\ backlog # << >> /\ Arrived(Peer)
      /\ toCoord' = Taken(Peer)
      /\ conns' = [conns EXCEPT ![v] = Peer]
      /\ linked' \subseteq linked
      /\ boot' = BootAfterClosing(linked \ linked')
      /\ authority' = [authority EXCEPT !.boots[v] = b, !.generations[v] = 1]
      /\ UNCHANGED <<interventions, recovered, toWorker, starts, performed>>
  BY DEF AdmitHello, NewConnection, runVars
<1>2. /\ Peer \in Procs /\ v \in Workloads /\ b \in Nat
      /\ Peer \in linked /\ Peer = backlog[1] /\ 1 \in DOMAIN backlog
  BY <1>1, HelloFrame, PeerType DEF CInv
<1>3. Fresh(Peer, b)
  <2>1. toCoord[Peer][1] = Received(Peer)
    BY <1>1, <1>2, TakenType DEF CInv, Links
  <2>. QED
    BY <1>1, <1>2, <2>1 DEF HellosFresh
<1>4. /\ \A w \in Workloads : authority'.boots[w]
                                = IF w = v THEN b ELSE authority.boots[w]
  BY <1>1, <1>2 DEF Sorted, AuthorityContext
<1>5. \A p \in Procs : boot'[p] \in {boot[p], 0}
  BY <1>1 DEF BootAfterClosing
<1>6. pc \notin Sent
  BY <1>1 DEF Sent, Acting
<1>7. BootsCounted'
  <2>1. /\ Memory'.interventions = interventions /\ Memory.interventions = interventions
        /\ Memory'.authority = authority' /\ Memory.authority = authority
    BY <1>1 DEF Memory
  <2>2. \A c \in Nat : Mentions(Memory', c) => Mentions(Memory, c) \/ c = b
    BY <1>4, <2>1 DEF Mentions
  <2>3. b <= starts /\ starts' = starts
    BY <1>1, <1>3 DEF Fresh
  <2>4. \A m \in Snapshots' \cup {Memory'} : \A c \in Nat :
           Mentions(m, c) => c <= starts'
    BY <2>2, <2>3 DEF BootsCounted
  <2>5. /\ boot \in [Procs -> Nat] /\ boot' \in [Procs -> Nat] /\ starts \in Nat
    BY DEF Sorted
  <2>6. \A p \in Procs : boot'[p] <= starts'
    BY <1>5, <2>3, <2>5 DEF BootsCounted
  <2>7. ASSUME NEW p \in Procs, NEW q \in Procs, boot'[p] # 0, boot'[p] = boot'[q]
        PROVE  p = q
    <3>1. boot[p] # 0 /\ boot[p] = boot[q]
      BY <1>5, <2>5, <2>7
    <3>. QED
      BY <3>1 DEF BootsCounted, Running
  <2>. QED
    BY <2>4, <2>6, <2>7 DEF BootsCounted, Running
<1>8. ConnsFenced'
  <2>1. ASSUME NEW w \in Workloads, conns'[w] # NoProc, boot'[conns'[w]] # 0
        PROVE  authority'.boots[w] = boot'[conns'[w]]
    <3>1. CASE w = v
      <4>1. conns'[w] = Peer
        BY <1>1, <1>2, <3>1 DEF Sorted
      <4>2. boot'[Peer] = b
        BY <1>2, <1>3, <1>5, <2>1, <4>1 DEF Fresh
      <4>. QED
        BY <1>4, <3>1, <4>1, <4>2
    <3>2. CASE w # v
      <4>1. conns'[w] = conns[w] /\ conns[w] \in Procs
        BY <1>1, <2>1, <3>2 DEF Sorted
      <4>2. boot'[conns[w]] = boot[conns[w]] /\ boot[conns[w]] # 0
        BY <1>5, <2>1, <4>1
      <4>3. authority.boots[w] = boot[conns[w]]
        BY <2>1, <4>1, <4>2 DEF ConnsFenced, Running
      <4>. QED
        BY <1>4, <3>2, <4>1, <4>2, <4>3
    <3>. QED
      BY <3>1, <3>2
  <2>2. \A p \in linked' : boot'[p] # 0 => \A s \in Snapshots' : ~Mentions(s, boot'[p])
    <3>1. pc \in Unsent /\ linked \in SUBSET Procs
      BY <1>1 DEF Unsent, Sorted
    <3>2. ASSUME NEW p \in linked', boot'[p] # 0
          PROVE  p \in linked /\ boot'[p] = boot[p] /\ boot[p] # 0
      BY <1>1, <1>5, <3>1, <3>2
    <3>. QED
      BY <3>1, <3>2 DEF ConnsFenced, Running
  <2>3. pc' \notin Sent \cup {"dispatch", "send"}
    BY <1>1 DEF Sent, Acting
  <2>. QED
    BY <2>1, <2>2, <2>3 DEF ConnsFenced, Running
<1>9. ASSUME NEW m, Unclaimed(m), m.fence.workerBoot # b
      PROVE  Unclaimed(m)'
  BY <1>1, <1>4, <1>9 DEF Unclaimed
<1>10. ActionsClaimed'
  <2>. SUFFICES ASSUME NEW p \in Procs, NEW m \in ActionsTo(p)'
                PROVE  /\ m.fence.workerBoot = boot'[p]
                       /\ p \notin linked' /\ Unclaimed(m)'
                       /\ \A s \in Snapshots' : KnownTo(m, s)
    BY DEF ActionsClaimed
  <2>1. m \in ActionsTo(p) /\ boot'[p] = boot[p]
    BY <1>1, <1>5 DEF ActionsTo, Sorted
  <2>2. /\ m.fence.workerBoot = boot[p]
        /\ p \notin linked /\ Unclaimed(m)
        /\ \A s \in Snapshots : KnownTo(m, s)
    BY <1>6, <2>1 DEF ActionsClaimed, OfCurrent
  <2>3. boot[p] # b
    BY <1>2, <1>3, <2>2 DEF Fresh
  <2>. QED
    BY <1>1, <1>9, <2>1, <2>2, <2>3
<1>11. PerformedClaimed'
  <2>. SUFFICES ASSUME NEW a \in performed
                PROVE  /\ a \in Performance
                       /\ a.boot = a.fence.workerBoot /\ a.boot <= starts
                       /\ Unclaimed(a)'
                       /\ \A s \in Snapshots' : KnownTo(a, s)
    BY <1>1 DEF PerformedClaimed
  <2>1. /\ a \in Performance
        /\ a.boot = a.fence.workerBoot /\ a.boot <= starts
        /\ Unclaimed(a)
        /\ \A s \in Snapshots : KnownTo(a, s)
    BY <1>6 DEF PerformedClaimed, OfCurrent
  <2>2. a.boot # b
    BY <1>3 DEF Fresh
  <2>. QED
    BY <1>9, <2>1, <2>2
<1>12. AcksBacked'
  BY <1>1, <1>2, <1>6, AcksTaken DEF AcksBacked, CInv, Links, Sent, Acting
<1>. QED
  BY <1>7, <1>8, <1>10, <1>11, <1>12

\* The intervention that is authorized has the boot id of the moment, under
\* which no action is on its way or was performed.
LEMMA DecideKeepsFenced ==
    ASSUME CInv, Sorted, Sorted', BootsCounted, ConnsFenced,
           ActionsClaimed, PerformedClaimed, AcksBacked,
           Decide, Snapshots' \subseteq Snapshots
    PROVE  BootsCounted' /\ ConnsFenced' /\ ActionsClaimed' /\ PerformedClaimed'
           /\ AcksBacked'
<1>1. PICK cls \in InterventionClass, target \in Workloads :
         /\ interventions' = Append(interventions, NewIntervention(1, cls, target))
         /\ NewIntervention(1, cls, target) \in InterventionRecord
  BY DecideStep, CInvParts
<1>. DEFINE iv == NewIntervention(1, cls, target)
<1>2. /\ pc = "decide" /\ pc' = "dispatch"
      /\ UNCHANGED <<authority, recovered, conns, backlog, linked, toCoord,
                     toWorker, boot, starts, performed>>
  BY DecideStep, CInvParts DEF Decide, linkVars, workVars
<1>3. /\ Len(interventions) = recovered /\ recovered \in Nat
      /\ DOMAIN interventions = 1..recovered
      /\ DOMAIN interventions' = 1..(recovered + 1)
      /\ Current' = recovered + 1
      /\ interventions'[recovered + 1] = iv
      /\ \A i \in 1..recovered : interventions'[i] = interventions[i]
  <2>1. /\ Len(interventions) = recovered /\ recovered \in Nat
        /\ interventions \in Seq(InterventionRecord)
        /\ Len(interventions') = recovered + 1
    BY DecideStep, CInvParts DEF Sorted
  <2>. QED
    BY <1>1, <2>1 DEF Sorted, Current
<1>4. /\ iv.fence.workerBoot = authority.boots[target]
      /\ iv.target = target /\ iv.state = "AUTHORIZED"
  BY DEF NewIntervention, MakeFence
<1>5. pc \notin Sent /\ pc' \notin Sent /\ pc \in Unsent
  BY <1>2 DEF Sent, Acting, Unsent
<1>6. BootsCounted'
  <2>1. /\ Memory'.interventions = interventions' /\ Memory.interventions = interventions
        /\ Memory'.authority = authority' /\ Memory.authority = authority
    BY DEF Memory
  <2>2. \A i \in 1..(recovered + 1) : i \in 1..recovered \/ i = recovered + 1
    BY <1>3
  <2>3. \A c \in Nat : Mentions(Memory', c) => Mentions(Memory, c)
    BY <1>2, <1>3, <1>4, <2>1, <2>2 DEF Mentions
  <2>4. \A m \in Snapshots' \cup {Memory'} : \A c \in Nat :
           Mentions(m, c) => c <= starts'
    BY <1>2, <2>3 DEF BootsCounted
  <2>. QED
    BY <1>2, <2>4 DEF BootsCounted, Running
<1>7. ConnsFenced'
  BY <1>2, <1>3, <1>4, <1>5 DEF ConnsFenced, Running
<1>8. ASSUME NEW m, Unclaimed(m)
      PROVE  Unclaimed(m)'
  <2>1. ASSUME m.attempt \in DOMAIN interventions',
               interventions'[m.attempt].fence = m.fence
        PROVE  m.attempt <= recovered' /\ interventions'[m.attempt].state \notin Undone
    <3>1. CASE m.attempt \in 1..recovered
      BY <1>2, <1>3, <1>8, <2>1, <3>1 DEF Unclaimed
    <3>2. CASE m.attempt = recovered + 1
      <4>1. authority.boots[target] = m.fence.workerBoot
        BY <1>3, <1>4, <2>1, <3>2
      <4>2. m.attempt <= recovered
        BY <1>8, <4>1 DEF Unclaimed
      <4>. QED
        BY <1>3, <3>2, <4>2
    <3>. QED
      BY <1>3, <2>1, <3>1, <3>2
  <2>. QED
    BY <1>2, <1>8, <2>1 DEF Unclaimed
<1>9. ActionsClaimed'
  <2>1. \A p \in Procs : ActionsTo(p)' = ActionsTo(p)
    BY <1>2 DEF ActionsTo
  <2>. QED
    BY <1>2, <1>5, <1>8, <2>1 DEF ActionsClaimed, OfCurrent
<1>10. PerformedClaimed'
  BY <1>2, <1>5, <1>8 DEF PerformedClaimed, OfCurrent
<1>11. AcksBacked'
  BY <1>2, <1>5 DEF AcksBacked, AckFrom
<1>. QED
  BY <1>6, <1>7, <1>9, <1>10, <1>11

\* A process that starts has a boot id that nobody has seen.
LEMMA StartKeepsFenced ==
    ASSUME CInv, Sorted, Sorted', BootsCounted, ConnsFenced,
           ActionsClaimed, PerformedClaimed, AcksBacked,
           NEW w \in Workloads, WorkerStart(w), Snapshots' \subseteq Snapshots
    PROVE  BootsCounted' /\ ConnsFenced' /\ ActionsClaimed' /\ PerformedClaimed'
           /\ AcksBacked'
<1>1. PICK p \in Procs :
         /\ boot[p] = 0 /\ p \notin linked
         /\ pc = "accept" /\ pc' = pc
         /\ starts' = starts + 1
         /\ linked' = linked \cup {p}
         /\ \/ /\ boot' = [boot EXCEPT ![p] = starts + 1]
               /\ toCoord' = [toCoord EXCEPT ![p] =
                                <<Hello(starts + 1), Evidence(w)>>]
            \/ /\ boot' = boot
               /\ toCoord' = [toCoord EXCEPT ![p] = <<Hello(starts + 1)>>]
         /\ UNCHANGED <<conns, toWorker, performed, recovered, vars>>
  BY StartStep DEF Running
<1>2. UNCHANGED <<interventions, authority, Memory, Current>>
  BY <1>1 DEF vars, Memory, Current
<1>3. /\ starts \in Nat /\ boot \in [Procs -> Nat] /\ boot' \in [Procs -> Nat]
      /\ \A q \in Procs \ {p} : boot'[q] = boot[q]
      /\ boot'[p] \in {0, starts + 1}
  BY <1>1 DEF Sorted
<1>4. pc \notin Sent /\ pc' \notin Sent \cup {"dispatch", "send"}
  BY <1>1 DEF Sent, Acting
<1>5. BootsCounted'
  <2>1. \A n \in Nat : n <= starts => n <= starts'
    BY <1>1, <1>3
  <2>2. \A m \in Snapshots' \cup {Memory'} : \A c \in Nat :
           Mentions(m, c) => c <= starts'
    BY <1>2, <2>1 DEF BootsCounted
  <2>3. \A q \in Procs : boot'[q] <= starts'
    BY <1>1, <1>3, <2>1 DEF BootsCounted
  <2>4. ASSUME NEW q \in Procs, NEW r \in Procs, boot'[q] # 0, boot'[q] = boot'[r]
        PROVE  q = r
    <3>1. \A x \in Procs \ {p} : boot'[x] # starts + 1
      BY <1>3 DEF BootsCounted
    <3>2. CASE q = p \/ r = p
      BY <1>3, <2>4, <3>1, <3>2
    <3>3. CASE q # p /\ r # p
      BY <1>3, <2>4, <3>3 DEF BootsCounted, Running
    <3>. QED
      BY <3>2, <3>3
  <2>. QED
    BY <2>2, <2>3, <2>4 DEF BootsCounted, Running
<1>6. ConnsFenced'
  <2>1. ASSUME NEW v \in Workloads, conns'[v] # NoProc, boot'[conns'[v]] # 0
        PROVE  authority'.boots[v] = boot'[conns'[v]]
    <3>1. conns[v] \in Procs \ {p}
      BY <1>1, <2>1 DEF CInv, Links, ConnsLinked, Sorted
    <3>. QED
      BY <1>1, <1>2, <1>3, <2>1, <3>1 DEF ConnsFenced, Running
  <2>2. \A q \in linked' : boot'[q] # 0 => \A s \in Snapshots' : ~Mentions(s, boot'[q])
    <3>1. \A s \in Snapshots : ~Mentions(s, starts + 1)
      BY <1>3 DEF BootsCounted
    <3>2. pc \in Unsent /\ linked \in SUBSET Procs
      BY <1>1 DEF Unsent, Sorted
    <3>3. \A q \in linked : boot'[q] = boot[q]
      BY <1>1, <1>3, <3>2
    <3>. QED
      BY <1>1, <1>3, <3>1, <3>2, <3>3 DEF ConnsFenced, Running
  <2>. QED
    BY <1>4, <2>1, <2>2 DEF ConnsFenced, Running
<1>7. \A m : Unclaimed(m) => Unclaimed(m)'
  BY <1>1, <1>2 DEF Unclaimed
<1>8. ActionsClaimed'
  <2>. SUFFICES ASSUME NEW q \in Procs, NEW m \in ActionsTo(q)'
                PROVE  /\ m.fence.workerBoot = boot'[q]
                       /\ q \notin linked' /\ Unclaimed(m)'
                       /\ \A s \in Snapshots' : KnownTo(m, s)
    BY DEF ActionsClaimed
  <2>1. m \in ActionsTo(q)
    BY <1>1 DEF ActionsTo
  <2>2. q # p
    BY <1>1, <2>1 DEF Sorted
  <2>3. /\ m.fence.workerBoot = boot[q]
        /\ q \notin linked /\ Unclaimed(m)
        /\ \A s \in Snapshots : KnownTo(m, s)
    BY <1>4, <2>1 DEF ActionsClaimed, OfCurrent
  <2>. QED
    BY <1>1, <1>3, <1>7, <2>2, <2>3
<1>9. PerformedClaimed'
  <2>1. \A a \in Performance : a.boot <= starts => a.boot <= starts'
    BY <1>1, <1>3 DEF Performance
  <2>. QED
    BY <1>1, <1>4, <1>7, <2>1 DEF PerformedClaimed, OfCurrent
<1>10. AcksBacked'
  <2>1. ASSUME NEW q \in Procs, AckFrom(q)'
        PROVE  AckFrom(q)
    <3>1. CASE q # p
      BY <1>1, <2>1, <3>1 DEF AckFrom, Sorted
    <3>2. CASE q = p
      <4>1. \/ toCoord'[p] = <<Hello(starts + 1), Evidence(w)>>
            \/ toCoord'[p] = <<Hello(starts + 1)>>
        BY <1>1 DEF Sorted
      <4>2. PICK n \in DOMAIN toCoord'[p] : toCoord'[p][n].type = "ACTION_ACK"
        BY <2>1, <3>2 DEF AckFrom
      <4>3. toCoord'[p][n] \in {Hello(starts + 1), Evidence(w)}
        BY <4>1, <4>2
      <4>. QED
        BY <4>2, <4>3 DEF Hello, Evidence
    <3>. QED
      BY <3>1, <3>2
  <2>. QED
    BY <1>4, <2>1 DEF AcksBacked
<1>. QED
  BY <1>5, <1>6, <1>8, <1>9, <1>10

-----------------------------------------------------------------------------
(* The hellos that wait. *)

\* Connections wait only while workers are admitted.
LEMMA NoBacklog ==
    ASSUME Links, pc \notin Admitting
    PROVE  backlog = << >> /\ DOMAIN backlog = {}
<1>1. backlog \in Seq(Procs) /\ admitted \in Nat
      /\ pc \in {"down"} \cup Admitting \cup Acting
  BY DEF Links, NetworkTypes
<1>2. CASE pc = "down"
  <2>1. \A n \in DOMAIN backlog : FALSE
    BY <1>2 DEF Links, TwoAdmitted, BacklogLinked
  <2>2. backlog # << >> => 1 \in DOMAIN backlog
    BY <1>1
  <2>. QED
    BY <2>1, <2>2
<1>3. CASE pc \in Acting
  <2>1. Len(backlog) \in Nat /\ 2 + Len(backlog) <= 2
    BY <1>1, <1>3 DEF Links, TwoAdmitted
  <2>2. Len(backlog) = 0
    BY <2>1
  <2>. QED
    BY <1>1, <2>2, EmptySeq
<1>. QED
  BY <1>1, <1>2, <1>3

\* It is not known better of a process by what the others do.
LEMMA FreshKept ==
    ASSUME Sorted, Sorted', NEW p \in Procs, NEW b, Fresh(p, b),
           starts' = starts \/ starts' = starts + 1,
           \A q \in Procs : \/ boot'[q] \in {boot[q], 0}
                            \/ q # p /\ boot'[q] = starts + 1,
           \A a \in performed' \ performed : a.boot # b
    PROVE  Fresh(p, b)'
<1>1. starts \in Nat /\ boot \in [Procs -> Nat] /\ b \in 1..starts
  BY DEF Sorted, Fresh
<1>2. b \in 1..starts' /\ b # 0 /\ b # starts + 1
  BY <1>1
<1>3. boot'[p] \in {0, b}
  BY DEF Fresh
<1>4. \A q \in Procs \ {p} : boot'[q] # b
  BY <1>2 DEF Fresh
<1>5. \A a \in performed' : a.boot # b
  BY DEF Fresh
<1>. QED
  BY <1>2, <1>3, <1>4, <1>5 DEF Fresh

\* What is fresh is a boot id of a process, however they are come by.
LEMMA HellosAre ==
    ASSUME \A n \in DOMAIN backlog' : ~(pc' = "evidence" /\ n = 1) =>
              \E x, c : /\ x \in Procs /\ x = backlog'[n]
                        /\ c = toCoord'[x][1].boot
                        /\ Fresh(x, c)'
    PROVE  HellosFresh'
  BY DEF HellosFresh, Fresh

\* A boot id that waits to be recorded stays unknown to every state.
LEMMA HellosKept ==
    ASSUME CInv, Sorted, Sorted', BootsCounted, HellosFresh, PerformedClaimed,
           ActionsClaimed, [CoordinatorNext]_coordinatorVars
    PROVE  HellosFresh'
<1>1. /\ Links /\ backlog \in Seq(Procs)
      /\ \A n \in DOMAIN backlog : backlog[n] \in Procs /\ backlog[n] \in linked
  <2>1. Links /\ backlog \in Seq(Procs)
    BY DEF CInv, Links, NetworkTypes
  <2>. QED
    BY <2>1 DEF Links, BacklogLinked
<1>2. CASE backlog' = << >>
  BY <1>2 DEF HellosFresh
<1>3. CASE pc \notin Admitting /\ backlog' = backlog
  BY <1>1, <1>2, <1>3, NoBacklog
<1>4. CASE NetworkQuiet
  BY <1>4 DEF NetworkQuiet, HellosFresh, Fresh
<1>5. CASE Begins \/ Ends \/ Acts \/ \E p \in Procs : WorkerDie(p)
  BY <1>2, <1>3, <1>5 DEF Begins, Ends, Acts, WorkerDie, Admitting, Acting
<1>6. ASSUME NEW n \in DOMAIN backlog, ~(pc = "evidence" /\ n = 1)
      PROVE  \E x, c : /\ x \in Procs /\ x = backlog[n] /\ x \in linked
                       /\ c = toCoord[x][1].boot
                       /\ Fresh(x, c)
  BY <1>1, <1>6 DEF HellosFresh
<1>7. CASE AdmitHello
  <2>1. /\ pc = "accept" /\ pc' = "evidence" /\ backlog' = backlog
        /\ toCoord' = Taken(Peer) /\ backlog # << >> /\ Arrived(Peer)
        /\ boot' = BootAfterClosing(linked \ linked')
        /\ starts' = starts /\ performed' = performed
    BY <1>7 DEF AdmitHello
  <2>2. \A q \in Procs : boot'[q] \in {boot[q], 0}
    BY <2>1 DEF BootAfterClosing
  <2>3. ASSUME NEW n \in DOMAIN backlog', ~(pc' = "evidence" /\ n = 1)
        PROVE  \E x, c : /\ x \in Procs /\ x = backlog'[n]
                         /\ c = toCoord'[x][1].boot
                         /\ Fresh(x, c)'
    <3>1. n \in DOMAIN backlog /\ n # 1
      BY <2>1, <2>3
    <3>2. PICK x, c : /\ x \in Procs /\ x = backlog[n]
                      /\ c = toCoord[x][1].boot
                      /\ Fresh(x, c)
      BY <1>6, <2>1, <3>1
    <3>3. x # Peer /\ Peer \in Procs
      BY <1>1, <2>1, <3>1, <3>2, PeerType
    <3>4. toCoord'[x] = toCoord[x]
      <4>1. NetworkTypes
        BY <1>1 DEF Links
      <4>2. \A q \in Procs \ {Peer} : Taken(Peer)[q] = toCoord[q]
        BY <2>1, <3>3, <4>1, TakenType
      <4>. QED
        BY <2>1, <3>2, <3>3, <4>2
    <3>5. Fresh(x, c)'
      BY <2>1, <2>2, <3>2, FreshKept
    <3>. QED
      BY <2>1, <3>2, <3>4, <3>5
  <2>. QED
    BY <2>3, HellosAre
<1>8. CASE AdmitReport
  <2>1. /\ pc = "evidence" /\ pc' # "evidence" /\ backlog' = Tail(backlog)
        /\ toCoord' = Taken(Peer) /\ Arrived(Peer)
        /\ UNCHANGED <<boot, starts, performed>>
    BY <1>8 DEF AdmitReport, workVars
  <2>2. backlog # << >>
    BY <1>1, <2>1 DEF Links, BacklogLinked
  <2>3. ASSUME NEW n \in DOMAIN backlog', ~(pc' = "evidence" /\ n = 1)
        PROVE  \E x, c : /\ x \in Procs /\ x = backlog'[n]
                         /\ c = toCoord'[x][1].boot
                         /\ Fresh(x, c)'
    <3>1. /\ backlog' \in Seq(Procs) /\ Len(backlog') = Len(backlog) - 1
          /\ \A k \in 1..(Len(backlog) - 1) : backlog'[k] = backlog[k + 1]
      BY <1>1, <2>1, <2>2, ChannelsType
    <3>2. n \in 1..(Len(backlog) - 1)
      BY <3>1
    <3>3. n + 1 \in DOMAIN backlog /\ n + 1 # 1 /\ backlog'[n] = backlog[n + 1]
      BY <1>1, <3>1, <3>2
    <3>4. PICK x, c : /\ x \in Procs /\ x = backlog[n + 1]
                      /\ c = toCoord[x][1].boot
                      /\ Fresh(x, c)
      BY <1>6, <3>3
    <3>5. x # Peer /\ Peer \in Procs
      BY <1>1, <2>2, <3>3, <3>4, PeerType
    <3>6. toCoord'[x] = toCoord[x]
      <4>1. NetworkTypes
        BY <1>1 DEF Links
      <4>2. \A q \in Procs \ {Peer} : Taken(Peer)[q] = toCoord[q]
        BY <2>1, <3>5, <4>1, TakenType
      <4>. QED
        BY <2>1, <3>4, <3>5, <4>2
    <3>7. Fresh(x, c)'
      BY <2>1, <3>4, FreshKept
    <3>. QED
      BY <3>3, <3>4, <3>6, <3>7
  <2>. QED
    BY <2>3, HellosAre
<1>9. ASSUME NEW w \in Workloads, WorkerStart(w)
      PROVE  HellosFresh'
  <2>1. PICK p \in Procs :
           /\ boot[p] = 0 /\ p \notin linked
           /\ pc = "accept" /\ pc' = pc
           /\ starts' = starts + 1
           /\ backlog' = Append(backlog, p)
           /\ \/ /\ boot' = [boot EXCEPT ![p] = starts + 1]
                 /\ toCoord' = [toCoord EXCEPT ![p] =
                                  <<Hello(starts + 1), Evidence(w)>>]
              \/ /\ boot' = boot
                 /\ toCoord' = [toCoord EXCEPT ![p] = <<Hello(starts + 1)>>]
           /\ performed' = performed
    BY <1>9, StartStep DEF Running
  <2>2. /\ boot \in [Procs -> Nat] /\ starts \in Nat
        /\ \A q \in Procs \ {p} : boot'[q] = boot[q] /\ toCoord'[q] = toCoord[q]
        /\ boot'[p] \in {0, starts + 1}
        /\ toCoord'[p][1] = Hello(starts + 1)
    <3>1. /\ boot \in [Procs -> Nat] /\ starts \in Nat
          /\ toCoord \in [Procs -> Seq(FromWorker)]
      BY DEF Sorted
    <3>2. /\ \A q \in Procs \ {p} : boot'[q] = boot[q]
          /\ boot'[p] \in {0, starts + 1}
      BY <2>1, <3>1
    <3>3. PICK h, e : h = Hello(starts + 1) /\ e = Evidence(w)
      OBVIOUS
    <3>4. \/ toCoord' = [toCoord EXCEPT ![p] = <<h, e>>]
          \/ toCoord' = [toCoord EXCEPT ![p] = <<h>>]
      BY <2>1, <3>3
    <3>5. /\ \A q \in Procs \ {p} : toCoord'[q] = toCoord[q]
          /\ toCoord'[p][1] = h
      BY <3>1, <3>4
    <3>. QED
      BY <3>1, <3>2, <3>3, <3>5
  <2>3. ASSUME NEW n \in DOMAIN backlog', ~(pc' = "evidence" /\ n = 1)
        PROVE  \E x, c : /\ x \in Procs /\ x = backlog'[n]
                         /\ c = toCoord'[x][1].boot
                         /\ Fresh(x, c)'
    <3>1. CASE n \in DOMAIN backlog
      <4>1. backlog'[n] = backlog[n]
        BY <1>1, <2>1, <3>1
      <4>2. PICK x, c : /\ x \in Procs /\ x = backlog[n] /\ x \in linked
                        /\ c = toCoord[x][1].boot
                        /\ Fresh(x, c)
        BY <1>6, <2>1, <3>1
      <4>3. x # p
        BY <2>1, <4>2
      <4>4. Fresh(x, c)'
        BY <2>1, <2>2, <4>2, <4>3, FreshKept
      <4>. QED
        BY <2>2, <4>1, <4>2, <4>3, <4>4
    <3>2. CASE n \notin DOMAIN backlog
      <4>1. n = Len(backlog) + 1 /\ backlog'[n] = p
        BY <1>1, <2>1, <3>2
      <4>2. PICK c : c = starts + 1
        OBVIOUS
      <4>3. c \in 1..starts' /\ boot'[p] \in {0, c}
        BY <2>1, <2>2, <4>2
      <4>4. \A q \in Procs \ {p} : boot'[q] # c
        BY <2>2, <4>2 DEF BootsCounted
      <4>5. \A a \in performed' : a.boot # c
        BY <2>1, <2>2, <4>2 DEF PerformedClaimed, Performance
      <4>6. Fresh(p, c)'
        BY <4>3, <4>4, <4>5 DEF Fresh
      <4>7. toCoord'[p][1].boot = c
        BY <2>2, <4>2 DEF Hello
      <4>. QED
        BY <4>1, <4>6, <4>7
    <3>. QED
      BY <3>1, <3>2
  <2>. QED
    BY <2>3, HellosAre
<1>10. ASSUME NEW p \in Procs, Works(p)
       PROVE  HellosFresh'
  <2>1. /\ boot[p] # 0 /\ toWorker[p] # << >>
        /\ \A q \in Procs : boot'[q] \in {boot[q], 0}
        /\ p \notin linked => toCoord' = toCoord
        /\ pc' = pc /\ backlog' = backlog /\ starts' = starts
    <3>1. boot \in [Procs -> Nat]
      BY DEF Sorted
    <3>. QED
      BY <1>1, <1>10, <3>1, ServesStep DEF Running
  <2>2. CASE pc \notin Admitting
    BY <1>3, <2>1, <2>2
  <2>3. CASE pc \in Admitting
    <3>1. p \notin linked
      BY <1>1, <2>1, <2>3 DEF Links, QuietBefore, Unsent, Admitting
    <3>2. \A a \in performed' \ performed : a.boot = boot[p]
      BY <1>10 DEF Works, WorkerAct, WorkerMeasure
    <3>3. ASSUME NEW n \in DOMAIN backlog', ~(pc' = "evidence" /\ n = 1)
          PROVE  \E x, c : /\ x \in Procs /\ x = backlog'[n]
                           /\ c = toCoord'[x][1].boot
                           /\ Fresh(x, c)'
      <4>1. PICK x, c : /\ x \in Procs /\ x = backlog[n] /\ x \in linked
                        /\ c = toCoord[x][1].boot
                        /\ Fresh(x, c)
        BY <1>6, <2>1, <3>3
      <4>2. \A a \in performed' \ performed : a.boot # c
        BY <3>1, <3>2, <4>1 DEF Fresh
      <4>3. Fresh(x, c)'
        BY <2>1, <4>1, <4>2, FreshKept
      <4>. QED
        BY <2>1, <3>1, <4>1, <4>3
    <3>. QED
      BY <3>3, HellosAre
  <2>. QED
    BY <2>2, <2>3
<1>. QED
  BY <1>4, <1>5, <1>7, <1>8, <1>9, <1>10, NetworkSorts DEF CInv

-----------------------------------------------------------------------------
(* The steps of the code are steps of these forms. *)

\* A record whose state alone changes.
LEMMA InStateRecord ==
    ASSUME interventions \in Seq(InterventionRecord), NEW i \in DOMAIN interventions,
           NEW s
    PROVE  /\ Len(InState(i, s)) = Len(interventions)
           /\ InState(i, s)[i].state = s
           /\ \A j \in DOMAIN interventions :
                 /\ InState(i, s)[j].fence = interventions[j].fence
                 /\ InState(i, s)[j].target = interventions[j].target
                 /\ j # i => InState(i, s)[j] = interventions[j]
<1>. DEFINE iv == [interventions[i] EXCEPT !.state = s]
<1>1. interventions[i] \in InterventionRecord
  OBVIOUS
<1>2. /\ iv.state = s
      /\ iv.fence = interventions[i].fence
      /\ iv.target = interventions[i].target
  BY <1>1 DEF InterventionRecord
<1>3. InState(i, s) = [interventions EXCEPT ![i] = iv]
  BY DEF InState
<1>. HIDE DEF iv
<1>. QED
  BY <1>2, <1>3

\* A step the governor does not see.
LEMMA GoesOnRecord ==
    ASSUME CInv, Sorted, GoesOn PROVE RecordKept
<1>1. UNCHANGED <<interventions, authority, recovered, conns, Current>>
  BY DEF GoesOn, vars, Current
<1>2. pc = "down" => linked = {}
  BY DEF CInv, Links, TwoAdmitted
<1>3. pc = "send" => interventions[Current].state \notin Answering
  BY DEF CInv, Phase, Answering
<1>. QED
  BY <1>1, <1>2, <1>3
     DEF GoesOn, RecordKept, SameRecord, Sent, Unsent, Acting

\* Time passes.
LEMMA WaitsRecord ==
    ASSUME CInv, Sorted, Waits PROVE RecordKept
<1>1. /\ UNCHANGED <<interventions, authority, recovered, conns, Current>>
      /\ pc = "down" /\ pc' = pc
  BY DEF Waits, Tick, Current
<1>. QED
  BY <1>1 DEF RecordKept, SameRecord, Sent, Unsent, Acting

\* A report changes no intervention.
LEMMA ReportRecord ==
    ASSUME CInv, Sorted, AdmitReport PROVE RecordKept
<1>1. /\ UNCHANGED <<interventions, authority, recovered, conns, Current>>
      /\ pc = "evidence" /\ pc' \in {"decide", "accept"}
  BY DEF AdmitReport, IngestNew, IngestKnown, runVars, Current
<1>. QED
  BY <1>1 DEF RecordKept, SameRecord, Sent, Unsent, Acting

\* A dispatch changes the state of the intervention of this run.
LEMMA DispatchRecord ==
    ASSUME CInv, Sorted, Dispatch PROVE RecordKept
<1>1. /\ UNCHANGED <<authority, recovered, conns>>
      /\ pc = "dispatch" /\ pc' = "send"
      /\ interventions' = InState(Current, "DISPATCHED")
  BY DEF Dispatch, DispatchBegin, runVars
<1>2. /\ Current \in DOMAIN interventions /\ Current = recovered + 1
      /\ interventions \in Seq(InterventionRecord) /\ recovered \in Nat
  BY <1>1 DEF Sorted
<1>3. \A i \in 1..recovered : i # Current
  BY <1>2
<1>4. SameRecord
  BY <1>1, <1>2, <1>3, InStateRecord DEF SameRecord
<1>. QED
  BY <1>1, <1>4 DEF RecordKept, Sent, Unsent, Acting

\* So does the answer of the adapter, and only an acknowledgement confirms it.
LEMMA ConcludesRecord ==
    ASSUME CInv, Sorted, Concludes PROVE RecordKept
<1>1. PICK o \in AdapterOutcome :
         /\ DispatchEnd(Current, o)
         /\ o = "ACCEPTED" => /\ pc = "ack" /\ Arrived(Target)
                              /\ Received(Target).type = "ACTION_ACK"
         /\ o \in {"REJECTED", "UNAVAILABLE"} => pc = "send"
  BY DEF Concludes
<1>2. PICK s : /\ s = Answered(o)
               /\ interventions' = InState(Current, s)
  BY <1>1 DEF DispatchEnd
<1>3. /\ UNCHANGED <<authority, recovered, conns>>
      /\ pc \in {"send", "ack"} /\ pc' = "answered"
  BY <1>1 DEF Concludes, DispatchEnd
<1>4. /\ Current \in DOMAIN interventions /\ Current = recovered + 1
      /\ interventions \in Seq(InterventionRecord) /\ recovered \in Nat
  BY <1>3 DEF Sorted, Sent, Acting
<1>5. \A i \in 1..recovered : i # Current
  BY <1>4
<1>6. SameRecord /\ Current' = Current /\ interventions'[Current].state = s
  <2>1. /\ Len(interventions') = Len(interventions)
        /\ interventions'[Current].state = s
        /\ \A j \in DOMAIN interventions :
              /\ interventions'[j].fence = interventions[j].fence
              /\ interventions'[j].target = interventions[j].target
              /\ j # Current => interventions'[j] = interventions[j]
    <3>1. PICK i \in DOMAIN interventions : i = Current
      BY <1>4
    <3>. QED
      BY <1>2, <1>4, <3>1, InStateRecord
  <2>. QED
    BY <1>3, <1>5, <2>1 DEF SameRecord, Current
<1>7. pc = "ack" => s \notin Undone
  BY <1>1, <1>2 DEF Answered, AdapterOutcome, Undone
<1>8. s \in Answering => \E p \in Procs : AckFrom(p)
  <2>1. ASSUME s \in Answering
        PROVE  \E p \in Procs : AckFrom(p)
    <3>1. /\ pc = "ack" /\ Arrived(Target)
          /\ Received(Target).type = "ACTION_ACK"
      BY <1>1, <1>2, <2>1 DEF Answered, AdapterOutcome, Answering
    <3>2. Target \in Procs
      BY <3>1, CurrentType DEF CInv, Phase, Acting
    <3>3. /\ Received(Target) = toCoord[Target][1]
          /\ toCoord[Target] \in Seq(FromWorker) /\ toCoord[Target] # << >>
      BY <3>1, <3>2, TakenType DEF CInv, Links, NetworkTypes, Arrived
    <3>4. 1 \in DOMAIN toCoord[Target]
      BY <3>3
    <3>. QED
      BY <3>1, <3>2, <3>3, <3>4 DEF AckFrom
  <2>. QED
    BY <2>1
<1>. QED
  BY <1>3, <1>6, <1>7, <1>8 DEF RecordKept, Sent, Unsent, Acting

\* So does a measurement, which verifies what was acknowledged.
LEMMA ReportedRecord ==
    ASSUME CInv, Sorted, NEW r \in Report, Reported(r) PROVE RecordKept
<1>1. /\ pc = "report" /\ pc' = "done"
      /\ UNCHANGED <<recovered, conns>>
      /\ Verify(r) \/ ObserveOnly(r)
  BY DEF Reported
<1>2. authority' = authority
  BY <1>1 DEF Verify, ObserveOnly
<1>3. /\ Current \in DOMAIN interventions
      /\ DOMAIN interventions = 1..Len(interventions)
      /\ recovered \in Nat /\ Current = recovered + 1
  BY <1>1 DEF Sorted, Sent, Acting
<1>4. /\ Len(interventions') = Len(interventions)
      /\ \A i \in DOMAIN interventions :
            /\ interventions'[i].fence = interventions[i].fence
            /\ interventions'[i].target = interventions[i].target
            /\ interventions'[i] # interventions[i]
                 => /\ interventions[i].state \in Verifiable
                    /\ interventions'[i].state
                         \in {"EFFECTIVE", "PARTIALLY_EFFECTIVE", "INEFFECTIVE"}
  BY <1>1, CInvParts, ReportedStep
<1>5. \A i \in 1..recovered :
         /\ i \in DOMAIN interventions
         /\ interventions[i].state \notin Verifiable
  BY <1>3 DEF CInv, RecoveredStayClosed, Verifiable, Terminal, Current
<1>6. SameRecord
  BY <1>1, <1>2, <1>3, <1>4, <1>5 DEF SameRecord
<1>7. Current' = Current
  BY <1>4 DEF Current
<1>8. interventions[Current].state \notin {"AUTHORIZED", "DISPATCHED"}
  BY <1>1 DEF CInv, Phase, Sent, Acting
<1>9. /\ pc \in Sent /\ pc' \in Sent /\ pc' \notin Unsent
  BY <1>1 DEF Sent, Unsent, Acting
<1>10. \/ interventions'[Current'] = interventions[Current]
       \/ /\ interventions[Current].state = "ACKNOWLEDGED"
          /\ interventions'[Current'].state
                \in {"EFFECTIVE", "PARTIALLY_EFFECTIVE", "INEFFECTIVE"}
  BY <1>3, <1>4, <1>7, <1>8 DEF Verifiable
<1>. QED
  BY <1>1, <1>6, <1>7, <1>9, <1>10 DEF RecordKept, Undone, Answering

-----------------------------------------------------------------------------
(* What the steps do to the frames. *)

\* A frame that a worker is sent is the only new one.
LEMMA ActionsAppended ==
    ASSUME Sorted, NEW p \in Procs, NEW f \in ToWorker,
           toWorker' = [toWorker EXCEPT ![p] = Append(@, f)]
    PROVE  \A q \in Procs : \A m \in ActionsTo(q)' :
              m \in ActionsTo(q) \/ (q = p /\ m = f /\ f.type = "ACTION_AUTHORIZE")
<1>. SUFFICES ASSUME NEW q \in Procs, NEW m \in ActionsTo(q)'
              PROVE  \/ m \in ActionsTo(q)
                     \/ q = p /\ m = f /\ f.type = "ACTION_AUTHORIZE"
  OBVIOUS
<1>1. toWorker[p] \in Seq(ToWorker)
  BY DEF Sorted
<1>2. PICK n \in DOMAIN toWorker'[q] :
         m = toWorker'[q][n] /\ m.type = "ACTION_AUTHORIZE"
  BY DEF ActionsTo
<1>3. CASE q # p
  <2>1. toWorker'[q] = toWorker[q]
    BY <1>3 DEF Sorted
  <2>. QED
    BY <1>2, <2>1 DEF ActionsTo
<1>4. CASE q = p
  <2>1. toWorker'[q] = Append(toWorker[p], f)
    BY <1>4 DEF Sorted
  <2>2. \/ n \in DOMAIN toWorker[p] /\ Append(toWorker[p], f)[n] = toWorker[p][n]
        \/ Append(toWorker[p], f)[n] = f
    BY <1>1, <1>2, <2>1
  <2>. QED
    BY <1>2, <1>4, <2>1, <2>2 DEF ActionsTo
<1>. QED
  BY <1>3, <1>4

\* When frames are taken, or lost, there are no new ones.
LEMMA ActionsLost ==
    ASSUME Sorted, NEW p \in Procs, toWorker[p] # << >>,
           \/ toWorker' = [toWorker EXCEPT ![p] = Tail(@)]
           \/ toWorker' = [toWorker EXCEPT ![p] = << >>]
    PROVE  \A q \in Procs : ActionsTo(q)' \subseteq ActionsTo(q)
<1>. SUFFICES ASSUME NEW q \in Procs, NEW m \in ActionsTo(q)'
              PROVE  m \in ActionsTo(q)
  OBVIOUS
<1>1. toWorker[p] \in Seq(ToWorker)
  BY DEF Sorted
<1>2. PICK n \in DOMAIN toWorker'[q] :
         m = toWorker'[q][n] /\ m.type = "ACTION_AUTHORIZE"
  BY DEF ActionsTo
<1>3. CASE q # p
  <2>1. toWorker'[q] = toWorker[q]
    BY <1>3 DEF Sorted
  <2>. QED
    BY <1>2, <2>1 DEF ActionsTo
<1>4. CASE q = p
  <2>1. toWorker'[q] = Tail(toWorker[p])
    BY <1>2, <1>4 DEF Sorted
  <2>2. /\ Tail(toWorker[p]) \in Seq(ToWorker)
        /\ Len(Tail(toWorker[p])) = Len(toWorker[p]) - 1
        /\ \A k \in 1..(Len(toWorker[p]) - 1) : Tail(toWorker[p])[k] = toWorker[p][k + 1]
    BY <1>1, ChannelsType
  <2>3. n \in 1..(Len(toWorker[p]) - 1)
    BY <1>2, <2>1, <2>2
  <2>4. n + 1 \in DOMAIN toWorker[p]
    BY <1>1, <2>3
  <2>. QED
    BY <1>2, <1>4, <2>1, <2>2, <2>3, <2>4 DEF ActionsTo
<1>. QED
  BY <1>3, <1>4

\* What neither sends an action nor serves one adds no frame that matters.
QuietFrames ==
    /\ UNCHANGED <<starts, linked, boot, performed>>
    /\ \A p \in Procs : AckFrom(p)' => AckFrom(p)
    /\ \A p \in Procs : ActionsTo(p)' \subseteq ActionsTo(p)

\* Frames that are only taken are no action and no acknowledgement.
LEMMA QuietFramesFenced == QuietFrames => FramesFenced
  BY DEF QuietFrames, FramesFenced

\* Nothing about the frames changes.
LEMMA UntouchedFrames ==
    ASSUME UNCHANGED <<starts, linked, boot, performed, toCoord, toWorker>>
    PROVE  QuietFrames
  BY DEF QuietFrames, AckFrom, ActionsTo

\* A frame is taken.
LEMMA TakenFrames ==
    ASSUME CInv, UNCHANGED <<starts, linked, boot, performed, toWorker>>,
           NEW p, Arrived(p), toCoord' = Taken(p)
    PROVE  QuietFrames
<1>1. CASE p \in Procs
  BY <1>1, AcksTaken DEF CInv, Links, QuietFrames, ActionsTo
<1>2. CASE p \notin Procs
  <2>1. Taken(p) = toCoord
    BY <1>2 DEF Taken, CInv, Links, NetworkTypes
  <2>. QED
    BY <2>1, UntouchedFrames
<1>. QED
  BY <1>1, <1>2

\* Ordinary steps add no action and no acknowledgement.
LEMMA OrdinaryFrames ==
    ASSUME CInv, Sorted, Ordinary \/ Save \/ AdmitReport \/ Dispatch
    PROVE  FramesFenced
<1>1. CASE \/ UNCHANGED coordinatorVars
           \/ \E delta \in Advances : TimePasses(delta)
           \/ \E m \in Modes : Begin(m)
           \/ NoWorker \/ SendFails \/ NoAck
           \/ Saving \/ Save \/ Dispatch
  <2>1. UNCHANGED <<starts, linked, boot, performed, toCoord, toWorker>>
    BY <1>1
       DEF coordinatorVars, TimePasses, Begin, StartRun, NoWorker, SendFails,
           NoAck, AnswerWith, Saving, Save, Dispatch, MainUnchanged, linkVars,
           workVars
  <2>. QED
    BY <2>1, UntouchedFrames, QuietFramesFenced
<1>2. CASE \E p : /\ Arrived(p) /\ toCoord' = Taken(p)
                  /\ UNCHANGED <<starts, linked, boot, performed, toWorker>>
  BY <1>2, TakenFrames, QuietFramesFenced
<1>3. CASE ReceiveAck
  <2>1. /\ Arrived(Target) /\ toCoord' = Taken(Target)
        /\ UNCHANGED <<starts, linked, boot, performed, toWorker>>
    BY <1>3 DEF ReceiveAck, AnswerWith, workVars
  <2>. QED
    BY <1>2, <2>1
<1>4. CASE Discard
  <2>1. /\ Arrived(FirstConnection) /\ toCoord' = Taken(FirstConnection)
        /\ UNCHANGED <<starts, linked, boot, performed, toWorker>>
    BY <1>4 DEF Discard, workVars
  <2>. QED
    BY <1>2, <2>1
<1>5. CASE ReceiveReport
  <2>1. /\ Arrived(Victim) /\ toCoord' = Taken(Victim)
        /\ UNCHANGED <<starts, linked, boot, performed, toWorker>>
    BY <1>5 DEF ReceiveReport, workVars
  <2>. QED
    BY <1>2, <2>1
<1>6. CASE AdmitReport
  <2>1. /\ Arrived(Peer) /\ toCoord' = Taken(Peer)
        /\ UNCHANGED <<starts, linked, boot, performed, toWorker>>
    BY <1>6 DEF AdmitReport, workVars
  <2>. QED
    BY <1>2, <2>1
<1>7. CASE RequestReport
  <2>1. /\ UNCHANGED <<starts, linked, boot, performed, toCoord>>
        /\ Victim # NoProc /\ pc = "answered"
        /\ \/ toWorker' = toWorker
           \/ toWorker' = [toWorker EXCEPT ![Victim] = Append(@, Request)]
    BY <1>7 DEF RequestReport, workVars
  <2>2. PICK p \in Procs, f \in ToWorker : p = Victim /\ f = Request
    BY <2>1, VictimType DEF CInv, Request, ToWorker, Acting
  <2>3. CASE toWorker' = toWorker
    BY <2>1, <2>3, UntouchedFrames, QuietFramesFenced
  <2>4. CASE toWorker' = [toWorker EXCEPT ![p] = Append(@, f)]
    <3>1. f.type # "ACTION_AUTHORIZE"
      BY <2>2 DEF Request
    <3>2. \A q \in Procs : ActionsTo(q)' \subseteq ActionsTo(q)
      BY <2>4, <3>1, ActionsAppended
    <3>3. QuietFrames
      BY <2>1, <3>2 DEF QuietFrames, AckFrom
    <3>. QED
      BY <3>3, QuietFramesFenced
  <2>. QED
    BY <2>1, <2>2, <2>3, <2>4
<1>. QED
  BY <1>1, <1>3, <1>4, <1>5, <1>6, <1>7 DEF Ordinary

\* The action of this run goes to the process its fence names, and no saved
\* state knows of it.
LEMMA SendFrames ==
    ASSUME CInv, Sorted, Sorted', ConnsFenced, SendAction,
           Snapshots' \subseteq Snapshots
    PROVE  FramesFenced
<1>1. /\ pc = "send" /\ pc' = "ack" /\ Target # NoProc
      /\ toWorker' = IF Running(Target)
                     THEN [toWorker EXCEPT ![Target] = Append(@, Action(Current))]
                     ELSE toWorker
      /\ UNCHANGED <<starts, linked, boot, performed, toCoord, interventions,
                     authority, conns>>
  BY DEF SendAction, workVars, vars
<1>2. PICK p \in Procs, m \in ToWorker :
         p = Target /\ p \in linked /\ m = Action(Current)
  BY <1>1, CurrentType DEF CInv, Acting
<1>3. CASE ~Running(p)
  BY <1>1, <1>2, <1>3, UntouchedFrames, QuietFramesFenced
<1>4. CASE Running(p)
  <2>1. /\ Current \in DOMAIN interventions /\ Current' = Current
        /\ interventions[Current] \in InterventionRecord
        /\ interventions[Current].state = "DISPATCHED"
        /\ interventions[Current].target \in Workloads
    <3>1. interventions[Current] \in InterventionRecord
      BY <1>1 DEF Sorted
    <3>. QED
      BY <1>1, <3>1 DEF Sorted, Current, CInv, Phase, InterventionRecord
  <2>2. m.attempt = Current /\ m.fence = interventions[Current].fence
    BY <1>2 DEF Action
  <2>3. m.fence.workerBoot = boot[p]
    BY <1>1, <1>2, <1>4, <2>1, <2>2 DEF ConnsFenced, Target
  <2>4. OfCurrent(m)'
    BY <1>1, <2>1, <2>2 DEF OfCurrent, Sent, Acting, Undone
  <2>5. \A s \in Snapshots : ~Mentions(s, m.fence.workerBoot)
    BY <1>1, <1>2, <1>4, <2>3 DEF ConnsFenced, Unsent
  <2>6. \A s \in Snapshots : KnownTo(m, s)
    BY <2>5 DEF KnownTo, Mentions
  <2>7. Sends(m, p)
    BY <1>2, <2>3, <2>4, <2>6 DEF Sends
  <2>8. \A q \in Procs : \A f \in ActionsTo(q)' :
           f \in ActionsTo(q) \/ (q = p /\ f = m)
    BY <1>1, <1>2, <1>4, ActionsAppended
  <2>. QED
    BY <1>1, <2>7, <2>8 DEF FramesFenced, AckFrom
<1>. QED
  BY <1>3, <1>4

\* A frame of two sequences is one of them.
LEMMA FrameOfBoth ==
    ASSUME NEW S, NEW t \in Seq(S), NEW u \in Seq(S), NEW n \in DOMAIN (t \o u)
    PROVE  \/ \E k \in DOMAIN t : (t \o u)[n] = t[k]
           \/ \E k \in DOMAIN u : (t \o u)[n] = u[k]
<1>1. /\ Len(t \o u) = Len(t) + Len(u)
      /\ \A k \in 1..(Len(t) + Len(u)) :
            (t \o u)[k] = IF k <= Len(t) THEN t[k] ELSE u[k - Len(t)]
  BY ConcatProperties
<1>2. t \o u \in Seq(S)
  BY ConcatProperties
<1>3. Len(t) \in Nat /\ Len(u) \in Nat /\ n \in 1..(Len(t) + Len(u))
  BY <1>1, <1>2
<1>4. CASE n <= Len(t)
  <2>1. n \in DOMAIN t
    BY <1>3, <1>4
  <2>. QED
    BY <1>1, <1>3, <1>4, <2>1
<1>5. CASE ~(n <= Len(t))
  <2>1. n - Len(t) \in DOMAIN u
    BY <1>3, <1>5
  <2>. QED
    BY <1>1, <1>3, <1>5, <2>1
<1>. QED
  BY <1>4, <1>5

\* A measurement acknowledges nothing.
LEMMA MeasureFrames ==
    ASSUME CInv, Sorted, NEW p \in Procs, WorkerMeasure(p)
    PROVE  FramesFenced
<1>1. Works(p)
  BY DEF Works
<1>2. /\ toWorker[p] # << >>
      /\ boot' \in {boot, [boot EXCEPT ![p] = 0]}
      /\ \/ toWorker' = [toWorker EXCEPT ![p] = Tail(@)]
         \/ toWorker' = [toWorker EXCEPT ![p] = << >>]
      /\ \A q \in Procs \ {p} : toCoord'[q] = toCoord[q]
      /\ UNCHANGED <<linked, starts>>
      /\ performed' = performed
  BY <1>1, ServesStep DEF CInv, WorkerMeasure
<1>3. \A q \in Procs : ActionsTo(q)' \subseteq ActionsTo(q)
  BY <1>2, ActionsLost
<1>4. \A q \in Procs : boot'[q] \in {boot[q], 0}
  BY <1>2 DEF Sorted
<1>5. AckFrom(p)' => AckFrom(p)
  <2>. DEFINE f == PostEvidence(WorkerOf[p])
              r == <<f>>
  <2>1. f \in FromWorker /\ f.type # "ACTION_ACK"
    BY FramesType, WorkerOfType DEF CInv, Links, PostEvidence
  <2>2. r \in Seq(FromWorker) /\ Len(r) = 1 /\ \A k \in DOMAIN r : r[k] = f
    BY <2>1
  <2>3. PICK u \in Seq(FromWorker) :
           /\ toCoord'[p] = toCoord[p] \o u \/ toCoord'[p] = toCoord[p]
           /\ \A k \in DOMAIN u : u[k] = f
    <3>1. CASE toCoord' = toCoord
      BY <2>2, <3>1
    <3>2. CASE toCoord' = [toCoord EXCEPT ![p] = @ \o r]
      BY <2>2, <3>2 DEF Sorted
    <3>3. CASE \E n \in 0..(Len(r) - 1) :
                  toCoord' = [toCoord EXCEPT ![p] = @ \o SubSeq(r, 1, n)]
      <4>1. toCoord'[p] = toCoord[p] \o SubSeq(r, 1, 0)
        BY <2>2, <3>3 DEF Sorted
      <4>2. SubSeq(r, 1, 0) = << >>
        OBVIOUS
      <4>3. << >> \in Seq(FromWorker) /\ DOMAIN << >> = {}
        OBVIOUS
      <4>. QED
        BY <4>1, <4>2, <4>3
    <3>. QED
      BY <3>1, <3>2, <3>3 DEF WorkerMeasure, Serves
  <2>4. ASSUME AckFrom(p)'
        PROVE  AckFrom(p)
    <3>1. PICK n \in DOMAIN toCoord'[p] : toCoord'[p][n].type = "ACTION_ACK"
      BY <2>4 DEF AckFrom
    <3>2. CASE toCoord'[p] = toCoord[p]
      BY <3>1, <3>2 DEF AckFrom
    <3>3. CASE toCoord'[p] = toCoord[p] \o u
      <4>1. toCoord[p] \in Seq(FromWorker) /\ n \in DOMAIN (toCoord[p] \o u)
        BY <3>1, <3>3 DEF Sorted
      <4>2. PICK t \in Seq(FromWorker) : t = toCoord[p]
        BY <4>1
      <4>3. \/ \E k \in DOMAIN t : (t \o u)[n] = t[k]
            \/ \E k \in DOMAIN u : (t \o u)[n] = u[k]
        BY <4>1, <4>2, FrameOfBoth
      <4>4. (t \o u)[n].type = "ACTION_ACK"
        BY <3>1, <3>3, <4>2
      <4>. QED
        BY <2>1, <2>3, <4>2, <4>3, <4>4 DEF AckFrom
    <3>. QED
      BY <2>3, <3>2, <3>3
  <2>. QED
    BY <2>4
<1>6. \A q \in Procs : AckFrom(q)' => AckFrom(q)
  BY <1>2, <1>5 DEF AckFrom
<1>. QED
  BY <1>2, <1>3, <1>4, <1>6 DEF FramesFenced

\* A worker that dies takes what it has not read with it.
LEMMA DieFrames ==
    ASSUME CInv, Sorted, NEW p \in Procs, WorkerDie(p)
    PROVE  FramesFenced
<1>1. /\ boot' = [boot EXCEPT ![p] = 0]
      /\ toWorker' = [toWorker EXCEPT ![p] = << >>]
      /\ UNCHANGED <<linked, toCoord, performed, starts>>
  BY DEF WorkerDie
<1>2. \A q \in Procs : boot'[q] \in {boot[q], 0}
  BY <1>1 DEF Sorted
<1>3. \A q \in Procs : ActionsTo(q)' \subseteq ActionsTo(q)
  <2>1. CASE toWorker[p] = << >>
    BY <1>1, <2>1 DEF ActionsTo, Sorted
  <2>. QED
    BY <1>1, <2>1, ActionsLost
<1>. QED
  BY <1>1, <1>2, <1>3 DEF FramesFenced, AckFrom

\* The action that is performed was sent to this very process.
LEMMA ActFrames ==
    ASSUME CInv, Sorted, Sorted', BootsCounted, ActionsClaimed,
           NEW p \in Procs, WorkerAct(p)
    PROVE  FramesFenced
<1>1. Works(p)
  BY DEF Works
<1>2. /\ toWorker[p] # << >>
      /\ boot' \in {boot, [boot EXCEPT ![p] = 0]}
      /\ \/ toWorker' = [toWorker EXCEPT ![p] = Tail(@)]
         \/ toWorker' = [toWorker EXCEPT ![p] = << >>]
      /\ p \notin linked => toCoord' = toCoord
      /\ \A q \in Procs \ {p} : toCoord'[q] = toCoord[q]
      /\ UNCHANGED <<linked, starts, pc, interventions>>
  BY <1>1, ServesStep DEF CInv, vars
<1>3. \A q \in Procs : ActionsTo(q)' \subseteq ActionsTo(q)
  BY <1>2, ActionsLost
<1>4. \A q \in Procs : boot'[q] \in {boot[q], 0}
  BY <1>2 DEF Sorted
<1>5. PICK m, a :
         /\ m \in ActionsTo(p)
         /\ a = [boot |-> boot[p], attempt |-> m.attempt,
                 target |-> m.target, fence |-> m.fence, at |-> m.at]
         /\ performed' = performed \cup {a}
  <2>. DEFINE m == Head(toWorker[p])
  <2>1. m.type = "ACTION_AUTHORIZE"
    BY DEF WorkerAct, Delivered
  <2>2. toWorker[p] \in Seq(ToWorker) /\ m = toWorker[p][1] /\ 1 \in DOMAIN toWorker[p]
    BY <1>2 DEF Sorted
  <2>3. m \in ActionsTo(p)
    BY <2>1, <2>2 DEF ActionsTo
  <2>. QED
    BY <2>3 DEF WorkerAct
<1>6. /\ m.attempt \in Nat /\ m.fence \in Fence
      /\ m.target \in Workloads /\ m.at \in Nat
      /\ m.fence.workerBoot = boot[p] /\ boot[p] # 0
      /\ IF p \in linked THEN OfCurrent(m) ELSE Unclaimed(m)
      /\ \A s \in Snapshots : KnownTo(m, s)
  BY <1>5 DEF ActionsClaimed, Sorted
<1>7. a.boot = boot[p] /\ a.attempt = m.attempt /\ a.fence = m.fence
  BY <1>5
<1>8. Performs(a)
  <2>1. a \in Performance
    BY <1>5, <1>6 DEF Performance, Sorted
  <2>2. a.boot = a.fence.workerBoot /\ a.boot <= starts
    BY <1>6, <1>7 DEF BootsCounted
  <2>3. Unclaimed(a) \/ OfCurrent(a)
    BY <1>6, <1>7 DEF Unclaimed, OfCurrent
  <2>4. \A s \in Snapshots : KnownTo(a, s)
    BY <1>6, <1>7 DEF KnownTo
  <2>. QED
    BY <2>1, <2>2, <2>3, <2>4 DEF Performs
<1>9. ASSUME NEW q \in Procs, AckFrom(q)'
      PROVE  AckFrom(q) \/ (pc \in Sent /\ pc' \in Sent /\ Backed')
  <2>1. CASE q # p \/ p \notin linked
    BY <1>2, <1>9, <2>1 DEF AckFrom
  <2>2. CASE p \in linked
    <3>1. OfCurrent(m)
      BY <1>6, <2>2
    <3>2. a \in performed' /\ Current' = Current
      BY <1>2, <1>5 DEF Current
    <3>3. Backed'
      BY <1>2, <1>7, <3>1, <3>2 DEF Backed, OfCurrent
    <3>. QED
      BY <1>2, <3>1, <3>3 DEF OfCurrent
  <2>. QED
    BY <2>1, <2>2
<1>. QED
  BY <1>2, <1>3, <1>4, <1>5, <1>8, <1>9 DEF FramesFenced

-----------------------------------------------------------------------------
(* The invariant of the fences. *)

\* A step saves nothing, or the memory after the action was answered.
LEMMA StepSaves ==
    ASSUME CInv, [CoordinatorNext]_coordinatorVars
    PROVE  /\ SavesAfter
           /\ Snapshots' \subseteq Snapshots \/ Save
<1>1. \/ Snapshots' \subseteq Snapshots
      \/ Save /\ Snapshots' \subseteq Snapshots \cup {Memory}
  BY FilesStep DEF CInv
<1>2. Save => pc \in Sent /\ pc' \in Sent
  BY DEF Save, Sent, Acting
<1>. QED
  BY <1>1, <1>2 DEF SavesAfter

\* The end of a run: every action that was sent is from then on nobody's.
LEMMA EndFenced ==
    ASSUME CInv, Sorted, Sorted', Fenced, Exit \/ Crash \/ PowerFailure,
           Snapshots' \subseteq Snapshots
    PROVE  BootsCounted' /\ ConnsFenced' /\ ActionsClaimed' /\ PerformedClaimed'
           /\ AcksBacked'
<1>1. Gone
  BY DEF Exit, Crash, PowerFailure
<1>2. /\ starts' = starts /\ recovered' = 0 /\ pc' = "down"
      /\ conns' = [w \in Workloads |-> NoProc]
      /\ linked' = {} /\ performed' = performed
      /\ toCoord' = [p \in Procs |-> << >>]
      /\ Install(BlankMemory)
  BY <1>1 DEF Gone
<1>3. Memory' = BlankMemory
  BY <1>2, BlankType, InstallStep
<1>4. \/ toWorker' = toWorker
      \/ toWorker' = [p \in Procs |-> << >>]
  BY DEF Exit, Crash, PowerFailure
<1>5. \A p \in Procs : ActionsTo(p)' \subseteq ActionsTo(p)
  BY <1>4 DEF ActionsTo
<1>6. \A p \in Procs : boot'[p] \in {boot[p], 0}
  BY DEF Exit, Crash, PowerFailure, BootAfterClosing
<1>7. \A p \in Procs : ~AckFrom(p)'
  BY <1>2 DEF AckFrom
<1>8. NoFrames
  BY <1>2, <1>5, <1>6 DEF NoFrames
<1>. QED
  BY <1>2, <1>3, <1>7, <1>8, EndKeepsFenced DEF Fenced

\* A run that resumes: what was loaded claims no action any more.
LEMMA ResumeFenced ==
    ASSUME CInv, Sorted, Sorted', Fenced, BeginResumed,
           Snapshots' \subseteq Snapshots
    PROVE  BootsCounted' /\ ConnsFenced' /\ ActionsClaimed' /\ PerformedClaimed'
           /\ AcksBacked'
<1>1. PICK s \in Snapshots :
         /\ s \in GovernorState
         /\ Memory' = Restarted(s)
         /\ recovered' = Len(s.interventions)
  BY ResumedStep DEF CInv
<1>2. /\ pc = "down" /\ pc' = "accept"
      /\ UNCHANGED <<conns, linked, performed, boot, starts, toCoord, toWorker>>
  BY DEF BeginResumed, StartRun, workVars
<1>3. linked = {} /\ \A w \in Workloads : conns[w] = NoProc
  BY <1>2 DEF CInv, Links, TwoAdmitted, ConnsLinked
<1>4. NoFrames
  BY <1>2 DEF NoFrames, ActionsTo
<1>5. \A p \in Procs : AckFrom(p)' => AckFrom(p)
  BY <1>2 DEF AckFrom
<1>. QED
  BY <1>1, <1>2, <1>3, <1>4, <1>5, ResumeKeepsFenced DEF Fenced

\* A step that keeps records and frames keeps the fences.
LEMMA KeptFenced ==
    ASSUME Sorted, Sorted', Fenced, RecordKept, FramesFenced, SavesAfter
    PROVE  BootsCounted' /\ ConnsFenced' /\ ActionsClaimed' /\ PerformedClaimed'
           /\ AcksBacked'
  BY BootsKept, ConnsKept, ActionsKept, PerformedKept, AcksKept
     DEF Fenced, RecordKept

\* No step breaks the fences; the hellos come last, for they need the others.
LEMMA FencesStep ==
    ASSUME CInv, Sorted, Sorted', Fenced, [CoordinatorNext]_coordinatorVars
    PROVE  BootsCounted' /\ ConnsFenced' /\ ActionsClaimed' /\ PerformedClaimed'
           /\ AcksBacked'
<1>. DEFINE Kept == BootsCounted' /\ ConnsFenced' /\ ActionsClaimed'
                    /\ PerformedClaimed' /\ AcksBacked'
<1>1. SavesAfter /\ (Snapshots' \subseteq Snapshots \/ Save)
  BY StepSaves
<1>2. ~Save => Snapshots' \subseteq Snapshots
  BY <1>1
<1>3. GoesOn \/ Concludes \/ Waits \/ AdmitReport \/ Dispatch
         \/ (\E r \in Report : Reported(r)) => RecordKept
  BY GoesOnRecord, ConcludesRecord, WaitsRecord, ReportRecord, DispatchRecord,
     ReportedRecord
<1>4. CASE Ordinary \/ Save
  <2>1. FramesFenced
    BY <1>4, OrdinaryFrames
  <2>2. RecordKept
    BY <1>3, <1>4, OrdinarySorts DEF CInv
  <2>. QED
    BY <1>1, <2>1, <2>2, KeptFenced
<1>5. CASE SendAction
  <2>1. Snapshots' \subseteq Snapshots
    BY <1>2, <1>5 DEF SendAction, Save
  <2>2. FramesFenced
    BY <1>5, <2>1, SendFrames DEF Fenced
  <2>3. RecordKept
    BY <1>3, <1>5, OrdinarySorts DEF CInv
  <2>. QED
    BY <1>1, <2>2, <2>3, KeptFenced
<1>6. ASSUME NEW p \in Procs, WorkerStep(p) \/ WorkerDie(p)
      PROVE  Kept
  <2>1. FramesFenced
    BY <1>6, ActFrames, MeasureFrames, DieFrames DEF Fenced, WorkerStep
  <2>2. RecordKept
    <3>1. AtWork
      BY <1>6 DEF AtWork
    <3>. QED
      BY <1>3, <3>1, OrdinarySorts DEF CInv
  <2>. QED
    BY <1>1, <2>1, <2>2, KeptFenced
<1>7. ASSUME NEW w \in Workloads, WorkerStart(w)
      PROVE  Kept
  <2>1. Snapshots' \subseteq Snapshots
    BY <1>2, <1>7 DEF WorkerStart, Save
  <2>. QED
    BY <1>7, <2>1, StartKeepsFenced DEF Fenced
<1>8. CASE Ending
  <2>1. Exit \/ Crash \/ PowerFailure
    BY <1>8, EndingSorts DEF CInv
  <2>2. pc' = "down"
    BY <2>1 DEF Exit, Crash, PowerFailure, Gone
  <2>3. Snapshots' \subseteq Snapshots
    BY <1>2, <2>2 DEF Save
  <2>. QED
    BY <2>1, <2>3, EndFenced
<1>9. CASE BeginResumed
  <2>1. Snapshots' \subseteq Snapshots
    BY <1>2, <1>9 DEF BeginResumed, StartRun, Save
  <2>. QED
    BY <1>9, <2>1, ResumeFenced
<1>10. CASE AdmitHello
  <2>1. Snapshots' \subseteq Snapshots
    BY <1>2, <1>10 DEF AdmitHello, Save
  <2>. QED
    BY <1>10, <2>1, HelloKeepsFenced DEF Fenced
<1>11. CASE Decide
  <2>1. Snapshots' \subseteq Snapshots
    BY <1>2, <1>11 DEF Decide, Save
  <2>. QED
    BY <1>11, <2>1, DecideKeepsFenced DEF Fenced
<1>12. CASE AdmitReport \/ Dispatch
  <2>1. FramesFenced
    BY <1>12, OrdinaryFrames
  <2>. QED
    BY <1>1, <1>3, <1>12, <2>1, KeptFenced
<1>. QED
  BY <1>4, <1>5, <1>6, <1>7, <1>8, <1>9, <1>10, <1>11, <1>12, StepSorts
     DEF AtWork

\* No step breaks the invariant.
LEMMA FencedStep ==
    ASSUME CInv, Sorted, Sorted', Fenced, [CoordinatorNext]_coordinatorVars
    PROVE  Fenced'
  BY FencesStep, HellosKept DEF Fenced

\* The invariant holds before the first run.
LEMMA FencedInitially == CoordinatorInit => Fenced
<1>. SUFFICES ASSUME CoordinatorInit PROVE Fenced
  OBVIOUS
<1>1. /\ pc = "down" /\ linked = {} /\ performed = {} /\ backlog = << >>
      /\ conns = [w \in Workloads |-> NoProc]
      /\ boot = [p \in Procs |-> 0] /\ starts = 0
      /\ toCoord = [p \in Procs |-> << >>] /\ toWorker = [p \in Procs |-> << >>]
      /\ FileInit
  BY DEF CoordinatorInit
<1>2. Memory = BlankMemory
  BY CoordinatorInitially DEF CInv, Phase, CoordinatorInit
<1>3. Snapshots = {}
  BY <1>1 DEF FileInit, Snapshots, Absent, Idle
<1>4. BootsCounted
  <2>1. \A b \in Nat : Mentions(Memory, b) => b <= starts
    BY <1>1, <1>2 DEF Mentions, BlankMemory
  <2>. QED
    BY <1>1, <1>3, <2>1 DEF BootsCounted, Running
<1>5. pc \notin Sent \cup {"dispatch", "send"} /\ pc \notin Unsent
  BY <1>1 DEF Sent, Unsent, Acting
<1>6. \A p \in Procs : ActionsTo(p) = {} /\ ~AckFrom(p)
  BY <1>1 DEF ActionsTo, AckFrom
<1>. QED
  BY <1>1, <1>4, <1>5, <1>6
     DEF Fenced, ConnsFenced, HellosFresh, ActionsClaimed, PerformedClaimed,
         AcksBacked

\* The invariant holds always.
LEMMA FencedInvariant == CoordinatorSpec => []Fenced
<1>1. CInv /\ CInv' => Sorted /\ Sorted'
  <2>1. CInv => Sorted
    BY Sorts
  <2>. QED
    BY <2>1, PTL
<1>2. CInv /\ CInv' /\ Fenced /\ [CoordinatorNext]_coordinatorVars => Fenced'
  BY <1>1, FencedStep
<1>. QED
  BY <1>2, FencedInitially, CoordinatorInvariant, PTL DEF CoordinatorSpec

-----------------------------------------------------------------------------
\* An action is performed by the process its fence was made for.
THEOREM FencedBootAlwaysPerforms == CoordinatorSpec => []FencedBootPerforms
<1>1. Fenced => FencedBootPerforms
  BY DEF Fenced, PerformedClaimed, FencedBootPerforms
<1>. QED
  BY <1>1, FencedInvariant, PTL

\* What a worker performed is not on record as failed or as never dispatched.
THEOREM PerformedNeverFailed == CoordinatorSpec => []PerformedNotFailed
<1>1. Sorted /\ Fenced => PerformedNotFailed
  <2>. SUFFICES ASSUME Sorted, Fenced,
                       NEW i \in DOMAIN interventions, NEW a \in performed,
                       a.attempt = i, a.fence = interventions[i].fence
                PROVE  interventions[i].state \notin Undone
    BY DEF PerformedNotFailed, Undone
  <2>1. Unclaimed(a) \/ OfCurrent(a)
    BY DEF Fenced, PerformedClaimed
  <2>. QED
    BY <2>1 DEF Unclaimed, OfCurrent
<1>2. CInv => Sorted
  BY Sorts
<1>. QED
  BY <1>1, <1>2, CoordinatorInvariant, FencedInvariant, PTL

\* What counts as acknowledged or as verified was performed.
THEOREM AcknowledgedAlwaysPerformed ==
    CoordinatorSpec => []AcknowledgedWasPerformed
<1>1. CInv /\ Sorted /\ Fenced => AcknowledgedWasPerformed
  <2>. SUFFICES ASSUME CInv, Sorted, Fenced,
                       NEW i \in DOMAIN interventions, i > recovered,
                       interventions[i].state \in Answering
                PROVE  \E a \in performed :
                          a.attempt = i /\ a.fence = interventions[i].fence
    BY DEF AcknowledgedWasPerformed, Answering
  <2>1. /\ i \in 1..Len(interventions) /\ Len(interventions) \in Nat
        /\ recovered \in Nat /\ pc \in {"down"} \cup Admitting \cup Acting
    BY DEF Sorted, CInv, Links, NetworkTypes
  <2>2. pc \notin {"down", "decide"} \cup Admitting
    <3>1. pc = "down" => Len(interventions) = 0
      BY DEF CInv, Phase, Memory, BlankMemory
    <3>2. pc \in Admitting \cup {"decide"} => Len(interventions) = recovered
      BY DEF CInv, Phase
    <3>. QED
      BY <2>1, <3>1, <3>2
  <2>3. pc \in Acting \ {"decide"} /\ i = Current
    <3>1. pc \in Acting \ {"decide"}
      BY <2>1, <2>2
    <3>2. Len(interventions) = recovered + 1
      BY <3>1 DEF CInv, Phase
    <3>. QED
      BY <2>1, <3>1, <3>2 DEF Current
  <2>4. pc \in Sent
    BY <2>3 DEF CInv, Phase, Answering, Sent
  <2>5. Backed
    BY <2>3, <2>4 DEF Fenced, AcksBacked
  <2>. QED
    BY <2>3, <2>5 DEF Backed
<1>2. CInv => Sorted
  BY Sorts
<1>. QED
  BY <1>1, <1>2, CoordinatorInvariant, FencedInvariant, PTL

-----------------------------------------------------------------------------
(* The cooldown in memory and on disk. *)

\* A state of the governor remembers the last action on every workload, and no
\* action of the future; and its actions kept their distance.
RememberedIn(m) ==
    /\ \A i \in DOMAIN m.interventions :
          m.interventions[i].authorizedAt
             <= m.fairness[m.interventions[i].target].lastInterventionAt
    /\ \A w \in Workloads : m.fairness[w].lastInterventionAt <= now

SpacedIn(m) ==
    \A i, j \in DOMAIN m.interventions :
        /\ i < j
        /\ m.interventions[i].target = m.interventions[j].target
        /\ m.interventions[j].cls \in Disruptive
        /\ m.interventions[i].authorizedAt # 0
        => m.interventions[j].authorizedAt - m.interventions[i].authorizedAt
              >= m.policy.cooldownMs

\* While the power stays on, so do the state in memory and all that was saved.
Cool ==
    /\ now < TimeModulus
    /\ powerFailures \in Nat
    /\ powerFailures = 0 =>
          \A m \in Snapshots \cup {Memory} : RememberedIn(m) /\ SpacedIn(m)

\* Of the memory these are the properties of the governor itself.
LEMMA CoolMemory ==
    /\ now < TimeModulus /\ RememberedIn(Memory) <=> LastRemembered
    /\ SpacedIn(Memory) <=> CooldownSpacing
  BY DEF Memory, RememberedIn, SpacedIn, LastRemembered, CooldownSpacing

\* The state of one intervention is rewritten.
LEMMA SameInState ==
    ASSUME TypeOK, NEW i \in DOMAIN interventions, NEW s \in LifecycleState,
           interventions' = InState(i, s)
    PROVE  /\ Len(interventions') = Len(interventions)
           /\ \A j \in DOMAIN interventions : SameIntervention(j)
<1>1. interventions[i] \in InterventionRecord
  BY DEF TypeOK
<1>2. [interventions[i] EXCEPT !.state = s]
         = [interventions[i] EXCEPT !.state = s,
                                    !.result = interventions[i].result]
  BY <1>1 DEF InterventionRecord
<1>3. interventions[i].result \in VerificationOutcome
  BY <1>1 DEF InterventionRecord
<1>. QED
  BY <1>2, <1>3, UpdatedIntervention DEF InState

\* The interventions on record stay what they were about.
SameInterventions ==
    /\ Len(interventions') = Len(interventions)
    /\ \A i \in DOMAIN interventions : SameIntervention(i)

\* Whatever the coordinator does with its governor, the accounts of the targets
\* change as the operations of the governor change them.
LEMMA CoordinatorAccounts ==
    ASSUME CInv,
           \/ GoesOn \/ AdmitHello \/ AdmitReport \/ Decide \/ Dispatch
           \/ Concludes \/ Waits \/ \E r \in Report : Reported(r)
    PROVE  /\ AccountsStep
           /\ policy'.cooldownMs = policy.cooldownMs
           /\ Decide \/ SameInterventions
<1>1. TypeOK /\ policy \in ContentionPolicy
      /\ fairness \in [Workloads -> FairnessRecord]
  BY DEF CInv, TypeOK
<1>2. CASE UNCHANGED <<interventions, fairness, policy, now>>
  BY <1>2 DEF AccountsStep, SameInterventions, SameIntervention
<1>3. CASE GoesOn \/ AdmitHello \/ AdmitReport
  BY <1>2, <1>3 DEF GoesOn, vars, AdmitHello, AdmitReport, IngestNew, IngestKnown
<1>4. CASE Waits
  <2>1. PICK delta \in Advances : Tick(delta)
    BY <1>4 DEF Waits
  <2>2. now' \in Nat /\ now <= now' /\ now' <= MaxTime
    BY <2>1, InputsAssumption DEF Tick, CInv, TypeOK
  <2>. QED
    BY <2>1, <2>2 DEF Tick, AccountsStep, SameInterventions, SameIntervention
<1>5. CASE Decide
  <2>1. PICK cls \in InterventionClass, target \in Workloads : Appended(cls, target)
    BY <1>1, <1>5, DecideStep, CInvParts, AppendedOne
  <2>. QED
    BY <1>1, <1>5, <2>1 DEF AccountsStep, Appended, ContentionPolicy
<1>6. CASE Dispatch \/ Concludes
  <2>1. pc \in Acting \ {"decide"}
        /\ UNCHANGED <<fairness, policy, now>>
    BY <1>6 DEF Dispatch, Concludes, Acting, DispatchBegin, DispatchEnd
  <2>2. PICK s \in LifecycleState : interventions' = InState(Current, s)
    BY <1>6, AnsweredType
       DEF Dispatch, DispatchBegin, Concludes, DispatchEnd, LifecycleState
  <2>3. PICK i \in DOMAIN interventions : i = Current
    BY <2>1, CurrentType DEF CInv
  <2>. QED
    BY <1>1, <2>1, <2>2, <2>3, SameInState DEF AccountsStep, SameInterventions
<1>7. ASSUME NEW r \in Report, Reported(r)
      PROVE  /\ AccountsStep /\ policy'.cooldownMs = policy.cooldownMs
             /\ Decide \/ SameInterventions
  <2>1. CASE ObserveOnly(r)
    BY <1>2, <2>1 DEF ObserveOnly
  <2>2. CASE Verify(r)
    <3>1. policy' = policy /\ now' = now
      BY <2>2 DEF Verify
    <3>2. PICK i \in DOMAIN interventions, v \in VerificationOutcome :
             /\ interventions' = [interventions EXCEPT ![i] =
                   [interventions[i] EXCEPT !.state = LifecycleAfter(v),
                                            !.result = v]]
             /\ fairness' \in {fairness,
                   [fairness EXCEPT ![interventions[i].target] =
                       ForgivenBurden(fairness[interventions[i].target])]}
      BY <1>1, <2>2, VerifyStep
    <3>3. LifecycleAfter(v) \in LifecycleState
      BY DEF LifecycleAfter, LifecycleState
    <3>4. /\ Len(interventions') = Len(interventions)
          /\ \A j \in DOMAIN interventions : SameIntervention(j)
      BY <1>1, <3>2, <3>3, UpdatedIntervention
    <3>5. \A w \in Workloads :
             fairness'[w] \in {fairness[w], ForgivenBurden(fairness[w])}
      BY <1>1, <3>2
    <3>. QED
      BY <3>1, <3>4, <3>5 DEF AccountsStep, SameInterventions
  <2>. QED
    BY <1>7, <2>1, <2>2 DEF Reported
<1>. QED
  BY <1>3, <1>4, <1>5, <1>6, <1>7

\* A run resumes with what its governor remembers.
LEMMA RestartedCool ==
    ASSUME NEW m \in GovernorState, RememberedIn(m), SpacedIn(m)
    PROVE  RememberedIn(Restarted(m)) /\ SpacedIn(Restarted(m))
<1>. DEFINE n == Restarted(m)
<1>1. /\ m.interventions \in Seq(InterventionRecord)
      /\ DOMAIN m.interventions = 1..Len(m.interventions)
      /\ m.fairness \in [Workloads -> FairnessRecord]
  BY DEF GovernorState
<1>2. /\ n.interventions \in Seq(InterventionRecord)
      /\ Len(n.interventions) = Len(m.interventions)
      /\ n.policy = m.policy
      /\ \A w \in Workloads : n.fairness[w] = ForgivenBurden(m.fairness[w])
      /\ \A i \in 1..Len(m.interventions) :
            n.interventions[i] = OrphanedIntervention(m.interventions[i])
  <2>1. n \in GovernorState
    BY RestartedType
  <2>2. n.interventions \in Seq(InterventionRecord)
    BY <2>1 DEF GovernorState
  <2>3. n.fairness = [w \in Workloads |-> ForgivenBurden(m.fairness[w])]
    BY RestartedType
  <2>4. /\ Len(n.interventions) = Len(m.interventions)
        /\ n.policy = m.policy
        /\ \A i \in 1..Len(m.interventions) :
              n.interventions[i] = OrphanedIntervention(m.interventions[i])
    BY RestartedType
  <2>. QED
    BY <2>2, <2>3, <2>4
<1>3. DOMAIN n.interventions = DOMAIN m.interventions
  BY <1>1, <1>2
<1>4. \A i \in DOMAIN m.interventions :
         /\ n.interventions[i].authorizedAt = m.interventions[i].authorizedAt
         /\ n.interventions[i].target = m.interventions[i].target
         /\ n.interventions[i].cls = m.interventions[i].cls
         /\ m.interventions[i].target \in Workloads
  <2>1. \A r \in InterventionRecord :
           /\ OrphanedIntervention(r).authorizedAt = r.authorizedAt
           /\ OrphanedIntervention(r).target = r.target
           /\ OrphanedIntervention(r).cls = r.cls
           /\ r.target \in Workloads
    BY DEF OrphanedIntervention, InterventionRecord
  <2>. QED
    BY <1>1, <1>2, <2>1
<1>5. \A w \in Workloads :
         n.fairness[w].lastInterventionAt = m.fairness[w].lastInterventionAt
  BY <1>1, <1>2 DEF ForgivenBurden, FairnessRecord
<1>. HIDE DEF n
<1>6. RememberedIn(n)
  BY <1>3, <1>4, <1>5 DEF RememberedIn
<1>7. SpacedIn(n)
  BY <1>2, <1>3, <1>4 DEF SpacedIn
<1>. QED
  BY <1>6, <1>7 DEF n

\* Only a power failure counts as one and turns the clock back.
LEMMA PowerSteps ==
    ASSUME TypeOK, Phase, [CoordinatorNext]_coordinatorVars
    PROVE  \/ PowerFailure
           \/ powerFailures' = powerFailures /\ now' = now
           \/ /\ powerFailures' = powerFailures
              /\ now' \in Nat /\ now <= now' /\ now' <= MaxTime
<1>. DEFINE Goal == powerFailures' = powerFailures /\ now' = now
<1>1. CASE UNCHANGED coordinatorVars
  BY <1>1 DEF coordinatorVars, runVars, vars
<1>2. CASE \E delta \in Advances : TimePasses(delta)
  BY <1>2, InputsAssumption DEF TimePasses, Tick, runVars, TypeOK
<1>3. CASE (\E m \in Modes : Begin(m)) \/ BeginResumed
  BY <1>3 DEF Begin, BeginResumed, StartRun
<1>4. CASE \/ NoWorker \/ SendFails \/ ReceiveAck \/ NoAck \/ Dispatch
           \/ Decide \/ AdmitReport \/ AdmitHello \/ ReceiveReport
  BY <1>4
     DEF NoWorker, SendFails, ReceiveAck, NoAck, AnswerWith, DispatchEnd,
         Dispatch, DispatchBegin, Decide, Authorize, AdmitReport, IngestNew,
         IngestKnown, AdmitHello, ReceiveReport, SubmitPost, Verify,
         ObserveOnly, runVars, vars
<1>5. CASE Discard \/ Saving \/ RequestReport \/ SendAction \/ Save
  BY <1>5
     DEF Discard, Saving, RequestReport, SendAction, Save, MainUnchanged,
         runVars, vars
<1>6. CASE AtWork
  BY <1>6
     DEF AtWork, WorkerStep, WorkerAct, WorkerMeasure, Serves, WorkerDie,
         WorkerStart, runVars, vars
<1>7. CASE Exit \/ Crash
  BY <1>7 DEF Exit, Crash
<1>8. Ending => Exit \/ Crash \/ PowerFailure
  BY EndingSorts
<1>. QED
  BY <1>1, <1>2, <1>3, <1>4, <1>5, <1>6, <1>7, <1>8, StepSorts DEF Ordinary

\* No step breaks the invariant: a run that resumes remembers the last actions
\* of the one that saved.
LEMMA CoolStep ==
    ASSUME ClockAssumption, CInv, CInv', Cool,
           [CoordinatorNext]_coordinatorVars
    PROVE  Cool'
<1>1. /\ TypeOK /\ TypeOK' /\ now \in Nat /\ now' \in Nat
      /\ TimeModulus \in Nat /\ MaxTime \in Nat /\ StartTime < TimeModulus
      /\ MaxTime < TimeModulus
  BY InputsAssumption DEF CInv, TypeOK, ClockAssumption
<1>2. CASE PowerFailure
  BY <1>1, <1>2 DEF PowerFailure, Cool
<1>3. CASE ~PowerFailure
  <2>1. /\ powerFailures' = powerFailures /\ powerFailures \in Nat
        /\ now <= now' /\ now' < TimeModulus
    <3>1. \/ now' = now
          \/ now <= now' /\ now' <= MaxTime
      BY <1>3, PowerSteps DEF CInv
    <3>. QED
      BY <1>1, <1>3, <3>1, PowerSteps DEF CInv, Cool
  <2>. SUFFICES ASSUME powerFailures = 0,
                       NEW m \in Snapshots' \cup {Memory'}
                PROVE  RememberedIn(m)' /\ SpacedIn(m)
    BY <2>1 DEF Cool, SpacedIn
  <2>2. \A s \in GovernorState : RememberedIn(s) => RememberedIn(s)'
    <3>1. ASSUME NEW s \in GovernorState, RememberedIn(s)
          PROVE  RememberedIn(s)'
      <4>1. \A w \in Workloads : s.fairness[w].lastInterventionAt \in Nat
        BY DEF GovernorState, FairnessRecord
      <4>. QED
        BY <1>1, <2>1, <3>1, <4>1 DEF RememberedIn
    <3>. QED
      BY <3>1
  <2>3. Memory \in GovernorState /\ \A s \in Snapshots : s \in GovernorState
    BY MemoryType DEF CInv, Files
  <2>4. CASE m \in Snapshots \cup {Memory}
    BY <2>2, <2>3, <2>4 DEF Cool
  <2>5. CASE m \in Snapshots'
    BY <2>4, <2>5, StepSaves DEF SavesAfter
  <2>6. CASE m = Memory'
    <3>1. RememberedIn(Memory) /\ SpacedIn(Memory)
      BY DEF Cool
    <3>2. CASE \/ GoesOn \/ AdmitHello \/ AdmitReport \/ Decide \/ Dispatch
               \/ Concludes \/ Waits \/ \E r \in Report : Reported(r)
      <4>1. LastRemembered /\ CooldownSpacing
        BY <3>1, CoolMemory DEF Cool
      <4>2. AccountsStep /\ policy'.cooldownMs = policy.cooldownMs
        BY <3>2, CoordinatorAccounts
      <4>3. LastRemembered' /\ CooldownSpacing'
        BY <1>1, <4>1, <4>2, LastRememberedStep, SpacingStep
      <4>4. /\ Memory'.interventions = interventions'
            /\ Memory'.fairness = fairness' /\ Memory'.policy = policy'
        BY DEF Memory
      <4>. QED
        BY <2>6, <4>3, <4>4
           DEF LastRemembered, CooldownSpacing, RememberedIn, SpacedIn
    <3>3. CASE Blanks
      <4>1. Memory' = BlankMemory
        BY <3>3, BlankType, InstallStep DEF Blanks
      <4>. QED
        BY <1>1, <2>6, <4>1 DEF BlankMemory, RememberedIn, SpacedIn
    <3>4. CASE BeginResumed
      <4>1. PICK s \in Snapshots : s \in GovernorState /\ Memory' = Restarted(s)
        BY <3>4, ResumedStep DEF CInv
      <4>2. RememberedIn(s) /\ SpacedIn(s)
        BY DEF Cool
      <4>3. Restarted(s) \in GovernorState
        BY <4>1, RestartedType
      <4>. QED
        BY <2>2, <2>6, <4>1, <4>2, <4>3, RestartedCool
    <3>. QED
      BY <3>2, <3>3, <3>4, MemorySorts DEF CInv
  <2>. QED
    BY <2>5, <2>6
<1>. QED
  BY <1>2, <1>3

\* Cool is an invariant as long as the clock does not wrap.
LEMMA CoolInvariant ==
    ASSUME ClockAssumption PROVE CoordinatorSpec => []Cool
<1>1. CoordinatorInit => Cool
  <2>. SUFFICES ASSUME CoordinatorInit PROVE Cool
    OBVIOUS
  <2>1. Memory = BlankMemory /\ TypeOK
    BY CoordinatorInitially DEF CInv, Phase, CoordinatorInit
  <2>2. Snapshots = {}
    BY DEF CoordinatorInit, FileInit, Snapshots, Absent, Idle
  <2>3. now = StartTime /\ powerFailures = 0 /\ now \in Nat
    BY <2>1 DEF CoordinatorInit, Init, TypeOK
  <2>. QED
    BY <2>1, <2>2, <2>3
       DEF Cool, ClockAssumption, RememberedIn, SpacedIn, BlankMemory
<1>2. CInv /\ CInv' /\ Cool /\ [CoordinatorNext]_coordinatorVars => Cool'
  BY CoolStep
<1>. QED
  BY <1>1, <1>2, CoordinatorInvariant, PTL DEF CoordinatorSpec

-----------------------------------------------------------------------------
(* What the states, in memory and on disk, tell of the actions. *)

\* If state s tells of action m, it tells to whom it was done, and when.
Tells(s, m) ==
    m.attempt \in DOMAIN s.interventions
    /\ s.interventions[m.attempt].fence = m.fence
    => /\ s.interventions[m.attempt].target = m.target
       /\ s.interventions[m.attempt].authorizedAt = m.at

\* So does every state of every action that is on its way or was performed.
Told ==
    \A s \in Snapshots \cup {Memory} :
        /\ \A a \in performed : Tells(s, a)
        /\ \A p \in Procs : \A m \in ActionsTo(p) : Tells(s, m)

\* A run that resumed has the interventions of the state file, and saves nothing.
Loaded ==
    recovered > 0 =>
        /\ mode # "persist" /\ pc # "saving"
        /\ recovered = Len(Content(path).interventions)
        /\ \A i \in 1..recovered :
              /\ interventions[i].target = Content(path).interventions[i].target
              /\ interventions[i].authorizedAt
                    = Content(path).interventions[i].authorizedAt

\* An action is told of by every state, but one whose intervention is new.
LEMMA ToldKept ==
    ASSUME CInv, CInv', Fenced', Told, NEW a,
           a \in performed' \/ (\E p \in Procs : a \in ActionsTo(p)'),
           a.attempt \in Nat, Tells(Memory, a),
           \/ GoesOn \/ AdmitHello \/ AdmitReport \/ Decide \/ Dispatch
           \/ Concludes \/ Waits \/ \E r \in Report : Reported(r)
    PROVE  Tells(Memory', a)
<1>1. /\ Memory.interventions = interventions
      /\ Memory'.interventions = interventions'
  BY DEF Memory
<1>2. /\ interventions \in Seq(InterventionRecord)
      /\ interventions' \in Seq(InterventionRecord)
  BY DEF CInv, TypeOK
<1>3. CASE Decide
  <2>1. PICK cls \in InterventionClass, target \in Workloads :
           interventions' = Append(interventions, NewIntervention(1, cls, target))
    BY <1>3, DecideStep, CInvParts
  <2>2. /\ Len(interventions) = recovered /\ recovered \in Nat
        /\ recovered' = recovered /\ pc' = "dispatch"
    BY <1>3 DEF Decide, CInv, Phase, runVars
  <2>3. a.attempt \in DOMAIN interventions'
           => \/ /\ a.attempt \in DOMAIN interventions
                 /\ interventions'[a.attempt] = interventions[a.attempt]
              \/ a.attempt = recovered' + 1
    BY <1>2, <2>1, <2>2
  <2>4. Unclaimed(a)'
    BY <2>2 DEF Fenced, PerformedClaimed, ActionsClaimed, OfCurrent, Sent, Acting
  <2>5. a.attempt \in DOMAIN interventions'
        /\ interventions'[a.attempt].fence = a.fence
           => a.attempt <= recovered'
    BY <2>4 DEF Unclaimed
  <2>6. ~(recovered' + 1 <= recovered')
    BY <2>2
  <2>. QED
    BY <1>1, <2>3, <2>5, <2>6 DEF Tells
<1>4. CASE ~Decide
  <2>1. /\ Len(interventions') = Len(interventions)
        /\ \A i \in DOMAIN interventions : SameIntervention(i)
    BY <1>4, CoordinatorAccounts DEF SameInterventions
  <2>2. DOMAIN interventions' = DOMAIN interventions
    BY <1>2, <2>1, SameDomain
  <2>. QED
    BY <1>1, <2>1, <2>2 DEF Tells, SameIntervention
<1>. QED
  BY <1>3, <1>4

\* A run resumes with what the state file tells.
LEMMA RestartedTells ==
    ASSUME NEW s \in GovernorState
    PROVE  /\ DOMAIN Restarted(s).interventions = DOMAIN s.interventions
           /\ \A i \in DOMAIN s.interventions :
                 LET r == Restarted(s).interventions[i]
                 IN  /\ r.fence = s.interventions[i].fence
                     /\ r.target = s.interventions[i].target
                     /\ r.authorizedAt = s.interventions[i].authorizedAt
<1>1. PICK t, u : /\ t = s.interventions /\ u = Restarted(s).interventions
                  /\ t \in Seq(InterventionRecord)
                  /\ u \in Seq(InterventionRecord)
  BY RestartedType DEF GovernorState
<1>2. Len(u) = Len(t) /\ \A i \in 1..Len(t) : u[i] = OrphanedIntervention(t[i])
  BY <1>1, RestartedType
<1>3. DOMAIN u = DOMAIN t /\ DOMAIN t = 1..Len(t)
  BY <1>1, <1>2
<1>4. \A r \in InterventionRecord :
         /\ OrphanedIntervention(r).fence = r.fence
         /\ OrphanedIntervention(r).target = r.target
         /\ OrphanedIntervention(r).authorizedAt = r.authorizedAt
  BY DEF OrphanedIntervention, InterventionRecord
<1>5. \A i \in DOMAIN t : t[i] \in InterventionRecord
  BY <1>1
<1>. QED
  BY <1>1, <1>2, <1>3, <1>4, <1>5

\* An action is sent, and one is performed, by a step of its own.
LEMMA ActionSteps ==
    ASSUME Phase, [CoordinatorNext]_coordinatorVars
    PROVE  \/ UNCHANGED <<toWorker, performed>>
           \/ SendAction \/ RequestReport
           \/ \E p \in Procs : WorkerStep(p) \/ WorkerDie(p)
           \/ toWorker' = [p \in Procs |-> << >>] /\ performed' = performed
<1>1. CASE UNCHANGED coordinatorVars
  BY <1>1 DEF coordinatorVars, workVars
<1>2. CASE \E delta \in Advances : TimePasses(delta)
  BY <1>2 DEF TimePasses, workVars
<1>3. CASE (\E m \in Modes : Begin(m)) \/ BeginResumed
  BY <1>3 DEF Begin, BeginResumed, StartRun, workVars
<1>4. CASE \/ NoWorker \/ SendFails \/ ReceiveAck \/ NoAck \/ Dispatch
           \/ Decide \/ AdmitReport \/ AdmitHello \/ ReceiveReport
  BY <1>4
     DEF NoWorker, SendFails, ReceiveAck, NoAck, AnswerWith, Dispatch, Decide,
         AdmitReport, AdmitHello, ReceiveReport, workVars, linkVars
<1>5. CASE Discard \/ Saving \/ Save
  BY <1>5 DEF Discard, Saving, Save, MainUnchanged, workVars, linkVars
<1>6. CASE \E w \in Workloads : WorkerStart(w)
  BY <1>6 DEF WorkerStart
<1>7. CASE Exit \/ Crash \/ PowerFailure
  BY <1>7 DEF Exit, Crash, PowerFailure, Gone
<1>8. Ending => Exit \/ Crash \/ PowerFailure
  BY EndingSorts
<1>. QED
  BY <1>1, <1>2, <1>3, <1>4, <1>5, <1>6, <1>7, <1>8, StepSorts
     DEF Ordinary, AtWork

\* Every action on its way, and every one that was performed, was told of in
\* memory and by every saved state before, or was none.
LEMMA ActionsTold ==
    ASSUME CInv, Sorted, Sorted', Fenced, Told,
           [CoordinatorNext]_coordinatorVars
    PROVE  /\ \A a \in performed' : \A s \in Snapshots \cup {Memory} : Tells(s, a)
           /\ \A p \in Procs : \A m \in ActionsTo(p)' :
                 \A s \in Snapshots \cup {Memory} : Tells(s, m)
<1>. DEFINE Old(m) == \A s \in Snapshots \cup {Memory} : Tells(s, m)
<1>1. CASE UNCHANGED <<toWorker, performed>>
  BY <1>1 DEF Told, ActionsTo
<1>2. CASE toWorker' = [p \in Procs |-> << >>] /\ performed' = performed
  <2>1. \A p \in Procs : ActionsTo(p)' = {}
    BY <1>2 DEF ActionsTo
  <2>. QED
    BY <1>2, <2>1 DEF Told
<1>3. CASE SendAction
  <2>1. /\ pc = "send" /\ Target # NoProc /\ performed' = performed
        /\ toWorker' = IF Running(Target)
                       THEN [toWorker EXCEPT ![Target] = Append(@, Action(Current))]
                       ELSE toWorker
    BY <1>3 DEF SendAction, workVars
  <2>2. PICK p \in Procs, m \in ToWorker :
           p = Target /\ p \in linked /\ m = Action(Current)
    BY <2>1, CurrentType DEF CInv, Acting
  <2>3. CASE ~Running(p)
    BY <2>1, <2>2, <2>3 DEF Told, ActionsTo
  <2>4. CASE Running(p)
    <3>1. /\ m.attempt = Current /\ m.fence = interventions[Current].fence
          /\ m.target = interventions[Current].target
          /\ m.at = interventions[Current].authorizedAt
      BY <2>2 DEF Action
    <3>2. Tells(Memory, m)
      BY <3>1 DEF Tells, Memory
    <3>3. m.fence.workerBoot = boot[p]
      BY <2>1, <2>2, <2>4, <3>1, CurrentType
         DEF CInv, Acting, Fenced, ConnsFenced, Target, InterventionRecord
    <3>4. \A s \in Snapshots : ~Mentions(s, m.fence.workerBoot)
      BY <2>1, <2>2, <2>4, <3>3 DEF Fenced, ConnsFenced, Unsent
    <3>5. Old(m)
      BY <3>2, <3>4 DEF Mentions, Tells
    <3>6. \A q \in Procs : \A f \in ActionsTo(q)' : f \in ActionsTo(q) \/ f = m
      BY <2>1, <2>2, <2>4, ActionsAppended
    <3>. QED
      BY <2>1, <3>5, <3>6 DEF Told
  <2>. QED
    BY <2>3, <2>4
<1>4. CASE RequestReport
  <2>1. /\ Victim # NoProc /\ pc = "answered" /\ performed' = performed
        /\ \/ toWorker' = toWorker
           \/ toWorker' = [toWorker EXCEPT ![Victim] = Append(@, Request)]
    BY <1>4 DEF RequestReport, workVars
  <2>2. PICK p \in Procs, f \in ToWorker : p = Victim /\ f = Request
    BY <2>1, VictimType DEF CInv, Request, ToWorker, Acting
  <2>3. f.type # "ACTION_AUTHORIZE"
    BY <2>2 DEF Request
  <2>4. \A q \in Procs : ActionsTo(q)' \subseteq ActionsTo(q)
    <3>1. CASE toWorker' = toWorker
      BY <3>1 DEF ActionsTo
    <3>2. CASE toWorker' = [toWorker EXCEPT ![p] = Append(@, f)]
      BY <2>3, <3>2, ActionsAppended
    <3>. QED
      BY <2>1, <2>2, <3>1, <3>2
  <2>. QED
    BY <2>1, <2>4 DEF Told
<1>5. ASSUME NEW p \in Procs, WorkerDie(p)
      PROVE  performed' = performed
             /\ \A q \in Procs : ActionsTo(q)' \subseteq ActionsTo(q)
  <2>1. /\ toWorker' = [toWorker EXCEPT ![p] = << >>]
        /\ performed' = performed
    BY <1>5 DEF WorkerDie
  <2>2. CASE toWorker[p] = << >>
    BY <2>1, <2>2 DEF ActionsTo, Sorted
  <2>. QED
    BY <2>1, <2>2, ActionsLost
<1>6. ASSUME NEW p \in Procs, WorkerStep(p)
      PROVE  /\ \A q \in Procs : ActionsTo(q)' \subseteq ActionsTo(q)
             /\ \A a \in performed' : a \in performed \/ Old(a)
  <2>1. /\ toWorker[p] # << >>
        /\ \/ toWorker' = [toWorker EXCEPT ![p] = Tail(@)]
           \/ toWorker' = [toWorker EXCEPT ![p] = << >>]
    BY <1>6, ServesStep DEF CInv, WorkerStep, Works
  <2>2. \A q \in Procs : ActionsTo(q)' \subseteq ActionsTo(q)
    BY <2>1, ActionsLost
  <2>3. CASE WorkerMeasure(p)
    BY <2>2, <2>3 DEF WorkerMeasure
  <2>4. CASE WorkerAct(p)
    <3>. DEFINE m == Head(toWorker[p])
    <3>1. m.type = "ACTION_AUTHORIZE"
      BY <2>4 DEF WorkerAct, Delivered
    <3>2. toWorker[p] \in Seq(ToWorker) /\ m = toWorker[p][1] /\ 1 \in DOMAIN toWorker[p]
      BY <2>1 DEF Sorted
    <3>3. m \in ActionsTo(p)
      BY <3>1, <3>2 DEF ActionsTo
    <3>4. Old(m)
      BY <3>3 DEF Told
    <3>5. PICK a : /\ a = [boot |-> boot[p], attempt |-> m.attempt,
                           target |-> m.target, fence |-> m.fence, at |-> m.at]
                   /\ performed' = performed \cup {a}
      BY <2>4 DEF WorkerAct
    <3>6. Old(a)
      BY <3>4, <3>5 DEF Tells
    <3>. QED
      BY <2>2, <3>5, <3>6
  <2>. QED
    BY <1>6, <2>3, <2>4 DEF WorkerStep
<1>. QED
  BY <1>1, <1>2, <1>3, <1>4, <1>5, <1>6, ActionSteps DEF CInv, Told

\* No step breaks it.
LEMMA ToldStep ==
    ASSUME CInv, CInv', Sorted, Sorted', Fenced, Fenced', Told,
           [CoordinatorNext]_coordinatorVars
    PROVE  Told'
<1>1. ASSUME NEW a,
             a \in performed' \/ (\E p \in Procs : a \in ActionsTo(p)'),
             NEW s \in Snapshots' \cup {Memory'}
      PROVE  Tells(s, a)
  <2>1. \A m \in Snapshots \cup {Memory} : Tells(m, a)
    BY <1>1, ActionsTold
  <2>2. a.attempt \in Nat
    BY <1>1 DEF Sorted, Fenced, PerformedClaimed, Performance
  <2>3. CASE s \in Snapshots'
    BY <2>1, <2>3, StepSaves DEF SavesAfter
  <2>4. CASE s = Memory'
    <3>1. CASE Blanks
      <4>1. Memory' = BlankMemory
        BY <3>1, BlankType, InstallStep DEF Blanks
      <4>. QED
        BY <2>4, <4>1 DEF BlankMemory, Tells
    <3>2. CASE BeginResumed
      <4>1. PICK m \in Snapshots : m \in GovernorState /\ Memory' = Restarted(m)
        BY <3>2, ResumedStep DEF CInv
      <4>2. Tells(m, a)
        BY <2>1
      <4>. QED
        BY <2>4, <4>1, <4>2, RestartedTells DEF Tells
    <3>3. CASE \/ GoesOn \/ AdmitHello \/ AdmitReport \/ Decide \/ Dispatch
               \/ Concludes \/ Waits \/ \E r \in Report : Reported(r)
      BY <1>1, <2>1, <2>2, <2>4, <3>3, ToldKept
    <3>. QED
      BY <3>1, <3>2, <3>3, MemorySorts DEF CInv
  <2>. QED
    BY <2>3, <2>4
<1>. QED
  BY <1>1 DEF Told

\* A persistent run begins, goes on, or ends.
LEMMA ModeSteps ==
    ASSUME CInv, [CoordinatorNext]_coordinatorVars,
           mode' = "persist", pc' # "down"
    PROVE  \/ /\ pc = "down" /\ pc' = "accept"
              /\ UNCHANGED <<evidence, conflicts, policy, interventions,
                             recovered, admitted>>
           \/ /\ pc # "down" /\ mode = "persist" /\ recovered' = recovered
              /\ pc' \in {"report", "done"} => pc \in {"report", "done"}
<1>1. CASE UNCHANGED coordinatorVars
  BY <1>1 DEF coordinatorVars, mainVars, runVars
<1>2. CASE \E delta \in Advances : TimePasses(delta)
  BY <1>2 DEF TimePasses, mainVars
<1>3. CASE \E m \in Modes : Begin(m)
  BY <1>3 DEF Begin, StartRun, memoryVars
<1>4. CASE BeginResumed
  BY <1>4 DEF BeginResumed, StartRun
<1>5. CASE \/ NoWorker \/ SendFails \/ ReceiveAck \/ NoAck \/ Dispatch
           \/ Decide \/ AdmitReport \/ AdmitHello
  BY <1>5
     DEF NoWorker, SendFails, ReceiveAck, NoAck, AnswerWith, Dispatch, Decide,
         AdmitReport, AdmitHello, runVars
<1>6. CASE \/ Discard \/ Saving \/ RequestReport \/ SendAction \/ Save
           \/ ReceiveReport
  BY <1>6
     DEF Discard, Saving, RequestReport, SendAction, Save, ReceiveReport,
         MainUnchanged, mainVars, runVars
<1>7. CASE AtWork
  <2>1. UNCHANGED <<mainVars, runVars>>
    BY <1>7
       DEF AtWork, WorkerStep, WorkerAct, WorkerMeasure, Serves, WorkerDie,
           WorkerStart
  <2>. QED
    BY <2>1 DEF mainVars, runVars
<1>8. CASE Ending
  <2>1. Exit \/ Crash \/ PowerFailure
    BY <1>8, EndingSorts DEF CInv
  <2>. QED
    BY <2>1 DEF Exit, Crash, PowerFailure, Gone
<1>. QED
  BY <1>1, <1>2, <1>3, <1>4, <1>5, <1>6, <1>7, <1>8, StepSorts DEF Ordinary

\* The state file is written by a save.
LEMMA FileWriters ==
    ASSUME Phase, [CoordinatorNext]_coordinatorVars
    PROVE  \/ pc' = "down" \/ pc = "saving" \/ mode = "persist"
           \/ path' = path /\ pc' # "saving"
<1>1. CASE \/ AdmitHello \/ AdmitReport \/ Decide \/ Dispatch
           \/ NoWorker \/ SendFails \/ SendAction \/ ReceiveAck \/ NoAck
           \/ RequestReport \/ ReceiveReport
  BY <1>1
     DEF AdmitHello, AdmitReport, Decide, Dispatch, NoWorker, SendFails,
         SendAction, ReceiveAck, NoAck, AnswerWith, RequestReport,
         ReceiveReport, fileVars
<1>2. CASE UNCHANGED coordinatorVars
  BY <1>2 DEF coordinatorVars, fileVars, mainVars
<1>3. CASE Discard \/ \E delta \in Advances : TimePasses(delta)
  BY <1>3 DEF Discard, TimePasses, fileVars, mainVars
<1>4. CASE Save \/ Saving
  BY <1>4 DEF Save, Saving
<1>5. CASE (\E m \in Modes : Begin(m)) \/ BeginResumed
  BY <1>5 DEF Begin, BeginResumed, StartRun, fileVars
<1>6. CASE AtWork
  BY <1>6
     DEF AtWork, WorkerStep, WorkerAct, WorkerMeasure, Serves, WorkerDie,
         WorkerStart, fileVars, mainVars
<1>7. CASE Ending
  <2>1. Exit \/ Crash \/ PowerFailure
    BY <1>7, EndingSorts
  <2>. QED
    BY <2>1 DEF Exit, Crash, PowerFailure, Gone
<1>. QED
  BY <1>1, <1>2, <1>3, <1>4, <1>5, <1>6, <1>7, StepSorts DEF Ordinary

\* No step makes a resumed run differ from the state file.
LEMMA LoadedStep ==
    ASSUME CInv, CInv', Loaded, [CoordinatorNext]_coordinatorVars
    PROVE  Loaded'
<1>. SUFFICES ASSUME recovered' > 0 PROVE Loaded'
  BY DEF Loaded
<1>1. pc' # "down" /\ ~Blanks
  BY DEF CInv, Phase, Blanks
<1>2. CASE BeginResumed
  <2>1. PICK s : /\ s = path.snapshot /\ s \in GovernorState
                 /\ Memory' = Restarted(s)
                 /\ recovered' = Len(s.interventions)
    BY <1>2, ResumedStep DEF CInv
  <2>2. /\ mode' = "resume" /\ pc' = "accept"
        /\ path' = path
    BY <1>2 DEF BeginResumed, StartRun, fileVars
  <2>3. Content(path') = s /\ interventions' = Restarted(s).interventions
    BY <2>1, <2>2 DEF Content, Memory
  <2>4. DOMAIN s.interventions = 1..Len(s.interventions)
    BY <2>1 DEF GovernorState
  <2>. QED
    BY <2>1, <2>2, <2>3, <2>4, RestartedTells DEF Loaded
<1>3. CASE \/ GoesOn \/ AdmitHello \/ AdmitReport \/ Decide \/ Dispatch
           \/ Concludes \/ Waits \/ \E r \in Report : Reported(r)
  <2>1. recovered' = recovered
    BY <1>3 DEF GoesOn, AdmitHello, Decide, AdmitReport, Dispatch, Concludes,
                Waits, Reported, runVars
  <2>2. pc # "saving" /\ mode # "persist" /\ pc # "down"
    BY <2>1 DEF Loaded, CInv, Phase
  <2>3. mode' # "persist"
    BY <1>1, <2>2, ModeSteps
  <2>4. path' = path /\ pc' # "saving"
    BY <1>1, <2>2, FileWriters DEF CInv
  <2>5. \A i \in 1..recovered : /\ interventions'[i].target = interventions[i].target
                                /\ interventions'[i].authorizedAt
                                      = interventions[i].authorizedAt
    <3>1. \A i \in 1..recovered : i \in DOMAIN interventions
      BY Sorts DEF Sorted
    <3>2. CASE Decide
      BY <3>2, DecideStep, CInvParts
    <3>3. CASE ~Decide
      BY <1>3, <3>1, <3>3, CoordinatorAccounts
         DEF SameInterventions, SameIntervention
    <3>. QED
      BY <3>2, <3>3
  <2>. QED
    BY <2>1, <2>3, <2>4, <2>5 DEF Loaded
<1>. QED
  BY <1>1, <1>2, <1>3, MemorySorts DEF CInv

\* Both hold always.
LEMMA ToldInvariant == CoordinatorSpec => [](Told /\ Loaded)
<1>1. CoordinatorInit => Told /\ Loaded
  <2>. SUFFICES ASSUME CoordinatorInit PROVE Told /\ Loaded
    OBVIOUS
  <2>1. /\ recovered = 0 /\ performed = {}
        /\ toWorker = [p \in Procs |-> << >>]
    BY DEF CoordinatorInit
  <2>2. \A p \in Procs : ActionsTo(p) = {}
    BY <2>1 DEF ActionsTo
  <2>. QED
    BY <2>1, <2>2 DEF Told, Loaded
<1>2. CInv /\ CInv' => Sorted /\ Sorted'
  <2>1. CInv => Sorted
    BY Sorts
  <2>. QED
    BY <2>1, PTL
<1>3. CInv /\ CInv' /\ Fenced /\ Fenced' /\ (Told /\ Loaded)
      /\ [CoordinatorNext]_coordinatorVars => (Told /\ Loaded)'
  BY <1>2, ToldStep, LoadedStep
<1>. QED
  BY <1>1, <1>3, CoordinatorInvariant, FencedInvariant, PTL DEF CoordinatorSpec

\* As long as the clock does not wrap and the power stays on, a run that resumes
\* keeps the cooldown from whatever a worker performed that the state file tells
\* of, however many runs and crashes lie between.
THEOREM CooldownKeptFromRecord ==
    ASSUME ClockAssumption
    PROVE  CoordinatorSpec => []CooldownFromRecord
<1>1. CInv /\ Sorted /\ Cool /\ Told /\ Loaded => CooldownFromRecord
  <2>. SUFFICES ASSUME CInv, Sorted, Cool, Told, Loaded,
                       powerFailures = 0, recovered > 0,
                       NEW i \in (recovered + 1)..Len(interventions),
                       NEW a \in performed,
                       OnRecord(a), a.target = interventions[i].target, a.at # 0,
                       interventions[i].cls \in Disruptive
                PROVE  interventions[i].authorizedAt - a.at >= policy.cooldownMs
    BY DEF CooldownFromRecord
  <2>. DEFINE j == a.attempt
              s == Content(path)
  <2>1. s \in Snapshots /\ s \in GovernorState
    BY DEF OnRecord, CInv, Files, FileTypeOK, Snapshots, Content
  <2>2. j \in DOMAIN s.interventions
        /\ s.interventions[j].target = a.target
        /\ s.interventions[j].authorizedAt = a.at
    BY <2>1 DEF OnRecord, Told, Tells
  <2>3. j \in 1..recovered
    BY <2>1, <2>2 DEF Loaded, GovernorState
  <2>4. interventions[j].target = a.target /\ interventions[j].authorizedAt = a.at
    BY <2>2, <2>3 DEF Loaded
  <2>5. /\ j \in DOMAIN interventions /\ i \in DOMAIN interventions /\ j < i
    BY <2>3 DEF Sorted
  <2>6. CooldownSpacing
    BY CoolMemory DEF Cool
  <2>. QED
    BY <2>4, <2>5, <2>6 DEF CooldownSpacing
<1>2. CInv => Sorted
  BY Sorts
<1>. QED
  BY <1>1, <1>2, CoordinatorInvariant, ToldInvariant, CoolInvariant, PTL

-----------------------------------------------------------------------------
(* What is saved can be loaded. *)

\* A set of one element.
Single(S) == \E x : S = {x}

\* A conflict of a run with n reports and i interventions: every report names
\* one neighbor, and is listed once.
SmallConflict(c, n, i) ==
    /\ Single(c.associated)
    /\ Len(c.evidenceIds) <= n
    /\ Len(c.selectedIds) <= i

\* The evidence e, the conflicts c and the policy p of such a run.
Small(e, c, p, n, i) ==
    /\ IsFiniteSet(DOMAIN e) /\ Cardinality(DOMAIN e) <= n
    /\ \A id \in DOMAIN e : Single(e[id].neighbors)
    /\ Len(c) <= n
    /\ \A k \in DOMAIN c : SmallConflict(c[k], n, i)
    /\ ValidPolicy(p)

\* The run the coordinator is in.
SmallNow == Small(evidence, conflicts, policy, admitted, Len(interventions))

\* Only --mode persist saves.  It begins with an empty governor, admits two
\* workers and never gets to the measurement after the action.
SmallRun ==
    /\ mode = "persist" /\ pc # "down"
          => pc \notin {"report", "done"} /\ recovered = 0 /\ SmallNow
    /\ \A s \in Snapshots : /\ Small(s.evidence, s.conflicts, s.policy, 2, 1)
                            /\ Len(s.interventions) = 1

-----------------------------------------------------------------------------
\* A governor as constructed has nothing, and a policy that is valid.
LEMMA BlankSmall ==
    ASSUME Memory = BlankMemory, admitted = 0 PROVE SmallNow
<1>1. /\ evidence = << >> /\ conflicts = << >> /\ policy = DefaultPolicy
      /\ interventions = << >>
  BY DEF Memory, BlankMemory
<1>2. ValidPolicy(DefaultPolicy)
  BY PoliciesAssumption, CoordinatorAssumption
<1>3. /\ DOMAIN evidence = {} /\ DOMAIN conflicts = {}
      /\ Len(conflicts) = 0
  BY <1>1
<1>4. IsFiniteSet({}) /\ Cardinality({}) = 0
  BY FS_EmptySet
<1>. QED
  BY <1>1, <1>2, <1>3, <1>4 DEF SmallNow, Small

\* What a worker reports at once names one neighbor.
LEMMA ReportSmall ==
    ASSUME TypeOK, Links, AdmitReport, NEW r, r = Received(Peer).report
    PROVE  /\ r \in Report /\ Admitted(r) \in Report
           /\ Single(r.neighbors)
           /\ Admitted(r).neighbors = r.neighbors
<1>1. r = Evidence(WorkerOf[Peer]).report /\ r \in Report
  BY ReportFrame
<1>2. r.neighbors = {setup[WorkerOf[Peer]].neighbor}
  BY <1>1 DEF Evidence, Measured
<1>3. nextEvidenceId \in Nat \ {0}
  BY DEF TypeOK
<1>. QED
  BY <1>1, <1>2, <1>3, AdmittedType DEF Single

\* The evidence with one more report.
LEMMA EvidenceSmall ==
    ASSUME NEW e, NEW r, NEW n \in Nat, NEW id,
           IsFiniteSet(DOMAIN e), Cardinality(DOMAIN e) <= n,
           \A i \in DOMAIN e : Single(e[i].neighbors),
           Single(r.neighbors),
           NEW f, f = [i \in DOMAIN e \cup {id} |-> IF i = id THEN r ELSE e[i]]
    PROVE  /\ IsFiniteSet(DOMAIN f) /\ Cardinality(DOMAIN f) <= n + 1
           /\ \A i \in DOMAIN f : Single(f[i].neighbors)
<1>1. /\ IsFiniteSet(DOMAIN e \cup {id})
      /\ Cardinality(DOMAIN e \cup {id})
            \in {Cardinality(DOMAIN e), Cardinality(DOMAIN e) + 1}
  BY FS_AddElement
<1>2. Cardinality(DOMAIN e) \in Nat
  BY FS_CardinalityType
<1>3. DOMAIN f = DOMAIN e \cup {id}
  OBVIOUS
<1>4. Cardinality(DOMAIN f) <= n + 1
  BY <1>1, <1>2, <1>3
<1>5. ASSUME NEW i \in DOMAIN f PROVE Single(f[i].neighbors)
  BY <1>3, <1>5
<1>. QED
  BY <1>1, <1>3, <1>4, <1>5

\* Limits that grow hold what they held.
LEMMA ConflictGrows ==
    ASSUME NEW c \in ContentionConflict, NEW n \in Nat, NEW i \in Nat,
           SmallConflict(c, n, i)
    PROVE  SmallConflict(c, n + 1, i) /\ SmallConflict(c, n, i + 1)
<1>1. Len(c.evidenceIds) \in Nat /\ Len(c.selectedIds) \in Nat
  BY DEF ContentionConflict
<1>. QED
  <2>1. Len(c.evidenceIds) <= n + 1 /\ Len(c.selectedIds) <= i + 1
    BY <1>1 DEF SmallConflict
  <2>. QED
    BY <2>1 DEF SmallConflict

\* One more report: at most one more conflict, or one more in the list of one.
LEMMA AdmitSmall ==
    ASSUME CInv, AdmitReport, SmallNow PROVE SmallNow'
<1>. DEFINE n == admitted
            i == Len(interventions)
<1>1. /\ TypeOK /\ Links /\ n \in Nat /\ i \in Nat
      /\ conflicts \in Seq(ContentionConflict)
  BY DEF CInv, Links, NetworkTypes, TypeOK
<1>2. PICK r : r = Received(Peer).report
  OBVIOUS
<1>3. PICK e : e = Admitted(r)
  OBVIOUS
<1>4. /\ r \in Report /\ e \in Report /\ e.neighbors = r.neighbors
      /\ Single(e.neighbors)
  BY <1>1, <1>2, <1>3, ReportSmall
<1>5. /\ IngestNew(r) \/ IngestKnown(r)
      /\ StoreEvidence(r)
      /\ admitted' = n + 1 /\ policy' = policy /\ interventions' = interventions
  BY <1>2 DEF AdmitReport, IngestNew, IngestKnown
<1>6. /\ IsFiniteSet(DOMAIN evidence') /\ Cardinality(DOMAIN evidence') <= n + 1
      /\ \A id \in DOMAIN evidence' : Single(evidence'[id].neighbors)
  <2>1. evidence' = [id \in DOMAIN evidence \cup {e.id} |->
                        IF id = e.id THEN e ELSE evidence[id]]
    BY <1>3, <1>5 DEF StoreEvidence
  <2>. QED
    <3>1. /\ IsFiniteSet(DOMAIN evidence) /\ Cardinality(DOMAIN evidence) <= n
          /\ \A id \in DOMAIN evidence : Single(evidence[id].neighbors)
      BY DEF SmallNow, Small
    <3>2. PICK old : old = evidence
      OBVIOUS
    <3>3. PICK new : new = evidence'
      OBVIOUS
    <3>4. PICK id : id = e.id
      OBVIOUS
    <3>5. new = [j \in DOMAIN old \cup {id} |-> IF j = id THEN e ELSE old[j]]
      BY <2>1, <3>2, <3>3, <3>4
    <3>6. /\ IsFiniteSet(DOMAIN old) /\ Cardinality(DOMAIN old) <= n
          /\ \A j \in DOMAIN old : Single(old[j].neighbors)
      BY <3>1, <3>2
    <3>7. /\ IsFiniteSet(DOMAIN new) /\ Cardinality(DOMAIN new) <= n + 1
          /\ \A j \in DOMAIN new : Single(new[j].neighbors)
      <4>1. Single(e.neighbors) /\ n \in Nat
        BY <1>1, <1>4
      <4>2. PICK m : m = n
        OBVIOUS
      <4>3. IsFiniteSet(DOMAIN new) /\ Cardinality(DOMAIN new) <= m + 1
            /\ \A j \in DOMAIN new : Single(new[j].neighbors)
        <5>1. /\ m \in Nat /\ IsFiniteSet(DOMAIN old)
              /\ Cardinality(DOMAIN old) <= m
              /\ \A j \in DOMAIN old : Single(old[j].neighbors)
              /\ Single(e.neighbors)
          BY <3>6, <4>1, <4>2
        <5>. HIDE DEF n
        <5>. QED
          BY ONLY <3>5, <5>1, EvidenceSmall
      <4>. QED
        BY <4>2, <4>3
    <3>. QED
      BY <3>3, <3>7
<1>7. \A k \in DOMAIN conflicts :
         /\ conflicts[k] \in ContentionConflict
         /\ SmallConflict(conflicts[k], n, i)
         /\ SmallConflict(conflicts[k], n + 1, i)
  BY <1>1, ConflictGrows DEF SmallNow, Small
<1>8. Len(conflicts) <= n /\ Len(conflicts) \in Nat
  BY <1>1 DEF SmallNow, Small
<1>9. /\ Len(conflicts') <= n + 1
      /\ \A k \in DOMAIN conflicts' : SmallConflict(conflicts'[k], n + 1, i)
  <2>1. CASE IngestNew(r)
    <3>1. PICK b : b = NewConflict(e)
      OBVIOUS
    <3>2. PICK c : c = Progressed(b, e)
      OBVIOUS
    <3>3. /\ b \in ContentionConflict /\ c \in ContentionConflict
          /\ c.evidenceIds = <<e.id>>
      BY <1>4, <3>1, <3>2, NewConflictType, ProgressedType
    <3>4. c.associated = e.neighbors /\ c.selectedIds = << >>
      BY <3>1, <3>2 DEF NewConflict, Progressed
    <3>5. SmallConflict(c, n + 1, i)
      <4>1. Len(c.evidenceIds) = 1 /\ Len(c.selectedIds) = 0
        BY <3>3, <3>4
      <4>2. Len(c.evidenceIds) <= n + 1 /\ Len(c.selectedIds) <= i
        BY <1>1, <4>1
      <4>. QED
        BY <1>4, <3>4, <4>2 DEF SmallConflict
    <3>6. conflicts' = Append(conflicts, c)
      BY <1>3, <2>1, <3>1, <3>2 DEF IngestNew
    <3>7. /\ Len(conflicts') = Len(conflicts) + 1
          /\ \A k \in DOMAIN conflicts' :
                \/ k \in DOMAIN conflicts /\ conflicts'[k] = conflicts[k]
                \/ conflicts'[k] = c
      BY <1>1, <3>6
    <3>. QED
      BY <1>1, <1>7, <1>8, <3>5, <3>7
  <2>2. CASE IngestKnown(r)
    <3>1. PICK k \in Matching(r) :
             conflicts' = [conflicts EXCEPT
                ![k] = Progressed(WithEvidence(conflicts[k], e), e)]
      BY <1>3, <2>2 DEF IngestKnown
    <3>2. k \in DOMAIN conflicts
      BY DEF Matching
    <3>3. PICK d : d = conflicts[k]
      OBVIOUS
    <3>4. PICK b : b = WithEvidence(d, e)
      OBVIOUS
    <3>5. PICK c : c = Progressed(b, e)
      OBVIOUS
    <3>6. /\ d \in ContentionConflict /\ b \in ContentionConflict
          /\ c \in ContentionConflict
          /\ c.evidenceIds = Append(d.evidenceIds, e.id)
      <4>1. d \in ContentionConflict
        BY <1>7, <3>2, <3>3
      <4>2. /\ b \in ContentionConflict
            /\ b.evidenceIds = Append(d.evidenceIds, e.id)
        BY <1>4, <3>4, <4>1, WithEvidenceType
      <4>3. c \in ContentionConflict /\ c.evidenceIds = b.evidenceIds
        BY <3>5, <4>2, ProgressedType
      <4>. QED
        BY <4>1, <4>2, <4>3
    <3>7. c.associated = e.neighbors /\ c.selectedIds = d.selectedIds
      BY <3>4, <3>5, <3>6 DEF WithEvidence, Progressed, ContentionConflict
    <3>8. SmallConflict(c, n + 1, i)
      <4>1. d.evidenceIds \in Seq(Nat) /\ e.id \in Nat
        BY <1>4, <3>6 DEF ContentionConflict, Report
      <4>2. Len(d.evidenceIds) <= n /\ Len(d.selectedIds) <= i
        BY <1>7, <3>2, <3>3 DEF SmallConflict
      <4>3. Len(c.evidenceIds) = Len(d.evidenceIds) + 1
        BY <3>6, <4>1
      <4>4. Len(c.evidenceIds) <= n + 1
        BY <1>1, <4>1, <4>2, <4>3
      <4>. QED
        BY <1>4, <3>7, <4>2, <4>4 DEF SmallConflict
    <3>9. conflicts' = [conflicts EXCEPT ![k] = c]
      BY <3>1, <3>3, <3>4, <3>5
    <3>10. /\ Len(conflicts') = Len(conflicts)
           /\ \A j \in DOMAIN conflicts' :
                 \/ j \in DOMAIN conflicts /\ conflicts'[j] = conflicts[j]
                 \/ conflicts'[j] = c
      BY <1>1, <3>2, <3>9
    <3>. QED
      BY <1>1, <1>7, <1>8, <3>8, <3>10
  <2>. QED
    BY <1>5, <2>1, <2>2
<1>. QED
  BY <1>5, <1>6, <1>9 DEF SmallNow, Small

\* An authorization is one more intervention, in the list of one conflict; the
\* limits of the budget are not spent.
LEMMA DecideSmall ==
    ASSUME CInv, Decide, SmallNow PROVE SmallNow'
<1>. DEFINE n == admitted
            i == Len(interventions)
<1>1. /\ Recorded /\ Links /\ n \in Nat /\ i \in Nat
      /\ conflicts \in Seq(ContentionConflict)
      /\ policy \in ContentionPolicy
  BY CInvParts DEF CInv, Links, NetworkTypes, TypeOK
<1>2. /\ admitted' = admitted /\ Len(interventions') = i + 1
      /\ 1 \in DOMAIN conflicts /\ Authorize(1, "THROTTLE")
  BY <1>1, DecideStep
<1>3. /\ evidence' = evidence
      /\ conflicts' = [conflicts EXCEPT ![1] = Selected(conflicts[1], i + 1)]
      /\ \E cls : policy' = [policy EXCEPT !.budget =
                                ConsumeBudget(policy.budget, cls, now)]
  BY <1>2 DEF Authorize
<1>4. ValidPolicy(policy')
  <2>1. PICK cls : policy' = [policy EXCEPT !.budget =
                                ConsumeBudget(policy.budget, cls, now)]
    BY <1>3
  <2>2. PICK b : b = policy.budget
    OBVIOUS
  <2>3. PICK d : d = ConsumeBudget(b, cls, now)
    OBVIOUS
  <2>4. b \in ActionBudget
    BY <1>1, <2>2 DEF ContentionPolicy
  <2>5. d.max = b.max
    BY <2>3, <2>4 DEF ConsumeBudget, RolledWindow, ActionBudget
  <2>6. policy' = [policy EXCEPT !.budget = d]
    BY <2>1, <2>2, <2>3
  <2>7. /\ policy'.budget = d
        /\ policy'.actionability = policy.actionability
        /\ policy'.release = policy.release
        /\ policy'.hysteresis = policy.hysteresis
        /\ policy'.minConfidence = policy.minConfidence
        /\ policy'.maxConsecutive = policy.maxConsecutive
        /\ policy'.workloads = policy.workloads
    BY <1>1, <2>6 DEF ContentionPolicy
  <2>. QED
    BY <2>2, <2>5, <2>7 DEF SmallNow, Small, ValidPolicy
<1>5. PICK d : d = conflicts[1]
  OBVIOUS
<1>6. PICK c : c = Selected(d, i + 1)
  OBVIOUS
<1>7. /\ d \in ContentionConflict /\ c \in ContentionConflict
      /\ c.associated = d.associated /\ c.evidenceIds = d.evidenceIds
      /\ c.selectedIds = Append(d.selectedIds, i + 1)
  <2>1. d \in ContentionConflict /\ i + 1 \in Nat
    BY <1>1, <1>2, <1>5
  <2>. QED
    BY <1>6, <2>1, SelectedVictim
<1>8. /\ SmallConflict(d, n, i)
      /\ \A k \in DOMAIN conflicts : SmallConflict(conflicts[k], n, i + 1)
  BY <1>1, <1>2, <1>5, ConflictGrows DEF SmallNow, Small
<1>9. SmallConflict(c, n, i + 1)
  <2>1. d.selectedIds \in Seq(Nat)
    BY <1>7 DEF ContentionConflict
  <2>2. Len(c.selectedIds) = Len(d.selectedIds) + 1 /\ Len(d.selectedIds) \in Nat
    BY <1>1, <1>7, <2>1
  <2>3. /\ Single(d.associated)
        /\ Len(d.evidenceIds) <= n /\ Len(d.selectedIds) <= i
    BY <1>8 DEF SmallConflict
  <2>4. Len(c.selectedIds) <= i + 1
    BY <1>1, <2>2, <2>3
  <2>. QED
    BY <1>7, <2>3, <2>4 DEF SmallConflict
<1>10. conflicts' = [conflicts EXCEPT ![1] = c]
  BY <1>3, <1>5, <1>6
<1>11. /\ Len(conflicts') = Len(conflicts)
       /\ \A k \in DOMAIN conflicts' : SmallConflict(conflicts'[k], n, i + 1)
  BY <1>1, <1>2, <1>8, <1>9, <1>10
<1>. QED
  BY <1>2, <1>3, <1>4, <1>11 DEF SmallNow, Small

\* Nothing else that a persistent run does reaches the evidence, the conflicts
\* or the policy.
LEMMA RunSmall ==
    ASSUME CInv, [CoordinatorNext]_coordinatorVars, SmallNow,
           pc # "down", pc # "report", pc' # "down"
    PROVE  SmallNow'
<1>1. CASE GoesOn
  BY <1>1 DEF GoesOn, vars, SmallNow
<1>2. CASE AdmitHello
  BY <1>2 DEF AdmitHello, SmallNow
<1>3. CASE Dispatch \/ Concludes
  <2>1. Len(interventions') = Len(interventions)
    BY <1>3, CInvParts, DispatchingKeeps
  <2>2. UNCHANGED <<evidence, conflicts, policy, admitted>>
    BY <1>3 DEF Dispatch, Concludes, DispatchBegin, DispatchEnd
  <2>. QED
    BY <2>1, <2>2 DEF SmallNow
<1>4. ~(Blanks \/ BeginResumed \/ Waits \/ \E r \in Report : Reported(r))
  BY DEF Blanks, BeginResumed, StartRun, Waits, Reported
<1>. QED
  BY <1>1, <1>2, <1>3, <1>4, MemorySorts, AdmitSmall, DecideSmall DEF CInv

\* No step breaks the invariant: a persistent run saves when it has admitted
\* two workers and authorized one intervention.
LEMMA SmallStep ==
    ASSUME CInv, SmallRun, [CoordinatorNext]_coordinatorVars PROVE SmallRun'
<1>1. ASSUME mode' = "persist", pc' # "down"
      PROVE  pc' \notin {"report", "done"} /\ recovered' = 0 /\ SmallNow'
  <2>1. CASE /\ pc = "down" /\ pc' = "accept"
             /\ UNCHANGED <<evidence, conflicts, policy, interventions,
                            recovered, admitted>>
    <3>1. Memory = BlankMemory /\ recovered = 0 /\ admitted = 0
      BY <2>1 DEF CInv, Phase, Links, TwoAdmitted
    <3>2. SmallNow
      BY <3>1, BlankSmall
    <3>. QED
      BY <2>1, <3>1, <3>2 DEF SmallNow
  <2>2. CASE /\ pc # "down" /\ mode = "persist" /\ recovered' = recovered
             /\ pc' \in {"report", "done"} => pc \in {"report", "done"}
    BY <1>1, <2>2, RunSmall DEF SmallRun
  <2>. QED
    BY <1>1, <2>1, <2>2, ModeSteps
<1>2. ASSUME NEW s \in Snapshots'
      PROVE  /\ Small(s.evidence, s.conflicts, s.policy, 2, 1)
             /\ Len(s.interventions) = 1
  <2>1. CASE s \in Snapshots
    BY <2>1 DEF SmallRun
  <2>2. CASE Save /\ s = Memory
    <3>1. pc = "answered" /\ mode = "persist"
      BY <2>2 DEF Save
    <3>2. admitted = 2 /\ Len(interventions) = 1 /\ SmallNow
      BY <3>1 DEF CInv, Links, TwoAdmitted, Phase, Acting, SmallRun
    <3>3. /\ s.evidence = evidence /\ s.conflicts = conflicts
          /\ s.policy = policy /\ s.interventions = interventions
      BY <2>2 DEF Memory
    <3>. QED
      BY <3>2, <3>3 DEF SmallNow
  <2>. QED
    BY <1>2, <2>1, <2>2, FilesStep DEF CInv
<1>. QED
  BY <1>1, <1>2 DEF SmallRun

\* Whatever was run before, and whatever crashed: a state file that is whole
\* can be loaded, as long as the decoder takes lists of two.
THEOREM SavedAlwaysLoads ==
    ASSUME MaxCollectionLen \in Nat, MaxCollectionLen >= 2
    PROVE  CoordinatorSpec => []SavedLoads
<1>1. CoordinatorInit => SmallRun
  <2>1. CoordinatorInit => Snapshots = {}
    BY DEF CoordinatorInit, FileInit, Snapshots, Absent, Idle
  <2>. QED
    BY <2>1 DEF CoordinatorInit, SmallRun
<1>2. CInv /\ SmallRun /\ [CoordinatorNext]_coordinatorVars => SmallRun'
  BY SmallStep
<1>3. CInv /\ SmallRun => SavedLoads
  <2>. SUFFICES ASSUME CInv, SmallRun, path.state = "complete" PROVE Loadable
    BY DEF SavedLoads
  <2>1. PICK s : s = path.snapshot
    OBVIOUS
  <2>2. s # NoSnapshot /\ s \in Snapshots /\ s \in GovernorState
    BY <2>1 DEF CInv, Files, FileTypeOK, Snapshots
  <2>3. /\ Small(s.evidence, s.conflicts, s.policy, 2, 1)
        /\ Len(s.interventions) = 1
    BY <2>2 DEF SmallRun
  <2>4. \A x : Cardinality({x}) = 1
    BY FS_Singleton
  <2>5. ASSUME NEW id \in DOMAIN s.evidence
        PROVE  DecodableEvidence(s.evidence[id])
    <3>1. PICK x : s.evidence[id].neighbors = {x}
      BY <2>3 DEF Small, Single
    <3>2. Cardinality(s.evidence[id].neighbors) = 1
      BY <2>4, <3>1
    <3>. QED
      BY <3>2 DEF DecodableEvidence, Bounded
  <2>6. ASSUME NEW k \in DOMAIN s.conflicts
        PROVE  DecodableConflict(s.conflicts[k])
    <3>1. s.conflicts[k] \in ContentionConflict
      BY <2>2 DEF GovernorState
    <3>2. /\ Len(s.conflicts[k].evidenceIds) \in Nat
          /\ Len(s.conflicts[k].selectedIds) \in Nat
      BY <3>1 DEF ContentionConflict
    <3>3. SmallConflict(s.conflicts[k], 2, 1)
      BY <2>3 DEF Small
    <3>4. PICK x : s.conflicts[k].associated = {x}
      BY <3>3 DEF SmallConflict, Single
    <3>5. Cardinality(s.conflicts[k].associated) = 1
      BY <2>4, <3>4
    <3>6. Len(s.conflicts[k].evidenceIds) <= 2 /\ Len(s.conflicts[k].selectedIds) <= 1
      BY <3>3 DEF SmallConflict
    <3>. QED
      BY <3>2, <3>5, <3>6 DEF DecodableConflict, Bounded
  <2>7. /\ Bounded(Cardinality(DOMAIN s.evidence)) /\ Bounded(Len(s.conflicts))
        /\ Bounded(Len(s.interventions)) /\ ValidPolicy(s.policy)
    <3>1. Cardinality(DOMAIN s.evidence) \in Nat /\ Len(s.conflicts) \in Nat
      BY <2>2, <2>3, FS_CardinalityType DEF Small, GovernorState
    <3>. QED
      BY <2>3, <3>1 DEF Small, Bounded
  <2>. QED
    BY <2>1, <2>2, <2>5, <2>6, <2>7 DEF Loadable, Content, Decodable
<1>. QED
  BY <1>1, <1>2, <1>3, CoordinatorInvariant, PTL DEF CoordinatorSpec
=============================================================================
