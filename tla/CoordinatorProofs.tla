-------------------------- MODULE CoordinatorProofs --------------------------
(***************************************************************************)
(* The coordinator and its workers, for every number of workers, runs and  *)
(* crashes: the types of the whole state, what is on the connections, how  *)
(* far the intervention of a run is, and what a state file may hold.       *)
(*                                                                         *)
(* CInv is the inductive invariant; CoordinatorSafety builds on it.  The   *)
(* steps of the coordinator are sorted by what they do to the network      *)
(* (NetworkSorts), to the files (FilesChange) and to the governor          *)
(* (MemorySorts), and each part of the invariant is proved once per sort.  *)
(***************************************************************************)
EXTENDS Coordinator, GovernorAccounts

-----------------------------------------------------------------------------
(* Processes, connections and frames. *)

\* Where the coordinator is: between runs, admitting workers, or past that.
Admitting == {"accept", "evidence"}
Acting == {"decide", "dispatch", "send", "ack", "answered", "saving", "parked",
           "report", "done"}

\* The places before the action of a run is sent.
Unsent == {"accept", "evidence", "decide", "dispatch", "send"}

\* The frames a worker sends, and the ones it gets.
FromWorker == [type : {"WORKER_STATUS"}, boot : Nat]
              \cup [type : {"EVIDENCE"}, report : Report]
              \cup [type : {"ACTION_ACK"}, attempt : Nat]
ToWorker == [type : {"ACTION_AUTHORIZE"}, attempt : Nat, target : Workloads,
             fence : Fence, at : Nat]
            \cup [type : {"RPC_REQUEST"}]

\* The types of the processes, of the connections and of what is on them.
NetworkTypes ==
    /\ setup \in [Workloads -> [role : {"A", "B"}, victim : Workloads,
                                neighbor : Workloads]]
    /\ pc \in {"down"} \cup Admitting \cup Acting
    /\ admitted \in Nat
    /\ conns \in [Workloads -> Procs \cup {NoProc}]
    /\ backlog \in Seq(Procs)
    /\ linked \in SUBSET Procs
    /\ starts \in Nat
    /\ boot \in [Procs -> Nat]
    /\ toCoord \in [Procs -> Seq(FromWorker)]
    /\ toWorker \in [Procs -> Seq(ToWorker)]

\* Admitted connections are open and are the connection of their worker.
ConnsLinked ==
    \A w \in Workloads :
        conns[w] # NoProc => conns[w] \in linked /\ WorkerOf[conns[w]] = w

\* Connections that wait are open, different and, but for the one that is
\* being admitted, not admitted yet.
BacklogLinked ==
    /\ \A n \in DOMAIN backlog :
          /\ backlog[n] \in linked
          /\ conns[WorkerOf[backlog[n]]] = backlog[n]
                => pc = "evidence" /\ n = 1
    /\ \A m, n \in DOMAIN backlog : backlog[m] = backlog[n] => m = n
    /\ pc = "evidence" => backlog # << >> /\ conns[WorkerOf[Peer]] = Peer

\* A run admits two workers and then looks at no more connections.
TwoAdmitted ==
    /\ admitted + Len(backlog) <= 2
    /\ pc = "down" => admitted = 0 /\ linked = {}
    /\ pc \in Admitting => admitted <= 1
    /\ pc \in Acting => admitted = 2

\* On a connection that waits are the hello and the report, in this order; on
\* the one whose hello was taken, the report.
Announced(p) ==
    \E b \in Nat : toCoord[p] \in {<<Hello(b)>>,
                                   <<Hello(b), Evidence(WorkerOf[p])>>}

BacklogFrames ==
    \A n \in DOMAIN backlog :
        IF pc = "evidence" /\ n = 1
        THEN toCoord[Peer] \in {<< >>, <<Evidence(WorkerOf[Peer])>>}
        ELSE Announced(backlog[n])

\* Nothing is on its way to a process that is gone, and nothing to a worker of
\* this run before the action is sent.
QuietBefore ==
    /\ \A p \in Procs : ~Running(p) => toWorker[p] = << >>
    /\ pc \in Unsent => \A p \in linked : toWorker[p] = << >>

\* What holds of processes, connections and frames in every run.
Links ==
    /\ NetworkTypes
    /\ ConnsLinked
    /\ BacklogLinked
    /\ TwoAdmitted
    /\ BacklogFrames
    /\ QuietBefore

-----------------------------------------------------------------------------
\* What a worker sends has the form of a frame.
LEMMA FramesType ==
    ASSUME NetworkTypes, NEW w \in Workloads
    PROVE  /\ \A b \in Nat : Hello(b) \in FromWorker
           /\ Evidence(w) \in FromWorker /\ Evidence(w).report \in Report
           /\ PostEvidence(w) \in FromWorker
           /\ \A n \in Nat : Ack(n) \in FromWorker
           /\ Request \in ToWorker
<1>1. ASSUME NEW id \in Nat, NEW o \in Int
      PROVE  Measured(w, id, o) \in Report
  <2>1. /\ setup[w].victim \in Workloads /\ setup[w].victim \in Nat
        /\ setup[w].neighbor \in Workloads
    BY WorkloadsAssumption DEF NetworkTypes
  <2>2. "COMPUTE" \in Domains
    BY CoordinatorAssumption
  <2>. QED
    BY <2>1, <2>2
       DEF Measured, Report, MetricDirection, AttributionStrength,
           EvidenceStatus
<1>2. 1000 + w \in Nat /\ 2000 + w \in Nat
  BY WorkloadsAssumption
<1>3. /\ Measured(w, 1000 + w, 60) \in Report
      /\ Measured(w, 2000 + w, 98) \in Report
  BY <1>1, <1>2
<1>. QED
  BY <1>3 DEF Hello, Evidence, PostEvidence, Ack, Request, FromWorker, ToWorker

\* The operations on a channel keep the form of its frames.
LEMMA ChannelsType ==
    ASSUME NEW S, NEW s \in Seq(S)
    PROVE  /\ s # << >> => /\ Head(s) \in S /\ Head(s) = s[1]
                           /\ Tail(s) \in Seq(S) /\ Len(Tail(s)) = Len(s) - 1
                           /\ \A n \in 1..(Len(s) - 1) : Tail(s)[n] = s[n + 1]
                           /\ ~(Len(s) > 1) => Tail(s) = << >>
           /\ \A f \in S : Append(s, f) \in Seq(S)
           /\ \A t \in Seq(S) : s \o t \in Seq(S)
           /\ \A n \in 0..(Len(s) - 1) : SubSeq(s, 1, n) \in Seq(S)
           /\ << >> \in Seq(S)
<1>1. s # << >> => /\ Head(s) \in S
                   /\ Tail(s) \in Seq(S) /\ Len(Tail(s)) = Len(s) - 1
                   /\ \A n \in 1..(Len(s) - 1) : Tail(s)[n] = s[n + 1]
  BY HeadTailProperties
<1>2. Head(s) = s[1]
  OBVIOUS
<1>3. \A f \in S : Append(s, f) \in Seq(S)
  OBVIOUS
<1>4. \A t \in Seq(S) : s \o t \in Seq(S)
  BY ConcatProperties
<1>5. ASSUME NEW n \in 0..(Len(s) - 1)
      PROVE  SubSeq(s, 1, n) \in Seq(S)
  <2>1. n \in Int /\ 1 \in Int /\ \A i \in 1..n : s[i] \in S
    BY ElementOfSeq
  <2>. QED
    BY <2>1, SubSeqProperties
<1>6. << >> \in Seq(S)
  BY EmptySeq
<1>7. ASSUME s # << >>, ~(Len(s) > 1)
      PROVE  Tail(s) = << >>
  <2>1. Len(s) \in Nat \ {0}
    BY <1>7, EmptySeq
  <2>2. \A n \in Nat \ {0} : n > 1 \/ n = 1
    OBVIOUS
  <2>3. Tail(s) \in Seq(S) /\ Len(Tail(s)) = Len(s) - 1
    BY <1>1, <1>7
  <2>4. Len(Tail(s)) = 0
    BY <1>7, <2>1, <2>2, <2>3
  <2>5. \A t \in Seq(S) : Len(t) = 0 => t = << >>
    BY EmptySeq
  <2>. QED
    BY <2>3, <2>4, <2>5
<1>. QED
  BY <1>1, <1>2, <1>3, <1>4, <1>5, <1>6, <1>7

\* A frame that is taken or added leaves frames.
LEMMA TakenType ==
    ASSUME NetworkTypes, NEW p \in Procs, Arrived(p)
    PROVE  /\ Received(p) \in FromWorker
           /\ Received(p) = toCoord[p][1]
           /\ Taken(p) \in [Procs -> Seq(FromWorker)]
           /\ Taken(p)[p] = Tail(toCoord[p])
           /\ \A q \in Procs \ {p} : Taken(p)[q] = toCoord[q]
<1>1. toCoord \in [Procs -> Seq(FromWorker)] /\ toCoord[p] \in Seq(FromWorker)
  BY DEF NetworkTypes
<1>2. toCoord[p] # << >>
  BY DEF Arrived
<1>3. /\ Head(toCoord[p]) \in FromWorker /\ Head(toCoord[p]) = toCoord[p][1]
      /\ Tail(toCoord[p]) \in Seq(FromWorker)
  BY <1>1, <1>2, ChannelsType
<1>. QED
  BY <1>1, <1>3 DEF Received, Taken

-----------------------------------------------------------------------------
(* What a step does to the network, sorted. *)

\* A step that the network does not see.
NetworkQuiet == UNCHANGED <<setup, pc, admitted, conns, backlog, linked, starts,
                            boot, toCoord, toWorker, performed>>

\* The coordinator ends, or the machine with everything on it.
Ends ==
    /\ setup' = setup /\ starts' = starts
    /\ pc' = "down" /\ admitted' = 0
    /\ conns' = [w \in Workloads |-> NoProc]
    /\ backlog' = << >> /\ linked' = {}
    /\ toCoord' = [p \in Procs |-> << >>]
    /\ \/ boot' = BootAfterClosing(linked) /\ toWorker' = toWorker
       \/ /\ boot' = [p \in Procs |-> 0]
          /\ toWorker' = [p \in Procs |-> << >>]

Begins ==
    /\ pc = "down" /\ pc' = "accept"
    /\ UNCHANGED <<setup, admitted, conns, backlog, linked, starts, boot,
                   toCoord, toWorker>>

\* The coordinator moves on with its action: it may take a frame, and it may
\* send one, then never to what it has not sent the action yet.
Acts ==
    /\ pc \in Acting /\ pc' \in Acting
    /\ pc' \in Unsent => pc \in Unsent
    /\ UNCHANGED <<setup, admitted, conns, backlog, linked, starts, boot>>
    /\ \/ toCoord' = toCoord
       \/ \E p \in Procs : Arrived(p) /\ toCoord' = Taken(p)
    /\ \/ toWorker' = toWorker
       \/ /\ pc' \notin Unsent
          /\ \E p \in Procs, f \in ToWorker :
                /\ Running(p)
                /\ toWorker' = [toWorker EXCEPT ![p] = Append(@, f)]

Works(p) == WorkerAct(p) \/ WorkerMeasure(p)

-----------------------------------------------------------------------------
\* Frames on connections that nobody touches stay as they are.
LEMMA FramesKept ==
    ASSUME BacklogFrames, UNCHANGED <<setup, pc, backlog, toCoord>>
    PROVE  BacklogFrames'
<1>1. UNCHANGED <<setup, pc, backlog, toCoord>>
  OBVIOUS
<1>2. /\ Peer' = Peer
      /\ \A w : Evidence(w)' = Evidence(w)
  BY <1>1 DEF Peer, Evidence, Measured
<1>3. ASSUME NEW n \in DOMAIN backlog, Announced(backlog[n])
      PROVE  Announced(backlog[n])'
  BY <1>1, <1>2, <1>3 DEF Announced
<1>4. toCoord[Peer] \in {<< >>, <<Evidence(WorkerOf[Peer])>>}
      => (toCoord[Peer] \in {<< >>, <<Evidence(WorkerOf[Peer])>>})'
  BY <1>1, <1>2
<1>. QED
  BY <1>1, <1>3, <1>4 DEF BacklogFrames

\* The end of a run leaves no connection and no frame.
LEMMA EndsKeepsLinks == ASSUME Links, Ends PROVE Links'
<1>1. NetworkTypes
  BY DEF Links
<1>2. /\ boot' \in [Procs -> Nat]
      /\ toWorker' \in [Procs -> Seq(ToWorker)]
      /\ \A p \in Procs : boot'[p] = 0 => toWorker'[p] = << >>
  <2>1. /\ boot \in [Procs -> Nat] /\ toWorker \in [Procs -> Seq(ToWorker)]
        /\ \A p \in Procs : boot[p] = 0 => toWorker[p] = << >>
    BY DEF Links, NetworkTypes, QuietBefore, Running
  <2>2. CASE boot' = BootAfterClosing(linked) /\ toWorker' = toWorker
    BY <2>1, <2>2 DEF BootAfterClosing
  <2>3. CASE /\ boot' = [p \in Procs |-> 0]
             /\ toWorker' = [p \in Procs |-> << >>]
    BY <2>3, EmptySeq
  <2>. QED
    BY <2>2, <2>3 DEF Ends
<1>3. NetworkTypes'
  BY <1>1, <1>2, EmptySeq DEF Ends, NetworkTypes
<1>4. backlog' = << >> /\ Len(backlog') = 0 /\ DOMAIN backlog' = {}
  BY DEF Ends
<1>5. (ConnsLinked /\ TwoAdmitted)'
  BY <1>4 DEF Ends, ConnsLinked, TwoAdmitted, Admitting, Acting
<1>6. (BacklogLinked /\ BacklogFrames)'
  BY <1>4 DEF Ends, BacklogLinked, BacklogFrames
<1>7. QuietBefore'
  BY <1>2 DEF Ends, QuietBefore, Running, Unsent
<1>. QED
  BY <1>3, <1>5, <1>6, <1>7 DEF Links

\* A run begins with what the end of the last one left.
LEMMA BeginsKeepsLinks == ASSUME Links, Begins PROVE Links'
<1>1. NetworkTypes'
  BY DEF Begins, Links, NetworkTypes, Admitting
<1>2. admitted = 0 /\ linked = {} /\ backlog = << >>
  <2>1. admitted = 0 /\ linked = {}
    BY DEF Begins, Links, TwoAdmitted
  <2>2. DOMAIN backlog = {}
    BY <2>1 DEF Links, BacklogLinked
  <2>. QED
    BY <2>1, <2>2 DEF Links, NetworkTypes
<1>3. Len(backlog) = 0 /\ DOMAIN backlog = {}
  BY <1>2
<1>4. (ConnsLinked /\ TwoAdmitted)'
  BY <1>2, <1>3 DEF Begins, Links, ConnsLinked, TwoAdmitted, Admitting, Acting
<1>5. (BacklogLinked /\ BacklogFrames)'
  BY <1>2, <1>3 DEF Begins, BacklogLinked, BacklogFrames
<1>6. QuietBefore'
  BY <1>2 DEF Begins, Links, QuietBefore, Running
<1>. QED
  BY <1>1, <1>4, <1>5, <1>6 DEF Links

\* Once both workers are admitted, frames are taken and sent, and no
\* connection changes.
LEMMA ActsKeepsLinks == ASSUME Links, Acts PROVE Links'
<1>1. NetworkTypes /\ NetworkTypes'
  <2>1. NetworkTypes
    BY DEF Links
  <2>2. toCoord' \in [Procs -> Seq(FromWorker)]
    BY <2>1, TakenType DEF Acts, NetworkTypes
  <2>3. toWorker' \in [Procs -> Seq(ToWorker)]
    <3>1. ASSUME NEW p \in Procs, NEW f \in ToWorker
          PROVE  [toWorker EXCEPT ![p] = Append(@, f)]
                    \in [Procs -> Seq(ToWorker)]
      <4>1. /\ toWorker \in [Procs -> Seq(ToWorker)]
            /\ toWorker[p] \in Seq(ToWorker)
        BY <2>1 DEF NetworkTypes
      <4>2. Append(toWorker[p], f) \in Seq(ToWorker)
        BY <4>1, ChannelsType
      <4>. QED
        BY <4>1, <4>2
    <3>2. CASE toWorker' = toWorker
      BY <2>1, <3>2 DEF NetworkTypes
    <3>3. \/ toWorker' = toWorker
          \/ \E p \in Procs, f \in ToWorker :
                toWorker' = [toWorker EXCEPT ![p] = Append(@, f)]
      BY Zenon DEF Acts
    <3>. QED
      BY <3>1, <3>2, <3>3
  <2>. QED
    BY <2>1, <2>2, <2>3 DEF Acts, NetworkTypes
<1>2. pc \notin Admitting \cup {"down"} /\ pc' \notin Admitting \cup {"down"}
  BY DEF Acts, Acting, Admitting
<1>3. (ConnsLinked /\ TwoAdmitted)'
  BY <1>2 DEF Acts, Links, ConnsLinked, TwoAdmitted
<1>4. backlog = << >> /\ DOMAIN backlog = {}
  <2>1. admitted = 2 /\ 2 + Len(backlog) <= 2
    BY DEF Acts, Links, TwoAdmitted
  <2>2. backlog \in Seq(Procs) /\ Len(backlog) \in Nat
    BY <1>1 DEF NetworkTypes
  <2>3. Len(backlog) = 0
    BY <2>1, <2>2
  <2>. QED
    BY <2>2, <2>3
<1>5. (BacklogLinked /\ BacklogFrames)'
  BY <1>2, <1>4 DEF Acts, BacklogLinked, BacklogFrames, Admitting
<1>6. QuietBefore'
  <2>1. toWorker \in [Procs -> Seq(ToWorker)] /\ linked \subseteq Procs
    BY <1>1 DEF NetworkTypes
  <2>2. CASE toWorker' = toWorker
    BY <2>2 DEF Acts, Links, QuietBefore, Running
  <2>3. ASSUME pc' \notin Unsent, NEW p \in Procs, NEW f \in ToWorker,
               Running(p), toWorker' = [toWorker EXCEPT ![p] = Append(@, f)]
        PROVE  QuietBefore'
    <3>1. \A q \in Procs \ {p} : toWorker'[q] = toWorker[q]
      BY <2>1, <2>3
    <3>. QED
      BY <2>3, <3>1 DEF Acts, Links, QuietBefore, Running
  <2>. QED
    BY <2>2, <2>3 DEF Acts
<1>. QED
  BY <1>1, <1>3, <1>5, <1>6 DEF Links

\* The worker in a slot.
LEMMA WorkerOfType == \A p \in Procs : WorkerOf[p] \in Workloads
  BY CoordinatorAssumption

\* The connection that is being admitted.
LEMMA PeerType ==
    ASSUME Links, backlog # << >>
    PROVE  /\ Peer \in Procs /\ Peer \in linked /\ Peer = backlog[1]
           /\ 1 \in DOMAIN backlog
           /\ DOMAIN backlog = 1..Len(backlog) /\ Len(backlog) \in Nat
           /\ \A n \in DOMAIN backlog : backlog[n] \in Procs
           /\ \A n \in DOMAIN backlog : n # 1 => backlog[n] # Peer
<1>1. backlog \in Seq(Procs)
  BY DEF Links, NetworkTypes
<1>2. /\ Peer = backlog[1] /\ 1 \in DOMAIN backlog
      /\ DOMAIN backlog = 1..Len(backlog) /\ Len(backlog) \in Nat
  BY <1>1 DEF Peer
<1>. QED
  BY <1>1, <1>2 DEF Links, BacklogLinked

\* The worker whose hello is taken has a connection of its own: the one it
\* replaces, if any, is closed.
LEMMA HelloKeepsLinks == ASSUME Links, AdmitHello PROVE Links'
<1>. DEFINE w == WorkerOf[Peer]
<1>1. /\ pc = "accept" /\ pc' = "evidence"
      /\ backlog # << >> /\ Arrived(Peer)
      /\ toCoord' = Taken(Peer)
      /\ conns' = NewConnection
      /\ linked' = linked \ ({conns[w]} \ {conns'[w]})
      /\ boot' = BootAfterClosing(linked \ linked')
      /\ UNCHANGED <<setup, admitted, backlog, starts, toWorker>>
  BY DEF AdmitHello, runVars
<1>2. NetworkTypes
  BY DEF Links
<1>3. /\ Peer \in Procs /\ Peer \in linked /\ Peer = backlog[1]
      /\ 1 \in DOMAIN backlog /\ w \in Workloads
      /\ \A n \in DOMAIN backlog : backlog[n] \in Procs
      /\ \A n \in DOMAIN backlog : n # 1 => backlog[n] # Peer
  BY <1>1, PeerType, WorkerOfType
<1>4. /\ conns' \in [Workloads -> Procs \cup {NoProc}]
      /\ conns'[w] = Peer
      /\ \A v \in Workloads \ {w} : conns'[v] = conns[v]
  BY <1>1, <1>2, <1>3 DEF NewConnection, NetworkTypes
<1>5. /\ linked' = linked \ ({conns[w]} \ {Peer})
      /\ linked' \subseteq linked /\ Peer \in linked'
  BY <1>1, <1>3, <1>4
<1>6. NetworkTypes'
  <2>1. toCoord' \in [Procs -> Seq(FromWorker)]
    BY <1>1, <1>2, <1>3, TakenType
  <2>2. boot' \in [Procs -> Nat]
    BY <1>1, <1>2 DEF BootAfterClosing, NetworkTypes
  <2>3. pc' \in Admitting
    BY <1>1 DEF Admitting
  <2>. QED
    BY <1>1, <1>2, <1>4, <1>5, <2>1, <2>2, <2>3 DEF NetworkTypes
<1>7. ConnsLinked'
  <2>. SUFFICES ASSUME NEW v \in Workloads, conns'[v] # NoProc
                PROVE  conns'[v] \in linked' /\ WorkerOf[conns'[v]] = v
    BY DEF ConnsLinked
  <2>1. CASE v = w
    BY <1>4, <1>5, <2>1
  <2>2. CASE v # w
    <3>1. conns[v] \in linked /\ WorkerOf[conns[v]] = v
      BY <1>4, <2>2 DEF Links, ConnsLinked
    <3>2. conns[v] # conns[w]
      BY <1>2, <1>3, <2>2, <3>1, CoordinatorAssumption
         DEF Links, ConnsLinked, NetworkTypes
    <3>. QED
      BY <1>4, <1>5, <2>2, <3>1, <3>2
  <2>. QED
    BY <2>1, <2>2
<1>8. BacklogLinked'
  <2>1. ASSUME NEW n \in DOMAIN backlog
        PROVE  /\ backlog[n] \in linked /\ backlog[n] \in Procs
               /\ conns[WorkerOf[backlog[n]]] # backlog[n]
    BY <1>1, <1>3 DEF Links, BacklogLinked
  <2>2. ASSUME NEW n \in DOMAIN backlog
        PROVE  /\ backlog[n] \in linked'
               /\ conns'[WorkerOf[backlog[n]]] = backlog[n] => n = 1
    <3>1. CASE n = 1
      BY <1>3, <1>5, <3>1
    <3>2. CASE n # 1
      <4>1. backlog[n] # Peer
        BY <1>3, <3>2
      <4>2. CASE WorkerOf[backlog[n]] = w
        BY <1>4, <1>5, <2>1, <4>1, <4>2
      <4>3. CASE WorkerOf[backlog[n]] # w
        <5>1. WorkerOf[backlog[n]] \in Workloads
          BY <2>1, WorkerOfType
        <5>2. conns'[WorkerOf[backlog[n]]] # backlog[n]
          BY <1>4, <2>1, <4>3, <5>1
        <5>3. conns[w] # backlog[n]
          BY <1>3, <2>1, <4>3, CoordinatorAssumption DEF Links, ConnsLinked
        <5>. QED
          BY <1>5, <2>1, <5>2, <5>3
      <4>. QED
        BY <4>2, <4>3
    <3>. QED
      BY <3>1, <3>2
  <2>3. Peer' = Peer
    BY <1>1 DEF Peer
  <2>. QED
    BY <1>1, <1>4, <2>2, <2>3 DEF Links, BacklogLinked
<1>9. TwoAdmitted'
  BY <1>1 DEF Links, TwoAdmitted, Admitting, Acting
<1>10. BacklogFrames'
  <2>1. Peer' = Peer
    BY <1>1 DEF Peer
  <2>2. /\ toCoord'[Peer] = Tail(toCoord[Peer])
        /\ \A q \in Procs \ {Peer} : toCoord'[q] = toCoord[q]
    BY <1>1, <1>2, <1>3, TakenType
  <2>3. \A n \in DOMAIN backlog : Announced(backlog[n])
    BY <1>1 DEF Links, BacklogFrames
  <2>4. toCoord'[Peer] \in {<< >>, <<Evidence(w)>>}
    <3>1. PICK b \in Nat : toCoord[Peer] \in {<<Hello(b)>>,
                                              <<Hello(b), Evidence(w)>>}
      BY <1>3, <2>3 DEF Announced
    <3>2. Tail(<<Hello(b)>>) = << >>
      OBVIOUS
    <3>3. Tail(<<Hello(b), Evidence(w)>>) = <<Evidence(w)>>
      OBVIOUS
    <3>. QED
      BY <2>2, <3>1, <3>2, <3>3
  <2>5. Evidence(w)' = Evidence(w)
    BY <1>1, <2>1 DEF Evidence, Measured
  <2>6. ASSUME NEW n \in DOMAIN backlog, n # 1
        PROVE  Announced(backlog[n])'
    <3>1. toCoord'[backlog[n]] = toCoord[backlog[n]]
      BY <1>3, <2>2, <2>6
    <3>2. Evidence(WorkerOf[backlog[n]])' = Evidence(WorkerOf[backlog[n]])
      BY <1>1 DEF Evidence, Measured
    <3>. QED
      BY <1>1, <2>3, <3>1, <3>2 DEF Announced
  <2>. QED
    BY <1>1, <2>1, <2>4, <2>5, <2>6 DEF BacklogFrames
<1>11. QuietBefore'
  <2>1. \A p \in Procs : boot'[p] = 0 => toWorker[p] = << >>
    BY <1>1, <1>2 DEF Links, QuietBefore, Running, BootAfterClosing
  <2>2. \A p \in linked : toWorker[p] = << >>
    BY <1>1 DEF Links, QuietBefore, Unsent
  <2>. QED
    BY <1>1, <1>5, <2>1, <2>2 DEF QuietBefore, Running
<1>. QED
  BY <1>6, <1>7, <1>8, <1>9, <1>10, <1>11 DEF Links

\* The connection whose report is taken waits no longer.
LEMMA ReportKeepsLinks == ASSUME Links, AdmitReport PROVE Links'
<1>1. /\ pc = "evidence" /\ pc' = IF admitted = 1 THEN "decide" ELSE "accept"
      /\ Arrived(Peer) /\ toCoord' = Taken(Peer)
      /\ backlog' = Tail(backlog) /\ admitted' = admitted + 1
      /\ UNCHANGED <<setup, conns, linked, boot, starts, toWorker>>
  BY DEF AdmitReport, workVars
<1>2. NetworkTypes
  BY DEF Links
<1>3. backlog # << >> /\ conns[WorkerOf[Peer]] = Peer
  BY <1>1 DEF Links, BacklogLinked
<1>4. /\ Peer \in Procs /\ Peer \in linked /\ Peer = backlog[1]
      /\ DOMAIN backlog = 1..Len(backlog) /\ Len(backlog) \in Nat
      /\ \A n \in DOMAIN backlog : backlog[n] \in Procs
      /\ \A n \in DOMAIN backlog : n # 1 => backlog[n] # Peer
  BY <1>3, PeerType
<1>5. /\ backlog' \in Seq(Procs) /\ Len(backlog') = Len(backlog) - 1
      /\ DOMAIN backlog' = 1..(Len(backlog) - 1)
      /\ \A n \in DOMAIN backlog' :
            /\ n + 1 \in DOMAIN backlog /\ n + 1 # 1
            /\ backlog'[n] = backlog[n + 1]
  <2>1. backlog \in Seq(Procs)
    BY <1>2 DEF NetworkTypes
  <2>2. /\ backlog' \in Seq(Procs) /\ Len(backlog') = Len(backlog) - 1
        /\ \A n \in 1..(Len(backlog) - 1) : backlog'[n] = backlog[n + 1]
    BY <1>1, <1>3, <2>1, ChannelsType
  <2>3. DOMAIN backlog' = 1..(Len(backlog) - 1)
    BY <2>2
  <2>. QED
    BY <1>4, <2>2, <2>3
<1>6. admitted \in {0, 1} /\ admitted + Len(backlog) <= 2
  BY <1>1, <1>2 DEF Links, TwoAdmitted, NetworkTypes, Admitting
<1>7. pc' \in {"accept", "decide"}
  BY <1>1
<1>8. NetworkTypes'
  <2>1. toCoord' \in [Procs -> Seq(FromWorker)]
    BY <1>1, <1>2, <1>4, TakenType
  <2>. QED
    BY <1>1, <1>2, <1>5, <1>6, <1>7, <2>1 DEF NetworkTypes, Admitting, Acting
<1>9. ConnsLinked'
  BY <1>1 DEF Links, ConnsLinked
<1>10. BacklogLinked'
  <2>1. \A n \in DOMAIN backlog' :
           /\ backlog'[n] \in linked
           /\ conns[WorkerOf[backlog'[n]]] # backlog'[n]
    BY <1>5 DEF Links, BacklogLinked
  <2>2. ASSUME NEW m \in DOMAIN backlog', NEW n \in DOMAIN backlog',
               backlog'[m] = backlog'[n]
        PROVE  m = n
    <3>1. m + 1 = n + 1
      BY <1>5, <2>2 DEF Links, BacklogLinked
    <3>. QED
      BY <1>4, <1>5, <3>1
  <2>. QED
    BY <1>1, <1>7, <2>1, <2>2 DEF BacklogLinked
<1>11. TwoAdmitted'
  BY <1>1, <1>4, <1>5, <1>6 DEF TwoAdmitted, Admitting, Acting
<1>12. BacklogFrames'
  <2>1. \A q \in Procs \ {Peer} : toCoord'[q] = toCoord[q]
    BY <1>1, <1>2, <1>4, TakenType
  <2>2. ASSUME NEW p \in Procs \ {Peer}, Announced(p)
        PROVE  Announced(p)'
    BY <1>1, <2>1, <2>2 DEF Announced, Evidence, Measured
  <2>3. ASSUME NEW n \in DOMAIN backlog'
        PROVE  \E p \in Procs : p = backlog'[n] /\ Announced(p)'
    <3>1. backlog[n + 1] \in Procs \ {Peer} /\ Announced(backlog[n + 1])
      BY <1>4, <1>5 DEF Links, BacklogFrames
    <3>. QED
      BY <1>5, <2>2, <3>1
  <2>4. ASSUME NEW n \in DOMAIN backlog'
        PROVE  Announced(backlog[n])'
    BY <2>3 DEF Announced
  <2>. QED
    BY <1>7, <2>4 DEF BacklogFrames
<1>13. QuietBefore'
  BY <1>1 DEF Links, QuietBefore, Running, Unsent
<1>. QED
  BY <1>8, <1>9, <1>10, <1>11, <1>12, <1>13 DEF Links

\* A slot a worker is started in, and what its start changes.
LEMMA StartStep ==
    ASSUME NEW w \in Workloads, WorkerStart(w)
    PROVE  \E p \in Procs :
              /\ WorkerOf[p] = w /\ ~Running(p) /\ p \notin linked
              /\ pc = "accept" /\ pc' = pc
              /\ admitted + Len(backlog) < 2
              /\ starts' = starts + 1
              /\ linked' = linked \cup {p}
              /\ backlog' = Append(backlog, p)
              /\ \/ /\ boot' = [boot EXCEPT ![p] = starts + 1]
                    /\ toCoord' = [toCoord EXCEPT ![p] =
                                     <<Hello(starts + 1), Evidence(w)>>]
                 \/ /\ boot' = boot
                    /\ toCoord' = [toCoord EXCEPT ![p] = <<Hello(starts + 1)>>]
              /\ UNCHANGED <<setup, admitted, conns, toWorker, performed, mode,
                             recovered, runs, powerFailures, vars, fileVars>>
<1>. DEFINE free == { p \in Procs : WorkerOf[p] = w /\ ~Running(p)
                                    /\ p \notin linked }
            p == CHOOSE q \in free : TRUE
<1>1. free # {}
  BY DEF WorkerStart
<1>2. p \in free
  BY <1>1
<1>3. p \in Procs /\ WorkerOf[p] = w /\ ~Running(p) /\ p \notin linked
  BY <1>2
<1>4. /\ pc = "accept"
      /\ admitted + Len(backlog) < 2
      /\ starts' = starts + 1
      /\ linked' = linked \cup {p}
      /\ backlog' = Append(backlog, p)
      /\ \/ /\ boot' = [boot EXCEPT ![p] = starts + 1]
            /\ toCoord' = [toCoord EXCEPT ![p] =
                             <<Hello(starts + 1), Evidence(w)>>]
         \/ /\ boot' = boot
            /\ toCoord' = [toCoord EXCEPT ![p] = <<Hello(starts + 1)>>]
      /\ UNCHANGED <<setup, mainVars, toWorker, performed, runVars, vars,
                     fileVars>>
  BY DEF WorkerStart
<1>. HIDE DEF p
<1>. QED
  BY <1>3, <1>4 DEF mainVars, runVars

\* A worker that starts takes a slot whose last connection is closed, and
\* sends its hello and its report before it gets anything.
LEMMA StartKeepsLinks ==
    ASSUME Links, NEW w \in Workloads, WorkerStart(w) PROVE Links'
<1>1. PICK p \in Procs :
         /\ WorkerOf[p] = w /\ ~Running(p) /\ p \notin linked
         /\ pc = "accept" /\ pc' = pc
         /\ admitted + Len(backlog) < 2
         /\ starts' = starts + 1
         /\ linked' = linked \cup {p}
         /\ backlog' = Append(backlog, p)
         /\ \/ /\ boot' = [boot EXCEPT ![p] = starts + 1]
               /\ toCoord' = [toCoord EXCEPT ![p] =
                                <<Hello(starts + 1), Evidence(w)>>]
            \/ /\ boot' = boot
               /\ toCoord' = [toCoord EXCEPT ![p] = <<Hello(starts + 1)>>]
         /\ UNCHANGED <<setup, admitted, conns, toWorker>>
  BY StartStep
<1>2. /\ NetworkTypes /\ NoProc \notin Procs
      /\ starts + 1 \in Nat /\ starts + 1 # 0
  BY CoordinatorAssumption DEF Links, NetworkTypes
<1>3. \A n \in DOMAIN backlog : backlog[n] \in linked /\ backlog[n] # p
  BY <1>1 DEF Links, BacklogLinked
<1>4. /\ backlog \in Seq(Procs) /\ DOMAIN backlog = 1..Len(backlog)
      /\ Len(backlog) \in Nat
      /\ Len(backlog') = Len(backlog) + 1
      /\ backlog' \in Seq(Procs)
      /\ DOMAIN backlog' = DOMAIN backlog \cup {Len(backlog) + 1}
      /\ backlog'[Len(backlog) + 1] = p
      /\ \A n \in DOMAIN backlog : backlog'[n] = backlog[n]
  <2>1. backlog \in Seq(Procs)
    BY <1>2 DEF NetworkTypes
  <2>. QED
    BY <1>1, <2>1
<1>5. /\ toCoord'[p] \in {<<Hello(starts + 1)>>,
                          <<Hello(starts + 1), Evidence(w)>>}
      /\ \A q \in Procs \ {p} : toCoord'[q] = toCoord[q]
      /\ toCoord' \in [Procs -> Seq(FromWorker)]
  <2>1. toCoord \in [Procs -> Seq(FromWorker)]
    BY <1>2 DEF NetworkTypes
  <2>2. /\ <<Hello(starts + 1)>> \in Seq(FromWorker)
        /\ <<Hello(starts + 1), Evidence(w)>> \in Seq(FromWorker)
    BY <1>2, FramesType
  <2>. QED
    BY <1>1, <2>1, <2>2
<1>6. boot' \in [Procs -> Nat] /\ \A q \in Procs : boot'[q] = 0 => boot[q] = 0
  <2>1. boot \in [Procs -> Nat]
    BY <1>2 DEF NetworkTypes
  <2>2. CASE boot' = [boot EXCEPT ![p] = starts + 1]
    BY <1>2, <2>1, <2>2
  <2>3. CASE boot' = boot
    BY <2>1, <2>3
  <2>. QED
    BY <1>1, <2>2, <2>3
<1>7. NetworkTypes'
  BY <1>1, <1>2, <1>4, <1>5, <1>6 DEF NetworkTypes
<1>8. ConnsLinked'
  BY <1>1 DEF Links, ConnsLinked
<1>9. BacklogLinked'
  <2>1. conns[w] # p
    BY <1>1, <1>2 DEF Links, ConnsLinked
  <2>2. \A n \in DOMAIN backlog' :
           /\ backlog'[n] \in linked'
           /\ conns[WorkerOf[backlog'[n]]] # backlog'[n]
    BY <1>1, <1>3, <1>4, <2>1 DEF Links, BacklogLinked
  <2>3. \A m, n \in DOMAIN backlog' : backlog'[m] = backlog'[n] => m = n
    BY <1>3, <1>4 DEF Links, BacklogLinked
  <2>. QED
    BY <1>1, <2>2, <2>3 DEF BacklogLinked
<1>10. TwoAdmitted'
  <2>1. admitted \in Nat
    BY <1>2 DEF NetworkTypes
  <2>. QED
    BY <1>1, <1>4, <2>1 DEF Links, TwoAdmitted, Admitting, Acting
<1>11. BacklogFrames'
  <2>1. ASSUME NEW q \in Procs \ {p}, Announced(q)
        PROVE  Announced(q)'
    BY <1>1, <1>5, <2>1 DEF Announced, Evidence, Measured
  <2>2. Announced(p)'
    BY <1>1, <1>2, <1>5 DEF Announced, Evidence, Measured
  <2>3. ASSUME NEW n \in DOMAIN backlog'
        PROVE  \E q \in Procs : q = backlog'[n] /\ Announced(q)'
    <3>1. CASE n \in DOMAIN backlog
      <4>1. backlog[n] \in Procs \ {p} /\ Announced(backlog[n])
        BY <1>1, <1>3, <1>4, <3>1 DEF Links, BacklogFrames
      <4>. QED
        BY <1>4, <2>1, <3>1, <4>1
    <3>2. CASE n = Len(backlog) + 1
      BY <1>4, <2>2, <3>2
    <3>. QED
      BY <1>4, <3>1, <3>2
  <2>4. ASSUME NEW n \in DOMAIN backlog'
        PROVE  Announced(backlog[n])'
    BY <2>3 DEF Announced
  <2>. QED
    BY <1>1, <2>4 DEF BacklogFrames
<1>12. QuietBefore'
  <2>1. toWorker[p] = << >>
    BY <1>1 DEF Links, QuietBefore
  <2>. QED
    BY <1>1, <1>6, <2>1 DEF Links, QuietBefore, Running, Unsent
<1>. QED
  BY <1>7, <1>8, <1>9, <1>10, <1>11, <1>12 DEF Links

\* What a worker that serves a frame changes: it takes the frame, or it dies
\* and takes none of the others either; a worker that is linked has sent some
\* of its replies.
LEMMA ServesStep ==
    ASSUME Links, NEW p \in Procs, Works(p)
    PROVE  /\ Running(p) /\ toWorker[p] # << >>
           /\ boot' \in {boot, [boot EXCEPT ![p] = 0]}
           /\ \/ toWorker' = [toWorker EXCEPT ![p] = Tail(@)]
              \/ toWorker' = [toWorker EXCEPT ![p] = << >>]
           /\ boot'[p] = 0 => toWorker'[p] = << >>
           /\ p \notin linked => toCoord' = toCoord
           /\ toCoord' \in [Procs -> Seq(FromWorker)]
           /\ \A q \in Procs \ {p} : toCoord'[q] = toCoord[q]
           /\ UNCHANGED <<setup, pc, admitted, conns, backlog, linked, starts,
                          mode, recovered, runs, powerFailures, vars, fileVars>>
<1>1. /\ toCoord \in [Procs -> Seq(FromWorker)]
      /\ toWorker \in [Procs -> Seq(ToWorker)]
      /\ boot \in [Procs -> Nat]
      /\ \A q \in Procs : toWorker[q] \in Seq(ToWorker)
      /\ \A q \in Procs : toCoord[q] \in Seq(FromWorker)
  BY DEF Links, NetworkTypes
<1>2. toWorker[p] # << >>
  BY DEF Works, WorkerAct, WorkerMeasure, Delivered
<1>3. Head(toWorker[p]) \in ToWorker
  BY <1>1, <1>2, ChannelsType
<1>4. PICK replies \in Seq(FromWorker) : Serves(p, replies)
  <2>1. WorkerOf[p] \in Workloads /\ NetworkTypes
    BY WorkerOfType DEF Links
  <2>2. PostEvidence(WorkerOf[p]) \in FromWorker
    BY <2>1, FramesType
  <2>3. CASE WorkerAct(p)
    <3>. DEFINE m == Head(toWorker[p])
    <3>1. m.type = "ACTION_AUTHORIZE" /\ Serves(p, ActionReplies(WorkerOf[p], m.attempt))
      BY <2>3 DEF WorkerAct, Delivered
    <3>2. m.attempt \in Nat
      BY <1>3, <3>1 DEF ToWorker
    <3>3. Ack(m.attempt) \in FromWorker
      BY <2>1, <3>2, FramesType
    <3>4. ActionReplies(WorkerOf[p], m.attempt) \in Seq(FromWorker)
      BY <2>2, <3>3 DEF ActionReplies
    <3>. QED
      BY <3>1, <3>4
  <2>4. CASE WorkerMeasure(p)
    <3>1. <<PostEvidence(WorkerOf[p])>> \in Seq(FromWorker)
      BY <2>2
    <3>. QED
      BY <2>4, <3>1 DEF WorkerMeasure
  <2>. QED
    BY <2>3, <2>4 DEF Works
<1>5. /\ Running(p)
      /\ UNCHANGED <<vars, fileVars, mainVars, runVars, backlog, linked, setup,
                     starts>>
      /\ \/ /\ toWorker' = [toWorker EXCEPT ![p] = Tail(@)]
            /\ toCoord' = IF p \in linked
                          THEN [toCoord EXCEPT ![p] = @ \o replies]
                          ELSE toCoord
            /\ boot' = IF p \in linked \/ Len(toWorker[p]) > 1
                       THEN boot
                       ELSE [boot EXCEPT ![p] = 0]
         \/ /\ p \in linked
            /\ toWorker' = [toWorker EXCEPT ![p] = << >>]
            /\ \E n \in 0..(Len(replies) - 1) :
                  toCoord' = [toCoord EXCEPT ![p] = @ \o SubSeq(replies, 1, n)]
            /\ boot' = [boot EXCEPT ![p] = 0]
  BY <1>4 DEF Serves
<1>6. /\ p \notin linked => toCoord' = toCoord
      /\ toCoord' \in [Procs -> Seq(FromWorker)]
      /\ \A q \in Procs \ {p} : toCoord'[q] = toCoord[q]
  <2>1. ASSUME NEW t \in Seq(FromWorker),
               toCoord' = [toCoord EXCEPT ![p] = @ \o t]
        PROVE  /\ toCoord' \in [Procs -> Seq(FromWorker)]
               /\ \A q \in Procs \ {p} : toCoord'[q] = toCoord[q]
    <3>1. toCoord[p] \o t \in Seq(FromWorker)
      BY <1>1, ChannelsType
    <3>. QED
      BY <1>1, <2>1, <3>1
  <2>2. \A n \in 0..(Len(replies) - 1) : SubSeq(replies, 1, n) \in Seq(FromWorker)
    BY <1>4, ChannelsType
  <2>. QED
    BY <1>1, <1>4, <1>5, <2>1, <2>2
<1>7. boot'[p] = 0 => toWorker'[p] = << >>
  <2>1. boot[p] # 0
    BY <1>5 DEF Running
  <2>2. CASE /\ toWorker' = [toWorker EXCEPT ![p] = Tail(@)]
             /\ boot' = IF p \in linked \/ Len(toWorker[p]) > 1
                        THEN boot
                        ELSE [boot EXCEPT ![p] = 0]
    <3>1. CASE Len(toWorker[p]) > 1
      BY <2>1, <2>2, <3>1
    <3>2. CASE ~(Len(toWorker[p]) > 1)
      <4>2. Tail(toWorker[p]) = << >>
        BY <1>1, <1>2, <3>2, ChannelsType
      <4>. QED
        BY <1>1, <2>2, <4>2
    <3>. QED
      BY <3>1, <3>2
  <2>3. CASE toWorker' = [toWorker EXCEPT ![p] = << >>]
    BY <1>1, <2>3
  <2>. QED
    BY <1>5, <2>2, <2>3
<1>8. /\ \/ toWorker' = [toWorker EXCEPT ![p] = Tail(@)]
         \/ toWorker' = [toWorker EXCEPT ![p] = << >>]
      /\ boot' \in {boot, [boot EXCEPT ![p] = 0]}
  BY <1>5
<1>. QED
  BY <1>2, <1>5, <1>6, <1>7, <1>8 DEF mainVars, runVars

\* A worker that answers a frame was sent one: its connection does not wait.
LEMMA WorksKeepsLinks ==
    ASSUME Links, NEW p \in Procs, Works(p) PROVE Links'
<1>1. /\ Running(p) /\ toWorker[p] # << >>
      /\ boot' \in {boot, [boot EXCEPT ![p] = 0]}
      /\ \/ toWorker' = [toWorker EXCEPT ![p] = Tail(@)]
         \/ toWorker' = [toWorker EXCEPT ![p] = << >>]
      /\ boot'[p] = 0 => toWorker'[p] = << >>
      /\ p \notin linked => toCoord' = toCoord
      /\ toCoord' \in [Procs -> Seq(FromWorker)]
      /\ \A q \in Procs \ {p} : toCoord'[q] = toCoord[q]
      /\ UNCHANGED <<setup, pc, admitted, conns, backlog, linked, starts>>
  BY ServesStep
<1>2. /\ toWorker \in [Procs -> Seq(ToWorker)]
      /\ boot \in [Procs -> Nat]
      /\ toWorker[p] \in Seq(ToWorker)
      /\ NetworkTypes
  BY DEF Links, NetworkTypes
<1>3. /\ toWorker' \in [Procs -> Seq(ToWorker)]
      /\ \A q \in Procs \ {p} : toWorker'[q] = toWorker[q]
  <2>1. Tail(toWorker[p]) \in Seq(ToWorker) /\ << >> \in Seq(ToWorker)
    BY <1>1, <1>2, ChannelsType
  <2>2. CASE toWorker' = [toWorker EXCEPT ![p] = Tail(@)]
    BY <1>2, <2>1, <2>2
  <2>3. CASE toWorker' = [toWorker EXCEPT ![p] = << >>]
    BY <1>2, <2>1, <2>3
  <2>. QED
    BY <1>1, <2>2, <2>3
<1>4. /\ boot' \in [Procs -> Nat]
      /\ \A q \in Procs \ {p} : boot'[q] = boot[q]
  <2>1. CASE boot' = boot
    BY <1>2, <2>1
  <2>2. CASE boot' = [boot EXCEPT ![p] = 0]
    BY <1>2, <2>2
  <2>. QED
    BY <1>1, <2>1, <2>2
<1>5. NetworkTypes'
  BY <1>1, <1>2, <1>3, <1>4 DEF NetworkTypes
<1>6. ConnsLinked' /\ TwoAdmitted'
  BY <1>1 DEF Links, ConnsLinked, TwoAdmitted
<1>7. BacklogLinked'
  BY <1>1 DEF Links, BacklogLinked, Peer
<1>8. pc \in Unsent => p \notin linked
  BY <1>1 DEF Links, QuietBefore
<1>9. BacklogFrames'
  <2>1. CASE backlog = << >>
    BY <1>1, <2>1 DEF BacklogFrames
  <2>2. CASE backlog # << >>
    <3>1. pc \in Unsent
      <4>1. pc \notin Acting
        <5>1. Len(backlog) \in Nat \ {0}
          BY <1>2, <2>2, EmptySeq DEF NetworkTypes
        <5>. QED
          BY <5>1 DEF Links, TwoAdmitted
      <4>2. pc # "down"
        <5>1. 1 \in DOMAIN backlog
          BY <2>2, PeerType
        <5>. QED
          BY <5>1 DEF Links, TwoAdmitted, BacklogLinked
      <4>. QED
        BY <1>2, <4>1, <4>2 DEF NetworkTypes, Admitting, Unsent
    <3>2. toCoord' = toCoord
      BY <1>1, <1>8, <3>1
    <3>. QED
      BY <1>1, <3>2, FramesKept DEF Links
  <2>. QED
    BY <2>1, <2>2
<1>10. QuietBefore'
  <2>1. QuietBefore
    BY DEF Links
  <2>2. ASSUME NEW q \in Procs, ~Running(q)' PROVE toWorker'[q] = << >>
    <3>1. boot'[q] = 0
      BY <2>2 DEF Running
    <3>2. CASE q = p
      BY <1>1, <3>1, <3>2
    <3>3. CASE q # p
      <4>1. ~Running(q)
        BY <1>4, <3>1, <3>3 DEF Running
      <4>. QED
        BY <1>3, <2>1, <3>3, <4>1 DEF QuietBefore
    <3>. QED
      BY <3>2, <3>3
  <2>3. ASSUME pc' \in Unsent, NEW q \in linked' PROVE toWorker'[q] = << >>
    <3>1. pc \in Unsent /\ q \in linked /\ q # p
      BY <1>1, <1>8, <2>3
    <3>2. q \in Procs
      BY <1>2, <3>1 DEF NetworkTypes
    <3>. QED
      BY <1>3, <2>1, <3>1, <3>2 DEF QuietBefore
  <2>. QED
    BY <2>2, <2>3 DEF QuietBefore
<1>. QED
  BY <1>5, <1>6, <1>7, <1>9, <1>10 DEF Links

\* A worker dies only after the action of the run is decided and sent.
LEMMA DieKeepsLinks ==
    ASSUME Links, NEW p \in Procs, WorkerDie(p) PROVE Links'
<1>1. /\ pc \notin {"accept", "evidence", "decide", "dispatch"}
      /\ boot' = [boot EXCEPT ![p] = 0]
      /\ toWorker' = [toWorker EXCEPT ![p] = << >>]
      /\ UNCHANGED <<setup, pc, admitted, conns, backlog, linked, starts,
                     toCoord>>
  BY DEF WorkerDie, mainVars
<1>2. /\ toWorker \in [Procs -> Seq(ToWorker)]
      /\ boot \in [Procs -> Nat]
      /\ NetworkTypes
  BY DEF Links, NetworkTypes
<1>3. /\ toWorker' \in [Procs -> Seq(ToWorker)]
      /\ toWorker'[p] = << >>
      /\ \A q \in Procs \ {p} : toWorker'[q] = toWorker[q]
  BY <1>1, <1>2, ChannelsType
<1>4. /\ boot' \in [Procs -> Nat]
      /\ \A q \in Procs \ {p} : boot'[q] = boot[q]
  BY <1>1, <1>2
<1>5. NetworkTypes'
  BY <1>1, <1>2, <1>3, <1>4 DEF NetworkTypes
<1>6. ConnsLinked' /\ TwoAdmitted'
  BY <1>1 DEF Links, ConnsLinked, TwoAdmitted
<1>7. BacklogLinked'
  BY <1>1 DEF Links, BacklogLinked, Peer
<1>8. BacklogFrames'
  BY <1>1, FramesKept DEF Links
<1>9. QuietBefore'
  BY <1>1, <1>3, <1>4 DEF Links, QuietBefore, Running
<1>. QED
  BY <1>5, <1>6, <1>7, <1>8, <1>9 DEF Links

\* Nothing about the network changes.
LEMMA QuietKeepsLinks == ASSUME Links, NetworkQuiet PROVE Links'
<1>1. UNCHANGED <<setup, pc, admitted, conns, backlog, linked, starts, boot,
                  toCoord, toWorker>>
  BY DEF NetworkQuiet
<1>2. NetworkTypes' /\ ConnsLinked' /\ TwoAdmitted'
  BY <1>1 DEF Links, NetworkTypes, ConnsLinked, TwoAdmitted
<1>3. BacklogLinked'
  BY <1>1 DEF Links, BacklogLinked, Peer
<1>4. BacklogFrames'
  BY <1>1, FramesKept DEF Links
<1>5. QuietBefore'
  BY <1>1 DEF Links, QuietBefore, Running
<1>. QED
  BY <1>2, <1>3, <1>4, <1>5 DEF Links

-----------------------------------------------------------------------------
(* The governor of the coordinator and its state file. *)

\* GovernorState: what is in memory and what a file may hold.
GovernorState ==
    [policy : ContentionPolicy, authority : AuthorityContext,
     evidence : UNION { [ids -> Report] : ids \in SUBSET Nat },
     nextEvidenceId : Nat \ {0}, conflicts : Seq(ContentionConflict),
     interventions : Seq(InterventionRecord),
     fairness : [Workloads -> FairnessRecord]]

\* The states that are saved, in part or whole.
Snapshots == {path.snapshot, tmp.snapshot, saver.snapshot} \ {NoSnapshot}

\* The victims of a state's conflicts are workloads.
KnownVictims(m) ==
    \A k \in DOMAIN m.conflicts : m.conflicts[k].victim \in Workloads

\* The places after the action of a run is sent.
Sent == Acting \ {"decide", "dispatch", "send"}

\* Where the run is says how far its intervention is.
Phase ==
    /\ recovered \in Nat
    /\ pc = "down" => Memory = BlankMemory /\ recovered = 0
    /\ pc \in Admitting \cup {"decide"} => Len(interventions) = recovered
    /\ pc \in Acting \ {"decide"} => Len(interventions) = recovered + 1
    /\ admitted > 0 => conflicts # << >>
    /\ pc = "dispatch" => interventions[Current].state = "AUTHORIZED"
    /\ pc \in {"send", "ack"} => interventions[Current].state = "DISPATCHED"
    /\ pc \in Sent \ {"ack"} => interventions[Current].state
                                   \notin {"AUTHORIZED", "DISPATCHED"}
    /\ pc = "ack" => Target # NoProc
    /\ pc = "report" => Victim # NoProc

\* A file holds a state, or nothing, as its name says.
Files ==
    /\ FileTypeOK
    /\ saver = [step |-> saver.step, snapshot |-> saver.snapshot]
    /\ \A m \in Snapshots : m \in GovernorState /\ KnownVictims(m)

\* The types of the whole state, and where the run is.
CInv ==
    /\ TypeOK
    /\ KnownVictims(Memory)
    /\ Links
    /\ Phase
    /\ Files
    /\ RecoveredStayClosed

-----------------------------------------------------------------------------
\* The governor's type is that of the state it saves, and of the rest.
LEMMA MemoryType ==
    /\ TypeOK => Memory \in GovernorState
    /\ Memory \in GovernorState /\ now \in Nat /\ calls \subseteq DOMAIN interventions
       /\ handed \in Seq(Nat) /\ Len(handed) = Len(interventions) => TypeOK
    /\ NoSnapshot \notin GovernorState
<1>1. TypeOK => Memory \in GovernorState
  BY DEF TypeOK, Memory, GovernorState
<1>2. ASSUME Memory \in GovernorState, now \in Nat,
             calls \subseteq DOMAIN interventions,
             handed \in Seq(Nat), Len(handed) = Len(interventions)
      PROVE  TypeOK
  <2>1. /\ policy \in ContentionPolicy /\ authority \in AuthorityContext
        /\ evidence \in UNION { [ids -> Report] : ids \in SUBSET Nat }
        /\ nextEvidenceId \in Nat \ {0}
        /\ conflicts \in Seq(ContentionConflict)
        /\ interventions \in Seq(InterventionRecord)
        /\ fairness \in [Workloads -> FairnessRecord]
    BY <1>2 DEF Memory, GovernorState
  <2>2. DOMAIN evidence \subseteq Nat /\ evidence \in [DOMAIN evidence -> Report]
    BY <2>1
  <2>. QED
    BY <1>2, <2>1, <2>2 DEF TypeOK
<1>3. NoSnapshot \notin GovernorState
  BY DEF NoSnapshot, GovernorState
<1>. QED
  BY <1>1, <1>2, <1>3

\* A governor as constructed.
LEMMA BlankType ==
    /\ BlankMemory \in GovernorState
    /\ BlankMemory.interventions = << >> /\ BlankMemory.conflicts = << >>
    /\ KnownVictims(BlankMemory)
<1>1. DefaultPolicy \in ContentionPolicy
  BY CoordinatorAssumption, InputsAssumption
<1>2. /\ BlankMemory.authority \in AuthorityContext
  BY CoordinatorAssumption, InputsAssumption
<1>3. << >> \in UNION { [ids -> Report] : ids \in SUBSET Nat }
  <2>1. << >> \in [{} -> Report]
    OBVIOUS
  <2>2. [{} -> Report] \in { [ids -> Report] : ids \in SUBSET Nat }
    OBVIOUS
  <2>. QED
    BY <2>1, <2>2
<1>4. /\ << >> \in Seq(ContentionConflict) /\ << >> \in Seq(InterventionRecord)
  BY EmptySeq
<1>5. BlankMemory.fairness \in [Workloads -> FairnessRecord]
  BY DEF BlankMemory, FairnessRecord
<1>6. BlankMemory = [policy |-> DefaultPolicy, authority |-> BlankMemory.authority,
                     evidence |-> << >>, nextEvidenceId |-> 1,
                     conflicts |-> << >>, interventions |-> << >>,
                     fairness |-> BlankMemory.fairness]
  BY DEF BlankMemory
<1>7. BlankMemory \in GovernorState
  <2>. DEFINE a == BlankMemory.authority
              f == BlankMemory.fairness
              b == BlankMemory
  <2>1. b = [policy |-> DefaultPolicy, authority |-> a, evidence |-> << >>,
             nextEvidenceId |-> 1, conflicts |-> << >>,
             interventions |-> << >>, fairness |-> f]
    BY <1>6
  <2>2. a \in AuthorityContext /\ f \in [Workloads -> FairnessRecord]
    BY <1>2, <1>5
  <2>. HIDE DEF a, f, b
  <2>3. b \in GovernorState
    BY <1>1, <1>3, <1>4, <2>1, <2>2 DEF GovernorState
  <2>. QED
    BY <2>3 DEF b
<1>8. BlankMemory.interventions = << >> /\ BlankMemory.conflicts = << >>
  BY DEF BlankMemory
<1>. QED
  BY <1>7, <1>8 DEF KnownVictims

\* A state that is installed becomes the memory of a process that has
\* dispatched nothing.
LEMMA InstallStep ==
    ASSUME NEW m \in GovernorState, Install(m)
    PROVE  /\ Memory' = m
           /\ calls' = {}
           /\ handed' \in Seq(Nat) /\ Len(handed') = Len(m.interventions)
           /\ \A i \in DOMAIN m.interventions : handed'[i] = 0
           /\ now' \in Nat => TypeOK'
<1>1. m.interventions \in Seq(InterventionRecord)
  BY DEF GovernorState
<1>2. m = [policy |-> m.policy, authority |-> m.authority,
           evidence |-> m.evidence, nextEvidenceId |-> m.nextEvidenceId,
           conflicts |-> m.conflicts, interventions |-> m.interventions,
           fairness |-> m.fairness]
  BY DEF GovernorState
<1>3. Memory' = m
  BY <1>2 DEF Memory, Install
<1>4. /\ handed' \in Seq(Nat) /\ Len(handed') = Len(m.interventions)
      /\ \A i \in DOMAIN m.interventions : handed'[i] = 0
  <2>1. handed' = [i \in 1..Len(m.interventions) |-> 0]
    BY <1>1 DEF Install
  <2>2. Len(m.interventions) \in Nat
    BY <1>1
  <2>3. handed' \in [1..Len(m.interventions) -> Nat]
    BY <2>1
  <2>. QED
    BY <1>1, <2>1, <2>2, <2>3, MappedSeq
<1>5. calls' = {} /\ interventions' = m.interventions
  BY DEF Install
<1>6. ASSUME now' \in Nat
      PROVE  TypeOK'
  <2>1. policy' \in ContentionPolicy /\ authority' \in AuthorityContext
    BY DEF Install, GovernorState
  <2>2. DOMAIN evidence' \subseteq Nat /\ evidence' \in [DOMAIN evidence' -> Report]
    BY DEF Install, GovernorState
  <2>3. /\ nextEvidenceId' \in Nat \ {0}
        /\ conflicts' \in Seq(ContentionConflict)
        /\ interventions' \in Seq(InterventionRecord)
        /\ fairness' \in [Workloads -> FairnessRecord]
    BY DEF Install, GovernorState
  <2>. QED
    BY <1>4, <1>5, <1>6, <2>1, <2>2, <2>3 DEF TypeOK
<1>. QED
  BY <1>3, <1>4, <1>5, <1>6

\* The state a resumed run begins with: as much of everything, and nothing that
\* could still be dispatched.
LEMMA RestartedType ==
    ASSUME NEW m \in GovernorState
    PROVE  /\ Restarted(m) \in GovernorState
           /\ Len(Restarted(m).interventions) = Len(m.interventions)
           /\ \A i \in 1..Len(m.interventions) :
                 Restarted(m).interventions[i]
                    = OrphanedIntervention(m.interventions[i])
           /\ Len(Restarted(m).conflicts) = Len(m.conflicts)
           /\ \A k \in 1..Len(m.conflicts) :
                 Restarted(m).conflicts[k] = SuspendedConflict(m.conflicts[k])
           /\ Restarted(m).policy = m.policy
           /\ Restarted(m).authority = [m.authority EXCEPT !.epoch = @ + 1]
           /\ Restarted(m).fairness
                 = [w \in Workloads |-> ForgivenBurden(m.fairness[w])]
           /\ Restarted(m).evidence = [id \in DOMAIN m.evidence |->
                                         SuspendedEvidence(m.evidence[id])]
<1>. DEFINE evs == [id \in DOMAIN m.evidence |-> SuspendedEvidence(m.evidence[id])]
            cs == [k \in DOMAIN m.conflicts |-> SuspendedConflict(m.conflicts[k])]
            ivs == [i \in DOMAIN m.interventions |->
                      OrphanedIntervention(m.interventions[i])]
            fs == [w \in Workloads |-> ForgivenBurden(m.fairness[w])]
            a == [m.authority EXCEPT !.epoch = m.authority.epoch + 1]
<1>1. /\ m.policy \in ContentionPolicy /\ m.authority \in AuthorityContext
      /\ m.nextEvidenceId \in Nat \ {0}
      /\ m.conflicts \in Seq(ContentionConflict)
      /\ m.interventions \in Seq(InterventionRecord)
      /\ m.fairness \in [Workloads -> FairnessRecord]
      /\ DOMAIN m.evidence \subseteq Nat
      /\ m.evidence \in [DOMAIN m.evidence -> Report]
  BY DEF GovernorState
<1>2. Restarted(m) = [policy |-> m.policy, authority |-> a, evidence |-> evs,
                      nextEvidenceId |-> m.nextEvidenceId, conflicts |-> cs,
                      interventions |-> ivs, fairness |-> fs]
  <2>1. m = [policy |-> m.policy, authority |-> m.authority,
             evidence |-> m.evidence, nextEvidenceId |-> m.nextEvidenceId,
             conflicts |-> m.conflicts, interventions |-> m.interventions,
             fairness |-> m.fairness]
    BY DEF GovernorState
  <2>2. Restarted(m) = [m EXCEPT !.authority = a, !.evidence = evs,
                                 !.conflicts = cs, !.interventions = ivs,
                                 !.fairness = fs]
    BY <2>1 DEF Restarted
  <2>. HIDE DEF a, evs, cs, ivs, fs
  <2>. QED
    BY <2>1, <2>2
<1>3. a \in AuthorityContext
  <2>1. m.authority.epoch + 1 \in Nat
    BY <1>1 DEF AuthorityContext
  <2>. QED
    BY <1>1, <2>1 DEF AuthorityContext
<1>4. evs \in UNION { [ids -> Report] : ids \in SUBSET Nat }
  <2>1. ASSUME NEW e \in Report PROVE SuspendedEvidence(e) \in Report
    BY DEF SuspendedEvidence, Report, EvidenceStatus
  <2>2. evs \in [DOMAIN m.evidence -> Report]
    BY <1>1, <2>1
  <2>. QED
    BY <1>1, <2>2
<1>5. cs \in Seq(ContentionConflict) /\ Len(cs) = Len(m.conflicts)
  <2>1. ASSUME NEW c \in ContentionConflict
        PROVE  SuspendedConflict(c) \in ContentionConflict
    BY DEF SuspendedConflict, ContentionConflict, ConflictState
  <2>2. /\ cs \in [1..Len(m.conflicts) -> ContentionConflict]
        /\ Len(m.conflicts) \in Nat
    BY <1>1, <2>1, ElementOfSeq
  <2>. QED
    BY <2>2, MappedSeq
<1>6. ivs \in Seq(InterventionRecord) /\ Len(ivs) = Len(m.interventions)
  <2>1. ASSUME NEW iv \in InterventionRecord
        PROVE  OrphanedIntervention(iv) \in InterventionRecord
    BY DEF OrphanedIntervention, InterventionRecord, LifecycleState
  <2>2. /\ ivs \in [1..Len(m.interventions) -> InterventionRecord]
        /\ Len(m.interventions) \in Nat
    BY <1>1, <2>1, ElementOfSeq
  <2>. QED
    BY <2>2, MappedSeq
<1>7. fs \in [Workloads -> FairnessRecord]
  BY <1>1 DEF ForgivenBurden, FairnessRecord
<1>8. Restarted(m) \in GovernorState
  BY <1>1, <1>2, <1>3, <1>4, <1>5, <1>6, <1>7 DEF GovernorState
<1>9. /\ \A i \in 1..Len(m.interventions) :
            ivs[i] = OrphanedIntervention(m.interventions[i])
      /\ \A k \in 1..Len(m.conflicts) : cs[k] = SuspendedConflict(m.conflicts[k])
  BY <1>1
<1>. QED
  BY <1>2, <1>5, <1>6, <1>8, <1>9

-----------------------------------------------------------------------------
(* What the coordinator acts on. *)

\* The intervention of this run is on record, after the ones that were loaded.
LEMMA CurrentType ==
    ASSUME TypeOK, Links, Phase, pc \in Acting \ {"decide"}
    PROVE  /\ Current \in DOMAIN interventions /\ Current \in Nat
           /\ DOMAIN interventions = 1..Len(interventions)
           /\ Current = recovered + 1
           /\ recovered \in Nat
           /\ interventions[Current] \in InterventionRecord
           /\ Target \in Procs \cup {NoProc}
           /\ Target # NoProc => Target \in Procs /\ Target \in linked
           /\ Action(Current) \in ToWorker
<1>1. /\ interventions \in Seq(InterventionRecord)
      /\ Len(interventions) = recovered + 1
  BY DEF TypeOK, Phase
<1>2. /\ recovered \in Nat /\ Len(interventions) \in Nat
      /\ DOMAIN interventions = 1..Len(interventions)
  BY <1>1 DEF Phase
<1>3. /\ Current \in DOMAIN interventions /\ Current \in Nat
      /\ Current = recovered + 1
  BY <1>1, <1>2 DEF Current
<1>4. interventions[Current] \in InterventionRecord
  BY <1>1, <1>3
<1>5. /\ interventions[Current].target \in Workloads
      /\ interventions[Current].fence \in Fence
      /\ interventions[Current].authorizedAt \in Nat
  BY <1>4 DEF InterventionRecord
<1>6. /\ Target \in Procs \cup {NoProc}
      /\ Target # NoProc => Target \in Procs /\ Target \in linked
  BY <1>5 DEF Target, Links, NetworkTypes, ConnsLinked
<1>7. Action(Current) \in ToWorker
  BY <1>3, <1>5 DEF Action, ToWorker
<1>. QED
  BY <1>2, <1>3, <1>4, <1>6, <1>7

\* The workers reported one of them as the victim.
LEMMA VictimType ==
    ASSUME TypeOK, KnownVictims(Memory), Links, Phase, pc \in Acting
    PROVE  /\ 1 \in DOMAIN conflicts
           /\ Victim \in Procs \cup {NoProc}
           /\ Victim # NoProc => Victim \in Procs /\ Victim \in linked
<1>1. conflicts \in Seq(ContentionConflict) /\ conflicts # << >>
  BY DEF TypeOK, Links, TwoAdmitted, Phase
<1>2. 1 \in DOMAIN conflicts
  BY <1>1
<1>3. conflicts[1].victim \in Workloads
  BY <1>2 DEF KnownVictims, Memory
<1>. QED
  BY <1>2, <1>3 DEF Victim, Links, NetworkTypes, ConnsLinked

\* What the step of the coordinator or of a worker does to the network.
LEMMA NetworkSorts ==
    ASSUME TypeOK, KnownVictims(Memory), Links, Phase,
           [CoordinatorNext]_coordinatorVars
    PROVE  \/ NetworkQuiet \/ Begins \/ Ends \/ Acts
           \/ AdmitHello \/ AdmitReport
           \/ \E w \in Workloads : WorkerStart(w)
           \/ \E p \in Procs : Works(p) \/ WorkerDie(p)
<1>1. CASE UNCHANGED coordinatorVars
  BY <1>1 DEF coordinatorVars, mainVars, workVars, NetworkQuiet
<1>2. CASE \E delta \in Advances : TimePasses(delta)
  BY <1>2 DEF TimePasses, mainVars, workVars, NetworkQuiet
<1>3. CASE (\E m \in Modes : Begin(m)) \/ BeginResumed
  BY <1>3 DEF Begin, BeginResumed, StartRun, workVars, Begins
<1>4. CASE Gone /\ boot' = BootAfterClosing(linked) /\ toWorker' = toWorker
  BY <1>4 DEF Gone, Ends
<1>5. CASE Exit \/ Crash \/ PowerFailure
  BY <1>4, <1>5 DEF Exit, Crash, PowerFailure, Gone, Ends
<1>6. CASE AdmitFails \/ NoLegal \/ Unpark \/ Finish
  BY <1>5, <1>6 DEF AdmitFails, NoLegal, Unpark, Finish
<1>7. CASE Redispatch
  <2>1. interventions[Current].state # "AUTHORIZED"
    BY <1>7 DEF Redispatch, Phase, Sent, Acting
  <2>. QED
    BY <1>5, <1>7, <2>1 DEF Redispatch
<1>8. CASE Decide \/ Dispatch \/ Save \/ Saving
  BY <1>8
     DEF Decide, Dispatch, Save, Saving, MainUnchanged, linkVars, workVars,
         Acts, Acting, Unsent
<1>9. CASE NoWorker \/ SendFails
  BY <1>9
     DEF NoWorker, SendFails, AnswerWith, workVars, Acts, Acting, Unsent
<1>10. CASE SendAction
  <2>1. Target \in Procs /\ Action(Current) \in ToWorker
    BY <1>10, CurrentType DEF SendAction, Acting
  <2>. QED
    BY <1>10, <2>1 DEF SendAction, workVars, Acts, Acting, Unsent
<1>11. CASE ReceiveAck \/ NoAck
  <2>1. pc = "ack" /\ pc' = "answered"
        /\ UNCHANGED <<workVars, backlog, linked, toWorker, admitted, conns>>
        /\ (ReceiveAck => Arrived(Target) /\ toCoord' = Taken(Target))
        /\ (NoAck => toCoord' = toCoord)
    BY <1>11 DEF ReceiveAck, NoAck, AnswerWith
  <2>2. Target \in Procs \cup {NoProc}
    BY <2>1, CurrentType DEF Acting
  <2>3. CASE Target \in Procs
    BY <1>11, <2>1, <2>3 DEF workVars, Acts, Acting, Unsent
  <2>4. CASE Target \notin Procs
    <3>1. Taken(Target) = toCoord
      BY <2>4 DEF Taken, Links, NetworkTypes
    <3>. QED
      BY <1>11, <2>1, <3>1 DEF workVars, Acts, Acting, Unsent
  <2>. QED
    BY <2>3, <2>4
<1>12. CASE Discard
  <2>1. /\ pc = "parked" /\ pc' = "parked"
        /\ Arrived(FirstConnection) /\ toCoord' = Taken(FirstConnection)
        /\ UNCHANGED <<workVars, backlog, linked, toWorker, admitted, conns>>
    BY <1>12 DEF Discard, mainVars
  <2>2. CASE FirstConnection \in Procs
    BY <2>1, <2>2 DEF workVars, Acts, Acting, Unsent
  <2>3. CASE FirstConnection \notin Procs
    <3>1. Taken(FirstConnection) = toCoord
      BY <2>3 DEF Taken, Links, NetworkTypes
    <3>. QED
      BY <2>1, <3>1 DEF workVars, Acts, Acting, Unsent
  <2>. QED
    BY <2>2, <2>3
<1>13. CASE RequestReport
  <2>1. Victim \in Procs
    BY <1>13, VictimType DEF RequestReport, Acting
  <2>2. Request \in ToWorker
    BY DEF Request, ToWorker
  <2>. QED
    BY <1>13, <2>1, <2>2 DEF RequestReport, workVars, Acts, Acting, Unsent
<1>14. CASE ReceiveReport
  <2>1. /\ pc = "report" /\ pc' = "done"
        /\ Arrived(Victim) /\ toCoord' = Taken(Victim)
        /\ UNCHANGED <<workVars, backlog, linked, toWorker, admitted, conns>>
    BY <1>14 DEF ReceiveReport
  <2>2. Victim \in Procs \cup {NoProc}
    BY <2>1, VictimType DEF Acting
  <2>3. CASE Victim \in Procs
    BY <2>1, <2>3 DEF workVars, Acts, Acting, Unsent
  <2>4. CASE Victim \notin Procs
    <3>1. Taken(Victim) = toCoord
      BY <2>4 DEF Taken, Links, NetworkTypes
    <3>. QED
      BY <2>1, <3>1 DEF workVars, Acts, Acting, Unsent
  <2>. QED
    BY <2>3, <2>4
<1>. QED
  BY <1>1, <1>2, <1>3, <1>5, <1>6, <1>7, <1>8, <1>9, <1>10, <1>11, <1>12,
     <1>13, <1>14
     DEF CoordinatorNext, ProcessStep, CoordinatorStep, WorkerStep, Works

\* The network keeps its types and its order.
LEMMA LinksStep ==
    ASSUME TypeOK, KnownVictims(Memory), Links, Phase,
           [CoordinatorNext]_coordinatorVars
    PROVE  Links'
  BY NetworkSorts, QuietKeepsLinks, BeginsKeepsLinks, EndsKeepsLinks,
     ActsKeepsLinks, HelloKeepsLinks, ReportKeepsLinks, StartKeepsLinks,
     WorksKeepsLinks, DieKeepsLinks

-----------------------------------------------------------------------------
(* The state file. *)

\* What a step does to the files.
LEMMA FilesChange ==
    ASSUME [CoordinatorNext]_coordinatorVars
    PROVE  \/ UNCHANGED fileVars
           \/ SaveStep
           \/ Save /\ SaveOpen(Memory)
           \/ FilesAfterCrash
           \/ FilesAfterPowerFailure
<1>1. CASE \/ AdmitHello \/ AdmitReport \/ Decide \/ Dispatch
           \/ NoWorker \/ SendFails \/ SendAction \/ ReceiveAck \/ NoAck
           \/ Discard \/ RequestReport \/ ReceiveReport
  BY <1>1
     DEF AdmitHello, AdmitReport, Decide, Dispatch, NoWorker, SendFails,
         SendAction, ReceiveAck, NoAck, AnswerWith, Discard, RequestReport,
         ReceiveReport
<1>2. CASE AdmitFails \/ NoLegal \/ Unpark \/ Finish \/ Redispatch
  BY <1>2 DEF AdmitFails, NoLegal, Unpark, Finish, Redispatch, Exit
<1>3. CASE Save \/ Saving
  BY <1>3 DEF Save, Saving
<1>4. CASE \E p \in Procs : WorkerStep(p) \/ WorkerDie(p)
  BY <1>4 DEF WorkerStep, WorkerAct, WorkerMeasure, WorkerDie, Serves
<1>5. CASE \E w \in Workloads : WorkerStart(w)
  BY <1>5 DEF WorkerStart
<1>6. CASE (\E m \in Modes : Begin(m)) \/ BeginResumed
  BY <1>6 DEF Begin, BeginResumed, StartRun
<1>7. CASE Crash \/ PowerFailure
  BY <1>7 DEF Crash, PowerFailure
<1>8. CASE \E delta \in Advances : TimePasses(delta)
  BY <1>8 DEF TimePasses
<1>9. CASE UNCHANGED coordinatorVars
  BY <1>9 DEF coordinatorVars
<1>. QED
  BY <1>1, <1>2, <1>3, <1>4, <1>5, <1>6, <1>7, <1>8, <1>9
     DEF CoordinatorNext, ProcessStep, CoordinatorStep

\* A step keeps files that hold what their names say, and saves nothing but
\* the memory.
LEMMA FilesStep ==
    ASSUME TypeOK, KnownVictims(Memory), Files, [CoordinatorNext]_coordinatorVars
    PROVE  /\ Files'
           /\ \/ Snapshots' \subseteq Snapshots
              \/ Save /\ Snapshots' \subseteq Snapshots \cup {Memory}
<1>1. /\ Memory \in GovernorState /\ Memory # NoSnapshot
  BY MemoryType
<1>2. /\ saver = [step |-> saver.step, snapshot |-> saver.snapshot]
      /\ platform \in Platforms
      /\ \A f \in {path, tmp} :
            /\ f.state \in {"absent", "torn", "complete"}
            /\ f.state \in {"absent", "torn"} <=> f.snapshot = NoSnapshot
      /\ saver.step \in {"idle", "opened", "written", "removed"}
      /\ saver.step = "idle" <=> saver.snapshot = NoSnapshot
      /\ \A m \in Snapshots : m \in GovernorState /\ KnownVictims(m)
  BY DEF Files, FileTypeOK
<1>3. /\ Absent.state = "absent" /\ Absent.snapshot = NoSnapshot
      /\ Torn.state = "torn" /\ Torn.snapshot = NoSnapshot
      /\ \A s : Complete(s).state = "complete" /\ Complete(s).snapshot = s
      /\ Idle = [step |-> "idle", snapshot |-> NoSnapshot]
      /\ \A step : At(step) = [step |-> step, snapshot |-> saver.snapshot]
  BY <1>2 DEF Absent, Torn, Complete, Idle, At
<1>4. ASSUME platform' = platform,
             path' \in {path, tmp, Absent, Torn},
             tmp' \in {tmp, Absent, Torn},
             saver' \in {saver, Idle} \/ \E s \in {"opened", "written", "removed"} :
                saver.step # "idle"
                /\ saver' = [step |-> s, snapshot |-> saver.snapshot]
      PROVE  Files' /\ Snapshots' \subseteq Snapshots
  <2>1. saver' = [step |-> saver'.step, snapshot |-> saver'.snapshot]
    BY <1>2, <1>3, <1>4
  <2>2. /\ saver'.step \in {"idle", "opened", "written", "removed"}
        /\ saver'.step = "idle" <=> saver'.snapshot = NoSnapshot
        /\ saver'.snapshot \in {saver.snapshot, NoSnapshot}
    BY <1>2, <1>3, <1>4
  <2>3. \A f \in {path', tmp'} :
           /\ f.state \in {"absent", "torn", "complete"}
           /\ f.state \in {"absent", "torn"} <=> f.snapshot = NoSnapshot
           /\ f.snapshot \in {path.snapshot, tmp.snapshot, NoSnapshot}
    BY <1>2, <1>3, <1>4
  <2>4. Snapshots' \subseteq Snapshots
    BY <2>2, <2>3 DEF Snapshots
  <2>. QED
    BY <1>2, <1>4, <2>1, <2>2, <2>3, <2>4
       DEF Files, FileTypeOK, KnownVictims
<1>5. CASE UNCHANGED fileVars
  BY <1>4, <1>5 DEF fileVars
<1>6. CASE SaveStep
  <2>1. CASE SaveWrite
    <3>1. /\ saver.step = "opened" /\ platform' = platform /\ path' = path
          /\ tmp' = Complete(saver.snapshot)
          /\ saver' = [step |-> "written", snapshot |-> saver.snapshot]
      BY <1>3, <2>1 DEF SaveWrite
    <3>2. /\ tmp'.state = "complete" /\ tmp'.snapshot = saver.snapshot
          /\ saver'.step = "written" /\ saver'.snapshot = saver.snapshot
          /\ saver.snapshot # NoSnapshot
      BY <1>2, <1>3, <3>1
    <3>3. Snapshots' \subseteq Snapshots
      BY <3>1, <3>2 DEF Snapshots
    <3>4. FileTypeOK'
      BY <1>2, <3>1, <3>2 DEF FileTypeOK
    <3>. QED
      BY <1>2, <3>1, <3>2, <3>3, <3>4 DEF Files
  <2>2. CASE SaveWriteFails \/ SaveRenameFails
    BY <1>4, <2>2 DEF SaveWriteFails, SaveRenameFails
  <2>3. CASE SaveRemove
    BY <1>3, <1>4, <2>3 DEF SaveRemove
  <2>4. CASE SaveRename
    BY <1>4, <2>4 DEF SaveRename
  <2>. QED
    BY <1>6, <2>1, <2>2, <2>3, <2>4 DEF SaveStep
<1>7. CASE Save /\ SaveOpen(Memory)
  <2>1. /\ platform' = platform /\ path' = path /\ tmp' = Torn
        /\ saver' = [step |-> "opened", snapshot |-> Memory]
    BY <1>7 DEF SaveOpen
  <2>2. Snapshots' \subseteq Snapshots \cup {Memory}
    BY <1>3, <2>1 DEF Snapshots
  <2>3. FileTypeOK'
    BY <1>1, <1>2, <1>3, <2>1 DEF FileTypeOK
  <2>. QED
    BY <1>1, <1>2, <1>7, <2>1, <2>2, <2>3 DEF Files
<1>8. CASE FilesAfterCrash
  BY <1>4, <1>8 DEF FilesAfterCrash
<1>9. CASE FilesAfterPowerFailure
  BY <1>4, <1>9 DEF FilesAfterPowerFailure, AfterPowerFailure
<1>. QED
  BY <1>5, <1>6, <1>7, <1>8, <1>9, FilesChange

-----------------------------------------------------------------------------
(* What a step does to the governor, sorted. *)

\* Nothing: a run begins with an empty governor, or goes on without it.
GoesOn ==
    /\ UNCHANGED <<vars, recovered, admitted, conns>>
    /\ \/ pc' = pc
       \/ pc = "down" /\ pc' = "accept"
       \/ pc = "send" /\ pc' = "ack" /\ Target # NoProc
       \/ pc = "answered" /\ pc' = "report" /\ Victim # NoProc
       \/ /\ pc \in {"answered", "saving", "report"}
          /\ pc' \in {"saving", "parked", "done"}

\* The process is gone.
Blanks ==
    /\ pc' = "down" /\ recovered' = 0 /\ admitted' = 0
    /\ Install(BlankMemory)
    /\ now' \in {now, StartTime}

\* The report or the measurement of a worker reaches the governor.
Reported(r) ==
    /\ pc = "report" /\ pc' = "done"
    /\ UNCHANGED <<recovered, admitted, conns>>
    /\ Verify(r) \/ ObserveOnly(r)

\* The adapter answers; it accepts only what a frame acknowledged.
Concludes ==
    /\ pc \in {"send", "ack"} /\ pc' = "answered"
    /\ UNCHANGED <<recovered, admitted>>
    /\ UNCHANGED conns
    /\ \E o \in AdapterOutcome :
          /\ DispatchEnd(Current, o)
          /\ o = "ACCEPTED" => /\ pc = "ack" /\ Arrived(Target)
                               /\ Received(Target).type = "ACTION_ACK"
          /\ o \in {"REJECTED", "UNAVAILABLE"} => pc = "send"

\* Time passes.
Waits ==
    /\ pc = "down" /\ pc' = pc /\ UNCHANGED <<recovered, admitted, conns>>
    /\ \E delta \in Advances : Tick(delta)

\* The steps that neither begin nor end a run, admit a worker, authorize, send
\* or save.
Ordinary ==
    \/ UNCHANGED coordinatorVars
    \/ \E delta \in Advances : TimePasses(delta)
    \/ \E m \in Modes : Begin(m)
    \/ NoWorker \/ SendFails \/ ReceiveAck \/ NoAck
    \/ Discard \/ Saving \/ RequestReport \/ ReceiveReport

\* What the process takes and gives is no part of it: a worker at work.
AtWork ==
    \/ \E p \in Procs : WorkerStep(p) \/ WorkerDie(p)
    \/ \E w \in Workloads : WorkerStart(w)

\* Each ordinary step is one of the four sorts.
LEMMA OrdinarySorts ==
    ASSUME TypeOK, KnownVictims(Memory), Links, Phase,
           Ordinary \/ SendAction \/ Save \/ AtWork
    PROVE  GoesOn \/ Concludes \/ Waits \/ \E r \in Report : Reported(r)
<1>1. CASE UNCHANGED coordinatorVars
  BY <1>1 DEF coordinatorVars, mainVars, runVars, GoesOn
<1>2. CASE \E delta \in Advances : TimePasses(delta)
  BY <1>2 DEF TimePasses, mainVars, runVars, Waits
<1>3. CASE \E m \in Modes : Begin(m)
  BY <1>3 DEF Begin, StartRun, memoryVars, vars, GoesOn
<1>7. CASE NoWorker \/ SendFails \/ ReceiveAck \/ NoAck
  <2>1. PICK o \in AdapterOutcome :
           /\ AnswerWith(o)
           /\ o = "ACCEPTED" => /\ pc = "ack" /\ Arrived(Target)
                                /\ Received(Target).type = "ACTION_ACK"
           /\ o \in {"REJECTED", "UNAVAILABLE"} => pc = "send"
    <3>1. CASE NoWorker \/ SendFails
      BY <3>1 DEF NoWorker, SendFails, AdapterOutcome
    <3>2. CASE ReceiveAck
      <4>1. /\ AnswerWith(DecodedAck(Received(Target)))
            /\ pc = "ack" /\ Arrived(Target)
        BY <3>2 DEF ReceiveAck
      <4>2. /\ DecodedAck(Received(Target)) \in {"ACCEPTED", "UNKNOWN"}
            /\ DecodedAck(Received(Target)) = "ACCEPTED"
                  => Received(Target).type = "ACTION_ACK"
        BY DEF DecodedAck
      <4>. QED
        BY <4>1, <4>2 DEF AdapterOutcome
    <3>3. CASE NoAck
      BY <3>3 DEF NoAck, NoAckOutcome, AdapterOutcome
    <3>. QED
      BY <1>7, <3>1, <3>2, <3>3
  <2>2. pc \in {"send", "ack"}
    BY <1>7 DEF NoWorker, SendFails, ReceiveAck, NoAck
  <2>3. DispatchEnd(Current, o) /\ pc' = "answered"
        /\ UNCHANGED <<recovered, admitted, conns>>
    BY <2>1 DEF AnswerWith, runVars
  <2>. QED
    BY <2>1, <2>2, <2>3 DEF Concludes
<1>8. CASE SendAction \/ Discard \/ Save \/ Saving \/ RequestReport
  BY <1>8
     DEF SendAction, Discard, Save, Saving, RequestReport, MainUnchanged,
         mainVars, runVars, GoesOn
<1>9. CASE ReceiveReport
  <2>1. /\ pc = "report" /\ pc' = "done"
        /\ Arrived(Victim)
        /\ UNCHANGED <<recovered, admitted, conns>>
        /\ IF Received(Victim).type = "EVIDENCE"
           THEN SubmitPost(Received(Victim).report)
           ELSE UNCHANGED vars
    BY <1>9 DEF ReceiveReport, runVars
  <2>2. CASE Received(Victim).type # "EVIDENCE"
    BY <2>1, <2>2 DEF GoesOn
  <2>3. CASE Received(Victim).type = "EVIDENCE"
    <3>2. Received(Victim).report \in Report
      <4>1. Victim \in Procs
        BY <2>1, VictimType DEF Phase, Acting
      <4>2. Received(Victim) \in FromWorker
        BY <2>1, <4>1, TakenType DEF Links
      <4>. QED
        BY <2>3, <4>2 DEF FromWorker
    <3>. QED
      BY <2>1, <2>3, <3>2 DEF SubmitPost, Reported
  <2>. QED
    BY <2>2, <2>3
<1>10. CASE \E p \in Procs : WorkerStep(p) \/ WorkerDie(p)
  BY <1>10
     DEF WorkerStep, WorkerAct, WorkerMeasure, WorkerDie, Serves, mainVars,
         runVars, GoesOn
<1>11. CASE \E w \in Workloads : WorkerStart(w)
  BY <1>11 DEF WorkerStart, mainVars, runVars, GoesOn
<1>. QED
  BY <1>1, <1>2, <1>3, <1>7, <1>8, <1>9, <1>10, <1>11 DEF Ordinary, AtWork

\* What ends a run.
Ending == \/ Exit \/ Crash \/ PowerFailure
          \/ AdmitFails \/ NoLegal \/ Unpark \/ Finish \/ Redispatch

\* What ends a run is a return, a kill or a power failure: an intervention is
\* never dispatched a second time.
LEMMA EndingSorts ==
    ASSUME Phase, Ending PROVE Exit \/ Crash \/ PowerFailure
<1>1. CASE Redispatch
  <2>1. interventions[Current].state # "AUTHORIZED"
    BY <1>1 DEF Redispatch, Phase, Sent, Acting
  <2>. QED
    BY <1>1, <2>1 DEF Redispatch
<1>. QED
  BY <1>1 DEF Ending, AdmitFails, NoLegal, Unpark, Finish

\* Every step has a name.
LEMMA StepSorts ==
    ASSUME [CoordinatorNext]_coordinatorVars
    PROVE  \/ Ordinary \/ Ending \/ SendAction \/ Save \/ AtWork
           \/ BeginResumed \/ AdmitHello \/ AdmitReport \/ Decide \/ Dispatch
  BY DEF CoordinatorNext, ProcessStep, CoordinatorStep, Ordinary, Ending, AtWork

\* Every step does one of these to the governor.
LEMMA MemorySorts ==
    ASSUME TypeOK, KnownVictims(Memory), Links, Phase,
           [CoordinatorNext]_coordinatorVars
    PROVE  \/ GoesOn \/ Blanks \/ BeginResumed \/ AdmitHello \/ AdmitReport
           \/ Decide \/ Dispatch \/ Concludes \/ Waits
           \/ \E r \in Report : Reported(r)
<1>1. CASE Ending
  BY <1>1, EndingSorts DEF Exit, Crash, PowerFailure, Gone, Blanks
<1>. QED
  BY <1>1, StepSorts, OrdinarySorts

-----------------------------------------------------------------------------
(* What a step makes of the governor. *)

\* The governor's part of the invariant.
Recorded ==
    /\ TypeOK
    /\ \A k \in DOMAIN conflicts : conflicts[k].victim \in Workloads
    /\ Phase
    /\ RecoveredStayClosed

\* What the lemmas before this one say of the victims is in the memory.
LEMMA KnownInMemory ==
    /\ KnownVictims(Memory)
         <=> \A k \in DOMAIN conflicts : conflicts[k].victim \in Workloads
    /\ KnownVictims(Memory)'
         <=> \A k \in DOMAIN conflicts' : conflicts'[k].victim \in Workloads
  BY DEF KnownVictims, Memory

\* Closed interventions stay closed that a step leaves alone.
LEMMA ClosedKept ==
    ASSUME RecoveredStayClosed, recovered' = recovered,
           \A i \in 1..recovered : /\ handed'[i] = handed[i]
                                   /\ interventions'[i].state
                                        = interventions[i].state
    PROVE  RecoveredStayClosed'
  BY DEF RecoveredStayClosed

\* A conflict that is updated keeps its victim.
LEMMA VictimsKept ==
    ASSUME TypeOK, NEW k \in DOMAIN conflicts, NEW c \in ContentionConflict,
           conflicts' = [conflicts EXCEPT ![k] = c],
           c.victim = conflicts[k].victim,
           \A j \in DOMAIN conflicts : conflicts[j].victim \in Workloads
    PROVE  /\ \A j \in DOMAIN conflicts' : conflicts'[j].victim \in Workloads
           /\ Len(conflicts') = Len(conflicts)
           /\ conflicts' # << >>
<1>1. conflicts \in Seq(ContentionConflict)
  BY DEF TypeOK
<1>2. /\ Len(conflicts') = Len(conflicts) /\ DOMAIN conflicts' = DOMAIN conflicts
      /\ conflicts'[k] = c
      /\ \A j \in DOMAIN conflicts \ {k} : conflicts'[j] = conflicts[j]
  BY <1>1
<1>. QED
  BY <1>2

\* A step that the governor does not see.
LEMMA GoesOnKeeps ==
    ASSUME Recorded, Links, GoesOn PROVE Recorded'
<1>1. TypeOK'
  BY DEF Recorded, GoesOn, TypeOK, vars
<1>2. UNCHANGED <<Memory, interventions, handed, conflicts, conns, recovered,
                  admitted, Target, Victim, Current>>
  BY DEF GoesOn, vars, Memory, Target, Victim, Current
<1>3. pc = "down" => admitted = 0
  BY DEF Links, TwoAdmitted
<1>4. pc = "down" => Len(interventions) = 0 /\ recovered = 0
  BY BlankType DEF Recorded, Phase, Memory
<1>5. Phase'
  <2>1. CASE pc' = pc
    BY <1>2, <2>1 DEF Recorded, Phase
  <2>2. CASE pc = "down" /\ pc' = "accept"
    BY <1>2, <1>4, <2>2 DEF Recorded, Phase, Admitting, Acting, Sent
  <2>3. CASE pc = "send" /\ pc' = "ack" /\ Target # NoProc
    BY <1>2, <2>3 DEF Recorded, Phase, Admitting, Acting, Sent
  <2>4. CASE pc = "answered" /\ pc' = "report" /\ Victim # NoProc
    BY <1>2, <2>4 DEF Recorded, Phase, Admitting, Acting, Sent
  <2>5. CASE /\ pc \in {"answered", "saving", "report"}
             /\ pc' \in {"saving", "parked", "done"}
    BY <1>2, <2>5 DEF Recorded, Phase, Admitting, Acting, Sent
  <2>. QED
    BY <2>1, <2>2, <2>3, <2>4, <2>5 DEF GoesOn
<1>6. RecoveredStayClosed'
  BY <1>2, ClosedKept DEF Recorded
<1>. QED
  BY <1>1, <1>2, <1>5, <1>6 DEF Recorded

\* The end of a run.
LEMMA BlanksKeeps ==
    ASSUME Recorded, Blanks PROVE Recorded'
<1>1. now' \in Nat
  BY InputsAssumption DEF Blanks, Recorded, TypeOK
<1>2. TypeOK' /\ Memory' = BlankMemory
  BY <1>1, BlankType, InstallStep DEF Blanks
<1>3. conflicts' = << >> /\ interventions' = << >>
  BY BlankType DEF Blanks, Install
<1>4. Phase'
  BY <1>2, <1>3 DEF Blanks, Phase, Admitting, Acting, Sent
<1>5. RecoveredStayClosed'
  BY DEF Blanks, RecoveredStayClosed
<1>. QED
  BY <1>2, <1>3, <1>4, <1>5 DEF Recorded

\* What is resumed was saved, and is closed.
LEMMA ResumedStep ==
    ASSUME Files, Links, BeginResumed
    PROVE  /\ pc = "down" /\ pc' = "accept" /\ admitted' = 0
           /\ path.snapshot \in Snapshots
           /\ path.snapshot \in GovernorState
           /\ Restarted(path.snapshot) \in GovernorState
           /\ Install(Restarted(path.snapshot))
           /\ Memory' = Restarted(path.snapshot)
           /\ now' = now
           /\ recovered' = Len(path.snapshot.interventions)
           /\ recovered' = Len(interventions')
<1>1. /\ pc = "down" /\ pc' = "accept" /\ admitted' = admitted /\ now' = now
      /\ Install(Restarted(path.snapshot))
      /\ path.snapshot # NoSnapshot
      /\ recovered' = Len(interventions')
  BY DEF BeginResumed, StartRun, Resume, Loadable, Content
<1>2. path.snapshot \in Snapshots /\ path.snapshot \in GovernorState
  BY <1>1 DEF Files, Snapshots
<1>3. admitted = 0
  BY <1>1 DEF Links, TwoAdmitted
<1>. QED
  BY <1>1, <1>2, <1>3, RestartedType, InstallStep DEF Install

\* A run that resumes: everything on record is closed.
LEMMA ResumesKeeps ==
    ASSUME Recorded, Files, Links, BeginResumed PROVE Recorded'
<1>. DEFINE m == path.snapshot
<1>1. /\ m \in GovernorState /\ m \in Snapshots
      /\ Memory' = Restarted(m) /\ recovered' = Len(m.interventions)
      /\ recovered' = Len(interventions')
      /\ pc' = "accept" /\ admitted' = 0
  BY ResumedStep
<1>2. now' \in Nat
  BY ResumedStep DEF Recorded, TypeOK
<1>3. TypeOK' /\ \A i \in DOMAIN Restarted(m).interventions : handed'[i] = 0
  BY <1>1, <1>2, ResumedStep, InstallStep
<1>4. /\ conflicts' = Restarted(m).conflicts
      /\ interventions' = Restarted(m).interventions
  BY <1>1 DEF Memory
<1>5. /\ m.interventions \in Seq(InterventionRecord)
      /\ m.conflicts \in Seq(ContentionConflict)
      /\ conflicts' \in Seq(ContentionConflict)
      /\ interventions' \in Seq(InterventionRecord)
  BY <1>1, <1>3 DEF GovernorState, TypeOK
<1>9. /\ DOMAIN conflicts' = 1..Len(m.conflicts)
      /\ DOMAIN m.conflicts = 1..Len(m.conflicts)
      /\ DOMAIN m.interventions = 1..Len(m.interventions)
      /\ DOMAIN interventions' = 1..Len(m.interventions)
  <2>1. /\ Len(conflicts') = Len(m.conflicts)
        /\ Len(interventions') = Len(m.interventions)
    BY <1>1, <1>4, RestartedType
  <2>. QED
    BY <1>5, <2>1
<1>6. \A k \in DOMAIN conflicts' : conflicts'[k].victim \in Workloads
  <2>1. ASSUME NEW k \in DOMAIN conflicts'
        PROVE  conflicts'[k].victim \in Workloads
    <3>1. k \in 1..Len(m.conflicts) /\ k \in DOMAIN m.conflicts
      BY <1>9
    <3>2. conflicts'[k] = SuspendedConflict(m.conflicts[k])
      BY <1>1, <1>4, <3>1, RestartedType
    <3>3. m.conflicts[k] \in ContentionConflict
      BY <1>5, <3>1
    <3>4. m.conflicts[k].victim \in Workloads
      BY <1>1, <3>1 DEF Files, KnownVictims
    <3>. QED
      BY <3>2, <3>3, <3>4 DEF SuspendedConflict, ContentionConflict
  <2>. QED
    BY <2>1
<1>7. Phase'
  <2>1. Len(m.interventions) \in Nat
    BY <1>5
  <2>. QED
    BY <1>1, <2>1 DEF Phase, Admitting, Acting, Sent
<1>8. RecoveredStayClosed'
  <2>1. ASSUME NEW i \in 1..Len(m.interventions)
        PROVE  /\ handed'[i] = 0
               /\ interventions'[i].state \in Terminal \cup {"OUTCOME_UNKNOWN"}
    <3>1. i \in DOMAIN m.interventions /\ i \in DOMAIN interventions'
      BY <1>9
    <3>2. m.interventions[i] \in InterventionRecord
      BY <1>5, <3>1
    <3>3. interventions'[i] = OrphanedIntervention(m.interventions[i])
      BY <1>1, <1>4, RestartedType
    <3>. QED
      BY <1>3, <1>4, <3>1, <3>2, <3>3
         DEF OrphanedIntervention, InterventionRecord, LifecycleState, Terminal
  <2>. QED
    BY <1>1, <2>1 DEF RecoveredStayClosed
<1>. QED
  BY <1>3, <1>6, <1>7, <1>8 DEF Recorded

\* The hello and the report that are admitted come from the workers.
LEMMA HelloFrame ==
    ASSUME Links, pc = "accept", backlog # << >>, Arrived(Peer)
    PROVE  /\ Peer \in Procs /\ WorkerOf[Peer] \in Workloads
           /\ Received(Peer).boot \in Nat
           /\ Received(Peer) = Hello(Received(Peer).boot)
<1>1. Peer \in Procs /\ Peer = backlog[1] /\ 1 \in DOMAIN backlog
  BY PeerType
<1>2. Announced(Peer)
  BY <1>1 DEF Links, BacklogFrames
<1>3. PICK b \in Nat : toCoord[Peer] \in {<<Hello(b)>>,
                                    <<Hello(b), Evidence(WorkerOf[Peer])>>}
  BY <1>2 DEF Announced
<1>4. Received(Peer) = Hello(b)
  BY <1>3 DEF Received
<1>5. Received(Peer).boot = b
  BY <1>4 DEF Hello
<1>. QED
  BY <1>1, <1>4, <1>5, WorkerOfType

\* What is taken as a report is the report of the worker that was admitted.
LEMMA ReportFrame ==
    ASSUME Links, AdmitReport
    PROVE  /\ Peer \in Procs
           /\ Received(Peer) = Evidence(WorkerOf[Peer])
           /\ Received(Peer).report \in Report
           /\ Received(Peer).report.victim \in Workloads
<1>1. pc = "evidence" /\ Arrived(Peer)
  BY DEF AdmitReport
<1>2. backlog # << >> /\ Peer \in Procs /\ Peer = backlog[1] /\ 1 \in DOMAIN backlog
  BY <1>1, PeerType DEF Links, BacklogLinked
<1>3. toCoord[Peer] = <<Evidence(WorkerOf[Peer])>>
  BY <1>1, <1>2 DEF Links, BacklogFrames, Arrived
<1>4. Received(Peer) = Evidence(WorkerOf[Peer])
  BY <1>3 DEF Received
<1>5. /\ WorkerOf[Peer] \in Workloads
      /\ Evidence(WorkerOf[Peer]).report \in Report
  BY <1>2, WorkerOfType, FramesType DEF Links
<1>6. Evidence(WorkerOf[Peer]).report.victim = setup[WorkerOf[Peer]].victim
  BY DEF Evidence, Measured
<1>7. setup[WorkerOf[Peer]].victim \in Workloads
  BY <1>5 DEF Links, NetworkTypes
<1>. QED
  BY <1>2, <1>4, <1>5, <1>6, <1>7

\* A hello is recorded.
LEMMA HelloKeeps ==
    ASSUME Recorded, Links, AdmitHello PROVE Recorded'
<1>1. /\ backlog # << >> /\ Arrived(Peer)
      /\ pc = "accept" /\ pc' = "evidence"
      /\ authority' = [authority EXCEPT
                         !.boots[WorkerOf[Peer]] = Received(Peer).boot,
                         !.generations[WorkerOf[Peer]] = 1]
      /\ UNCHANGED <<policy, evidence, nextEvidenceId, conflicts, interventions,
                     fairness, now, calls, handed, recovered, admitted>>
  BY DEF AdmitHello, runVars
<1>2. WorkerOf[Peer] \in Workloads /\ Received(Peer).boot \in Nat
  BY <1>1, HelloFrame
<1>3. authority' \in AuthorityContext
  BY <1>1, <1>2 DEF Recorded, TypeOK, AuthorityContext
<1>4. TypeOK'
  BY <1>1, <1>3 DEF Recorded, TypeOK
<1>5. Phase'
  BY <1>1 DEF Recorded, Phase, Admitting, Acting, Sent
<1>6. RecoveredStayClosed'
  BY <1>1, ClosedKept DEF Recorded
<1>. QED
  BY <1>1, <1>4, <1>5, <1>6 DEF Recorded

\* A report makes or extends a conflict, on a victim that is known.
LEMMA ReportKeeps ==
    ASSUME Recorded, Links, AdmitReport PROVE Recorded'
<1>. DEFINE r == Received(Peer).report
<1>1. /\ pc = "evidence" /\ pc' = IF admitted = 1 THEN "decide" ELSE "accept"
      /\ admitted' = admitted + 1 /\ recovered' = recovered
      /\ IngestNew(r) \/ IngestKnown(r)
  BY DEF AdmitReport, runVars
<1>2. r \in Report /\ r.victim \in Workloads
  BY ReportFrame
<1>3. UNCHANGED <<interventions, handed>>
  BY <1>1 DEF IngestNew, IngestKnown
<1>4. TypeOK'
  BY <1>1, <1>2, IngestNewType, IngestKnownType DEF Recorded
<1>5. /\ \A k \in DOMAIN conflicts' : conflicts'[k].victim \in Workloads
      /\ conflicts' # << >>
  <2>1. /\ conflicts \in Seq(ContentionConflict)
        /\ nextEvidenceId \in Nat \ {0}
        /\ \A k \in DOMAIN conflicts : conflicts[k].victim \in Workloads
    BY DEF Recorded, TypeOK
  <2>2. /\ Admitted(r) \in Report /\ Admitted(r).victim = r.victim
    BY <1>2, <2>1, AdmittedType
  <2>3. CASE IngestNew(r)
    <3>. DEFINE c == Progressed(NewConflict(Admitted(r)), Admitted(r))
    <3>1. c \in ContentionConflict /\ c.victim \in Workloads
      BY <1>2, <2>2, NewConflictType, ProgressedType
    <3>2. conflicts' = Append(conflicts, c)
      BY <2>3 DEF IngestNew
    <3>. HIDE DEF c
    <3>3. /\ Len(conflicts) \in Nat
          /\ DOMAIN conflicts' = 1..Len(conflicts) + 1
          /\ conflicts'[Len(conflicts) + 1] = c
          /\ \A k \in 1..Len(conflicts) : /\ conflicts'[k] = conflicts[k]
                                          /\ k \in DOMAIN conflicts
      BY <2>1, <3>1, <3>2
    <3>4. \A k \in 1..Len(conflicts) + 1 :
             k \in 1..Len(conflicts) \/ k = Len(conflicts) + 1
      BY <3>3
    <3>5. conflicts' # << >>
      BY <2>1, <3>2
    <3>. QED
      BY <2>1, <3>1, <3>3, <3>4, <3>5
  <2>4. CASE IngestKnown(r)
    <3>1. PICK k \in Matching(r) :
             conflicts' = [conflicts EXCEPT ![k] =
                Progressed(WithEvidence(conflicts[k], Admitted(r)), Admitted(r))]
      BY <2>4 DEF IngestKnown
    <3>2. k \in DOMAIN conflicts
      BY DEF Matching
    <3>3. conflicts[k] \in ContentionConflict
      BY <2>1, <3>2
    <3>. DEFINE c == Progressed(WithEvidence(conflicts[k], Admitted(r)),
                                Admitted(r))
    <3>4. c \in ContentionConflict /\ c.victim = conflicts[k].victim
      BY <2>2, <3>3, WithEvidenceType, ProgressedType
    <3>. HIDE DEF c
    <3>5. conflicts' = [conflicts EXCEPT ![k] = c]
      BY <3>1 DEF c
    <3>. QED
      BY <2>1, <3>2, <3>4, <3>5, VictimsKept DEF Recorded
  <2>. QED
    BY <1>1, <2>3, <2>4
<1>6. pc' \in Admitting \cup {"decide"} /\ admitted \in Nat
  BY <1>1 DEF Admitting, Links, NetworkTypes
<1>7. Phase'
  BY <1>1, <1>3, <1>5, <1>6 DEF Recorded, Phase, Admitting, Acting, Sent
<1>8. RecoveredStayClosed'
  BY <1>1, <1>3, ClosedKept DEF Recorded
<1>. QED
  BY <1>4, <1>5, <1>7, <1>8 DEF Recorded

\* The intervention of a run is appended.
LEMMA DecideStep ==
    ASSUME Recorded, Links, Decide
    PROVE  /\ 1 \in DOMAIN conflicts
           /\ "THROTTLE" \in Requests
           /\ Authorize(1, "THROTTLE")
           /\ \E cls \in InterventionClass, target \in Workloads :
                 /\ interventions' = Append(interventions,
                                            NewIntervention(1, cls, target))
                 /\ NewIntervention(1, cls, target) \in InterventionRecord
           /\ Len(interventions) = recovered /\ recovered \in Nat
           /\ Len(interventions') = recovered + 1
           /\ \A i \in 1..recovered : /\ i \in DOMAIN interventions
                                      /\ interventions'[i] = interventions[i]
                                      /\ handed'[i] = handed[i]
           /\ UNCHANGED <<authority, recovered, admitted, conns>>
<1>1. /\ pc = "decide" /\ Authorize(1, "THROTTLE") /\ recovered' = recovered
      /\ admitted' = admitted /\ conns' = conns
  BY DEF Decide, runVars
<1>2. 1 \in DOMAIN conflicts
  BY <1>1, VictimType, KnownInMemory DEF Recorded, Acting
<1>3. "THROTTLE" \in Requests
  BY CoordinatorAssumption
<1>4. PICK cls \in InterventionClass, target \in Workloads :
         interventions' = Append(interventions, NewIntervention(1, cls, target))
  BY <1>1, <1>2, <1>3, AuthorizeStep DEF Recorded
<1>5. NewIntervention(1, cls, target) \in InterventionRecord
  BY <1>2, NewInterventionType DEF Recorded
<1>6. /\ interventions \in Seq(InterventionRecord) /\ handed \in Seq(Nat)
      /\ Len(handed) = Len(interventions)
      /\ Len(interventions) = recovered
  BY <1>1 DEF Recorded, TypeOK, Phase
<1>7. handed' = Append(handed, 0) /\ authority' = authority
  BY <1>1 DEF Authorize
<1>8. recovered \in Nat
  BY <1>6
<1>9. Len(interventions') = recovered + 1
  BY <1>4, <1>5, <1>6
<1>10. \A i \in 1..recovered : /\ i \in DOMAIN interventions
                               /\ interventions'[i] = interventions[i]
  BY <1>4, <1>5, <1>6
<1>11. \A i \in 1..recovered : handed'[i] = handed[i]
  BY <1>6, <1>7
<1>. QED
  BY <1>1, <1>2, <1>3, <1>4, <1>5, <1>6, <1>7, <1>8, <1>9, <1>10, <1>11

\* Only the state of a conflict and its list of interventions change.
LEMMA SelectedVictim ==
    ASSUME NEW c \in ContentionConflict, NEW i \in Nat
    PROVE  /\ Selected(c, i) \in ContentionConflict
           /\ Selected(c, i).victim = c.victim
           /\ Selected(c, i).associated = c.associated
           /\ Selected(c, i).evidenceIds = c.evidenceIds
           /\ Selected(c, i).selectedIds = Append(c.selectedIds, i)
<1>1. Append(c.selectedIds, i) \in Seq(Nat)
  BY DEF ContentionConflict
<1>. QED
  BY <1>1 DEF Selected, ContentionConflict, ConflictState

\* The intervention of the run is authorized, the ones before it stay.
LEMMA DecideKeeps ==
    ASSUME Recorded, Links, Decide PROVE Recorded'
<1>1. TypeOK'
  BY DecideStep, AuthorizeType DEF Recorded
<1>2. /\ \A k \in DOMAIN conflicts' : conflicts'[k].victim \in Workloads
      /\ conflicts' # << >>
  <2>1. /\ conflicts' = [conflicts EXCEPT
                ![1] = Selected(conflicts[1], Len(interventions) + 1)]
    BY DecideStep DEF Authorize
  <2>2. 1 \in DOMAIN conflicts /\ conflicts[1] \in ContentionConflict
    BY DecideStep DEF Recorded, TypeOK
  <2>3. Len(interventions) + 1 \in Nat
    BY DecideStep
  <2>. DEFINE c == Selected(conflicts[1], Len(interventions) + 1)
  <2>4. c \in ContentionConflict /\ c.victim = conflicts[1].victim
    BY <2>2, <2>3, SelectedVictim
  <2>. HIDE DEF c
  <2>5. conflicts' = [conflicts EXCEPT ![1] = c]
    BY <2>1 DEF c
  <2>. QED
    BY <2>2, <2>4, <2>5, VictimsKept DEF Recorded
<1>3. Phase'
  <2>1. pc' = "dispatch"
    BY DEF Decide
  <2>2. interventions'[Current'].state = "AUTHORIZED"
    <3>1. PICK cls \in InterventionClass, target \in Workloads :
             interventions' = Append(interventions, NewIntervention(1, cls, target))
      BY DecideStep
    <3>2. NewIntervention(1, cls, target).state = "AUTHORIZED"
      BY DEF NewIntervention
    <3>3. interventions'[Len(interventions')] = NewIntervention(1, cls, target)
      BY <3>1 DEF Recorded, TypeOK
    <3>. QED
      BY <3>2, <3>3 DEF Current
  <2>. QED
    BY <1>2, <2>1, <2>2, DecideStep DEF Recorded, Phase, Admitting, Acting, Sent
<1>4. RecoveredStayClosed'
  BY DecideStep, ClosedKept DEF Recorded
<1>. QED
  BY <1>1, <1>2, <1>3, <1>4 DEF Recorded

\* The dispatch of the intervention of this run, and its end.
LEMMA DispatchingKeeps ==
    ASSUME Recorded, Links,
           \/ Dispatch
           \/ Concludes
    PROVE  /\ Recorded'
           /\ Len(interventions') = Len(interventions)
           /\ \A i \in DOMAIN interventions :
                 /\ interventions'[i].fence = interventions[i].fence
                 /\ i # Current => interventions'[i] = interventions[i]
<1>1. pc \in Acting \ {"decide"}
  BY DEF Dispatch, Concludes, Acting
<1>2. PICK s \in LifecycleState :
         /\ interventions' = InState(Current, s)
         /\ pc' = "send" => s = "DISPATCHED"
         /\ pc' = "answered" => s \in {"ACKNOWLEDGED", "OUTCOME_UNKNOWN", "FAILED"}
  <2>1. CASE Dispatch
    BY <2>1 DEF Dispatch, DispatchBegin, LifecycleState
  <2>2. CASE Concludes
    BY <2>2, AnsweredType DEF Concludes, DispatchEnd, LifecycleState
  <2>. QED
    BY <2>1, <2>2
<1>3. /\ \/ pc = "dispatch" /\ pc' = "send"
         \/ pc \in {"send", "ack"} /\ pc' = "answered"
      /\ UNCHANGED <<conflicts, recovered, admitted>>
      /\ handed' = handed \/ handed' = [handed EXCEPT ![Current] = @ + 1]
  BY DEF Dispatch, Concludes, DispatchBegin, DispatchEnd, runVars
<1>4. /\ Current \in DOMAIN interventions /\ Current = recovered + 1
      /\ Current = Len(interventions) /\ recovered \in Nat
      /\ DOMAIN interventions = 1..Len(interventions)
  BY <1>1, CurrentType DEF Recorded, Current
<1>5. /\ interventions' \in Seq(InterventionRecord)
      /\ Len(interventions') = Len(interventions)
      /\ interventions'[Current].state = s
      /\ \A j \in DOMAIN interventions :
            /\ j # Current => interventions'[j] = interventions[j]
            /\ interventions'[j].fence = interventions[j].fence
  BY <1>2, <1>4, InStateType DEF Recorded, TypeOK
<1>6. Current' = Current
  BY <1>5 DEF Current
<1>7. TypeOK'
  <2>1. CASE Dispatch
    BY <1>4, <2>1, DispatchType DEF Dispatch, Recorded
  <2>2. CASE Concludes
    BY <1>4, <2>2, DispatchType DEF Concludes, Recorded
  <2>. QED
    BY <2>1, <2>2
<1>8. Phase'
  BY <1>2, <1>3, <1>4, <1>5, <1>6 DEF Recorded, Phase, Admitting, Acting, Sent
<1>9. RecoveredStayClosed'
  <2>1. handed \in Seq(Nat) /\ Len(handed) = Len(interventions)
    BY DEF Recorded, TypeOK
  <2>2. ASSUME NEW i \in 1..recovered
        PROVE  handed'[i] = handed[i]
               /\ interventions'[i].state = interventions[i].state
    <3>1. i # Current /\ i \in DOMAIN interventions
      BY <1>4
    <3>2. interventions'[i].state = interventions[i].state
      BY <1>5, <3>1
    <3>3. handed'[i] = handed[i]
      <4>1. handed' = handed \/ handed' = [handed EXCEPT ![Current] = @ + 1]
        BY <1>3
      <4>2. i \in DOMAIN handed
        BY <1>4, <2>1, <3>1
      <4>. QED
        BY <3>1, <4>1, <4>2
    <3>. QED
      BY <3>2, <3>3
  <2>. QED
    BY <1>3, <2>2, ClosedKept DEF Recorded
<1>. QED
  BY <1>3, <1>5, <1>7, <1>8, <1>9 DEF Recorded

\* Time passes between runs.
LEMMA WaitsKeeps ==
    ASSUME Recorded, Waits PROVE Recorded'
<1>1. TypeOK'
  BY TickType DEF Waits, Recorded
<1>2. /\ UNCHANGED <<Memory, interventions, handed, conflicts, recovered,
                     admitted>>
      /\ pc = "down" /\ pc' = pc
  BY DEF Waits, Tick, Memory
<1>3. Phase'
  BY <1>2 DEF Recorded, Phase, Admitting, Acting, Sent
<1>4. RecoveredStayClosed'
  BY <1>2, ClosedKept DEF Recorded
<1>. QED
  BY <1>1, <1>2, <1>3, <1>4 DEF Recorded

\* A report after the action verifies an intervention that is open, which one
\* that was loaded never is, or is only recorded.
LEMMA ReportedStep ==
    ASSUME Recorded, NEW r \in Report, Verify(r) \/ ObserveOnly(r)
    PROVE  /\ Len(interventions') = Len(interventions)
           /\ \A i \in DOMAIN interventions :
                 /\ interventions'[i].fence = interventions[i].fence
                 /\ interventions'[i].target = interventions[i].target
                 /\ interventions'[i] # interventions[i]
                      => /\ interventions[i].state \in Verifiable
                         /\ interventions'[i].state
                              \in {"EFFECTIVE", "PARTIALLY_EFFECTIVE",
                                   "INEFFECTIVE"}
           /\ handed' = handed
           /\ Len(conflicts') = Len(conflicts)
           /\ \E k \in DOMAIN conflicts, c \in ContentionConflict :
                 /\ conflicts' = [conflicts EXCEPT ![k] = c]
                 /\ c.victim = conflicts[k].victim
<1>1. /\ conflicts \in Seq(ContentionConflict)
      /\ interventions \in Seq(InterventionRecord)
      /\ nextEvidenceId \in Nat \ {0}
      /\ Admitted(r) \in Report
  BY AdmittedType DEF Recorded, TypeOK
<1>2. CASE ObserveOnly(r)
  <2>1. PICK k \in Matching(r) :
           conflicts' = [conflicts EXCEPT ![k] = Observed(conflicts[k], Admitted(r))]
    BY <1>2 DEF ObserveOnly
  <2>2. k \in DOMAIN conflicts /\ conflicts[k] \in ContentionConflict
    BY <1>1 DEF Matching
  <2>3. /\ Observed(conflicts[k], Admitted(r)) \in ContentionConflict
        /\ Observed(conflicts[k], Admitted(r)).victim = conflicts[k].victim
    BY <1>1, <2>2, ObservedType
  <2>4. interventions' = interventions /\ handed' = handed
    BY <1>2 DEF ObserveOnly
  <2>5. Len(conflicts') = Len(conflicts)
    BY <1>1, <2>1
  <2>. QED
    BY <2>1, <2>2, <2>3, <2>4, <2>5
<1>3. CASE Verify(r)
  <2>0. TypeOK
    BY DEF Recorded
  <2>1. PICK k \in Matching(r), i \in DOMAIN interventions,
             v \in VerificationOutcome :
           /\ IsConflictOf(r, k)
           /\ IsVerified(k, i)
           /\ v = Outcome(k, interventions[i].target, conflicts[k].degradation,
                          Admitted(r).degradation)
           /\ conflicts' = [conflicts EXCEPT ![k] =
                 [Observed(conflicts[k], Admitted(r)) EXCEPT
                     !.state = ConflictAfter(v)]]
           /\ interventions' = [interventions EXCEPT ![i] =
                 [interventions[i] EXCEPT !.state = LifecycleAfter(v),
                                          !.result = v]]
           /\ fairness' = IF v = "RESOLVED"
                          THEN [fairness EXCEPT ![interventions[i].target] =
                                  ForgivenBurden(
                                      fairness[interventions[i].target])]
                          ELSE fairness
    BY <1>3, <2>0, VerifyStep
  <2>2. k \in DOMAIN conflicts /\ conflicts[k] \in ContentionConflict
    BY <1>1 DEF Matching
  <2>3. interventions[i].state \in Verifiable
    BY <2>1 DEF IsVerified, Open
  <2>. DEFINE o == Observed(conflicts[k], Admitted(r))
              c == [o EXCEPT !.state = ConflictAfter(v)]
  <2>4. o \in ContentionConflict /\ o.victim = conflicts[k].victim
    BY <1>1, <2>2, ObservedType
  <2>5. /\ ConflictAfter(v) \in {"RESOLVED", "PARTIALLY_RESOLVED", "UNRESOLVED"}
        /\ LifecycleAfter(v) \in {"EFFECTIVE", "PARTIALLY_EFFECTIVE",
                                  "INEFFECTIVE"}
    BY DEF ConflictAfter, LifecycleAfter
  <2>. HIDE DEF o
  <2>6. c \in ContentionConflict /\ c.victim = conflicts[k].victim
    BY <2>4, <2>5 DEF ContentionConflict, ConflictState
  <2>7. conflicts' = [conflicts EXCEPT ![k] = c]
    BY <2>1 DEF o
  <2>. HIDE DEF c
  <2>8. Len(conflicts') = Len(conflicts)
    BY <1>1, <2>7
  <2>9. interventions[i] \in InterventionRecord
    BY <1>1
  <2>10. /\ interventions'[i].state = LifecycleAfter(v)
         /\ interventions'[i].fence = interventions[i].fence
         /\ interventions'[i].target = interventions[i].target
         /\ \A j \in DOMAIN interventions \ {i} :
               interventions'[j] = interventions[j]
         /\ Len(interventions') = Len(interventions)
    <3>. DEFINE iv == [interventions[i] EXCEPT !.state = LifecycleAfter(v),
                                               !.result = v]
    <3>1. /\ iv.state = LifecycleAfter(v)
          /\ iv.fence = interventions[i].fence
          /\ iv.target = interventions[i].target
      BY <2>9 DEF InterventionRecord
    <3>2. interventions' = [interventions EXCEPT ![i] = iv]
      BY <2>1
    <3>. HIDE DEF iv
    <3>. QED
      BY <1>1, <3>1, <3>2
  <2>11. handed' = handed
    BY <1>3 DEF Verify
  <2>. QED
    BY <2>2, <2>3, <2>5, <2>6, <2>7, <2>8, <2>10, <2>11
<1>. QED
  BY <1>2, <1>3

\* A measurement verifies no intervention that was loaded.
LEMMA ReportedKeeps ==
    ASSUME Recorded, NEW r \in Report, Reported(r) PROVE Recorded'
<1>1. TypeOK'
  BY VerifyType, ObserveType DEF Reported, Recorded
<1>2. /\ pc = "report" /\ pc' = "done"
      /\ recovered' = recovered /\ admitted' = admitted
      /\ Verify(r) \/ ObserveOnly(r)
  BY DEF Reported
<1>3. /\ \A k \in DOMAIN conflicts' : conflicts'[k].victim \in Workloads
      /\ conflicts' # << >>
  BY <1>2, ReportedStep, VictimsKept DEF Recorded
<1>4. Len(interventions') = Len(interventions)
  BY <1>2, ReportedStep
<1>7. interventions'[Current].state \notin {"AUTHORIZED", "DISPATCHED"}
  <2>1. /\ Current \in DOMAIN interventions
        /\ interventions[Current].state \notin {"AUTHORIZED", "DISPATCHED"}
    <3>1. interventions \in Seq(InterventionRecord)
          /\ Len(interventions) = recovered + 1 /\ recovered \in Nat
      BY <1>2 DEF Recorded, TypeOK, Phase, Acting
    <3>. QED
      BY <1>2, <3>1 DEF Recorded, Phase, Sent, Acting, Current
  <2>. QED
    BY <1>2, <2>1, ReportedStep
<1>8. Current' = Current
  BY <1>4 DEF Current
<1>5. Phase'
  BY <1>2, <1>3, <1>4, <1>7, <1>8
     DEF Recorded, Phase, Admitting, Acting, Sent
<1>6. RecoveredStayClosed'
  <2>1. DOMAIN interventions = 1..Len(interventions) /\ recovered \in Nat
        /\ Len(interventions) = recovered + 1
    BY <1>2 DEF Recorded, TypeOK, Phase, Acting
  <2>2. ASSUME NEW i \in 1..recovered
        PROVE  /\ handed'[i] = handed[i]
               /\ interventions'[i].state = interventions[i].state
    <3>1. i \in DOMAIN interventions
      BY <2>1
    <3>2. interventions[i].state \notin Verifiable
      BY DEF Recorded, RecoveredStayClosed, Verifiable, Terminal
    <3>. QED
      BY <1>2, <3>1, <3>2, ReportedStep
  <2>. QED
    BY <1>2, <2>2, ClosedKept DEF Recorded
<1>. QED
  BY <1>1, <1>3, <1>5, <1>6 DEF Recorded

\* The invariant is that of the governor, of the network and of the files.
LEMMA CInvParts == CInv <=> Recorded /\ Links /\ Files
  BY KnownInMemory DEF CInv, Recorded

\* The invariant holds before the first run.
LEMMA CoordinatorInitially == CoordinatorInit => CInv
<1>. SUFFICES ASSUME CoordinatorInit PROVE CInv
  OBVIOUS
<1>1. TypeOK
  BY InitType DEF CoordinatorInit
<1>2. conflicts = << >> /\ interventions = << >>
  BY DEF CoordinatorInit, Init
<1>3. Memory = BlankMemory
  <2>1. policy = DefaultPolicy
    BY CoordinatorAssumption DEF CoordinatorInit, Init
  <2>2. authority = [BlankMemory.authority EXCEPT
                       !.policyGeneration = DefaultPolicy.generation]
    BY <2>1, CoordinatorAssumption DEF CoordinatorInit, Init
  <2>3. DefaultPolicy.generation = 0
    BY DEF DefaultPolicy
  <2>4. authority = BlankMemory.authority
    BY <2>2, <2>3 DEF BlankMemory
  <2>. QED
    BY <2>1, <2>4 DEF CoordinatorInit, Init, Memory, BlankMemory
<1>4. Recorded
  <2>1. Phase
    BY <1>2, <1>3 DEF CoordinatorInit, Phase, Admitting, Acting, Sent
  <2>2. RecoveredStayClosed
    BY DEF CoordinatorInit, RecoveredStayClosed
  <2>. QED
    BY <1>1, <1>2, <2>1, <2>2 DEF Recorded
<1>5. Links
  <2>1. NetworkTypes
    <3>1. /\ << >> \in Seq(Procs) /\ << >> \in Seq(FromWorker)
          /\ << >> \in Seq(ToWorker)
      BY EmptySeq
    <3>2. setup \in [Workloads -> [role : {"A", "B"}, victim : Workloads,
                                   neighbor : Workloads]]
      BY CoordinatorAssumption DEF CoordinatorInit
    <3>. QED
      BY <3>1, <3>2 DEF CoordinatorInit, NetworkTypes
  <2>2. /\ backlog = << >> /\ pc = "down" /\ linked = {} /\ admitted = 0
        /\ \A w \in Workloads : conns[w] = NoProc
        /\ \A p \in Procs : toWorker[p] = << >>
        /\ DOMAIN backlog = {} /\ Len(backlog) = 0
    BY DEF CoordinatorInit
  <2>. QED
    BY <2>1, <2>2
       DEF Links, ConnsLinked, BacklogLinked, TwoAdmitted, BacklogFrames,
           QuietBefore, Admitting, Acting, Unsent
<1>6. Files
  <2>1. Absent.snapshot = NoSnapshot /\ Absent.state = "absent"
        /\ Idle = [step |-> "idle", snapshot |-> NoSnapshot]
    BY DEF Absent, Idle
  <2>2. Snapshots = {}
    BY <2>1 DEF CoordinatorInit, FileInit, Snapshots
  <2>3. FileTypeOK
    BY <2>1 DEF CoordinatorInit, FileInit, FileTypeOK
  <2>. QED
    BY <2>1, <2>2, <2>3 DEF CoordinatorInit, FileInit, Files
<1>. QED
  BY <1>4, <1>5, <1>6, CInvParts

\* No step breaks the invariant.
LEMMA CoordinatorKeeps ==
    ASSUME CInv, [CoordinatorNext]_coordinatorVars PROVE CInv'
<1>1. /\ Recorded /\ Links /\ Files
      /\ TypeOK /\ KnownVictims(Memory) /\ Phase
  BY CInvParts, KnownInMemory DEF CInv
<1>2. Links'
  BY <1>1, LinksStep
<1>3. Files'
  BY <1>1, FilesStep
<1>4. Recorded'
  BY <1>1, MemorySorts, GoesOnKeeps, BlanksKeeps, ResumesKeeps, HelloKeeps,
     ReportKeeps, DecideKeeps, DispatchingKeeps, WaitsKeeps, ReportedKeeps
<1>. QED
  BY <1>2, <1>3, <1>4, KnownInMemory DEF CInv, Recorded

\* The invariant holds always.
LEMMA CoordinatorInvariant == CoordinatorSpec => []CInv
<1>. QED
  BY CoordinatorInitially, CoordinatorKeeps, PTL DEF CoordinatorSpec

\* The variables of the coordinator keep their types: a worker's connection is
\* an open one, and what was loaded is on record (conns and main()).
THEOREM CoordinatorTypeCorrect == CoordinatorSpec => []CoordinatorTypeOK
<1>1. CInv => CoordinatorTypeOK
  <2>. SUFFICES ASSUME CInv PROVE CoordinatorTypeOK
    OBVIOUS
  <2>1. FileTypeOK /\ NetworkTypes /\ ConnsLinked
    BY DEF CInv, Files, Links
  <2>2. recovered <= Len(interventions)
    <3>1. recovered \in Nat /\ Len(interventions) \in Nat
      BY DEF CInv, Phase, TypeOK
    <3>2. pc = "down" => recovered = 0
      BY DEF CInv, Phase
    <3>3. pc \in {"down"} \cup Admitting \cup Acting
      BY <2>1 DEF NetworkTypes
    <3>. QED
      BY <3>1, <3>2, <3>3 DEF CInv, Phase, Acting
  <2>. QED
    BY <2>1, <2>2 DEF CoordinatorTypeOK, NetworkTypes, ConnsLinked
<1>. QED
  BY <1>1, CoordinatorInvariant, PTL

\* What a run loaded it never dispatches, acknowledges or verifies, whatever it
\* is asked and however often the coordinator is restarted (advance_epoch).
THEOREM RecoveredAlwaysClosed == CoordinatorSpec => []RecoveredStayClosed
<1>1. CInv => RecoveredStayClosed
  BY DEF CInv
<1>. QED
  BY <1>1, CoordinatorInvariant, PTL

-----------------------------------------------------------------------------
(* The replacement of the state file. *)

\* Once a save has written, what it is saving is in the temporary file.
FileInv ==
    /\ saver = [step |-> saver.step, snapshot |-> saver.snapshot]
    /\ saver.step \in {"written", "removed"} => tmp = Complete(saver.snapshot)
    /\ powerFailures \in Nat

\* What a step may do to the state file as long as the power stays on.
Replaces ==
    \/ Content(path') = Content(path)
    \/ /\ saver.step \in {"written", "removed"}
       /\ \/ Content(path') = saver.snapshot
          \/ /\ platform = "WINDOWS"
             /\ path' = Absent
             /\ Content(tmp') = saver.snapshot

\* Each system call of a save keeps the invariant and replaces at most once.
LEMMA SaveKeeps ==
    ASSUME FileInv, SaveStep, powerFailures' = powerFailures
    PROVE  FileInv' /\ Replaces
<1>1. ASSUME NEW step
      PROVE  At(step) = [step |-> step, snapshot |-> saver.snapshot]
  BY DEF At, FileInv
<1>2. Idle = [step |-> "idle", snapshot |-> NoSnapshot]
  BY DEF Idle
<1>3. CASE SaveWrite
  BY <1>1, <1>3 DEF SaveWrite, FileInv, Replaces
<1>4. CASE SaveWriteFails \/ SaveRenameFails
  BY <1>2, <1>4 DEF SaveWriteFails, SaveRenameFails, FileInv, Replaces
<1>5. CASE SaveRemove
  <2>1. /\ platform = "WINDOWS" /\ saver.step = "written" /\ tmp' = tmp
        /\ path' \in {path, Absent}
        /\ saver' = [step |-> "removed", snapshot |-> saver.snapshot]
    BY <1>1, <1>5 DEF SaveRemove
  <2>2. Content(tmp') = saver.snapshot
    BY <2>1 DEF FileInv, Complete, Content
  <2>. QED
    BY <2>1, <2>2 DEF FileInv, Replaces
<1>6. CASE SaveRename
  <2>1. /\ saver.step \in {"written", "removed"}
        /\ path' = tmp
        /\ saver' = [step |-> "idle", snapshot |-> NoSnapshot]
    BY <1>2, <1>6 DEF SaveRename, Replaceable
  <2>2. Content(path') = saver.snapshot
    BY <2>1 DEF FileInv, Complete, Content
  <2>. QED
    BY <2>1, <2>2 DEF FileInv, Replaces
<1>. QED
  BY <1>3, <1>4, <1>5, <1>6 DEF SaveStep

\* Every other step leaves the files alone, begins a save in the temporary
\* file, or ends one without a further call.
LEMMA OtherSteps ==
    ASSUME FileInv, [CoordinatorNext]_coordinatorVars
    PROVE  \/ UNCHANGED <<path, tmp, saver, powerFailures>>
           \/ UNCHANGED <<path, tmp, powerFailures>> /\ saver' = Idle
           \/ /\ UNCHANGED <<path, powerFailures>>
              /\ \E s : saver' = [step |-> "opened", snapshot |-> s]
           \/ SaveStep /\ powerFailures' = powerFailures
           \/ powerFailures' = powerFailures + 1 /\ saver' = Idle
<1>1. CASE \/ AdmitHello \/ AdmitReport \/ Decide \/ Dispatch
           \/ NoWorker \/ SendFails \/ SendAction \/ ReceiveAck \/ NoAck
           \/ Discard \/ RequestReport \/ ReceiveReport
  BY <1>1
     DEF AdmitHello, AdmitReport, Decide, Dispatch, NoWorker, SendFails,
         SendAction, ReceiveAck, NoAck, AnswerWith, Discard, RequestReport,
         ReceiveReport, fileVars, runVars, mainVars
<1>2. CASE AdmitFails \/ NoLegal \/ Unpark \/ Finish
  BY <1>2 DEF AdmitFails, NoLegal, Unpark, Finish, Exit, fileVars
<1>3. CASE Redispatch
  BY <1>3 DEF Redispatch, Exit, fileVars, runVars
<1>4. CASE Save
  BY <1>4 DEF Save, SaveOpen, MainUnchanged, fileVars, runVars
<1>5. CASE Saving
  BY <1>5 DEF Saving, MainUnchanged, runVars
<1>6. CASE \E p \in Procs : WorkerStep(p) \/ WorkerDie(p)
  BY <1>6
     DEF WorkerStep, WorkerAct, WorkerMeasure, WorkerDie, Serves, fileVars,
         runVars
<1>7. CASE \E w \in Workloads : WorkerStart(w)
  BY <1>7 DEF WorkerStart, fileVars, runVars
<1>8. CASE \E m \in Modes : Begin(m)
  BY <1>8 DEF Begin, StartRun, fileVars
<1>9. CASE BeginResumed
  BY <1>9 DEF BeginResumed, StartRun, fileVars
<1>10. CASE Crash
  BY <1>10 DEF Crash, FilesAfterCrash
<1>11. CASE PowerFailure
  BY <1>11 DEF PowerFailure, FilesAfterPowerFailure
<1>12. CASE \E delta \in Advances : TimePasses(delta)
  BY <1>12 DEF TimePasses, fileVars, runVars
<1>13. CASE UNCHANGED coordinatorVars
  BY <1>13 DEF coordinatorVars, fileVars, runVars
<1>. QED
  BY <1>1, <1>2, <1>3, <1>4, <1>5, <1>6, <1>7, <1>8, <1>9, <1>10, <1>11,
     <1>12, <1>13
     DEF CoordinatorNext, ProcessStep, CoordinatorStep

\* No step breaks the invariant, or replaces the state by anything else.
LEMMA FileStep ==
    ASSUME FileInv, [CoordinatorNext]_coordinatorVars
    PROVE  /\ FileInv'
           /\ powerFailures' = powerFailures => Replaces
<1>1. Idle = [step |-> "idle", snapshot |-> NoSnapshot]
  BY DEF Idle
<1>2. CASE SaveStep /\ powerFailures' = powerFailures
  BY <1>2, SaveKeeps
<1>3. CASE UNCHANGED <<path, tmp, saver, powerFailures>>
  BY <1>3 DEF FileInv, Replaces
<1>4. CASE UNCHANGED <<path, tmp, powerFailures>> /\ saver' = Idle
  BY <1>1, <1>4 DEF FileInv, Replaces
<1>5. CASE /\ UNCHANGED <<path, powerFailures>>
           /\ \E s : saver' = [step |-> "opened", snapshot |-> s]
  BY <1>5 DEF FileInv, Replaces
<1>6. CASE powerFailures' = powerFailures + 1 /\ saver' = Idle
  BY <1>1, <1>6 DEF FileInv
<1>. QED
  BY <1>2, <1>3, <1>4, <1>5, <1>6, OtherSteps

\* Whichever processes crash, whichever calls fail and in whatever mode the
\* coordinator runs: the readable state is replaced by the complete new one in
\* one step, or on Windows is in the temporary file while it is not there.
THEOREM ReplacementAlwaysAtomic == CoordinatorSpec => ReplacementAtomic
<1>1. CoordinatorInit => FileInv
  BY DEF CoordinatorInit, FileInit, Idle, FileInv
<1>2. FileInv /\ [CoordinatorNext]_coordinatorVars
         => /\ FileInv'
            /\ [powerFailures' = powerFailures =>
                  \/ Content(path') = Content(path)
                  \/ /\ saver.step \in {"written", "removed"}
                     /\ \/ Content(path') = saver.snapshot
                        \/ /\ platform = "WINDOWS"
                           /\ path' = Absent
                           /\ Content(tmp') = saver.snapshot]_coordinatorVars
  BY FileStep DEF Replaces
<1>. QED
  BY <1>1, <1>2, PTL DEF CoordinatorSpec, ReplacementAtomic
=============================================================================
