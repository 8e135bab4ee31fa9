----------------------------- MODULE Coordinator -----------------------------
(***************************************************************************)
(* The coordinator process, the worker processes and the connections       *)
(* between them.  The coordinator is one thread that drives its own        *)
(* governor from two reports through one action to its end; it may die at  *)
(* any moment and be started again, also to resume from the state file.    *)
(*                                                                         *)
(* Frames arrive whole and in order here (see Framing).  What a process    *)
(* sent before it died still arrives; what it had not read is lost.  A     *)
(* worker's start and the two frames it sends at once are one step.        *)
(***************************************************************************)
EXTENDS DurableGovernor

CONSTANTS
    Procs,              \* slots worker processes run in
    WorkerOf,           \* the --workerid a slot is started with
    Setups,             \* how the two workers may be configured
    NoProc,
    Modes,              \* a subset of {"basic", "persist", "resume"}

    \* Bounds of the instance, each one a guard of the actions it bounds.
    MaxRuns,            \* of the coordinator
    MaxStarts,          \* of worker processes
    MaxPowerFailures

\* How the coordinator and the workers are started: a governor as constructed,
\* whose one request is to throttle, and workers that report on each other.
ASSUME CoordinatorAssumption ==
    /\ WorkerOf \in [Procs -> Workloads]
    /\ NoProc \notin Procs
    /\ Setups \subseteq [Workloads -> [role : {"A", "B"}, victim : Workloads,
                                      neighbor : Workloads]]
    /\ Modes \subseteq {"basic", "persist", "resume"}
    /\ "COMPUTE" \in Domains /\ "THROTTLE" \in Requests
    /\ InitialPolicies = {DefaultPolicy}
    /\ InitialAuthorities = {BlankMemory.authority}

VARIABLES
    setup,              \* the command lines of the workers
    mode, pc,           \* the coordinator: its --mode and where it is
    admitted,           \* workers admitted so far in this run
    conns,              \* the connection of each worker: conns in main()
    backlog,            \* connections not accepted yet
    linked,             \* connections whose coordinator end is open
    boot,               \* the boot id of the process in a slot, 0 for none
    toCoord, toWorker,  \* frames on their way
    performed,          \* the actions workers performed: a history, for no
                        \* process remembers it
    recovered,          \* how many interventions this run loaded
    runs, starts, powerFailures

mainVars == <<mode, pc, admitted, conns>>
linkVars == <<backlog, linked, toCoord, toWorker>>
workVars == <<setup, boot, performed, starts>>
runVars == <<recovered, runs, powerFailures>>
memoryVars == <<policy, authority, evidence, nextEvidenceId, conflicts,
                interventions, fairness, calls, handed>>
coordinatorVars == <<vars, fileVars, mainVars, backlog, linked, toCoord,
                     toWorker, workVars, runVars>>

Running(p) == boot[p] # 0

CoordinatorInit ==
    /\ Init
    /\ FileInit
    /\ setup \in Setups
    /\ mode = "basic" /\ pc = "down" /\ admitted = 0
    /\ conns = [w \in Workloads |-> NoProc]
    /\ backlog = << >> /\ linked = {}
    /\ boot = [p \in Procs |-> 0]
    /\ toCoord = [p \in Procs |-> << >>]
    /\ toWorker = [p \in Procs |-> << >>]
    /\ performed = {}
    /\ recovered = 0 /\ runs = 0 /\ starts = 0 /\ powerFailures = 0

-----------------------------------------------------------------------------
(* Frames. *)

\* The interference every worker reports after connecting, and the one it
\* measures after an action.
Measured(w, id, observation) ==
    [id |-> id, victim |-> setup[w].victim, neighbors |-> {setup[w].neighbor},
     domain |-> "COMPUTE", metric |-> "HIGHER_IS_BETTER", baseline |-> 100,
     observation |-> observation, degradation |-> 0, confidence |-> 90,
     samples |-> 100, attribution |-> 3, confounded |-> FALSE,
     status |-> "CURRENT"]

Hello(b) == [type |-> "WORKER_STATUS", boot |-> b]
Evidence(w) == [type |-> "EVIDENCE", report |-> Measured(w, 1000 + w, 60)]
PostEvidence(w) == [type |-> "EVIDENCE", report |-> Measured(w, 2000 + w, 98)]
Ack(attempt) == [type |-> "ACTION_ACK", attempt |-> attempt]
Request == [type |-> "RPC_REQUEST"]

\* Interventions and attempts are numbered alike.  The fence and the time are
\* not on the wire; they are kept here to say which authorization an action
\* came from.
Action(i) == [type |-> "ACTION_AUTHORIZE", attempt |-> i,
              target |-> interventions[i].target,
              fence |-> interventions[i].fence,
              at |-> interventions[i].authorizedAt]

-----------------------------------------------------------------------------
(* Workers. *)

\* A worker process with a boot id of its own connects and sends its hello and
\* its report, or dies after the hello; one that dies before it is as good as
\* none.  Connections beyond the two that are going to be accepted are left
\* out: nobody ever looks at them.
WorkerStart(w) ==
    LET free == { p \in Procs : WorkerOf[p] = w /\ ~Running(p)
                                /\ p \notin linked }
        p == CHOOSE q \in free : TRUE
        b == starts + 1
    IN  /\ pc = "accept"
        /\ admitted + Len(backlog) < 2
        /\ free # {}
        /\ starts < MaxStarts
        /\ starts' = b
        /\ linked' = linked \cup {p}
        /\ backlog' = Append(backlog, p)
        /\ \/ /\ boot' = [boot EXCEPT ![p] = b]
              /\ toCoord' = [toCoord EXCEPT ![p] = <<Hello(b), Evidence(w)>>]
           \/ /\ UNCHANGED boot
              /\ toCoord' = [toCoord EXCEPT ![p] = <<Hello(b)>>]
        /\ UNCHANGED <<vars, fileVars, mainVars, runVars, toWorker, setup,
                       performed>>

\* What a worker answers an action with: one in role "A" publishes its
\* post-action measurement first.
ActionReplies(w, attempt) ==
    IF setup[w].role = "A" THEN <<PostEvidence(w), Ack(attempt)>>
                           ELSE <<Ack(attempt)>>

\* The worker in slot p takes a frame and sends its replies, which arrive as
\* long as the coordinator's end is open.  When it is closed and there is
\* nothing left to read the worker leaves its loop.  It may also die when it
\* has done what it was told and sent some of its replies or none.
Serves(p, replies) ==
    /\ Running(p)
    /\ \/ /\ toWorker' = [toWorker EXCEPT ![p] = Tail(@)]
          /\ toCoord' = IF p \in linked
                        THEN [toCoord EXCEPT ![p] = @ \o replies]
                        ELSE toCoord
          /\ boot' = IF p \in linked \/ Len(toWorker[p]) > 1
                     THEN boot
                     ELSE [boot EXCEPT ![p] = 0]
       \/ /\ p \in linked
          /\ toWorker' = [toWorker EXCEPT ![p] = << >>]
          /\ \E n \in 0..(Len(replies) - 1) :
                toCoord' = [toCoord EXCEPT ![p] = @ \o SubSeq(replies, 1, n)]
          /\ boot' = [boot EXCEPT ![p] = 0]
    /\ UNCHANGED <<vars, fileVars, mainVars, runVars, backlog, linked, setup,
                   starts>>

Delivered(p, type) == toWorker[p] # << >> /\ Head(toWorker[p]).type = type

\* An action is performed and acknowledged, whatever attempt or epoch it is of.
WorkerAct(p) ==
    /\ Delivered(p, "ACTION_AUTHORIZE")
    /\ LET m == Head(toWorker[p])
       IN  /\ performed' = performed \cup
                 {[boot |-> boot[p], attempt |-> m.attempt, target |-> m.target,
                   fence |-> m.fence, at |-> m.at]}
           /\ Serves(p, ActionReplies(WorkerOf[p], m.attempt))

WorkerMeasure(p) ==
    /\ Delivered(p, "RPC_REQUEST")
    /\ Serves(p, <<PostEvidence(WorkerOf[p])>>)
    /\ UNCHANGED performed

\* A worker dies.  Before the coordinator sends an action it cannot tell whether
\* a worker that sent its two frames is still there: dying earlier is dying
\* then.
WorkerDie(p) ==
    /\ Running(p) /\ p \in linked
    /\ pc \notin {"accept", "evidence", "decide", "dispatch"}
    /\ boot' = [boot EXCEPT ![p] = 0]
    /\ toWorker' = [toWorker EXCEPT ![p] = << >>]
    /\ UNCHANGED <<vars, fileVars, mainVars, runVars, backlog, linked, toCoord,
                   setup, performed, starts>>

\* The coordinator closes its end of some connections: their workers end, at
\* once unless they have something left to read.
BootAfterClosing(closed) ==
    [p \in Procs |-> IF p \in closed /\ toWorker[p] = << >> THEN 0 ELSE boot[p]]

-----------------------------------------------------------------------------
(* The coordinator: its beginning and its ends. *)

\* Every resource of the process is gone; the governor is a blank one.
Gone ==
    /\ pc' = "down" /\ admitted' = 0
    /\ conns' = [w \in Workloads |-> NoProc]
    /\ backlog' = << >> /\ linked' = {}
    /\ toCoord' = [p \in Procs |-> << >>]
    /\ recovered' = 0
    /\ Install(BlankMemory)
    /\ UNCHANGED <<mode, setup, performed, starts, runs>>

\* main() returns.
Exit ==
    /\ Gone
    /\ boot' = BootAfterClosing(linked)
    /\ UNCHANGED <<fileVars, now, toWorker, powerFailures>>

\* The process is killed.
Crash ==
    /\ pc # "down"
    /\ Gone
    /\ FilesAfterCrash
    /\ boot' = BootAfterClosing(linked)
    /\ UNCHANGED <<now, toWorker, powerFailures>>

\* The machine loses power; its steady clock starts again.  (Before there is a
\* state file this only shortens the history.)
PowerFailure ==
    /\ powerFailures < MaxPowerFailures
    /\ path # Absent
    /\ powerFailures' = powerFailures + 1
    /\ Gone
    /\ FilesAfterPowerFailure
    /\ now' = StartTime
    /\ boot' = [p \in Procs |-> 0]
    /\ toWorker' = [p \in Procs |-> << >>]

StartRun(m) ==
    /\ pc = "down"
    /\ runs < MaxRuns
    /\ runs' = runs + 1
    /\ mode' = m
    /\ pc' = "accept"
    /\ UNCHANGED <<fileVars, workVars, backlog, linked, toCoord, toWorker, now,
                   admitted, conns, powerFailures>>

\* --mode basic or persist begins with an empty governor ...
Begin(m) ==
    /\ m # "resume"
    /\ StartRun(m)
    /\ UNCHANGED <<memoryVars, recovered>>

\* ... --mode resume with the saved one in a new epoch, which is not saved.
BeginResumed ==
    /\ "resume" \in Modes
    /\ Resume
    /\ recovered' = Len(interventions')
    /\ StartRun("resume")

\* Only authorize reads the clock, once in a run: letting time pass between
\* runs is letting it pass anywhere.
TimePasses(delta) ==
    /\ pc = "down" /\ runs > 0
    /\ Tick(delta)
    /\ UNCHANGED <<fileVars, mainVars, workVars, runVars, backlog, linked,
                   toCoord, toWorker>>

-----------------------------------------------------------------------------
(* The coordinator: admitting two workers. *)

\* The first connection that waits to be accepted, the frames received on a
\* connection, and that there will be no more.
Peer == Head(backlog)
Arrived(p) == toCoord[p] # << >>
Received(p) == Head(toCoord[p])
Taken(p) == [toCoord EXCEPT ![p] = Tail(@)]
BrokenUnnoticed(p) == FALSE
Broken(p) == toCoord[p] = << >> /\ ~Running(p)

KeepFirstConnection ==
    [conns EXCEPT ![WorkerOf[Peer]] = IF @ = NoProc THEN Peer ELSE @]

\* A worker that connects again takes the place of its old connection, which
\* is closed.
NewConnection == [conns EXCEPT ![WorkerOf[Peer]] = Peer]

\* The hello: record_worker_boot and record_workload_generation.
AdmitHello ==
    LET w == WorkerOf[Peer]
    IN  /\ pc = "accept"
        /\ backlog # << >>
        /\ Arrived(Peer)
        /\ toCoord' = Taken(Peer)
        /\ conns' = NewConnection
        /\ linked' = linked \ ({conns[w]} \ {conns'[w]})
        /\ boot' = BootAfterClosing(linked \ linked')
        /\ authority' = [authority EXCEPT !.boots[w] = Received(Peer).boot,
                                         !.generations[w] = 1]
        /\ pc' = "evidence"
        /\ UNCHANGED <<policy, evidence, nextEvidenceId, conflicts,
                       interventions, fairness, now, calls, handed, fileVars,
                       runVars, toWorker, backlog, mode, admitted, setup,
                       performed, starts>>

\* The report: ingest_evidence.  Its status is not looked at, and what a worker
\* sends is always valid.
AdmitReport ==
    /\ pc = "evidence"
    /\ Arrived(Peer)
    /\ LET r == Received(Peer).report
       IN  IngestNew(r) \/ IngestKnown(r)
    /\ toCoord' = Taken(Peer)
    /\ backlog' = Tail(backlog)
    /\ admitted' = admitted + 1
    /\ pc' = IF admitted = 1 THEN "decide" ELSE "accept"
    /\ UNCHANGED <<fileVars, runVars, workVars, linked, toWorker, mode, conns>>

\* Nobody connects for 30 seconds, or the connection breaks before the hello
\* and the report are there.
AdmitFails ==
    /\ \/ pc = "accept" /\ backlog = << >>
       \/ pc \in {"accept", "evidence"} /\ backlog # << >> /\ Broken(Peer)
    /\ Exit

-----------------------------------------------------------------------------
(* The coordinator: one action. *)

\* The intervention of this run, once it is authorized.
Current == Len(interventions)

Decide ==
    /\ pc = "decide"
    /\ Authorize(1, "THROTTLE")
    /\ pc' = "dispatch"
    /\ UNCHANGED <<fileVars, linkVars, workVars, runVars, mode, admitted, conns>>

\* "NO_LEGAL_INTERVENTION".
NoLegal ==
    /\ pc = "decide"
    /\ \A pick \in Decisions(policy, authority, evidence, fairness,
                             conflicts[1]) :
          ~Permitted(pick.target, "THROTTLE")
    /\ Exit

Dispatch ==
    /\ pc = "dispatch"
    /\ DispatchBegin(Current)
    /\ pc' = "send"
    /\ UNCHANGED <<fileVars, linkVars, workVars, runVars, mode, admitted, conns>>

\* The adapter's answer reaches dispatch().
AnswerWith(outcome) ==
    /\ DispatchEnd(Current, outcome)
    /\ pc' = "answered"
    /\ UNCHANGED <<fileVars, workVars, runVars, backlog, linked, toWorker, mode,
                   admitted, conns>>

Target == conns[interventions[Current].target]

\* TcpAdapters: no connection for the target ...
NoWorker ==
    /\ pc = "send"
    /\ Target = NoProc
    /\ AnswerWith("UNAVAILABLE")
    /\ UNCHANGED toCoord

\* ... a send that fails ...
SendFails ==
    /\ pc = "send"
    /\ Target # NoProc /\ ~Running(Target)
    /\ AnswerWith("UNKNOWN")
    /\ UNCHANGED toCoord

\* ... one that succeeds, also when the frame will not be read any more ...
SendAction ==
    /\ pc = "send"
    /\ Target # NoProc
    /\ toWorker' = IF Running(Target)
                   THEN [toWorker EXCEPT ![Target] = Append(@, Action(Current))]
                   ELSE toWorker
    /\ pc' = "ack"
    /\ UNCHANGED <<vars, fileVars, workVars, runVars, backlog, linked, toCoord,
                   mode, admitted, conns>>

\* ... and the next frame, of whatever type, read as the acknowledgement: a
\* report with a neighbor in it does not decode as one.
DecodedAck(m) == IF m.type = "ACTION_ACK" THEN "ACCEPTED" ELSE "UNKNOWN"

ReceiveAck ==
    /\ pc = "ack"
    /\ Arrived(Target)
    /\ toCoord' = Taken(Target)
    /\ AnswerWith(DecodedAck(Received(Target)))

NoAckOutcomeAccepted == "ACCEPTED"
NoAckOutcomeRefused == "UNAVAILABLE"
NoAckOutcome == "UNKNOWN"

NoAck ==
    /\ pc = "ack"
    /\ Broken(Target)
    /\ AnswerWith(NoAckOutcome)
    /\ UNCHANGED toCoord

-----------------------------------------------------------------------------
(* The coordinator: what each mode does after the action. *)

MainUnchanged == UNCHANGED <<vars, linkVars, workVars, runVars, mode, admitted,
                             conns>>

\* persist: save() and whatever comes of it.
Save ==
    /\ pc = "answered" /\ mode = "persist"
    /\ \/ SaveOpen(Memory) /\ pc' = "saving"
       \/ UNCHANGED fileVars /\ pc' = "parked"
    /\ MainUnchanged

Saving ==
    /\ pc = "saving"
    /\ SaveStep
    /\ pc' = IF saver'.step = "idle" THEN "parked" ELSE "saving"
    /\ MainUnchanged

FirstConnection ==
    conns[CHOOSE w \in Workloads : /\ conns[w] # NoProc
                                   /\ \A v \in Workloads :
                                         conns[v] # NoProc => w <= v]

\* Then it waits on the first worker: a frame that came along with an earlier
\* one is read and dropped, one that comes now fails the receive that is not
\* meant to block, as the end of the connection does.
Discard ==
    /\ pc = "parked"
    /\ Arrived(FirstConnection)
    /\ toCoord' = Taken(FirstConnection)
    /\ UNCHANGED <<vars, fileVars, workVars, runVars, backlog, linked, toWorker,
                   mainVars>>

Unpark ==
    /\ pc = "parked"
    /\ Arrived(FirstConnection) \/ Broken(FirstConnection)
    /\ Exit

\* resume: the same intervention is dispatched again, and refused.
Redispatch ==
    /\ pc = "answered" /\ mode = "resume"
    /\ IF interventions[Current].state = "AUTHORIZED"
       THEN DispatchBegin(Current) /\ pc' = "send"
            /\ UNCHANGED <<fileVars, linkVars, workVars, runVars, mode,
                           admitted, conns>>
       ELSE Exit

\* basic: the victim is asked for a measurement.
Victim == conns[conflicts[1].victim]

RequestReport ==
    /\ pc = "answered" /\ mode = "basic"
    /\ Victim # NoProc
    /\ toWorker' = IF Running(Victim)
                   THEN [toWorker EXCEPT ![Victim] = Append(@, Request)]
                   ELSE toWorker
    /\ pc' = "report"
    /\ UNCHANGED <<vars, fileVars, workVars, runVars, backlog, linked, toCoord,
                   mode, admitted, conns>>

\* submit_post_action_evidence, on the conflict the workers reported.
SubmitPost(r) == Verify(r) \/ ObserveOnly(r)

ReceiveReport ==
    /\ pc = "report"
    /\ Arrived(Victim)
    /\ toCoord' = Taken(Victim)
    /\ IF Received(Victim).type = "EVIDENCE"
       THEN SubmitPost(Received(Victim).report)
       ELSE UNCHANGED vars
    /\ pc' = "done"
    /\ UNCHANGED <<fileVars, workVars, runVars, backlog, linked, toWorker, mode,
                   admitted, conns>>

Finish ==
    /\ \/ pc = "done"
       \/ pc = "answered" /\ mode = "basic" /\ Victim = NoProc
       \/ pc = "report" /\ Broken(Victim)
    /\ Exit

-----------------------------------------------------------------------------
CoordinatorStep ==
    \/ AdmitHello \/ AdmitReport \/ AdmitFails
    \/ Decide \/ NoLegal \/ Dispatch
    \/ NoWorker \/ SendFails \/ SendAction \/ ReceiveAck \/ NoAck
    \/ Save \/ Saving \/ Discard \/ Unpark \/ Redispatch
    \/ RequestReport \/ ReceiveReport \/ Finish

WorkerStep(p) == WorkerAct(p) \/ WorkerMeasure(p)

ProcessStep == CoordinatorStep \/ \E p \in Procs : WorkerStep(p)

CoordinatorNext ==
    \/ ProcessStep
    \/ \E w \in Workloads : WorkerStart(w)
    \/ \E p \in Procs : WorkerDie(p)
    \/ \E m \in Modes : Begin(m)
    \/ BeginResumed
    \/ Crash
    \/ PowerFailure
    \/ \E delta \in Advances : TimePasses(delta)

CoordinatorSpec == CoordinatorInit /\ [][CoordinatorNext]_coordinatorVars

\* As long as one of the processes can go on, one of them does; that accept()
\* times out is a way to go on.
CoordinatorFairSpec == CoordinatorSpec /\ WF_coordinatorVars(ProcessStep)

-----------------------------------------------------------------------------
(* Properties. *)

\* The types of the coordinator's own variables.
CoordinatorTypeOK ==
    /\ FileTypeOK
    /\ conns \in [Workloads -> Procs \cup {NoProc}]
    /\ \A w \in Workloads : conns[w] # NoProc => conns[w] \in linked
    /\ linked \subseteq Procs
    /\ recovered <= Len(interventions)

\* Nothing counts as acknowledged, or as verified, that the worker the fence
\* names did not perform, although the next frame of any type is taken for
\* the acknowledgement.
AcknowledgedWasPerformed ==
    \A i \in DOMAIN interventions :
        i > recovered
        /\ interventions[i].state \in {"ACKNOWLEDGED", "EFFECTIVE",
                                       "PARTIALLY_EFFECTIVE", "INEFFECTIVE"}
        => \E a \in performed :
              a.attempt = i /\ a.fence = interventions[i].fence

\* An action that was performed is never on record as failed or as not yet
\* dispatched: a lost acknowledgement is neither success nor failure.
PerformedNotFailed ==
    \A i \in DOMAIN interventions :
        (\E a \in performed : a.attempt = i /\ a.fence = interventions[i].fence)
        => interventions[i].state \notin {"AUTHORIZED", "SUPERSEDED", "FAILED"}

\* An action is performed by the very process its fence was made for, though
\* the worker compares nothing: not by an earlier process of the same worker
\* that is still connected.
FencedBootPerforms ==
    \A a \in performed : a.boot = a.fence.workerBoot

\* What a run loaded it never dispatches, acknowledges or verifies: the
\* authority of the crashed run ended with it.
RecoveredStayClosed ==
    \A i \in 1..recovered :
        /\ handed[i] = 0
        /\ interventions[i].state \in Terminal \cup {"OUTCOME_UNKNOWN"}

\* What the coordinator saved whole it can load again.  The decoder has limits
\* that the encoder does not know; but only --mode persist saves, and it starts
\* from an empty governor, so that however many runs there were a file holds
\* one intervention and no list of more than two.
SavedLoads == path.state = "complete" => Loadable

\* The state file tells of the action a worker performed.
OnRecord(a) ==
    /\ path.state = "complete"
    /\ a.attempt \in DOMAIN Content(path).interventions
    /\ Content(path).interventions[a.attempt].fence = a.fence

\* A run that resumes does not hit again, within the cooldown, what a worker
\* has suffered in a run before, provided that the state file tells of it: that
\* it was saved before the crash, and that nothing else was saved since.  (The
\* power stays on; an action at time 0 starts no cooldown.)
CooldownFromRecord ==
    powerFailures = 0 /\ recovered > 0 =>
        \A i \in (recovered + 1)..Len(interventions), a \in performed :
            /\ OnRecord(a)
            /\ a.target = interventions[i].target
            /\ a.at # 0
            /\ interventions[i].cls \in Disruptive
            => interventions[i].authorizedAt - a.at >= policy.cooldownMs

\* Without a power failure the readable content of the state file is replaced
\* by the complete new one in a single step; only on Windows does it go away
\* first, and then the complete new one is in the temporary file.
ReplacementAtomic ==
    [][powerFailures' = powerFailures =>
          \/ Content(path') = Content(path)
          \/ /\ saver.step \in {"written", "removed"}
             /\ \/ Content(path') = saver.snapshot
                \/ /\ platform = "WINDOWS"
                   /\ path' = Absent
                   /\ Content(tmp') = saver.snapshot]_coordinatorVars

\* A run of the coordinator comes to its end, or to the wait of --mode persist,
\* whatever becomes of its workers.
RunConcludes == []<>(pc \in {"down", "parked"})

-----------------------------------------------------------------------------
(* What the documentation promises and the program does not keep. *)

\* README: "Disruptive actions respect a cooldown."  So should those that were
\* performed for two runs resumed from one state file (a resumed run is one in
\* an epoch above 0).  But --mode resume saves neither its epoch nor its action:
\* the next run resumes from the same state and knows nothing of either.
ResumedRunsSpaced ==
    \A a, b \in performed :
        /\ a.fence.epoch > 0 /\ b.fence.epoch > 0
        /\ a.target = b.target
        /\ a.boot < b.boot
        => b.at - a.at >= policy.cooldownMs
=============================================================================
