------------------------------ MODULE Cluster ------------------------------
(***************************************************************************)
(* Placement of rooms on the nodes of an official cluster: the coordinator *)
(* (in memory, one mutex, every request one step), the agent of each node  *)
(* process, and the sessions that move a room-creating command to the node *)
(* with capacity by means of a single-use ticket.                          *)
(*                                                                         *)
(* A token stands for the command it was issued for and for the room that  *)
(* command creates.  Reports carry the set of rooms; the coordinator only  *)
(* uses its size.  Generations are random in the code and numbered here.   *)
(* The agent publishes one report at a time ("flight"); one request it     *)
(* gave up may still be under way ("late").  Report sequence numbers are   *)
(* abstracted to "old": a later report of the generation was accepted.     *)
(***************************************************************************)
EXTENDS Integers, FiniteSets

CONSTANTS Node, Proc, Token, Session,
          NodeOf,      \* Proc -> Node: a node's process and its replacements
          NoToken, NoTicket, NoRequest, NoProc,
          MaxRooms,    \* room limit of every node
          MaxFaults,   \* crashes, restarts and timeouts of a behaviour
          Delays       \* kinds of abandoned request that may arrive late

ASSUME NodeAssumption == NodeOf \in [Proc -> Node]
ASSUME NullAssumption ==
  NoToken \notin Token /\ NoProc \notin Proc /\ NoTicket \notin [node : Node, gen : Nat, taken : BOOLEAN]
ASSUME BoundAssumption == MaxRooms \in Nat \ {0} /\ MaxFaults \in Nat
ASSUME DelayAssumption == Delays \subseteq {"register", "report"}

VARIABLES
  lastGen,   \* generations handed out so far
  state,     \* Node -> the coordinator's nodeState
  tickets,   \* Token -> outstanding ticket
  agent,     \* Proc -> the agent of a process
  flight,    \* Proc -> the publisher's request and its answer
  late,      \* Proc -> an abandoned request that is still under way
  rooms,     \* Proc -> rooms of the process, by the token they came from
  call,      \* Session -> what a session does
  issued,    \* tokens used up
  known,     \* tokens a client was told
  ran,       \* tokens whose command was executed
  void,      \* tokens without a reservation (expired, fenced, local)
  faults

coordinatorVars == <<lastGen, state, tickets, issued, void>>
agentVars == <<agent, flight, late>>
clientVars == <<call, known>>
Idle == [op |-> "idle", proc |-> NoProc, gen |-> 0, token |-> NoToken]

vars == <<coordinatorVars, agentVars, clientVars, rooms, ran, faults>>

(***************************************************************************)
(* Coordinator                                                             *)
(***************************************************************************)
Unregistered == [gen |-> 0, heard |-> FALSE, rooms |-> {}]

Issued(t) == tickets[t] # NoTicket
Reserved(n) == {t \in Token : Issued(t) /\ tickets[t].node = n /\ tickets[t].gen = state[n].gen}

\* Mutant of Estimate: tickets that were taken are not counted.
EstimateUntaken(n) ==
  Cardinality(state[n].rooms) + Cardinality({t \in Reserved(n) : ~tickets[t].taken})

\* selectNode: reported rooms and outstanding tickets of the generation.
Estimate(n) == Cardinality(state[n].rooms) + Cardinality(Reserved(n))

\* Nodes that may take one more room.
Eligible == {n \in Node : state[n].heard /\ Estimate(n) + 1 <= MaxRooms}

\* Mutant of Standing: a coordinator that restarted fences the nodes it forgot.
StandingForgotten(n, gen) == IF state[n].gen # gen THEN "fenced" ELSE "ok"

\* Every request but a registration belongs to the node's registered process.
Standing(n, gen) ==
  IF state[n].gen = 0 THEN "registration"
  ELSE IF state[n].gen # gen THEN "fenced" ELSE "ok"

\* register: a new generation replaces the node's state, and with it the
\* standing of the tickets of the previous generation.
Register(n) ==
  /\ lastGen' = lastGen + 1
  /\ state' = [state EXCEPT ![n] = [Unregistered EXCEPT !.gen = lastGen + 1]]
  /\ void' = void \cup {t \in Token : Issued(t) /\ tickets[t].node = n}
  /\ UNCHANGED <<tickets, issued>>

\* Mutant of Report: delayed reports are accepted.
ReportAny(n, m) ==
  /\ state' = [state EXCEPT ![n].heard = TRUE, ![n].rooms = m.rooms]
  /\ tickets' = [t \in Token |->
       IF t \in m.done /\ t \in Reserved(n) /\ tickets[t].taken THEN NoTicket ELSE tickets[t]]
  /\ UNCHANGED <<lastGen, issued, void>>

\* report: a full snapshot, which also ends the completed reservations.
Report(n, m) ==
  IF m.old THEN UNCHANGED coordinatorVars
  ELSE /\ state' = [state EXCEPT ![n].heard = TRUE, ![n].rooms = m.rooms]
       /\ tickets' = [t \in Token |->
            IF t \in m.done /\ t \in Reserved(n) /\ tickets[t].taken THEN NoTicket ELSE tickets[t]]
       /\ UNCHANGED <<lastGen, issued, void>>

\* A ticket's thirty seconds are over.
Expire(t) ==
  /\ Issued(t)
  /\ tickets' = [tickets EXCEPT ![t] = NoTicket]
  /\ void' = void \cup {t}
  /\ UNCHANGED <<lastGen, state, issued, agentVars, clientVars, rooms, ran, faults>>

\* Mutant of RestartCoordinator: generations start again with the coordinator.
RestartGenerations ==
  /\ faults < MaxFaults /\ faults' = faults + 1 /\ lastGen' = 0
  /\ state' = [n \in Node |-> Unregistered]
  /\ tickets' = [t \in Token |-> NoTicket]
  /\ void' = void \cup {t \in Token : Issued(t)}
  /\ UNCHANGED <<issued, agentVars, clientVars, rooms, ran>>

\* The coordinator restarts with empty memory.
RestartCoordinator ==
  /\ faults < MaxFaults /\ faults' = faults + 1
  /\ state' = [n \in Node |-> Unregistered]
  /\ tickets' = [t \in Token |-> NoTicket]
  /\ void' = void \cup {t \in Token : Issued(t)}
  /\ UNCHANGED <<lastGen, issued, agentVars, clientVars, rooms, ran>>

(***************************************************************************)
(* Agent                                                                   *)
(***************************************************************************)
Running(p) == agent[p].up /\ ~agent[p].fenced
Ready(p)   == Running(p) /\ agent[p].gen # 0 /\ agent[p].reported

\* Mutant of Accept: the generation of the request is not compared.
AcceptAny(p, gen, result) ==
  CASE result = "fenced" -> [agent[p] EXCEPT !.fenced = TRUE, !.reported = FALSE]
    [] result = "registration" -> [agent[p] EXCEPT !.gen = 0, !.reported = FALSE]
    [] OTHER -> agent[p]

Accepts(p, gen) == agent[p].gen = gen /\ ~agent[p].fenced

\* Mutant of Accept: a coordinator that forgot the node is not registered with again.
AcceptKeepsRegistration(p, gen, result) ==
  IF Accepts(p, gen) /\ result = "fenced"
  THEN [agent[p] EXCEPT !.fenced = TRUE, !.reported = FALSE] ELSE agent[p]

\* acceptResult: answers to another registration are ignored.
Accept(p, gen, result) ==
  IF ~Accepts(p, gen) \/ result \notin {"fenced", "registration"} THEN agent[p]
  ELSE IF result = "fenced" THEN [agent[p] EXCEPT !.fenced = TRUE, !.reported = FALSE]
  ELSE [agent[p] EXCEPT !.gen = 0, !.reported = FALSE]

Request(kind, gen, done) ==
  [kind |-> kind, gen |-> gen, rooms |-> {}, done |-> done, old |-> FALSE]

StartProcess(p) ==
  /\ ~agent[p].up /\ ~agent[p].over
  /\ agent' = [agent EXCEPT ![p].up = TRUE]
  /\ UNCHANGED <<coordinatorVars, flight, late, clientVars, rooms, ran, faults>>

\* The process dies with its rooms, its sessions and its completion queue.
Crash(p) ==
  /\ agent[p].up /\ faults < MaxFaults /\ faults' = faults + 1
  /\ agent' = [agent EXCEPT ![p] = [@ EXCEPT !.up = FALSE, !.over = TRUE, !.gen = 0,
                                             !.reported = FALSE, !.completed = {}]]
  /\ flight' = [flight EXCEPT ![p] = NoRequest]
  /\ rooms' = [rooms EXCEPT ![p] = {}]
  /\ call' = [s \in Session |-> IF call[s].proc = p THEN Idle ELSE call[s]]
  /\ UNCHANGED <<coordinatorVars, late, known, ran>>

\* publish takes the gate: it registers first when it has no generation, and
\* otherwise drains the completion queue.
BeginPublish(p) ==
  /\ Running(p) /\ flight[p] = NoRequest
  /\ flight' = [flight EXCEPT ![p] =
       IF agent[p].gen = 0 THEN Request("register", 0, {})
       ELSE Request("draft", agent[p].gen, agent[p].completed)]
  /\ UNCHANGED <<coordinatorVars, agent, late, clientVars, rooms, ran, faults>>

\* The snapshot is taken after the queue was drained.
TakeSnapshot(p) ==
  /\ flight[p] # NoRequest /\ flight[p].kind = "draft"
  /\ flight' = [flight EXCEPT ![p].kind = "report", ![p].rooms = rooms[p]]
  /\ UNCHANGED <<coordinatorVars, agent, late, clientVars, rooms, ran, faults>>

\* The coordinator executes a request m of node n.
Execute(n, m) ==
  IF m.kind = "register" THEN Register(n)
  ELSE IF Standing(n, m.gen) = "ok" THEN Report(n, m) ELSE UNCHANGED coordinatorVars

\* A report of the same generation that is still under way is now out of date.
Outdated(p, gen) ==
  late' = [late EXCEPT ![p] = IF @ # NoRequest /\ @.gen = gen THEN [@ EXCEPT !.old = TRUE] ELSE @]

\* The registration is executed and answered; the publication goes on.
Registered(p) ==
  /\ flight[p] # NoRequest /\ flight[p].kind = "register"
  /\ Register(NodeOf[p])
  /\ agent' = [agent EXCEPT ![p].gen = lastGen', ![p].reported = FALSE]
  /\ flight' = [flight EXCEPT ![p] = Request("draft", lastGen', agent[p].completed)]
  /\ UNCHANGED <<late, clientVars, rooms, ran, faults>>

\* Mutant of Reported: the completion queue is emptied.
ReportedClears(p) ==
  LET m == flight[p]
      answer == Standing(NodeOf[p], m.gen)
  IN  /\ m # NoRequest /\ m.kind = "report"
      /\ Execute(NodeOf[p], m)
      /\ Outdated(p, m.gen)
      /\ agent' = [agent EXCEPT ![p] =
           IF Accepts(p, m.gen) /\ answer = "ok"
           THEN [agent[p] EXCEPT !.reported = TRUE, !.completed = {}]
           ELSE Accept(p, m.gen, answer)]
      /\ flight' = [flight EXCEPT ![p] = NoRequest]
      /\ UNCHANGED <<clientVars, rooms, ran, faults>>

\* The report is executed and answered; what it carried leaves the queue.
Reported(p) ==
  LET m == flight[p]
      answer == Standing(NodeOf[p], m.gen)
  IN  /\ m # NoRequest /\ m.kind = "report"
      /\ Execute(NodeOf[p], m)
      /\ Outdated(p, m.gen)
      /\ agent' = [agent EXCEPT ![p] =
           IF Accepts(p, m.gen) /\ answer = "ok"
           THEN [agent[p] EXCEPT !.reported = TRUE, !.completed = @ \ m.done]
           ELSE Accept(p, m.gen, answer)]
      /\ flight' = [flight EXCEPT ![p] = NoRequest]
      /\ UNCHANGED <<clientVars, rooms, ran, faults>>

\* A request the agent gave up arrives after all.
ServeLate(p) ==
  /\ late[p] # NoRequest
  /\ Execute(NodeOf[p], late[p])
  /\ late' = [late EXCEPT ![p] = NoRequest]
  /\ UNCHANGED <<agent, flight, clientVars, rooms, ran, faults>>

\* Three seconds are over: the request was executed and its answer is lost, or
\* it is lost, or it is still under way.
Timeout(p) ==
  LET m == flight[p] IN
  /\ m # NoRequest /\ m.kind # "draft"
  /\ faults < MaxFaults /\ faults' = faults + 1
  /\ flight' = [flight EXCEPT ![p] = NoRequest]
  /\ \/ Execute(NodeOf[p], m) /\ Outdated(p, m.gen)
     \/ UNCHANGED <<coordinatorVars, late>>
     \/ m.kind \in Delays /\ late' = [late EXCEPT ![p] = m] /\ UNCHANGED coordinatorVars
  /\ UNCHANGED <<agent, clientVars, rooms, ran>>

(***************************************************************************)
(* Sessions                                                                *)
(***************************************************************************)
Do(s, op) == call[s].op = op
Set(s, c) == call' = [call EXCEPT ![s] = c]

\* A create command of a connected client asks for a placement.
Allocate(s, p) ==
  /\ Do(s, "idle") /\ Ready(p)
  /\ Set(s, [op |-> "allocate", proc |-> p, gen |-> agent[p].gen, token |-> NoToken])
  /\ UNCHANGED <<coordinatorVars, agentVars, known, rooms, ran, faults>>

\* The coordinator's answer to the agent of session s; the session goes on with
\* next if the agent accepts it and it is not an error.
Answer(s, result, next) ==
  LET c == call[s] IN
  /\ agent' = [agent EXCEPT ![c.proc] = Accept(c.proc, c.gen, result)]
  /\ Set(s, IF Accepts(c.proc, c.gen) /\ result = "ok" THEN next ELSE Idle)
  /\ UNCHANGED <<lastGen, state, void, flight, late, rooms, ran, faults>>

\* allocate: any node that may take the room (the code orders them by load);
\* the client learns the ticket.  A node that has not reported for ten seconds
\* is not eligible and may not allocate, so a refusal is always possible.
Allocated(s) ==
  LET c == call[s]
      n == NodeOf[c.proc]
      standing == Standing(n, c.gen)
  IN  /\ Do(s, "allocate")
      /\ \/ /\ Answer(s, IF standing = "ok" THEN "refused" ELSE standing, Idle)
            /\ UNCHANGED <<tickets, issued, known>>
         \/ /\ standing = "ok" /\ state[n].heard
            /\ \E t \in Token \ issued, target \in Eligible :
                 /\ tickets' = [tickets EXCEPT ![t] =
                      [node |-> target, gen |-> state[target].gen, taken |-> FALSE]]
                 /\ issued' = issued \cup {t}
                 /\ known' = IF Accepts(c.proc, c.gen) THEN known \cup {t} ELSE known
            /\ Answer(s, "ok", Idle)

\* A client presents a ticket in its hello, to the node it was routed to, to
\* another one, or a second time; the origin itself does so for its own node.
Present(s, t, p) ==
  /\ Do(s, "idle") /\ Ready(p) /\ t \in known
  /\ Set(s, [op |-> "take", proc |-> p, gen |-> agent[p].gen, token |-> t])
  /\ UNCHANGED <<coordinatorVars, agentVars, known, rooms, ran, faults>>

\* Mutant of MayTake: a ticket may be taken again.
MayTakeAgain(n, t, gen) == Issued(t) /\ tickets[t].node = n /\ tickets[t].gen = gen

MayTake(n, t, gen) ==
  Issued(t) /\ ~tickets[t].taken /\ tickets[t].node = n /\ tickets[t].gen = gen

\* take: the ticket is spent, and the session may execute its command.
Taken(s) ==
  LET c == call[s]
      n == NodeOf[c.proc]
      standing == Standing(n, c.gen)
  IN  /\ Do(s, "take")
      /\ \/ /\ standing = "ok" /\ MayTake(n, c.token, c.gen)
            /\ tickets' = [tickets EXCEPT ![c.token].taken = TRUE]
            /\ Answer(s, "ok", [c EXCEPT !.op = "granted"])
         \/ /\ Answer(s, IF standing = "ok" THEN "refused" ELSE standing, Idle)
            /\ UNCHANGED tickets
      /\ UNCHANGED <<issued, known>>

\* The client goes, its call times out, or the grant has expired on this node.
GiveUp(s) ==
  /\ call[s].op \in {"allocate", "take", "granted"}
  /\ Set(s, Idle)
  /\ UNCHANGED <<coordinatorVars, agentVars, known, rooms, ran, faults>>

\* Mutant of RunCommand: the token is queued for completion before the room exists.
RunCompletedCommand(s) ==
  LET p == call[s].proc
      t == call[s].token
  IN  /\ Do(s, "granted")
      /\ IF t \in agent[p].completed
         THEN /\ rooms' = IF Cardinality(rooms[p]) < MaxRooms THEN [rooms EXCEPT ![p] = @ \cup {t}] ELSE rooms
              /\ ran' = ran \cup {t}
              /\ Set(s, [call[s] EXCEPT !.op = "ran"])
              /\ UNCHANGED agent
         ELSE /\ agent' = [agent EXCEPT ![p].completed = @ \cup {t}]
              /\ UNCHANGED <<rooms, ran, call>>
      /\ UNCHANGED <<coordinatorVars, flight, late, known, faults>>

\* The granted command is executed; the hub's own limit is the last word.
RunCommand(s) ==
  LET p == call[s].proc
      t == call[s].token
  IN  /\ Do(s, "granted")
      /\ rooms' = IF Cardinality(rooms[p]) < MaxRooms THEN [rooms EXCEPT ![p] = @ \cup {t}] ELSE rooms
      /\ ran' = ran \cup {t}
      /\ Set(s, [call[s] EXCEPT !.op = "ran"])
      /\ UNCHANGED <<coordinatorVars, agentVars, known, faults>>

\* After the domain locks are released the token is queued for completion.
CompleteCommand(s) ==
  /\ Do(s, "ran")
  /\ agent' = [agent EXCEPT ![call[s].proc].completed = @ \cup {call[s].token}]
  /\ Set(s, Idle)
  /\ UNCHANGED <<coordinatorVars, flight, late, known, rooms, ran, faults>>

CloseRoom(p, t) ==
  /\ t \in rooms[p]
  /\ rooms' = [rooms EXCEPT ![p] = @ \ {t}]
  /\ UNCHANGED <<coordinatorVars, agentVars, clientVars, ran, faults>>

(***************************************************************************)
(* Specification                                                           *)
(***************************************************************************)
Init ==
  /\ lastGen = 0
  /\ state = [n \in Node |-> Unregistered]
  /\ tickets = [t \in Token |-> NoTicket]
  /\ agent = [p \in Proc |-> [up |-> FALSE, over |-> FALSE, gen |-> 0, reported |-> FALSE,
                              fenced |-> FALSE, completed |-> {}]]
  /\ flight = [p \in Proc |-> NoRequest]
  /\ late = [p \in Proc |-> NoRequest]
  /\ rooms = [p \in Proc |-> {}]
  /\ call = [s \in Session |-> Idle]
  /\ issued = {} /\ known = {} /\ ran = {} /\ void = {}
  /\ faults = 0

PublishStep(p) == BeginPublish(p) \/ TakeSnapshot(p) \/ Registered(p) \/ Reported(p)

CallStep(s) ==
  Allocated(s) \/ Taken(s) \/ RunCommand(s) \/ CompleteCommand(s)

Next ==
  \/ RestartCoordinator
  \/ \E t \in Token : Expire(t)
  \/ \E p \in Proc :
       \/ StartProcess(p) \/ Crash(p) \/ PublishStep(p) \/ ServeLate(p) \/ Timeout(p)
       \/ \E t \in Token : CloseRoom(p, t)
  \/ \E s \in Session :
       \/ CallStep(s) \/ GiveUp(s)
       \/ \E p \in Proc : Allocate(s, p) \/ \E t \in Token : Present(s, t, p)

Spec == Init /\ [][Next]_vars

\* The agent's publisher and the coordinator keep running; so do started calls.
Fairness ==
  /\ \A p \in Proc : WF_vars(PublishStep(p))
  /\ \A s \in Session : WF_vars(CallStep(s))

LiveSpec == Spec /\ Fairness

(***************************************************************************)
(* Properties                                                              *)
(***************************************************************************)
RequestState ==
  [kind : {"register", "draft", "report"}, gen : Nat, rooms : SUBSET Token,
   done : SUBSET Token, old : BOOLEAN]

\* Every variable keeps the shape of the Go state it stands for.
TypeOK ==
  /\ lastGen \in Nat
  /\ state \in [Node -> [gen : 0 .. lastGen, heard : BOOLEAN, rooms : SUBSET Token]]
  /\ tickets \in [Token -> [node : Node, gen : 1 .. lastGen, taken : BOOLEAN] \cup {NoTicket}]
  /\ agent \in [Proc -> [up : BOOLEAN, over : BOOLEAN, gen : 0 .. lastGen, reported : BOOLEAN,
                         fenced : BOOLEAN, completed : SUBSET Token]]
  /\ flight \in [Proc -> RequestState \cup {NoRequest}]
  /\ late \in [Proc -> RequestState \cup {NoRequest}]
  /\ rooms \in [Proc -> SUBSET Token]
  /\ call \in [Session -> [op : {"idle", "allocate", "take", "granted", "ran"}, proc : Proc \cup {NoProc},
                           gen : 0 .. lastGen, token : Token \cup {NoToken}]]
  /\ issued \in SUBSET Token /\ known \in SUBSET Token
  /\ ran \in SUBSET Token /\ void \in SUBSET Token
  /\ faults \in 0 .. MaxFaults

\* Process p holds the registration of its node and has reported under it.
Holds(p) ==
  /\ agent[p].up /\ agent[p].gen # 0
  /\ agent[p].gen = state[NodeOf[p]].gen /\ state[NodeOf[p]].heard

\* The room of a placed command is counted without a gap: by its ticket until
\* a report that contains it has been accepted.
CountedWithoutGap ==
  \A p \in Proc : Holds(p) =>
    \A t \in rooms[p] \ void : t \in Reserved(NodeOf[p]) \/ t \in state[NodeOf[p]].rooms

\* A reservation finds its room: placed rooms and the tickets whose command is
\* still to run never exceed the limit of the node's process, whatever was
\* delayed, retried or reported late.
ReservationsFit ==
  \A p \in Proc : Holds(p) =>
    Cardinality(rooms[p] \ void) + Cardinality(Reserved(NodeOf[p]) \ (ran \cup void)) <= MaxRooms

\* A ticket is good for one execution of its command, in the process that
\* holds the reservation.
TicketRunsOnce ==
  [][\A s \in Session : call[s].op = "granted" /\ call'[s].op = "ran"
       => /\ call[s].token \notin ran
          /\ \A p \in Proc : call[s].token \notin rooms[p]]_vars

\* A process is fenced only while it holds a registration and its node was
\* registered again after that: by its replacement, or by a request of its own
\* that arrived late.  A coordinator that forgot the node and answers to earlier
\* registrations fence nobody, whatever kinds of request are delayed.
OnlySupersededIsFenced ==
  [][\A p \in Proc : ~agent[p].fenced /\ agent'[p].fenced =>
       agent[p].gen # 0 /\ state[NodeOf[p]].gen > agent[p].gen]_vars

\* Another process of p's node was started.
Replaced(p) == \E q \in Proc \ {p} : NodeOf[q] = NodeOf[p] /\ (agent[q].up \/ agent[q].over)

\* As long as it is up and nobody replaced it, a process is listed and may place
\* rooms again and again, whatever was lost and however often the coordinator
\* restarted: it is not fenced by an answer to an earlier registration either.
NodeReturns ==
  \A p \in Proc : []<>(~agent[p].up \/ Replaced(p) \/ (Holds(p) /\ Ready(p)))

\* The reservation of a command that has run ends through a report, however
\* many reports were in flight, lost or executed without an answer when it was
\* queued: it does not take space next to its room until it expires.
ReservationsEnd ==
  \A t \in Token : t \in ran /\ Issued(t) ~> ~Issued(t) \/ \E p \in Proc : ~Running(p)
=============================================================================
