---------------------------- MODULE ClusterProofs ----------------------------
(***************************************************************************)
(* Proofs about Cluster, for any nodes, processes, tokens and sessions:    *)
(* its types, that a ticket runs its command once, that only a superseded  *)
(* process is fenced, that a placed room is counted without a gap and that *)
(* reservations fit the limit of their node.                               *)
(***************************************************************************)
EXTENDS Cluster, FiniteSetTheorems, TLAPS

(***************************************************************************)
(* The inductive invariant                                                 *)
(***************************************************************************)
\* A call that is under way came from a process that was registered.
CallsHaveOrigin ==
  \A s \in Session : call[s].op # "idle" =>
    /\ call[s].proc \in Proc /\ call[s].gen # 0
    /\ call[s].op # "allocate" => call[s].token \in Token

\* What a request of p looks like while it is prepared, sent or abandoned.
RequestsInOrder ==
  \A p \in Proc :
    /\ flight[p] # NoRequest =>
         /\ agent[p].up /\ ~flight[p].old /\ flight[p].gen <= lastGen
         /\ flight[p].kind = "register" <=> flight[p].gen = 0
         /\ flight[p].kind = "register" => agent[p].gen = 0
    /\ late[p] # NoRequest =>
         /\ (agent[p].up \/ agent[p].over) /\ late[p].gen <= lastGen
         /\ late[p].kind \in Delays
         /\ late[p].kind = "report" => late[p].gen # 0

\* Only a registered process is heard.
HeardIsRegistered == \A n \in Node : state[n].heard => state[n].gen # 0

TypeInv == TypeOK /\ CallsHaveOrigin /\ RequestsInOrder /\ HeardIsRegistered

\* The coordinator forgot the node, or knows it by the registration of the
\* process or by a later one.
NeverOutrun ==
  \A p \in Proc : agent[p].gen # 0 =>
    state[NodeOf[p]].gen = 0 \/ state[NodeOf[p]].gen >= agent[p].gen

\* A token is spent by at most one session: while its ticket is not taken
\* nobody may run its command, and afterwards one session may, once.
Untaken ==
  \A t \in Token : Issued(t) => t \in issued /\ (~tickets[t].taken =>
    t \notin ran /\ \A s \in Session : call[s].op = "granted" => call[s].token # t)

GrantedOnce ==
  \A s \in Session :
    /\ call[s].op = "granted" =>
         /\ call[s].token \in issued \ ran
         /\ \A r \in Session \ {s} : call[r].op = "granted" => call[r].token # call[s].token
    /\ call[s].op = "ran" => call[s].token \in ran

\* Process p ran the command of token t, as far as its state tells.
RanAt(p, t) ==
  \/ t \in rooms[p]
  \/ t \in agent[p].completed
  \/ flight[p] # NoRequest /\ t \in flight[p].done
  \/ late[p] # NoRequest /\ t \in late[p].done
  \/ \E s \in Session : call[s].op = "ran" /\ call[s].proc = p /\ call[s].token = t

RanInOnePlace ==
  \A p \in Proc, t \in Token : RanAt(p, t) =>
    t \in ran /\ \A q \in Proc : RanAt(q, t) => q = p

TicketInv == ran \subseteq issued /\ Untaken /\ GrantedOnce /\ RanInOnePlace

\* Registrations and requests of different processes never share a generation.
Uses(p, g) ==
  \/ agent[p].gen = g
  \/ flight[p] # NoRequest /\ flight[p].gen = g
  \/ late[p] # NoRequest /\ late[p].gen = g

GenerationsApart ==
  \A p, q \in Proc : \A g \in 1 .. lastGen : Uses(p, g) /\ Uses(q, g) => p = q

\* The grant of a session stands, unless it is void.
GrantsStand ==
  \A s \in Session : call[s].op = "granted" =>
    LET t == call[s].token
        n == NodeOf[call[s].proc]
    IN  t \in void \/ (t \in Reserved(n) /\ tickets[t].taken)

\* A room missing in a snapshot is reserved until a later one.
Covers(p, m) ==
  \A t \in rooms[p] \ m.rooms : t \in void \/ (t \in Reserved(NodeOf[p]) /\ t \notin m.done)

SnapshotsCover ==
  \A p \in Proc :
    /\ flight[p] # NoRequest /\ flight[p].kind = "report" => Covers(p, flight[p])
    /\ late[p] # NoRequest /\ late[p].kind = "report" /\ ~late[p].old
         /\ late[p].gen = state[NodeOf[p]].gen => Covers(p, late[p])
    /\ flight[p] # NoRequest /\ flight[p].kind = "report" /\ late[p] # NoRequest =>
         \A t \in rooms[p] \ flight[p].rooms : t \notin late[p].done

\* Only a running process is registered.
RegisteredIsUp == \A p \in Proc : agent[p].gen # 0 => agent[p].up

CountInv ==
  GenerationsApart /\ RegisteredIsUp /\ GrantsStand /\ SnapshotsCover /\ CountedWithoutGap

\* Only a node that has reported since it registered is given rooms.
ReservedOnceHeard == \A n \in Node : Reserved(n) # {} => state[n].heard

\* All the sets that are counted are finite, and the hub keeps its limit.
Counted ==
  /\ IsFiniteSet(issued)
  /\ \A n \in Node : state[n].rooms \subseteq issued
  /\ \A p \in Proc : Cardinality(rooms[p]) <= MaxRooms
  /\ \A p \in Proc : flight[p] # NoRequest => flight[p].rooms \subseteq issued
  /\ \A p \in Proc : late[p] # NoRequest => late[p].rooms \subseteq issued

FitInv == ReservedOnceHeard /\ Counted /\ ReservationsFit

(***************************************************************************)
(* Types                                                                   *)
(***************************************************************************)
\* What TypeOK says of the coordinator, and of everybody else when
\* generations reach g.
CoordinatorTyped ==
  /\ lastGen \in Nat
  /\ state \in [Node -> [gen : 0 .. lastGen, heard : BOOLEAN, rooms : SUBSET Token]]
  /\ tickets \in [Token -> [node : Node, gen : 1 .. lastGen, taken : BOOLEAN] \cup {NoTicket}]
  /\ issued \in SUBSET Token /\ void \in SUBSET Token

AgentState(g) ==
  [up : BOOLEAN, over : BOOLEAN, gen : 0 .. g, reported : BOOLEAN, fenced : BOOLEAN,
   completed : SUBSET Token]

CallState(g) ==
  [op : {"idle", "allocate", "take", "granted", "ran"}, proc : Proc \cup {NoProc},
   gen : 0 .. g, token : Token \cup {NoToken}]

ClientsTyped ==
  /\ agent \in [Proc -> AgentState(lastGen)]
  /\ call \in [Session -> CallState(lastGen)]

RequestsTyped ==
  /\ flight \in [Proc -> RequestState \cup {NoRequest}]
  /\ late \in [Proc -> RequestState \cup {NoRequest}]

RoomsTyped ==
  /\ rooms \in [Proc -> SUBSET Token]
  /\ known \in SUBSET Token /\ ran \in SUBSET Token /\ faults \in 0 .. MaxFaults

LEMMA TypeParts ==
  /\ TypeOK <=> CoordinatorTyped /\ ClientsTyped /\ RequestsTyped /\ RoomsTyped
  /\ TypeOK' <=> CoordinatorTyped' /\ ClientsTyped' /\ RequestsTyped' /\ RoomsTyped'
BY DEF TypeOK, CoordinatorTyped, ClientsTyped, RequestsTyped, RoomsTyped, AgentState, CallState

\* A greater generation keeps what was typed.
LEMMA WiderTypes ==
  ASSUME NEW g \in Nat, NEW h \in Nat, g <= h
  PROVE  AgentState(g) \subseteq AgentState(h) /\ CallState(g) \subseteq CallState(h)
<1>1. 0 .. g \subseteq 0 .. h
  OBVIOUS
<1>2. QED
  BY <1>1 DEF AgentState, CallState

\* Every step of the coordinator keeps its types and never takes a generation back.
LEMMA RegisterType ==
  ASSUME CoordinatorTyped, NEW n \in Node, Register(n)
  PROVE  CoordinatorTyped' /\ lastGen' = lastGen + 1
<1>1. lastGen' \in Nat /\ 0 .. lastGen \subseteq 0 .. lastGen' /\ 1 .. lastGen \subseteq 1 .. lastGen'
  BY DEF CoordinatorTyped, Register
<1>2. state' \in [Node -> [gen : 0 .. lastGen', heard : BOOLEAN, rooms : SUBSET Token]]
  <2> DEFINE fresh == [Unregistered EXCEPT !.gen = lastGen + 1]
  <2>1. fresh \in [gen : 0 .. lastGen', heard : BOOLEAN, rooms : SUBSET Token]
    <3>1. lastGen + 1 \in 0 .. lastGen' /\ 0 \in 0 .. lastGen'
      BY DEF CoordinatorTyped, Register
    <3>2. QED
      BY <3>1, Zenon DEF Unregistered
  <2>2. [gen : 0 .. lastGen, heard : BOOLEAN, rooms : SUBSET Token]
          \subseteq [gen : 0 .. lastGen', heard : BOOLEAN, rooms : SUBSET Token]
    BY <1>1
  <2>3. state' = [state EXCEPT ![n] = fresh]
    BY DEF Register
  <2> HIDE DEF fresh
  <2>4. QED
    BY <2>1, <2>2, <2>3 DEF CoordinatorTyped
<1>3. tickets' \in [Token -> [node : Node, gen : 1 .. lastGen', taken : BOOLEAN] \cup {NoTicket}]
  BY <1>1 DEF CoordinatorTyped, Register
<1>4. QED
  BY <1>1, <1>2, <1>3 DEF CoordinatorTyped, Register

LEMMA ReportType ==
  ASSUME CoordinatorTyped, NEW n \in Node, NEW m \in RequestState, Report(n, m)
  PROVE  CoordinatorTyped' /\ lastGen' = lastGen
<1>1. CASE m.old
  BY <1>1 DEF CoordinatorTyped, Report, coordinatorVars
<1>2. CASE ~m.old
  <2>1. UNCHANGED <<lastGen, issued, void>>
    BY <1>2 DEF Report
  <2>2. state' \in [Node -> [gen : 0 .. lastGen', heard : BOOLEAN, rooms : SUBSET Token]]
    <3>1. state' = [state EXCEPT ![n].heard = TRUE, ![n].rooms = m.rooms] /\ m.rooms \in SUBSET Token
      BY <1>2 DEF Report, RequestState
    <3>2. QED
      BY <2>1, <3>1 DEF CoordinatorTyped
  <2>3. tickets' \in [Token -> [node : Node, gen : 1 .. lastGen', taken : BOOLEAN] \cup {NoTicket}]
    BY <1>2, <2>1 DEF CoordinatorTyped, Report
  <2>4. QED
    BY <2>1, <2>2, <2>3 DEF CoordinatorTyped
<1>3. QED
  BY <1>1, <1>2

LEMMA ExecuteType ==
  ASSUME CoordinatorTyped, NEW n \in Node, NEW m \in RequestState, Execute(n, m)
  PROVE  CoordinatorTyped' /\ lastGen' \in {lastGen, lastGen + 1}
<1>1. CASE m.kind = "register"
  BY <1>1, RegisterType DEF Execute
<1>2. CASE m.kind # "register" /\ Standing(n, m.gen) = "ok"
  BY <1>2, ReportType DEF Execute
<1>3. CASE m.kind # "register" /\ Standing(n, m.gen) # "ok"
  BY <1>3 DEF Execute, CoordinatorTyped, coordinatorVars
<1>4. QED
  BY <1>1, <1>2, <1>3

\* An answer leaves an agent typed.
LEMMA AcceptType ==
  ASSUME NEW p \in Proc, NEW g, NEW result, NEW h \in Nat, agent[p] \in AgentState(h)
  PROVE  Accept(p, g, result) \in AgentState(h)
<1>1. Accept(p, g, result) \in
        {agent[p], [agent[p] EXCEPT !.fenced = TRUE, !.reported = FALSE],
         [agent[p] EXCEPT !.gen = 0, !.reported = FALSE]}
  BY DEF Accept
<1>2. [agent[p] EXCEPT !.fenced = TRUE, !.reported = FALSE] \in AgentState(h)
  BY Zenon DEF AgentState
<1>3. [agent[p] EXCEPT !.gen = 0, !.reported = FALSE] \in AgentState(h)
  <2>1. 0 \in 0 .. h
    OBVIOUS
  <2>2. QED
    BY <2>1, Zenon DEF AgentState
<1>4. QED
  BY <1>1, <1>2, <1>3

\* Clients keep their types while the coordinator goes on.
LEMMA ClientsKeepType ==
  ASSUME CoordinatorTyped, ClientsTyped, lastGen' \in {lastGen, lastGen + 1}, UNCHANGED <<agent, call>>
  PROVE  ClientsTyped'
<1>1. lastGen \in Nat /\ lastGen' \in Nat /\ lastGen <= lastGen'
  BY DEF CoordinatorTyped
<1>2. AgentState(lastGen) \subseteq AgentState(lastGen') /\ CallState(lastGen) \subseteq CallState(lastGen')
  BY <1>1, WiderTypes
<1>3. QED
  BY <1>2 DEF ClientsTyped

\* A request keeps its type while it is prepared.
LEMMA RequestType ==
  ASSUME NEW kind \in {"register", "draft", "report"}, NEW g \in Nat, NEW done \in SUBSET Token
  PROVE  Request(kind, g, done) \in RequestState
BY Zenon DEF Request, RequestState

\* The coordinator's own steps.
LEMMA CoordinatorType ==
  ASSUME TypeInv, RestartCoordinator \/ \E t \in Token : Expire(t)
  PROVE  TypeOK'
<1>1. CoordinatorTyped /\ ClientsTyped /\ RequestsTyped /\ RoomsTyped
  BY TypeParts DEF TypeInv
<1>2. lastGen' = lastGen /\ UNCHANGED <<agent, call, flight, late, rooms, known, ran>>
  BY DEF RestartCoordinator, Expire, agentVars, clientVars
<1>3. CoordinatorTyped'
  <2>1. CASE RestartCoordinator
    <3>1. 0 \in 0 .. lastGen
      BY <1>1 DEF CoordinatorTyped
    <3>2. Unregistered \in [gen : 0 .. lastGen, heard : BOOLEAN, rooms : SUBSET Token]
      BY <3>1, Zenon DEF Unregistered
    <3>3. QED
      BY <1>1, <1>2, <2>1, <3>2 DEF CoordinatorTyped, RestartCoordinator
  <2>2. ASSUME NEW t \in Token, Expire(t)
        PROVE  CoordinatorTyped'
    BY <1>1, <1>2, <2>2 DEF CoordinatorTyped, Expire
  <2>3. QED
    BY <2>1, <2>2
<1>4. RoomsTyped'
  BY <1>1, <1>2, BoundAssumption DEF RoomsTyped, RestartCoordinator, Expire
<1>5. ClientsTyped' /\ RequestsTyped'
  BY <1>1, <1>2, ClientsKeepType DEF CoordinatorTyped, RequestsTyped
<1>6. QED
  BY <1>3, <1>4, <1>5, TypeParts

\* A process starts, dies or prepares its publication.
LEMMA ProcessType ==
  ASSUME TypeInv, NEW p \in Proc, StartProcess(p) \/ Crash(p) \/ BeginPublish(p) \/ TakeSnapshot(p)
  PROVE  TypeOK'
<1>1. CoordinatorTyped /\ ClientsTyped /\ RequestsTyped /\ RoomsTyped /\ 0 \in 0 .. lastGen
  BY TypeParts DEF TypeInv, CoordinatorTyped
<1>2. CoordinatorTyped' /\ lastGen' = lastGen /\ late' = late
  BY <1>1 DEF CoordinatorTyped, StartProcess, Crash, BeginPublish, TakeSnapshot, coordinatorVars
<1>3. agent[p] \in AgentState(lastGen)
  BY <1>1 DEF ClientsTyped
<1>4. CASE StartProcess(p)
  <2>1. [agent[p] EXCEPT !.up = TRUE] \in AgentState(lastGen)
    BY <1>3, Zenon DEF AgentState
  <2>2. agent' = [agent EXCEPT ![p] = [agent[p] EXCEPT !.up = TRUE]]
    BY <1>4 DEF StartProcess
  <2>3. ClientsTyped'
    BY <1>1, <1>2, <1>4, <2>1, <2>2 DEF ClientsTyped, StartProcess, clientVars
  <2>4. QED
    BY <1>1, <1>2, <1>4, <2>3, TypeParts DEF RequestsTyped, RoomsTyped, StartProcess, clientVars
<1>5. CASE Crash(p)
  <2> DEFINE a == [agent[p] EXCEPT !.up = FALSE, !.over = TRUE, !.gen = 0,
                                   !.reported = FALSE, !.completed = {}]
  <2>1. a \in AgentState(lastGen)
    BY <1>1, <1>3, Zenon DEF AgentState
  <2>2. agent' = [agent EXCEPT ![p] = a]
    BY <1>5 DEF Crash
  <2>3. Idle \in CallState(lastGen)
    BY <1>1, Zenon DEF Idle, CallState
  <2> HIDE DEF a
  <2>4. ClientsTyped'
    BY <1>1, <1>2, <1>5, <2>1, <2>2, <2>3 DEF ClientsTyped, Crash
  <2>5. RequestsTyped' /\ RoomsTyped'
    BY <1>1, <1>2, <1>5, BoundAssumption DEF RequestsTyped, RoomsTyped, Crash
  <2>6. QED
    BY <1>2, <2>4, <2>5, TypeParts
<1>6. CASE BeginPublish(p)
  <2>1. agent[p].gen \in Nat /\ agent[p].completed \in SUBSET Token
    BY <1>1, <1>3 DEF AgentState, CoordinatorTyped
  <2>2. flight' \in [Proc -> RequestState \cup {NoRequest}]
    <3>1. PICK m \in RequestState : flight' = [flight EXCEPT ![p] = m]
      BY <1>6, <2>1, RequestType DEF BeginPublish
    <3>2. QED
      BY <1>1, <3>1 DEF RequestsTyped
  <2>3. QED
    BY <1>1, <1>2, <1>6, <2>2, TypeParts DEF ClientsTyped, RequestsTyped, RoomsTyped, BeginPublish, clientVars
<1>7. CASE TakeSnapshot(p)
  <2>1. flight[p] \in RequestState /\ rooms[p] \in SUBSET Token
    BY <1>1, <1>7 DEF TakeSnapshot, RequestsTyped, RoomsTyped
  <2>2. [flight[p] EXCEPT !.kind = "report", !.rooms = rooms[p]] \in RequestState
    BY <2>1, Zenon DEF RequestState
  <2>3. flight' = [flight EXCEPT ![p] = [flight[p] EXCEPT !.kind = "report", !.rooms = rooms[p]]]
    BY <1>7 DEF TakeSnapshot
  <2>4. RequestsTyped'
    BY <1>1, <1>2, <2>2, <2>3 DEF RequestsTyped
  <2>5. QED
    BY <1>1, <1>2, <1>7, <2>4, TypeParts DEF ClientsTyped, RoomsTyped, TakeSnapshot, clientVars
<1>8. QED
  BY <1>4, <1>5, <1>6, <1>7

\* A later request of the generation is marked in place.
LEMMA OutdatedType ==
  ASSUME RequestsTyped, NEW p \in Proc, NEW g, Outdated(p, g)
  PROVE  late' \in [Proc -> RequestState \cup {NoRequest}]
<1>1. CASE late[p] # NoRequest /\ late[p].gen = g
  <2>1. [late[p] EXCEPT !.old = TRUE] \in RequestState
    BY <1>1, Zenon DEF RequestsTyped, RequestState
  <2>2. QED
    BY <1>1, <2>1 DEF Outdated, RequestsTyped
<1>2. CASE ~(late[p] # NoRequest /\ late[p].gen = g)
  BY <1>2 DEF Outdated, RequestsTyped
<1>3. QED
  BY <1>1, <1>2

\* A registration reaches the coordinator and is answered.
LEMMA RegisteredType ==
  ASSUME TypeInv, NEW p \in Proc, Registered(p)
  PROVE  TypeOK'
<1>1. CoordinatorTyped /\ ClientsTyped /\ RequestsTyped /\ RoomsTyped
  BY TypeParts DEF TypeInv
<1>2. CoordinatorTyped' /\ lastGen' = lastGen + 1 /\ lastGen' \in Nat
  BY <1>1, RegisterType, NodeAssumption DEF Registered, CoordinatorTyped
<1>3. lastGen \in Nat /\ lastGen' \in 0 .. lastGen'
  BY <1>1, <1>2 DEF CoordinatorTyped
<1>4. AgentState(lastGen) \subseteq AgentState(lastGen') /\ CallState(lastGen) \subseteq CallState(lastGen')
  BY <1>2, <1>3, WiderTypes
<1>5. agent[p] \in AgentState(lastGen') /\ agent[p].completed \in SUBSET Token
  BY <1>1, <1>4 DEF ClientsTyped, AgentState
<1>6. ClientsTyped'
  <2> DEFINE a == [agent[p] EXCEPT !.gen = lastGen', !.reported = FALSE]
  <2>1. a \in AgentState(lastGen')
    BY <1>3, <1>5, Zenon DEF AgentState
  <2>2. agent' = [agent EXCEPT ![p] = a] /\ call' = call
    BY DEF Registered, clientVars
  <2> HIDE DEF a
  <2>3. QED
    BY <1>1, <1>4, <2>1, <2>2 DEF ClientsTyped
<1>7. RequestsTyped'
  <2>1. Request("draft", lastGen', agent[p].completed) \in RequestState
    BY <1>2, <1>5, RequestType
  <2>2. QED
    BY <1>1, <2>1 DEF RequestsTyped, Registered
<1>8. RoomsTyped'
  BY <1>1 DEF RoomsTyped, Registered, clientVars
<1>9. QED
  BY <1>2, <1>6, <1>7, <1>8, TypeParts

\* A report is executed and answered.
LEMMA ReportedType ==
  ASSUME TypeInv, NEW p \in Proc, Reported(p)
  PROVE  TypeOK'
<1> DEFINE m == flight[p]
           answer == Standing(NodeOf[p], m.gen)
<1>1. CoordinatorTyped /\ ClientsTyped /\ RequestsTyped /\ RoomsTyped
  BY TypeParts DEF TypeInv
<1>2. m \in RequestState /\ NodeOf[p] \in Node
  BY <1>1, NodeAssumption DEF Reported, RequestsTyped
<1>3. CoordinatorTyped' /\ lastGen' \in {lastGen, lastGen + 1}
  BY <1>1, <1>2, ExecuteType DEF Reported
<1>4. lastGen \in Nat /\ lastGen' \in Nat /\ lastGen <= lastGen'
  BY <1>1, <1>3 DEF CoordinatorTyped
<1>5. AgentState(lastGen) \subseteq AgentState(lastGen') /\ CallState(lastGen) \subseteq CallState(lastGen')
  BY <1>4, WiderTypes
<1>6. agent[p] \in AgentState(lastGen')
  BY <1>1, <1>5 DEF ClientsTyped
<1>7. PICK a \in AgentState(lastGen') : agent' = [agent EXCEPT ![p] = a]
  <2>1. [agent[p] EXCEPT !.reported = TRUE, !.completed = agent[p].completed \ m.done] \in AgentState(lastGen')
    BY <1>6, Zenon DEF AgentState
  <2>2. Accept(p, m.gen, answer) \in AgentState(lastGen')
    BY <1>4, <1>6, AcceptType
  <2>3. QED
    BY <2>1, <2>2 DEF Reported
<1>8. ClientsTyped'
  BY <1>1, <1>5, <1>7 DEF ClientsTyped, Reported, clientVars
<1>9. RequestsTyped'
  <2>1. late' \in [Proc -> RequestState \cup {NoRequest}]
    BY <1>1, OutdatedType DEF Reported
  <2>2. QED
    BY <1>1, <2>1 DEF RequestsTyped, Reported
<1>10. RoomsTyped'
  BY <1>1 DEF RoomsTyped, Reported, clientVars
<1>11. QED
  BY <1>3, <1>8, <1>9, <1>10, TypeParts

\* A request is lost, answered too late or executed after all.
LEMMA LateType ==
  ASSUME TypeInv, NEW p \in Proc, ServeLate(p) \/ Timeout(p)
  PROVE  TypeOK'
<1>1. CoordinatorTyped /\ ClientsTyped /\ RequestsTyped /\ RoomsTyped /\ NodeOf[p] \in Node
  BY TypeParts, NodeAssumption DEF TypeInv
<1>2. UNCHANGED <<agent, call, known, rooms, ran>>
  BY DEF ServeLate, Timeout, clientVars
<1>3. CoordinatorTyped' /\ lastGen' \in {lastGen, lastGen + 1}
  <2>1. CASE UNCHANGED coordinatorVars
    BY <1>1, <2>1 DEF CoordinatorTyped, coordinatorVars
  <2>2. ASSUME NEW m \in RequestState, Execute(NodeOf[p], m)
        PROVE  CoordinatorTyped' /\ lastGen' \in {lastGen, lastGen + 1}
    BY <1>1, <2>2, ExecuteType
  <2>3. QED
    BY <1>1, <2>1, <2>2 DEF ServeLate, Timeout, RequestsTyped
<1>4. ClientsTyped'
  BY <1>1, <1>2, <1>3, ClientsKeepType
<1>5. RequestsTyped'
  <2>1. flight' \in [Proc -> RequestState \cup {NoRequest}]
    BY <1>1 DEF RequestsTyped, ServeLate, Timeout
  <2>2. ASSUME NEW g, Outdated(p, g)
        PROVE  late' \in [Proc -> RequestState \cup {NoRequest}]
    BY <1>1, <2>2, OutdatedType
  <2>3. late' \in [Proc -> RequestState \cup {NoRequest}]
    BY <1>1, <2>2 DEF RequestsTyped, ServeLate, Timeout
  <2>4. QED
    BY <2>1, <2>3 DEF RequestsTyped
<1>6. RoomsTyped'
  BY <1>1, <1>2, BoundAssumption DEF RoomsTyped, ServeLate, Timeout
<1>7. QED
  BY <1>3, <1>4, <1>5, <1>6, TypeParts

\* A session waits for an answer and goes on with next, or gives up.
LEMMA AnswerType ==
  ASSUME ClientsTyped, lastGen \in Nat, NEW s \in Session, NEW result, call[s].proc \in Proc,
         NEW next \in CallState(lastGen), Answer(s, result, next)
  PROVE  ClientsTyped'
<1> DEFINE p == call[s].proc
<1>1. Accept(p, call[s].gen, result) \in AgentState(lastGen)
  BY AcceptType DEF ClientsTyped
<1>2. agent' = [agent EXCEPT ![p] = Accept(p, call[s].gen, result)] /\ lastGen' = lastGen
  BY DEF Answer
<1>3. Idle \in CallState(lastGen)
  <2>1. 0 \in 0 .. lastGen
    OBVIOUS
  <2>2. QED
    BY <2>1, Zenon DEF Idle, CallState
<1>4. call' \in [Session -> CallState(lastGen)]
  BY <1>3 DEF ClientsTyped, Answer, Set
<1>5. QED
  BY <1>1, <1>2, <1>4 DEF ClientsTyped

\* A session gets its ticket or spends one.
LEMMA AnsweredType ==
  ASSUME TypeInv, NEW s \in Session, Allocated(s) \/ Taken(s)
  PROVE  TypeOK'
<1> DEFINE c == call[s]
           n == NodeOf[c.proc]
<1>1. CoordinatorTyped /\ ClientsTyped /\ RequestsTyped /\ RoomsTyped
  BY TypeParts DEF TypeInv
<1>2. c.proc \in Proc /\ c.gen # 0 /\ c.op # "idle" /\ c \in CallState(lastGen)
  BY <1>1 DEF Allocated, Taken, Do, TypeInv, CallsHaveOrigin, ClientsTyped
<1>3. /\ lastGen \in Nat /\ lastGen' = lastGen /\ state' = state /\ void' = void
      /\ UNCHANGED <<flight, late, rooms, ran, faults>>
  BY <1>1 DEF Allocated, Taken, Answer, CoordinatorTyped
<1>4. Idle \in CallState(lastGen)
  <2>1. 0 \in 0 .. lastGen
    BY <1>3
  <2>2. QED
    BY <2>1, Zenon DEF Idle, CallState
<1>5. [c EXCEPT !.op = "granted"] \in CallState(lastGen)
  BY <1>2, Zenon DEF CallState
<1>6. ClientsTyped'
  <2>1. \E result : \E next \in {Idle, [c EXCEPT !.op = "granted"]} : Answer(s, result, next)
    BY DEF Allocated, Taken
  <2>2. QED
    BY <1>1, <1>2, <1>3, <1>4, <1>5, <2>1, AnswerType
<1>7. CoordinatorTyped' /\ known' \in SUBSET Token
  <2>1. CASE Allocated(s)
    <3>1. CASE UNCHANGED <<tickets, issued, known>>
      BY <1>1, <1>3, <3>1 DEF CoordinatorTyped, RoomsTyped
    <3>2. ASSUME NEW t \in Token \ issued, NEW target \in Eligible,
                 tickets' = [tickets EXCEPT ![t] = [node |-> target, gen |-> state[target].gen, taken |-> FALSE]],
                 issued' = issued \cup {t},
                 known' \in {known, known \cup {t}}, Standing(n, c.gen) = "ok"
          PROVE  CoordinatorTyped' /\ known' \in SUBSET Token
      <4>1. target \in Node /\ state[target].heard
        BY DEF Eligible
      <4>2. state[target].gen \in 1 .. lastGen
        BY <1>1, <1>3, <4>1 DEF CoordinatorTyped, TypeInv, HeardIsRegistered
      <4>3. QED
        BY <1>1, <1>3, <3>2, <4>1, <4>2 DEF CoordinatorTyped, RoomsTyped
    <3>3. QED
      BY <2>1, <3>1, <3>2 DEF Allocated
  <2>2. CASE Taken(s)
    <3>1. issued' = issued /\ known' = known
      BY <2>2 DEF Taken
    <3>2. CASE tickets' = tickets
      BY <1>1, <1>3, <3>1, <3>2 DEF CoordinatorTyped, RoomsTyped
    <3>3. CASE Issued(c.token) /\ tickets' = [tickets EXCEPT ![c.token].taken = TRUE]
      BY <1>1, <1>3, <3>1, <3>3 DEF CoordinatorTyped, RoomsTyped, Issued
    <3>4. QED
      BY <2>2, <3>2, <3>3 DEF Taken, MayTake
  <2>3. QED
    BY <2>1, <2>2
<1>8. QED
  BY <1>1, <1>3, <1>6, <1>7, TypeParts DEF RequestsTyped, RoomsTyped

\* A session asks the coordinator, gives up or goes on with its command.
LEMMA SessionType ==
  ASSUME TypeInv, NEW s \in Session,
         \/ \E p \in Proc : Allocate(s, p) \/ \E t \in Token : Present(s, t, p)
         \/ GiveUp(s) \/ RunCommand(s) \/ CompleteCommand(s)
  PROVE  TypeOK'
<1>1. CoordinatorTyped /\ ClientsTyped /\ RequestsTyped /\ RoomsTyped
  BY TypeParts DEF TypeInv
<1>2. /\ lastGen \in Nat /\ lastGen' = lastGen /\ CoordinatorTyped'
      /\ UNCHANGED <<flight, late, known, faults>>
  BY <1>1 DEF Allocate, Present, GiveUp, RunCommand, CompleteCommand, CoordinatorTyped,
              coordinatorVars, agentVars
<1>3. call[s] \in CallState(lastGen)
  BY <1>1 DEF ClientsTyped
<1>4. call' \in [Session -> CallState(lastGen)]
  <2>1. PICK k \in CallState(lastGen) : call' = [call EXCEPT ![s] = k]
    <3>1. ASSUME NEW p \in Proc, NEW t \in Token \cup {NoToken}, NEW o \in {"allocate", "take"}
          PROVE  [op |-> o, proc |-> p, gen |-> agent[p].gen, token |-> t] \in CallState(lastGen)
      <4>1. agent[p].gen \in 0 .. lastGen
        BY <1>1 DEF ClientsTyped, AgentState
      <4>2. QED
        BY <4>1, Zenon DEF CallState
    <3>2. Idle \in CallState(lastGen)
      <4>1. 0 \in 0 .. lastGen
        BY <1>2
      <4>2. QED
        BY <4>1, Zenon DEF Idle, CallState
    <3>3. [call[s] EXCEPT !.op = "ran"] \in CallState(lastGen)
      BY <1>3, Zenon DEF CallState
    <3>4. QED
      BY <3>1, <3>2, <3>3 DEF Allocate, Present, GiveUp, RunCommand, CompleteCommand, Set
  <2>2. QED
    BY <1>1, <2>1 DEF ClientsTyped
<1>5. agent' \in [Proc -> AgentState(lastGen)]
  <2>1. CASE agent' = agent
    BY <1>1, <2>1 DEF ClientsTyped
  <2>2. CASE CompleteCommand(s)
    <3>1. call[s].proc \in Proc /\ call[s].token \in Token
      BY <2>2 DEF CompleteCommand, Do, TypeInv, CallsHaveOrigin
    <3>2. ASSUME NEW p \in Proc, NEW t \in Token
          PROVE  [agent[p] EXCEPT !.completed = agent[p].completed \cup {t}] \in AgentState(lastGen)
      <4>1. agent[p] \in AgentState(lastGen)
        BY <1>1 DEF ClientsTyped
      <4>2. agent[p].completed \cup {t} \in SUBSET Token
        BY <4>1 DEF AgentState
      <4>3. QED
        BY <4>1, <4>2, Zenon DEF AgentState
    <3>3. PICK a \in AgentState(lastGen) : agent' = [agent EXCEPT ![call[s].proc] = a]
      BY <2>2, <3>1, <3>2 DEF CompleteCommand
    <3>4. QED
      BY <1>1, <3>3 DEF ClientsTyped
  <2>3. QED
    BY <2>1, <2>2 DEF Allocate, Present, GiveUp, RunCommand, agentVars
<1>6. RoomsTyped'
  <2>1. CASE UNCHANGED <<rooms, ran>>
    BY <1>1, <1>2, <2>1 DEF RoomsTyped
  <2>2. CASE RunCommand(s)
    <3>1. call[s].proc \in Proc /\ call[s].token \in Token
      BY <2>2 DEF RunCommand, Do, TypeInv, CallsHaveOrigin
    <3>2. QED
      BY <1>1, <1>2, <2>2, <3>1 DEF RoomsTyped, RunCommand
  <2>3. QED
    BY <2>1, <2>2 DEF Allocate, Present, GiveUp, CompleteCommand
<1>7. QED
  BY <1>1, <1>2, <1>4, <1>5, <1>6, TypeParts DEF ClientsTyped, RequestsTyped

\* Answers change neither whether a process lives nor, except to forget it,
\* its registration.
AgentsKeepRegistration ==
  \A p \in Proc :
    /\ agent'[p].up = agent[p].up /\ agent'[p].over = agent[p].over
    /\ agent'[p].gen \in {agent[p].gen, 0}

LEMMA AcceptFields ==
  ASSUME NEW h \in Nat, NEW p \in Proc, agent[p] \in AgentState(h), NEW g, NEW result
  PROVE  /\ Accept(p, g, result).up = agent[p].up
         /\ Accept(p, g, result).over = agent[p].over
         /\ Accept(p, g, result).gen \in {agent[p].gen, 0}
         /\ Accept(p, g, result).completed = agent[p].completed
         /\ Accept(p, g, result).fenced => agent[p].fenced \/ (result = "fenced" /\ agent[p].gen = g)
<1>1. CASE Accept(p, g, result) = agent[p]
  BY <1>1
<1>2. CASE /\ Accept(p, g, result) = [agent[p] EXCEPT !.fenced = TRUE, !.reported = FALSE]
           /\ result = "fenced" /\ agent[p].gen = g
  BY <1>2 DEF AgentState
<1>3. CASE Accept(p, g, result) = [agent[p] EXCEPT !.gen = 0, !.reported = FALSE]
  BY <1>3 DEF AgentState
<1>4. QED
  BY <1>1, <1>2, <1>3 DEF Accept, Accepts

\* A step that answers no request keeps the requests in order.
LEMMA RequestsKept ==
  ASSUME TypeInv, lastGen' \in {lastGen, lastGen + 1}, UNCHANGED <<flight, late>>, AgentsKeepRegistration
  PROVE  RequestsInOrder'
<1>1. lastGen \in Nat /\ \A p \in Proc : flight[p] # NoRequest => flight[p].gen \in Nat
  BY DEF TypeInv, TypeOK, RequestState
<1>2. \A p \in Proc : late[p] # NoRequest => late[p].gen \in Nat
  BY DEF TypeInv, TypeOK, RequestState
<1>3. QED
  BY <1>1, <1>2 DEF TypeInv, RequestsInOrder, AgentsKeepRegistration

LEMMA SessionRequests ==
  ASSUME TypeInv, NEW s \in Session,
         \/ \E p \in Proc : Allocate(s, p) \/ \E t \in Token : Present(s, t, p)
         \/ GiveUp(s) \/ RunCommand(s) \/ CompleteCommand(s) \/ Allocated(s) \/ Taken(s)
  PROVE  /\ AgentsKeepRegistration /\ lastGen' = lastGen /\ state' = state
         /\ UNCHANGED <<flight, late, faults>>
<1>1. CASE Allocated(s) \/ Taken(s)
  <2> DEFINE p == call[s].proc
  <2>1. PICK result : agent' = [agent EXCEPT ![p] = Accept(p, call[s].gen, result)]
    BY <1>1 DEF Allocated, Taken, Answer
  <2>2. p \in Proc /\ lastGen \in Nat /\ agent \in [Proc -> AgentState(lastGen)]
    BY <1>1, TypeParts DEF Allocated, Taken, Do, TypeInv, CallsHaveOrigin, ClientsTyped, CoordinatorTyped
  <2>3. /\ Accept(p, call[s].gen, result).up = agent[p].up
        /\ Accept(p, call[s].gen, result).over = agent[p].over
        /\ Accept(p, call[s].gen, result).gen \in {agent[p].gen, 0}
    BY <2>2, AcceptFields
  <2>4. AgentsKeepRegistration
    BY <2>1, <2>2, <2>3 DEF AgentsKeepRegistration
  <2>5. QED
    BY <1>1, <2>4 DEF Allocated, Taken, Answer
<1>2. CASE CompleteCommand(s)
  <2>1. agent \in [Proc -> AgentState(lastGen)]
    BY TypeParts DEF TypeInv, ClientsTyped
  <2>2. QED
    BY <1>2, <2>1 DEF CompleteCommand, AgentsKeepRegistration, AgentState, coordinatorVars
<1>3. ASSUME UNCHANGED <<coordinatorVars, agentVars, faults>>
      PROVE  /\ AgentsKeepRegistration /\ lastGen' = lastGen /\ state' = state
             /\ UNCHANGED <<flight, late, faults>>
  BY <1>3 DEF AgentsKeepRegistration, coordinatorVars, agentVars
<1>4. QED
  BY <1>1, <1>2, <1>3 DEF Allocate, Present, GiveUp, RunCommand

\* What the coordinator does with a request.
LEMMA ExecuteFields ==
  ASSUME CoordinatorTyped, NEW n \in Node, NEW m \in RequestState, Execute(n, m)
  PROVE  /\ m.kind = "register" => Register(n)
         /\ m.kind # "register" => lastGen' = lastGen
         /\ m.kind # "register" /\ state[n].gen = m.gen /\ m.gen # 0 => Report(n, m)
         /\ m.kind # "register" /\ (state[n].gen # m.gen \/ m.gen = 0) => UNCHANGED coordinatorVars
<1>1. m.kind # "register" => (Standing(n, m.gen) = "ok" <=> state[n].gen = m.gen /\ m.gen # 0)
  BY DEF Standing
<1>2. ASSUME Report(n, m)
      PROVE  lastGen' = lastGen
  BY <1>2 DEF Report, coordinatorVars
<1>3. QED
  BY <1>1, <1>2 DEF Execute, coordinatorVars

\* A call that is begun or goes on names its process and its ticket.
LEMMA CallsStep ==
  ASSUME TypeInv, [Next]_vars
  PROVE  CallsHaveOrigin'
<1> DEFINE Placed(k) == k.op # "idle" =>
             k.proc \in Proc /\ k.gen # 0 /\ (k.op # "allocate" => k.token \in Token)
<1>1. call \in [Session -> CallState(lastGen)] /\ \A s \in Session : Placed(call[s])
  BY TypeParts DEF TypeInv, ClientsTyped, CallsHaveOrigin
<1>2. Placed(Idle)
  BY DEF Idle
<1>3. ASSUME NEW s \in Session, NEW k, Placed(k), call' = [call EXCEPT ![s] = k]
      PROVE  CallsHaveOrigin'
  BY <1>1, <1>3 DEF CallsHaveOrigin
<1>4. CASE call' = call
  BY <1>1, <1>4 DEF CallsHaveOrigin
<1>5. ASSUME NEW p \in Proc, Crash(p)
      PROVE  CallsHaveOrigin'
  BY <1>1, <1>2, <1>5 DEF CallsHaveOrigin, Crash
<1>6. ASSUME NEW s \in Session, NEW p \in Proc, Allocate(s, p) \/ \E t \in Token : Present(s, t, p)
      PROVE  CallsHaveOrigin'
  <2>1. PICK k : Placed(k) /\ call' = [call EXCEPT ![s] = k]
    BY <1>6 DEF Allocate, Present, Ready, Set
  <2>2. QED
    BY <1>3, <2>1
<1>7. ASSUME NEW s \in Session, CallStep(s) \/ GiveUp(s)
      PROVE  CallsHaveOrigin'
  <2>1. call[s].op \notin {"idle", "allocate"} =>
          Placed([call[s] EXCEPT !.op = "granted"]) /\ Placed([call[s] EXCEPT !.op = "ran"])
    BY <1>1 DEF CallState
  <2>2. PICK k : Placed(k) /\ call' = [call EXCEPT ![s] = k]
    BY <1>2, <1>7, <2>1 DEF CallStep, Allocated, Taken, Answer, RunCommand, CompleteCommand, GiveUp, Set, Do
  <2>3. QED
    BY <1>3, <2>2
<1> HIDE DEF Placed
<1>8. ASSUME NEW p \in Proc, \/ StartProcess(p) \/ PublishStep(p) \/ ServeLate(p) \/ Timeout(p)
                             \/ \E t \in Token : CloseRoom(p, t)
      PROVE  call' = call
  BY <1>8 DEF StartProcess, PublishStep, BeginPublish, TakeSnapshot, Registered, Reported, ServeLate,
              Timeout, CloseRoom, clientVars
<1>9. RestartCoordinator \/ (\E t \in Token : Expire(t)) \/ UNCHANGED vars => call' = call
  BY DEF RestartCoordinator, Expire, vars, clientVars
<1>10. QED
  BY <1>4, <1>5, <1>6, <1>7, <1>8, <1>9 DEF Next

\* Only a report makes a node heard, and only if the node is registered.
LEMMA HeardStep ==
  ASSUME TypeInv, [Next]_vars
  PROVE  HeardIsRegistered'
<1>1. CoordinatorTyped /\ RequestsTyped
  BY TypeParts DEF TypeInv
<1>2. CASE state' = state
  BY <1>2 DEF TypeInv, HeardIsRegistered
<1>3. CASE RestartCoordinator
  BY <1>3 DEF RestartCoordinator, HeardIsRegistered, Unregistered
<1>4. ASSUME NEW n \in Node, NEW m \in RequestState, Execute(n, m)
      PROVE  HeardIsRegistered'
  <2>1. CASE Register(n)
    BY <1>1, <2>1 DEF Register, Unregistered, CoordinatorTyped, TypeInv, HeardIsRegistered
  <2>2. CASE Report(n, m) /\ state[n].gen = m.gen /\ m.gen # 0
    BY <1>1, <2>2 DEF Report, CoordinatorTyped, coordinatorVars, TypeInv, HeardIsRegistered
  <2>3. QED
    BY <1>1, <1>2, <1>4, <2>1, <2>2, ExecuteFields DEF coordinatorVars
<1>5. ASSUME NEW p \in Proc, Registered(p) \/ Reported(p) \/ ServeLate(p) \/ Timeout(p)
      PROVE  HeardIsRegistered'
  <2>1. NodeOf[p] \in Node
    BY NodeAssumption
  <2>2. \/ \E m \in RequestState : Execute(NodeOf[p], m)
        \/ state' = state
    BY <1>1, <1>5 DEF Registered, Reported, ServeLate, Timeout, RequestsTyped, Execute, coordinatorVars
  <2>3. QED
    BY <1>2, <1>4, <2>1, <2>2
<1>6. ASSUME NEW s \in Session, \/ CallStep(s) \/ GiveUp(s)
                                \/ \E p \in Proc : Allocate(s, p) \/ \E t \in Token : Present(s, t, p)
      PROVE  state' = state
  BY <1>6, SessionRequests DEF CallStep
<1>7. ASSUME NEW p \in Proc, \/ StartProcess(p) \/ Crash(p) \/ BeginPublish(p) \/ TakeSnapshot(p)
                             \/ \E t \in Token : CloseRoom(p, t)
      PROVE  state' = state
  BY <1>7 DEF StartProcess, Crash, BeginPublish, TakeSnapshot, CloseRoom, coordinatorVars
<1>8. (\E t \in Token : Expire(t)) \/ UNCHANGED vars => state' = state
  BY DEF Expire, vars, coordinatorVars
<1>9. QED
  BY <1>2, <1>3, <1>5, <1>6, <1>7, <1>8 DEF Next, PublishStep

\* What the invariant says of the requests of one process.
RequestsOf(p) ==
  /\ flight[p] # NoRequest =>
       /\ agent[p].up /\ ~flight[p].old /\ flight[p].gen <= lastGen
       /\ flight[p].kind = "register" <=> flight[p].gen = 0
       /\ flight[p].kind = "register" => agent[p].gen = 0
  /\ late[p] # NoRequest =>
       /\ (agent[p].up \/ agent[p].over) /\ late[p].gen <= lastGen
       /\ late[p].kind \in Delays
       /\ late[p].kind = "report" => late[p].gen # 0

\* Steps of one process leave the requests of the others alone.
LEMMA OtherRequests ==
  ASSUME TypeInv, lastGen' \in {lastGen, lastGen + 1}, NEW p \in Proc,
         \A q \in Proc \ {p} : flight'[q] = flight[q] /\ late'[q] = late[q] /\ agent'[q] = agent[q],
         RequestsOf(p)'
  PROVE  RequestsInOrder'
<1>1. lastGen \in Nat /\ \A q \in Proc : flight[q] # NoRequest => flight[q].gen \in Nat
  BY DEF TypeInv, TypeOK, RequestState
<1>2. \A q \in Proc : late[q] # NoRequest => late[q].gen \in Nat
  BY DEF TypeInv, TypeOK, RequestState
<1>3. ASSUME NEW q \in Proc \ {p}
      PROVE  RequestsOf(q)'
  BY <1>1, <1>2 DEF TypeInv, RequestsInOrder, RequestsOf
<1>4. QED
  BY <1>3 DEF RequestsInOrder, RequestsOf

LEMMA ProcessRequests ==
  ASSUME TypeInv, NEW p \in Proc,
         StartProcess(p) \/ Crash(p) \/ BeginPublish(p) \/ TakeSnapshot(p) \/ Registered(p)
  PROVE  RequestsInOrder'
<1>1. CoordinatorTyped /\ RequestsTyped /\ lastGen \in Nat /\ RequestsOf(p)
  BY TypeParts DEF TypeInv, CoordinatorTyped, RequestsInOrder, RequestsOf
<1>2. agent \in [Proc -> AgentState(lastGen)]
  BY TypeParts DEF TypeInv, ClientsTyped
<1>3. agent[p].gen \in 0 .. lastGen
  BY <1>2 DEF AgentState
<1>4. lastGen' \in {lastGen, lastGen + 1} /\ late' = late
  BY DEF StartProcess, Crash, BeginPublish, TakeSnapshot, Registered, Register, coordinatorVars
<1>5. \A q \in Proc \ {p} : flight'[q] = flight[q] /\ late'[q] = late[q] /\ agent'[q] = agent[q]
  BY <1>1, <1>2, <1>4 DEF RequestsTyped, StartProcess, Crash, BeginPublish, TakeSnapshot, Registered
<1>6. late[p] # NoRequest => late[p].gen \in Nat /\ late[p].gen <= lastGen'
  BY <1>1, <1>4 DEF RequestsTyped, RequestState, RequestsOf
<1>7. CASE StartProcess(p)
  <2>1. agent'[p].up /\ agent'[p].gen = agent[p].gen /\ flight' = flight /\ lastGen' = lastGen
    BY <1>2, <1>7 DEF StartProcess, AgentState, coordinatorVars
  <2>2. RequestsOf(p)'
    BY <1>1, <1>4, <1>6, <2>1 DEF RequestsOf
  <2>3. QED
    BY <1>4, <1>5, <2>2, OtherRequests
<1>8. CASE Crash(p)
  <2>1. agent'[p].over /\ flight'[p] = NoRequest
    BY <1>1, <1>2, <1>8 DEF Crash, AgentState, RequestsTyped
  <2>2. RequestsOf(p)'
    BY <1>1, <1>4, <1>6, <2>1 DEF RequestsOf
  <2>3. QED
    BY <1>4, <1>5, <2>2, OtherRequests
<1>9. CASE BeginPublish(p)
  <2>1. flight'[p] = IF agent[p].gen = 0 THEN Request("register", 0, {})
                     ELSE Request("draft", agent[p].gen, agent[p].completed)
    BY <1>1, <1>9 DEF BeginPublish, RequestsTyped
  <2>2. agent'[p] = agent[p] /\ agent[p].up /\ lastGen' = lastGen
    BY <1>9 DEF BeginPublish, Running, coordinatorVars
  <2>3. RequestsOf(p)'
    BY <1>1, <1>3, <1>4, <1>6, <2>1, <2>2 DEF RequestsOf, Request
  <2>4. QED
    BY <1>4, <1>5, <2>3, OtherRequests
<1>10. CASE TakeSnapshot(p)
  <2>1. /\ flight'[p].kind = "report" /\ flight'[p].gen = flight[p].gen /\ flight'[p].old = flight[p].old
        /\ flight[p] # NoRequest /\ flight[p].kind = "draft"
    BY <1>1, <1>10 DEF TakeSnapshot, RequestsTyped, RequestState
  <2>2. agent'[p] = agent[p] /\ lastGen' = lastGen
    BY <1>10 DEF TakeSnapshot, coordinatorVars
  <2>3. RequestsOf(p)'
    BY <1>1, <1>4, <1>6, <2>1, <2>2 DEF RequestsOf
  <2>4. QED
    BY <1>4, <1>5, <2>3, OtherRequests
<1>11. CASE Registered(p)
  <2>1. flight'[p] = Request("draft", lastGen', agent[p].completed) /\ lastGen' = lastGen + 1
    BY <1>1, <1>11 DEF Registered, RequestsTyped, Register
  <2>2. agent'[p].up = agent[p].up /\ agent'[p].over = agent[p].over /\ flight[p] # NoRequest
    BY <1>2, <1>11 DEF Registered, AgentState
  <2>3. RequestsOf(p)'
    BY <1>1, <1>4, <1>6, <2>1, <2>2 DEF RequestsOf, Request
  <2>4. QED
    BY <1>4, <1>5, <2>3, OtherRequests
<1>12. QED
  BY <1>7, <1>8, <1>9, <1>10, <1>11

LEMMA PublishedRequests ==
  ASSUME TypeInv, NEW p \in Proc, Reported(p) \/ ServeLate(p) \/ Timeout(p)
  PROVE  RequestsInOrder'
<1>1. CoordinatorTyped /\ RequestsTyped /\ lastGen \in Nat /\ RequestsOf(p) /\ NodeOf[p] \in Node
  BY TypeParts, NodeAssumption DEF TypeInv, CoordinatorTyped, RequestsInOrder, RequestsOf
<1>2. agent \in [Proc -> AgentState(lastGen)]
  BY TypeParts DEF TypeInv, ClientsTyped
<1>3. lastGen' \in {lastGen, lastGen + 1}
  BY <1>1, ExecuteType DEF RequestsTyped, Reported, ServeLate, Timeout, coordinatorVars
<1>4. \A q \in Proc \ {p} : flight'[q] = flight[q] /\ late'[q] = late[q] /\ agent'[q] = agent[q]
  BY <1>1, <1>2 DEF RequestsTyped, Reported, ServeLate, Timeout, Outdated
<1>5. agent'[p].up = agent[p].up /\ agent'[p].over = agent[p].over /\ agent'[p].gen \in {agent[p].gen, 0}
  <2>1. ASSUME NEW g, NEW result
        PROVE  /\ Accept(p, g, result).up = agent[p].up /\ Accept(p, g, result).over = agent[p].over
               /\ Accept(p, g, result).gen \in {agent[p].gen, 0}
    BY <1>1, <1>2, AcceptFields
  <2>2. CASE Reported(p)
    BY <1>2, <2>1, <2>2 DEF Reported, AgentState
  <2>3. QED
    BY <2>2 DEF ServeLate, Timeout
<1>6. flight'[p] = NoRequest \/ flight'[p] = flight[p]
  BY <1>1 DEF RequestsTyped, Reported, ServeLate, Timeout
<1>7. late'[p] # NoRequest =>
        \/ /\ late[p] # NoRequest /\ late'[p].kind = late[p].kind /\ late'[p].gen = late[p].gen
        \/ late'[p] = flight[p] /\ flight[p] # NoRequest /\ flight[p].kind \in Delays
  <2>1. ASSUME NEW g, Outdated(p, g)
        PROVE  late'[p] # NoRequest =>
                 /\ late[p] # NoRequest /\ late'[p].kind = late[p].kind /\ late'[p].gen = late[p].gen
    <3>1. CASE late[p] # NoRequest
      BY <1>1, <2>1, <3>1 DEF Outdated, RequestsTyped, RequestState
    <3>2. CASE late[p] = NoRequest
      BY <1>1, <2>1, <3>2 DEF Outdated, RequestsTyped
    <3>3. QED
      BY <3>1, <3>2
  <2>2. QED
    BY <1>1, <2>1 DEF Reported, ServeLate, Timeout, RequestsTyped
<1>8. /\ flight[p] # NoRequest => flight[p] \in RequestState
      /\ late[p] # NoRequest => late[p] \in RequestState
  BY <1>1 DEF RequestsTyped
<1>9. RequestsOf(p)'
  BY <1>1, <1>3, <1>5, <1>6, <1>7, <1>8 DEF RequestsOf, RequestState
<1>10. QED
  BY <1>3, <1>4, <1>9, OtherRequests

LEMMA TypeInvInit == Init => TypeInv
<1> SUFFICES ASSUME Init PROVE TypeInv
  OBVIOUS
<1>1. lastGen = 0 /\ 0 \in 0 .. lastGen /\ faults \in 0 .. MaxFaults
  BY BoundAssumption DEF Init
<1>2. CoordinatorTyped
  <2>1. Unregistered \in [gen : 0 .. lastGen, heard : BOOLEAN, rooms : SUBSET Token]
    BY <1>1, Zenon DEF Unregistered
  <2>2. QED
    BY <1>1, <2>1 DEF Init, CoordinatorTyped
<1>3. ClientsTyped
  <2>1. Idle \in CallState(lastGen)
    BY <1>1, Zenon DEF Idle, CallState
  <2>2. [up |-> FALSE, over |-> FALSE, gen |-> 0, reported |-> FALSE, fenced |-> FALSE, completed |-> {}]
          \in AgentState(lastGen)
    BY <1>1, Zenon DEF AgentState
  <2>3. QED
    BY <2>1, <2>2 DEF Init, ClientsTyped
<1>4. RequestsTyped /\ RoomsTyped
  BY <1>1 DEF Init, RequestsTyped, RoomsTyped
<1>5. CallsHaveOrigin /\ RequestsInOrder /\ HeardIsRegistered
  BY DEF Init, CallsHaveOrigin, RequestsInOrder, HeardIsRegistered, Idle, Unregistered
<1>6. QED
  BY <1>2, <1>3, <1>4, <1>5, TypeParts DEF TypeInv

LEMMA TypeStep ==
  ASSUME TypeInv, [Next]_vars
  PROVE  TypeOK'
<1>1. CASE RestartCoordinator \/ \E t \in Token : Expire(t)
  BY <1>1, CoordinatorType
<1>2. ASSUME NEW p \in Proc, \/ StartProcess(p) \/ Crash(p) \/ PublishStep(p) \/ ServeLate(p) \/ Timeout(p)
      PROVE  TypeOK'
  BY <1>2, ProcessType, RegisteredType, ReportedType, LateType DEF PublishStep
<1>3. ASSUME NEW s \in Session, \/ CallStep(s) \/ GiveUp(s)
                                \/ \E p \in Proc : Allocate(s, p) \/ \E t \in Token : Present(s, t, p)
      PROVE  TypeOK'
  BY <1>3, AnsweredType, SessionType DEF CallStep
<1>4. ASSUME NEW p \in Proc, NEW t \in Token, CloseRoom(p, t)
      PROVE  TypeOK'
  BY <1>4 DEF TypeInv, TypeOK, CloseRoom, coordinatorVars, agentVars, clientVars
<1>5. CASE UNCHANGED vars
  BY <1>5 DEF TypeInv, TypeOK, vars, coordinatorVars, agentVars, clientVars
<1>6. QED
  BY <1>1, <1>2, <1>3, <1>4, <1>5 DEF Next

LEMMA RequestsStep ==
  ASSUME TypeInv, [Next]_vars
  PROVE  RequestsInOrder'
<1>1. ASSUME UNCHANGED <<lastGen, flight, late, agent>>
      PROVE  RequestsInOrder'
  BY <1>1, RequestsKept DEF AgentsKeepRegistration
<1>2. RestartCoordinator \/ (\E t \in Token : Expire(t)) => RequestsInOrder'
  BY <1>1 DEF RestartCoordinator, Expire, agentVars
<1>3. ASSUME NEW p \in Proc, \/ StartProcess(p) \/ Crash(p) \/ PublishStep(p) \/ ServeLate(p) \/ Timeout(p)
      PROVE  RequestsInOrder'
  BY <1>3, ProcessRequests, PublishedRequests DEF PublishStep
<1>4. ASSUME NEW s \in Session, \/ CallStep(s) \/ GiveUp(s)
                                \/ \E p \in Proc : Allocate(s, p) \/ \E t \in Token : Present(s, t, p)
      PROVE  RequestsInOrder'
  BY <1>4, SessionRequests, RequestsKept DEF CallStep
<1>5. ASSUME NEW p \in Proc, NEW t \in Token, CloseRoom(p, t)
      PROVE  RequestsInOrder'
  BY <1>1, <1>5 DEF CloseRoom, coordinatorVars, agentVars
<1>6. UNCHANGED vars => RequestsInOrder'
  BY <1>1 DEF vars, coordinatorVars, agentVars
<1>7. QED
  BY <1>2, <1>3, <1>4, <1>5, <1>6 DEF Next

LEMMA TypeInvariant == Spec => []TypeInv
<1>1. TypeInv /\ [Next]_vars => TypeInv'
  BY TypeStep, CallsStep, RequestsStep, HeardStep DEF TypeInv
<1>2. QED
  BY <1>1, TypeInvInit, PTL DEF Spec

\* Every variable of the coordinator, the agents and the sessions keeps its
\* type, for any nodes, tokens and number of faults.
THEOREM TypeCorrect == Spec => []TypeOK
BY TypeInvariant, PTL DEF TypeInv

(***************************************************************************)
(* Fencing                                                                 *)
(***************************************************************************)
\* A request changes the generation of its node only if it registers.
LEMMA ExecuteGenerations ==
  ASSUME CoordinatorTyped, NEW n \in Node, NEW m \in RequestState, Execute(n, m), NEW k \in Node
  PROVE  \/ state'[k].gen = state[k].gen
         \/ k = n /\ m.kind = "register" /\ state'[k].gen = lastGen' /\ lastGen' = lastGen + 1
<1>1. CASE Register(n) /\ m.kind = "register"
  BY <1>1 DEF Register, CoordinatorTyped, Unregistered
<1>2. CASE Report(n, m)
  BY <1>2 DEF Report, CoordinatorTyped, coordinatorVars
<1>3. QED
  BY <1>1, <1>2, ExecuteFields DEF coordinatorVars

\* The generations of a node only grow until the coordinator forgets it, and a
\* process gets the newest one.
LEMMA RegistrationStep ==
  ASSUME TypeInv, NeverOutrun, [Next]_vars
  PROVE  NeverOutrun'
<1>1. CoordinatorTyped /\ RequestsTyped /\ lastGen \in Nat /\ agent \in [Proc -> AgentState(lastGen)]
  BY TypeParts DEF TypeInv, ClientsTyped, CoordinatorTyped
<1> SUFFICES ASSUME NEW p \in Proc, agent'[p].gen # 0
             PROVE  state'[NodeOf[p]].gen = 0 \/ state'[NodeOf[p]].gen >= agent'[p].gen
  BY DEF NeverOutrun
<1> DEFINE n == NodeOf[p]
           Goal == state'[n].gen = 0 \/ state'[n].gen >= agent'[p].gen
<1>2. /\ n \in Node
      /\ agent[p].gen # 0 => state[n].gen = 0 \/ state[n].gen >= agent[p].gen
      /\ agent[p].gen \in 0 .. lastGen
  BY <1>1, NodeAssumption DEF NeverOutrun, AgentState
<1>3. ASSUME agent'[p].gen = agent[p].gen, state'[n].gen \in {0, state[n].gen, lastGen + 1}
      PROVE  Goal
  BY <1>1, <1>2, <1>3
<1>4. CASE RestartCoordinator
  BY <1>2, <1>4 DEF RestartCoordinator, Unregistered
<1>5. ASSUME NEW t \in Token, Expire(t)
      PROVE  Goal
  BY <1>3, <1>5 DEF Expire, agentVars
<1>6. ASSUME NEW q \in Proc, StartProcess(q) \/ Crash(q) \/ BeginPublish(q) \/ TakeSnapshot(q)
                             \/ \E t \in Token : CloseRoom(q, t)
      PROVE  Goal
  <2>1. state' = state
    BY <1>6 DEF StartProcess, Crash, BeginPublish, TakeSnapshot, CloseRoom, coordinatorVars
  <2>2. agent'[p].gen \in {agent[p].gen, 0}
    <3>1. CASE StartProcess(q)
      BY <1>1, <3>1 DEF StartProcess, AgentState
    <3>2. CASE Crash(q)
      BY <1>1, <3>2 DEF Crash, AgentState
    <3>3. CASE agent' = agent
      BY <3>3
    <3>4. QED
      BY <1>6, <3>1, <3>2, <3>3 DEF BeginPublish, TakeSnapshot, CloseRoom, agentVars
  <2>3. QED
    BY <1>3, <2>1, <2>2
<1>7. ASSUME NEW q \in Proc, Registered(q)
      PROVE  Goal
  <2>1. NodeOf[q] \in Node
    BY NodeAssumption
  <2>2. CASE q = p
    BY <1>1, <1>2, <1>7, <2>2 DEF Registered, Register, CoordinatorTyped, Unregistered, AgentState
  <2>3. CASE q # p
    <3>1. agent'[p].gen = agent[p].gen
      BY <1>1, <1>7, <2>3 DEF Registered, AgentState
    <3>2. state'[n].gen \in {state[n].gen, lastGen + 1}
      BY <1>1, <1>2, <1>7, <2>1 DEF Registered, Register, CoordinatorTyped, Unregistered
    <3>3. QED
      BY <1>3, <3>1, <3>2
  <2>4. QED
    BY <2>2, <2>3
<1>8. ASSUME NEW q \in Proc, Reported(q) \/ ServeLate(q) \/ Timeout(q)
      PROVE  Goal
  <2>1. agent'[p].gen = agent[p].gen
    <3>1. ASSUME NEW g, NEW result
          PROVE  Accept(q, g, result).gen \in {agent[q].gen, 0}
      BY <1>1, AcceptFields
    <3>2. CASE Reported(q)
      BY <1>1, <3>1, <3>2 DEF Reported, AgentState
    <3>3. QED
      BY <1>8, <3>2 DEF ServeLate, Timeout
  <2>2. NodeOf[q] \in Node
    BY NodeAssumption
  <2>3. state'[n].gen \in {state[n].gen, lastGen + 1}
    <3>1. ASSUME NEW m \in RequestState, Execute(NodeOf[q], m)
          PROVE  state'[n].gen \in {state[n].gen, lastGen + 1}
      BY <1>1, <1>2, <2>2, <3>1, ExecuteGenerations
    <3>2. QED
      BY <1>1, <1>8, <3>1 DEF Reported, ServeLate, Timeout, RequestsTyped, coordinatorVars
  <2>4. QED
    BY <1>3, <2>1, <2>3
<1>9. ASSUME NEW s \in Session, \/ CallStep(s) \/ GiveUp(s)
                                \/ \E q \in Proc : Allocate(s, q) \/ \E t \in Token : Present(s, t, q)
      PROVE  Goal
  <2>1. AgentsKeepRegistration /\ state' = state
    BY <1>9, SessionRequests DEF CallStep
  <2>2. QED
    BY <1>3, <2>1 DEF AgentsKeepRegistration
<1>10. CASE UNCHANGED vars
  BY <1>3, <1>10 DEF vars, agentVars, coordinatorVars
<1>11. QED
  BY <1>4, <1>5, <1>6, <1>7, <1>8, <1>9, <1>10 DEF Next, PublishStep

\* An agent that accepts an answer as fenced sent the request under the
\* registration it still holds, and its node is known by a later one.
LEMMA FencedStep ==
  ASSUME TypeInv, NeverOutrun, [Next]_vars, NEW p \in Proc, agent'[p].fenced, ~agent[p].fenced
  PROVE  agent[p].gen # 0 /\ state[NodeOf[p]].gen > agent[p].gen
<1> DEFINE Superseded == agent[p].gen # 0 /\ state[NodeOf[p]].gen > agent[p].gen
<1>1. CoordinatorTyped /\ RequestsTyped /\ lastGen \in Nat /\ agent \in [Proc -> AgentState(lastGen)]
  BY TypeParts DEF TypeInv, ClientsTyped, CoordinatorTyped
<1>2. agent[p].gen \in Nat /\ state[NodeOf[p]].gen \in Nat
  BY <1>1, NodeAssumption DEF AgentState, CoordinatorTyped
<1>3. ASSUME NEW g, g # 0, NEW result, result = Standing(NodeOf[p], g) \/ result \in {"ok", "refused"},
             agent'[p] = Accept(p, g, result)
      PROVE  Superseded
  <2>1. result = "fenced" /\ agent[p].gen = g
    BY <1>1, <1>3, AcceptFields
  <2>2. state[NodeOf[p]].gen \notin {0, g}
    BY <1>3, <2>1 DEF Standing
  <2>3. QED
    BY <1>2, <1>3, <2>1, <2>2 DEF NeverOutrun
<1>4. ASSUME NEW q \in Proc, Reported(q)
      PROVE  Superseded
  <2> DEFINE m == flight[q]
  <2>1. m.gen # 0
    BY <1>4 DEF Reported, TypeInv, RequestsInOrder
  <2>2. q = p /\ agent'[p] = Accept(p, m.gen, Standing(NodeOf[p], m.gen))
    BY <1>1, <1>4 DEF Reported, AgentState
  <2>3. QED
    BY <1>3, <2>1, <2>2
<1>5. ASSUME NEW s \in Session, Allocated(s) \/ Taken(s)
      PROVE  Superseded
  <2> DEFINE c == call[s]
  <2>1. c.proc \in Proc /\ c.gen # 0
    BY <1>5 DEF Allocated, Taken, Do, TypeInv, CallsHaveOrigin
  <2>2. PICK result : /\ result = Standing(NodeOf[c.proc], c.gen) \/ result \in {"ok", "refused"}
                      /\ agent' = [agent EXCEPT ![c.proc] = Accept(c.proc, c.gen, result)]
    BY <1>5 DEF Allocated, Taken, Answer
  <2>3. c.proc = p
    BY <1>1, <2>2
  <2>4. QED
    BY <1>1, <1>3, <2>1, <2>2, <2>3
<1>6. ASSUME agent'[p].fenced = agent[p].fenced
      PROVE  FALSE
  BY <1>6
<1>7. ASSUME NEW q \in Proc, StartProcess(q) \/ Crash(q) \/ BeginPublish(q) \/ TakeSnapshot(q) \/ Registered(q)
                             \/ ServeLate(q) \/ Timeout(q) \/ \E t \in Token : CloseRoom(q, t)
      PROVE  agent'[p].fenced = agent[p].fenced
  <2>1. CASE StartProcess(q)
    BY <1>1, <2>1 DEF StartProcess, AgentState
  <2>2. CASE Crash(q)
    BY <1>1, <2>2 DEF Crash, AgentState
  <2>3. CASE Registered(q)
    BY <1>1, <2>3 DEF Registered, AgentState
  <2>4. CASE agent' = agent
    BY <2>4
  <2>5. QED
    BY <1>7, <2>1, <2>2, <2>3, <2>4 DEF BeginPublish, TakeSnapshot, ServeLate, Timeout, CloseRoom, agentVars
<1>8. ASSUME NEW s \in Session, \/ RunCommand(s) \/ CompleteCommand(s) \/ GiveUp(s)
                                \/ \E q \in Proc : Allocate(s, q) \/ \E t \in Token : Present(s, t, q)
      PROVE  agent'[p].fenced = agent[p].fenced
  <2>1. CASE CompleteCommand(s)
    BY <1>1, <2>1 DEF CompleteCommand, AgentState
  <2>2. CASE agent' = agent
    BY <2>2
  <2>3. QED
    BY <1>8, <2>1, <2>2 DEF RunCommand, GiveUp, Allocate, Present, agentVars
<1>9. RestartCoordinator \/ (\E t \in Token : Expire(t)) \/ UNCHANGED vars => agent' = agent
  BY DEF RestartCoordinator, Expire, vars, agentVars
<1>10. QED
  BY <1>4, <1>5, <1>6, <1>7, <1>8, <1>9 DEF Next, PublishStep, CallStep

\* A process is turned away as fenced only if its node was registered again
\* after it, for every kind of request that may be delayed: answers to earlier
\* registrations, lost answers and coordinator restarts never fence it.
THEOREM FencedOnlyIfSuperseded == Spec => OnlySupersededIsFenced
<1>1. Init => NeverOutrun
  BY DEF Init, NeverOutrun
<1>2. TypeInv /\ NeverOutrun /\ [Next]_vars => NeverOutrun'
  BY RegistrationStep
<1>3. TypeInv /\ NeverOutrun /\ [Next]_vars =>
        [\A p \in Proc : ~agent[p].fenced /\ agent'[p].fenced =>
           agent[p].gen # 0 /\ state[NodeOf[p]].gen > agent[p].gen]_vars
  BY FencedStep
<1>4. QED
  BY <1>1, <1>2, <1>3, TypeInvariant, PTL DEF Spec, OnlySupersededIsFenced

(***************************************************************************)
(* Tickets                                                                 *)
(***************************************************************************)
\* No ticket is added, nothing is run and no session gets a grant.
TicketsShrink ==
  /\ UNCHANGED <<issued, ran>>
  /\ \A t \in Token : tickets'[t] \in {tickets[t], NoTicket}
  /\ \A s \in Session : call'[s].op \in {"granted", "ran"} => call'[s] = call[s]

LEMMA ShrinkKeepsTickets ==
  ASSUME TicketInv, TicketsShrink
  PROVE  Untaken' /\ GrantedOnce' /\ ran' \subseteq issued'
<1>1. \A t \in Token : Issued(t)' => Issued(t) /\ tickets'[t] = tickets[t]
  BY DEF TicketsShrink, Issued
<1>2. Untaken'
  BY <1>1 DEF TicketInv, TicketsShrink, Untaken
<1>3. GrantedOnce'
  BY DEF TicketInv, TicketsShrink, GrantedOnce
<1>4. QED
  BY <1>2, <1>3 DEF TicketInv, TicketsShrink

LEMMA ExecuteTickets ==
  ASSUME CoordinatorTyped, NEW n \in Node, NEW m \in RequestState, Execute(n, m)
  PROVE  /\ issued' = issued
         /\ \A t \in Token : tickets'[t] \in {tickets[t], NoTicket}
<1>1. CASE Register(n)
  BY <1>1 DEF Register
<1>2. CASE Report(n, m)
  BY <1>2 DEF Report, coordinatorVars, CoordinatorTyped
<1>3. CASE UNCHANGED coordinatorVars
  BY <1>3 DEF coordinatorVars
<1>4. QED
  BY <1>1, <1>2, <1>3, ExecuteFields

\* Every step but the three that hand a ticket on.
LEMMA MostStepsShrink ==
  ASSUME TypeInv, [Next]_vars, \A s \in Session : ~Allocated(s) /\ ~Taken(s) /\ ~RunCommand(s)
  PROVE  TicketsShrink
<1>1. CoordinatorTyped /\ RequestsTyped /\ call \in [Session -> CallState(lastGen)]
  BY TypeParts DEF TypeInv, ClientsTyped
<1>2. ASSUME UNCHANGED <<issued, ran, call>>, \A t \in Token : tickets'[t] \in {tickets[t], NoTicket}
      PROVE  TicketsShrink
  BY <1>2 DEF TicketsShrink
<1>3. RestartCoordinator \/ (\E t \in Token : Expire(t)) => TicketsShrink
  BY <1>1, <1>2 DEF RestartCoordinator, Expire, clientVars, CoordinatorTyped
<1>4. UNCHANGED vars => TicketsShrink
  BY <1>2 DEF vars, coordinatorVars, clientVars
<1>5. ASSUME NEW p \in Proc, Registered(p) \/ Reported(p) \/ ServeLate(p) \/ Timeout(p)
      PROVE  TicketsShrink
  <2>1. NodeOf[p] \in Node
    BY NodeAssumption
  <2>2. \/ \E m \in RequestState : Execute(NodeOf[p], m)
        \/ UNCHANGED <<tickets, issued>>
    BY <1>1, <1>5 DEF Registered, Reported, ServeLate, Timeout, RequestsTyped, Execute, coordinatorVars
  <2>3. UNCHANGED <<ran, call>>
    BY <1>5 DEF Registered, Reported, ServeLate, Timeout, clientVars
  <2>4. QED
    BY <1>1, <1>2, <2>1, <2>2, <2>3, ExecuteTickets
<1>6. ASSUME NEW p \in Proc, StartProcess(p) \/ BeginPublish(p) \/ TakeSnapshot(p) \/ \E t \in Token : CloseRoom(p, t)
      PROVE  TicketsShrink
  BY <1>2, <1>6 DEF StartProcess, BeginPublish, TakeSnapshot, CloseRoom, coordinatorVars, clientVars
<1>7. ASSUME NEW s \in Session, NEW k, k.op \notin {"granted", "ran"}, call' = [call EXCEPT ![s] = k],
             UNCHANGED <<tickets, issued, ran>>
      PROVE  TicketsShrink
  BY <1>1, <1>7 DEF TicketsShrink
<1>8. ASSUME NEW p \in Proc, Crash(p)
      PROVE  TicketsShrink
  BY <1>1, <1>8 DEF Crash, TicketsShrink, Idle, coordinatorVars
<1>9. ASSUME NEW s \in Session, \/ CompleteCommand(s) \/ GiveUp(s)
                                \/ \E p \in Proc : Allocate(s, p) \/ \E t \in Token : Present(s, t, p)
      PROVE  TicketsShrink
  <2>1. PICK k : k.op \notin {"granted", "ran"} /\ call' = [call EXCEPT ![s] = k]
    BY <1>9 DEF CompleteCommand, GiveUp, Allocate, Present, Set, Idle
  <2>2. UNCHANGED <<tickets, issued, ran>>
    BY <1>9 DEF CompleteCommand, GiveUp, Allocate, Present, coordinatorVars
  <2>3. QED
    BY <1>7, <2>1, <2>2
<1>10. QED
  BY <1>3, <1>4, <1>5, <1>6, <1>8, <1>9 DEF Next, PublishStep, CallStep

\* A ticket is issued for a token that nobody could have used.
LEMMA AllocatedTickets ==
  ASSUME TypeInv, TicketInv, NEW s \in Session, Allocated(s)
  PROVE  Untaken' /\ GrantedOnce' /\ ran' \subseteq issued'
<1>1. CoordinatorTyped /\ call \in [Session -> CallState(lastGen)] /\ ran' = ran
  BY TypeParts DEF TypeInv, ClientsTyped, Allocated, Answer
<1>2. \A r \in Session : call'[r].op \in {"granted", "ran"} => call'[r] = call[r]
  BY <1>1 DEF Allocated, Answer, Set, Idle
<1>3. CASE UNCHANGED <<tickets, issued>>
  <2>1. TicketsShrink
    BY <1>1, <1>2, <1>3 DEF TicketsShrink
  <2>2. QED
    BY <2>1, ShrinkKeepsTickets
<1>4. ASSUME NEW t \in Token \ issued, NEW k, tickets' = [tickets EXCEPT ![t] = k], issued' = issued \cup {t}
      PROVE  Untaken' /\ GrantedOnce' /\ ran' \subseteq issued'
  <2>1. t \notin ran /\ \A r \in Session : call'[r].op = "granted" => call'[r].token # t
    BY <1>1, <1>2, <1>4 DEF TicketInv, GrantedOnce
  <2>2. \A u \in Token \ {t} : tickets'[u] = tickets[u]
    BY <1>1, <1>4 DEF CoordinatorTyped
  <2>3. Untaken'
    BY <1>1, <1>2, <1>4, <2>1, <2>2 DEF TicketInv, Untaken, Issued
  <2>4. GrantedOnce'
    BY <1>1, <1>2, <1>4 DEF TicketInv, GrantedOnce
  <2>5. QED
    BY <1>1, <1>4, <2>3, <2>4 DEF TicketInv
<1>5. QED
  BY <1>3, <1>4 DEF Allocated

\* Only an untaken ticket is granted, and it is taken from then on.
LEMMA TakenTickets ==
  ASSUME TypeInv, TicketInv, NEW s \in Session, Taken(s)
  PROVE  Untaken' /\ GrantedOnce' /\ ran' \subseteq issued'
<1> DEFINE c == call[s]
<1>1. CoordinatorTyped /\ call \in [Session -> CallState(lastGen)] /\ ran' = ran /\ issued' = issued
  BY TypeParts DEF TypeInv, ClientsTyped, Taken, Answer
<1>2. c.token \in Token /\ c.op = "take"
  BY DEF Taken, Do, TypeInv, CallsHaveOrigin
<1>3. CASE tickets' = tickets /\ call' = [call EXCEPT ![s] = Idle]
  <2>1. TicketsShrink
    BY <1>1, <1>3 DEF TicketsShrink, Idle
  <2>2. QED
    BY <2>1, ShrinkKeepsTickets
<1>4. CASE /\ Issued(c.token) /\ ~tickets[c.token].taken
           /\ tickets' = [tickets EXCEPT ![c.token].taken = TRUE]
           /\ call' = [call EXCEPT ![s] = Idle] \/ call' = [call EXCEPT ![s] = [c EXCEPT !.op = "granted"]]
  <2>1. c.token \in issued \ ran /\ \A r \in Session : call[r].op = "granted" => call[r].token # c.token
    BY <1>2, <1>4 DEF TicketInv, Untaken
  <2>2. \A r \in Session \ {s} : call'[r] = call[r]
    BY <1>1, <1>4
  <2>3. call'[s].op = "granted" => call'[s].token = c.token
    BY <1>1, <1>4 DEF CallState, Idle
  <2>4. call'[s].op # "ran"
    BY <1>1, <1>4 DEF CallState, Idle
  <2>5. \A t \in Token \ {c.token} : tickets'[t] = tickets[t]
    BY <1>1, <1>4 DEF CoordinatorTyped
  <2>6. tickets'[c.token].taken
    BY <1>1, <1>2, <1>4 DEF CoordinatorTyped, Issued
  <2>7. Untaken'
    <3> SUFFICES ASSUME NEW t \in Token, Issued(t)'
                 PROVE  t \in issued' /\ (~tickets'[t].taken =>
                          t \notin ran' /\ \A r \in Session : call'[r].op = "granted" => call'[r].token # t)
      BY DEF Untaken
    <3>1. CASE t = c.token
      BY <1>1, <2>1, <2>6, <3>1
    <3>2. CASE t # c.token
      BY <1>1, <2>2, <2>3, <2>5, <3>2 DEF TicketInv, Untaken, Issued
    <3>3. QED
      BY <3>1, <3>2
  <2>8. GrantedOnce'
    BY <1>1, <2>1, <2>2, <2>3, <2>4 DEF TicketInv, GrantedOnce
  <2>9. QED
    BY <1>1, <2>7, <2>8 DEF TicketInv
<1>5. QED
  BY <1>3, <1>4 DEF Taken, MayTake, Answer, Set

\* A granted command is run, and nobody else may run it.
LEMMA RunTickets ==
  ASSUME TypeInv, TicketInv, NEW s \in Session, RunCommand(s)
  PROVE  Untaken' /\ GrantedOnce' /\ ran' \subseteq issued'
<1> DEFINE t == call[s].token
<1>1. CoordinatorTyped /\ call \in [Session -> CallState(lastGen)]
  BY TypeParts DEF TypeInv, ClientsTyped
<1>2. /\ call[s].op = "granted" /\ ran' = ran \cup {t} /\ UNCHANGED <<tickets, issued>>
      /\ call' = [call EXCEPT ![s] = [call[s] EXCEPT !.op = "ran"]]
  BY DEF RunCommand, Do, Set, coordinatorVars
<1>3. \A r \in Session \ {s} : call'[r] = call[r]
  BY <1>1, <1>2
<1>4. call'[s].op = "ran" /\ call'[s].token = t
  BY <1>1, <1>2 DEF CallState
<1>5. t \in issued \ ran /\ \A r \in Session \ {s} : call[r].op = "granted" => call[r].token # t
  BY <1>2 DEF TicketInv, GrantedOnce
<1>6. Untaken'
  BY <1>2, <1>3, <1>4 DEF TicketInv, Untaken, Issued
<1>7. GrantedOnce'
  BY <1>2, <1>3, <1>4, <1>5 DEF TicketInv, GrantedOnce
<1>8. QED
  BY <1>2, <1>5, <1>6, <1>7 DEF TicketInv

\* Queues, reports and calls only pass on what they had.
LEMMA PlacesKept ==
  ASSUME TypeInv, [Next]_vars, NEW p \in Proc, NEW t \in Token, RanAt(p, t)',
         \A s \in Session : ~RunCommand(s)
  PROVE  RanAt(p, t)
<1>1. CoordinatorTyped /\ RequestsTyped /\ RoomsTyped /\ lastGen \in Nat
  BY TypeParts DEF TypeInv, CoordinatorTyped
<1>2. agent \in [Proc -> AgentState(lastGen)] /\ call \in [Session -> CallState(lastGen)]
  BY TypeParts DEF TypeInv, ClientsTyped
<1> DEFINE Fewer == /\ rooms'[p] \subseteq rooms[p]
                    /\ agent'[p].completed \subseteq agent[p].completed
                    /\ flight'[p] # NoRequest => flight'[p].done \subseteq agent[p].completed
                         \/ (flight[p] # NoRequest /\ flight'[p].done = flight[p].done)
                    /\ late'[p] # NoRequest =>
                         \/ late[p] # NoRequest /\ late'[p].done = late[p].done
                         \/ flight[p] # NoRequest /\ late'[p].done = flight[p].done
                    /\ \A s \in Session : call'[s].op = "ran" => call'[s] = call[s]
<1>3. ASSUME Fewer PROVE RanAt(p, t)
  BY <1>3 DEF RanAt
<1>4. ASSUME NEW q \in Proc, StartProcess(q) \/ Crash(q) \/ BeginPublish(q) \/ TakeSnapshot(q) \/ Registered(q)
      PROVE  Fewer
  <2>1. CASE StartProcess(q)
    BY <1>2, <2>1 DEF StartProcess, clientVars, AgentState
  <2>2. CASE Crash(q)
    BY <1>1, <1>2, <2>2 DEF Crash, RequestsTyped, RoomsTyped, AgentState, Idle
  <2>3. CASE BeginPublish(q)
    BY <1>1, <1>2, <2>3 DEF BeginPublish, RequestsTyped, clientVars, Request
  <2>4. CASE TakeSnapshot(q)
    BY <1>1, <1>2, <2>4 DEF TakeSnapshot, RequestsTyped, RequestState, clientVars
  <2>5. CASE Registered(q)
    BY <1>1, <1>2, <2>5 DEF Registered, RequestsTyped, clientVars, Request, AgentState
  <2>6. QED
    BY <1>4, <2>1, <2>2, <2>3, <2>4, <2>5
<1>5. ASSUME NEW q \in Proc, Reported(q) \/ ServeLate(q) \/ Timeout(q)
      PROVE  Fewer
  <2>1. rooms' = rooms /\ call' = call
    BY <1>5 DEF Reported, ServeLate, Timeout, clientVars
  <2>2. flight'[p] \in {flight[p], NoRequest}
    BY <1>1, <1>5 DEF Reported, ServeLate, Timeout, RequestsTyped
  <2>3. late'[p] # NoRequest =>
          \/ late[p] # NoRequest /\ late'[p].done = late[p].done
          \/ flight[p] # NoRequest /\ late'[p].done = flight[p].done
    <3>1. ASSUME NEW g, Outdated(q, g)
          PROVE  late'[p] # NoRequest => late[p] # NoRequest /\ late'[p].done = late[p].done
      <4>1. CASE late[q] # NoRequest
        BY <1>1, <3>1, <4>1 DEF Outdated, RequestsTyped, RequestState
      <4>2. CASE late[q] = NoRequest
        BY <1>1, <3>1, <4>2 DEF Outdated, RequestsTyped
      <4>3. QED
        BY <4>1, <4>2
    <3>2. QED
      BY <1>1, <1>5, <3>1 DEF Reported, ServeLate, Timeout, RequestsTyped
  <2>4. agent'[p].completed \subseteq agent[p].completed
    <3>1. ASSUME NEW g, NEW result
          PROVE  Accept(q, g, result).completed = agent[q].completed
      BY <1>1, <1>2, AcceptFields
    <3>2. CASE Reported(q)
      BY <1>2, <3>1, <3>2 DEF Reported, AgentState
    <3>3. QED
      BY <1>5, <3>2 DEF ServeLate, Timeout
  <2>5. QED
    BY <2>1, <2>2, <2>3, <2>4
<1>6. ASSUME NEW s \in Session, Allocated(s) \/ Taken(s)
      PROVE  Fewer
  <2> DEFINE q == call[s].proc
  <2>1. PICK result : agent' = [agent EXCEPT ![q] = Accept(q, call[s].gen, result)]
    BY <1>6 DEF Allocated, Taken, Answer
  <2>2. q \in Proc
    BY <1>6 DEF Allocated, Taken, Do, TypeInv, CallsHaveOrigin
  <2>3. agent'[p].completed = agent[p].completed
    BY <1>1, <1>2, <2>1, <2>2, AcceptFields
  <2>4. UNCHANGED <<rooms, flight, late>>
    BY <1>6 DEF Allocated, Taken, Answer
  <2>5. \A r \in Session : call'[r].op = "ran" => call'[r] = call[r]
    <3>1. [call[s] EXCEPT !.op = "granted"].op # "ran" /\ Idle.op # "ran"
      BY <1>2 DEF CallState, Idle
    <3>2. PICK k : k.op # "ran" /\ call' = [call EXCEPT ![s] = k]
      BY <1>6, <3>1 DEF Allocated, Taken, Answer, Set
    <3>3. QED
      BY <1>2, <3>2
  <2>6. QED
    BY <2>3, <2>4, <2>5
<1>7. ASSUME NEW s \in Session, CompleteCommand(s)
      PROVE  RanAt(p, t)
  <2>1. call[s].op = "ran" /\ call[s].proc \in Proc
    BY <1>7 DEF CompleteCommand, Do, TypeInv, CallsHaveOrigin
  <2>2. /\ p # call[s].proc => agent'[p].completed = agent[p].completed
        /\ p = call[s].proc => agent'[p].completed = agent[p].completed \cup {call[s].token}
    BY <1>2, <1>7, <2>1 DEF CompleteCommand, AgentState
  <2>3. UNCHANGED <<rooms, flight, late>>
    BY <1>7 DEF CompleteCommand
  <2>4. \A r \in Session : call'[r].op = "ran" => call'[r] = call[r]
    BY <1>2, <1>7 DEF CompleteCommand, Set, Idle
  <2>5. QED
    BY <2>1, <2>2, <2>3, <2>4 DEF RanAt
<1>8. ASSUME NEW s \in Session, GiveUp(s) \/ \E q \in Proc : Allocate(s, q) \/ \E u \in Token : Present(s, u, q)
      PROVE  Fewer
  <2>1. PICK k : k.op # "ran" /\ call' = [call EXCEPT ![s] = k]
    BY <1>8 DEF GiveUp, Allocate, Present, Set, Idle
  <2>2. UNCHANGED <<rooms, agent, flight, late>>
    BY <1>8 DEF GiveUp, Allocate, Present, agentVars
  <2>3. QED
    BY <1>2, <2>1, <2>2
<1>9. ASSUME NEW q \in Proc, NEW u \in Token, CloseRoom(q, u)
      PROVE  Fewer
  BY <1>1, <1>9 DEF CloseRoom, RoomsTyped, agentVars, clientVars
<1>10. RestartCoordinator \/ (\E u \in Token : Expire(u)) \/ UNCHANGED vars => Fewer
  BY DEF RestartCoordinator, Expire, vars, agentVars, clientVars
<1> HIDE DEF Fewer
<1>11. QED
  BY <1>3, <1>4, <1>5, <1>6, <1>7, <1>8, <1>9, <1>10 DEF Next, PublishStep, CallStep

\* A command is run in one place, because its token is in nobody's hands before.
LEMMA PlacesStep ==
  ASSUME TypeInv, TicketInv, [Next]_vars
  PROVE  RanInOnePlace'
<1>1. CASE \A s \in Session : ~RunCommand(s)
  <2>1. ran \subseteq ran'
    <3>1. ASSUME NEW s \in Session, Allocated(s) \/ Taken(s)
          PROVE  ran' = ran
      BY <3>1 DEF Allocated, Taken, Answer
    <3>2. QED
      BY <1>1, <3>1, MostStepsShrink DEF TicketsShrink
  <2>2. \A p \in Proc, t \in Token : RanAt(p, t)' => RanAt(p, t)
    BY <1>1, PlacesKept
  <2>3. QED
    BY <2>1, <2>2 DEF TicketInv, RanInOnePlace
<1>2. ASSUME NEW s \in Session, RunCommand(s)
      PROVE  RanInOnePlace'
  <2> DEFINE q == call[s].proc
             u == call[s].token
  <2>1. RoomsTyped /\ call \in [Session -> CallState(lastGen)]
    BY TypeParts DEF TypeInv, ClientsTyped
  <2>2. q \in Proc /\ u \in Token \ ran
    BY <1>2 DEF RunCommand, Do, TypeInv, CallsHaveOrigin, TicketInv, GrantedOnce
  <2>3. /\ UNCHANGED <<agent, flight, late>> /\ ran' = ran \cup {u}
        /\ \A p \in Proc : rooms'[p] \subseteq rooms[p] \cup (IF p = q THEN {u} ELSE {})
    BY <1>2, <2>1, <2>2 DEF RunCommand, agentVars, RoomsTyped
  <2>4. \A r \in Session : call'[r].op = "ran" =>
          call'[r] = call[r] \/ (call'[r].proc = q /\ call'[r].token = u)
    BY <1>2, <2>1 DEF RunCommand, Set, CallState
  <2>5. \A p \in Proc, t \in Token : RanAt(p, t)' => RanAt(p, t) \/ (p = q /\ t = u)
    BY <2>3, <2>4 DEF RanAt
  <2>6. \A p \in Proc : ~RanAt(p, u)
    BY <2>2 DEF TicketInv, RanInOnePlace
  <2>7. QED
    BY <2>3, <2>5, <2>6 DEF TicketInv, RanInOnePlace
<1>3. QED
  BY <1>1, <1>2

LEMMA TicketInvariant == Spec => []TicketInv
<1>1. Init => TicketInv
  BY DEF Init, TicketInv, Untaken, Issued, GrantedOnce, RanInOnePlace, RanAt, Idle
<1>2. ASSUME TypeInv, TicketInv, [Next]_vars
      PROVE  TicketInv'
  <2>1. Untaken' /\ GrantedOnce' /\ ran' \subseteq issued'
    BY <1>2, MostStepsShrink, ShrinkKeepsTickets, AllocatedTickets, TakenTickets, RunTickets
  <2>2. QED
    BY <1>2, <2>1, PlacesStep DEF TicketInv
<1>3. QED
  BY <1>1, <1>2, TypeInvariant, PTL DEF Spec

\* The command a ticket was issued for is executed at most once, and nowhere
\* is there a room of it before.
THEOREM CommandRunsOnce == Spec => TicketRunsOnce
<1>1. ASSUME TypeInv, TicketInv, NEW s \in Session, call[s].op = "granted"
      PROVE  call[s].token \notin ran /\ \A p \in Proc : call[s].token \notin rooms[p]
  <2>1. call[s].token \in Token \ ran
    BY <1>1 DEF TypeInv, CallsHaveOrigin, TicketInv, GrantedOnce
  <2>2. QED
    BY <1>1, <2>1 DEF TicketInv, RanInOnePlace, RanAt
<1>2. TypeInv /\ TicketInv /\ [Next]_vars =>
        [\A s \in Session : call[s].op = "granted" /\ call'[s].op = "ran"
           => /\ call[s].token \notin ran
              /\ \A p \in Proc : call[s].token \notin rooms[p]]_vars
  BY <1>1
<1>3. QED
  BY <1>2, TypeInvariant, TicketInvariant, PTL DEF Spec, TicketRunsOnce

(***************************************************************************)
(* Reservations                                                            *)
(***************************************************************************)
\* Reservations stand, and taken ones stay taken, unless they become void.
ReservationsLast ==
  /\ void \subseteq void'
  /\ \A n \in Node : \A t \in Reserved(n) :
       t \in void' \/ (t \in Reserved(n)' /\ (tickets[t].taken => tickets'[t].taken))

\* The report of q, or the one it abandoned, is executed.
FlightDelivered(q) ==
  /\ flight[q] # NoRequest /\ flight[q].kind = "report" /\ flight[q].gen = state[NodeOf[q]].gen
  /\ Report(NodeOf[q], flight[q]) /\ Outdated(q, flight[q].gen)
  /\ flight' = [flight EXCEPT ![q] = NoRequest] /\ UNCHANGED <<rooms, ran, call>>

LateDelivered(q) ==
  /\ late[q] # NoRequest /\ late[q].kind = "report" /\ ~late[q].old /\ late[q].gen = state[NodeOf[q]].gen
  /\ Report(NodeOf[q], late[q])
  /\ late' = [late EXCEPT ![q] = NoRequest] /\ UNCHANGED <<flight, rooms, ran, call>>

Delivery == \E q \in Proc : FlightDelivered(q) \/ LateDelivered(q)

\* A report that is executed ends reservations of the commands it names only.
LEMMA ReportedReservations ==
  ASSUME TypeOK, NEW n \in Node, NEW m \in RequestState, Report(n, m)
  PROVE  /\ void' = void
         /\ \A k \in Node : state'[k].gen = state[k].gen /\ (state[k].heard => state'[k].heard)
         /\ \A k \in Node : k # n => state'[k] = state[k]
         /\ ~m.old => state'[n].rooms = m.rooms
         /\ \A k \in Node : \A t \in Reserved(k) : t \in m.done \/ (t \in Reserved(k)' /\ tickets'[t] = tickets[t])
<1>1. CASE m.old
  BY <1>1 DEF Report, coordinatorVars, Reserved, Issued
<1>2. CASE ~m.old
  <2>1. void' = void
    BY <1>2 DEF Report
  <2>2. \A k \in Node : state'[k].gen = state[k].gen /\ (state[k].heard => state'[k].heard)
    BY <1>2 DEF Report, TypeOK
  <2>3. state'[n].rooms = m.rooms
    BY <1>2 DEF Report, TypeOK
  <2>4. \A k \in Node : k # n => state'[k] = state[k]
    BY <1>2 DEF Report, TypeOK
  <2>5. \A t \in Token : t \notin m.done => tickets'[t] = tickets[t]
    BY <1>2 DEF Report
  <2>6. QED
    BY <2>1, <2>2, <2>3, <2>4, <2>5 DEF Reserved, Issued
<1>3. QED
  BY <1>1, <1>2

\* A registration voids the reservations of its node.
LEMMA RegisterReservations ==
  ASSUME TypeOK, NEW n \in Node, Register(n)
  PROVE  ReservationsLast
<1>1. \A k \in Node : k # n => state'[k] = state[k]
  BY DEF Register, TypeOK
<1>2. QED
  BY <1>1 DEF Register, ReservationsLast, Reserved, Issued

\* Execution of a request is a delivery, or keeps the reservations.
LEMMA ExecuteReservations ==
  ASSUME TypeOK, NEW n \in Node, NEW m \in RequestState, Execute(n, m)
  PROVE  \/ ReservationsLast
         \/ m.kind # "register" /\ m.gen = state[n].gen /\ ~m.old /\ Report(n, m)
<1>1. CoordinatorTyped
  BY TypeParts
<1>2. UNCHANGED coordinatorVars => ReservationsLast
  BY DEF coordinatorVars, ReservationsLast, Reserved, Issued
<1>3. Report(n, m) /\ m.old => ReservationsLast
  BY <1>2 DEF Report
<1>4. QED
  BY <1>1, <1>2, <1>3, ExecuteFields, RegisterReservations

LEMMA ReservationStep ==
  ASSUME TypeInv, TicketInv, [Next]_vars, ~Delivery
  PROVE  ReservationsLast
<1>1. TypeOK /\ CoordinatorTyped /\ RequestsTyped
  BY TypeParts DEF TypeInv
<1>2. ASSUME UNCHANGED <<state, tickets, void>>
      PROVE  ReservationsLast
  BY <1>2 DEF ReservationsLast, Reserved, Issued
<1>3. ASSUME NEW t \in Token, Expire(t)
      PROVE  ReservationsLast
  <2>1. \A u \in Token : u # t => tickets'[u] = tickets[u]
    BY <1>1, <1>3 DEF Expire, CoordinatorTyped
  <2>2. QED
    BY <1>3, <2>1 DEF Expire, ReservationsLast, Reserved, Issued
<1>4. CASE RestartCoordinator
  BY <1>4 DEF RestartCoordinator, ReservationsLast, Reserved
<1>5. ASSUME NEW p \in Proc, Registered(p) \/ Reported(p) \/ ServeLate(p) \/ Timeout(p)
      PROVE  ReservationsLast
  <2>1. NodeOf[p] \in Node /\ (flight[p] # NoRequest => flight[p] \in RequestState)
                           /\ (late[p] # NoRequest => late[p] \in RequestState)
    BY <1>1, NodeAssumption DEF RequestsTyped
  <2>2. CASE UNCHANGED coordinatorVars
    BY <1>2, <2>2 DEF coordinatorVars
  <2>3. CASE Registered(p)
    BY <1>1, <2>1, <2>3, RegisterReservations DEF Registered
  <2>4. CASE /\ flight[p] # NoRequest /\ flight[p].kind # "draft" /\ Execute(NodeOf[p], flight[p])
             /\ Outdated(p, flight[p].gen) /\ flight' = [flight EXCEPT ![p] = NoRequest]
             /\ UNCHANGED <<rooms, ran, call>>
    <3>1. flight[p].kind \in {"register", "report"}
      BY <2>1, <2>4 DEF RequestState
    <3>2. ~FlightDelivered(p)
      BY DEF Delivery
    <3>3. QED
      BY <1>1, <2>1, <2>4, <3>1, <3>2, ExecuteReservations DEF FlightDelivered
  <2>5. CASE ServeLate(p)
    <3>1. late[p].kind \in {"register", "report"}
      BY <2>5, DelayAssumption DEF ServeLate, TypeInv, RequestsInOrder
    <3>2. ~LateDelivered(p)
      BY DEF Delivery
    <3>3. QED
      BY <1>1, <2>1, <2>5, <3>1, <3>2, ExecuteReservations DEF LateDelivered, ServeLate, clientVars
  <2>6. QED
    BY <1>5, <2>2, <2>3, <2>4, <2>5 DEF Reported, Timeout, clientVars
<1>6. ASSUME NEW s \in Session, Allocated(s)
      PROVE  ReservationsLast
  <2>1. state' = state /\ void' = void
    BY <1>6 DEF Allocated, Answer
  <2>2. \A n \in Node : Reserved(n) \subseteq issued
    BY DEF TicketInv, Untaken, Reserved
  <2>3. \/ tickets' = tickets
        \/ \E t \in Token \ issued : \E k : tickets' = [tickets EXCEPT ![t] = k]
    BY <1>6 DEF Allocated
  <2>4. \A n \in Node : \A t \in Reserved(n) : tickets'[t] = tickets[t]
    BY <1>1, <2>2, <2>3 DEF CoordinatorTyped, Reserved
  <2>5. QED
    BY <2>1, <2>4 DEF ReservationsLast, Reserved, Issued
<1>7. ASSUME NEW s \in Session, Taken(s)
      PROVE  ReservationsLast
  <2> DEFINE c == call[s]
  <2>1. state' = state /\ void' = void
    BY <1>7 DEF Taken, Answer
  <2>2. CASE c.token \in Token /\ Issued(c.token) /\ tickets' = [tickets EXCEPT ![c.token].taken = TRUE]
    <3>1. \A t \in Token : t # c.token => tickets'[t] = tickets[t]
      BY <1>1, <2>2 DEF CoordinatorTyped
    <3>2. tickets[c.token] \in [node : Node, gen : 1 .. lastGen, taken : BOOLEAN]
      BY <1>1, <2>2 DEF CoordinatorTyped, Issued
    <3>3. /\ tickets'[c.token].node = tickets[c.token].node /\ tickets'[c.token].gen = tickets[c.token].gen
          /\ tickets'[c.token].taken
      BY <1>1, <2>2, <3>2 DEF CoordinatorTyped
    <3>4. tickets'[c.token] # NoTicket
      <4>1. tickets'[c.token] = [tickets[c.token] EXCEPT !.taken = TRUE]
        BY <1>1, <2>2 DEF CoordinatorTyped
      <4>2. 1 .. lastGen \subseteq Nat
        OBVIOUS
      <4>3. [tickets[c.token] EXCEPT !.taken = TRUE] \in [node : Node, gen : Nat, taken : BOOLEAN]
        BY <3>2, <4>2, Zenon
      <4>4. QED
        BY <4>1, <4>3, NullAssumption
    <3>5. QED
      BY <2>1, <3>1, <3>3, <3>4 DEF ReservationsLast, Reserved, Issued
  <2>3. c.token \in Token
    BY <1>7 DEF Taken, Do, TypeInv, CallsHaveOrigin
  <2>4. QED
    BY <1>2, <1>7, <2>1, <2>2, <2>3 DEF Taken, MayTake
<1>8. ASSUME NEW s \in Session, \/ RunCommand(s) \/ CompleteCommand(s) \/ GiveUp(s)
                                \/ \E p \in Proc : Allocate(s, p) \/ \E t \in Token : Present(s, t, p)
      PROVE  UNCHANGED <<state, tickets, void>>
  BY <1>8 DEF RunCommand, CompleteCommand, GiveUp, Allocate, Present, coordinatorVars
<1>9. ASSUME NEW p \in Proc, \/ StartProcess(p) \/ Crash(p) \/ BeginPublish(p) \/ TakeSnapshot(p)
                             \/ \E t \in Token : CloseRoom(p, t)
      PROVE  UNCHANGED <<state, tickets, void>>
  BY <1>9 DEF StartProcess, Crash, BeginPublish, TakeSnapshot, CloseRoom, coordinatorVars
<1>10. UNCHANGED vars => UNCHANGED <<state, tickets, void>>
  BY DEF vars, coordinatorVars
<1>11. QED
  BY <1>2, <1>3, <1>4, <1>5, <1>6, <1>7, <1>8, <1>9, <1>10 DEF Next, PublishStep, CallStep

(***************************************************************************)
(* Generations                                                             *)
(***************************************************************************)
LEMMA KnownGenerations ==
  ASSUME TypeInv, NEW p \in Proc, NEW g, Uses(p, g)
  PROVE  g \in 0 .. lastGen
<1>1. ClientsTyped /\ RequestsTyped /\ lastGen \in Nat
  BY TypeParts DEF TypeInv, CoordinatorTyped
<1>2. agent[p].gen \in 0 .. lastGen
  BY <1>1 DEF ClientsTyped, AgentState
<1>3. flight[p] # NoRequest => flight[p].gen \in 0 .. lastGen
  BY <1>1 DEF RequestsTyped, RequestState, TypeInv, RequestsInOrder
<1>4. late[p] # NoRequest => late[p].gen \in 0 .. lastGen
  BY <1>1 DEF RequestsTyped, RequestState, TypeInv, RequestsInOrder
<1>5. QED
  BY <1>2, <1>3, <1>4 DEF Uses

\* A process gets to use a generation by registering only.
LEMMA UsesKept ==
  ASSUME TypeInv, [Next]_vars, NEW p \in Proc, NEW g, g # 0, Uses(p, g)'
  PROVE  Uses(p, g) \/ (Registered(p) /\ g = lastGen')
<1>1. RequestsTyped /\ lastGen \in Nat /\ agent \in [Proc -> AgentState(lastGen)]
  BY TypeParts DEF TypeInv, CoordinatorTyped, ClientsTyped
<1> DEFINE Fewer == /\ agent'[p].gen \in {agent[p].gen, 0}
                    /\ flight'[p] # NoRequest => flight'[p].gen \in {agent[p].gen, 0}
                         \/ (flight[p] # NoRequest /\ flight'[p].gen = flight[p].gen)
                    /\ late'[p] # NoRequest =>
                         \/ late[p] # NoRequest /\ late'[p].gen = late[p].gen
                         \/ flight[p] # NoRequest /\ late'[p].gen = flight[p].gen
<1>2. ASSUME Fewer PROVE Uses(p, g)
  BY <1>2 DEF Uses
<1>3. ASSUME UNCHANGED <<flight, late>>, AgentsKeepRegistration
      PROVE  Fewer
  BY <1>3 DEF AgentsKeepRegistration
<1>4. ASSUME NEW q \in Proc, StartProcess(q) \/ Crash(q) \/ BeginPublish(q) \/ TakeSnapshot(q)
      PROVE  Fewer
  <2>1. CASE StartProcess(q)
    BY <1>1, <2>1 DEF StartProcess, AgentState
  <2>2. CASE Crash(q)
    BY <1>1, <2>2 DEF Crash, RequestsTyped, AgentState
  <2>3. CASE BeginPublish(q)
    BY <1>1, <2>3 DEF BeginPublish, RequestsTyped, Request
  <2>4. CASE TakeSnapshot(q)
    BY <1>1, <2>4 DEF TakeSnapshot, RequestsTyped, RequestState
  <2>5. QED
    BY <1>4, <2>1, <2>2, <2>3, <2>4
<1>5. ASSUME NEW q \in Proc, Registered(q)
      PROVE  Uses(p, g) \/ (Registered(p) /\ g = lastGen')
  <2>1. CASE q = p
    <3>1. agent'[p].gen = lastGen' /\ flight'[p].gen = lastGen' /\ late' = late
      BY <1>1, <1>5, <2>1 DEF Registered, RequestsTyped, Request, AgentState
    <3>2. QED
      BY <1>5, <2>1, <3>1 DEF Uses
  <2>2. CASE q # p
    BY <1>1, <1>2, <1>5, <2>2 DEF Registered, RequestsTyped
  <2>3. QED
    BY <2>1, <2>2
<1>6. ASSUME NEW q \in Proc, Reported(q) \/ ServeLate(q) \/ Timeout(q)
      PROVE  Fewer
  <2>1. flight'[p] \in {flight[p], NoRequest}
    BY <1>1, <1>6 DEF Reported, ServeLate, Timeout, RequestsTyped
  <2>2. late'[p] # NoRequest =>
          \/ late[p] # NoRequest /\ late'[p].gen = late[p].gen
          \/ flight[p] # NoRequest /\ late'[p].gen = flight[p].gen
    <3>1. ASSUME NEW h, Outdated(q, h)
          PROVE  late'[p] # NoRequest => late[p] # NoRequest /\ late'[p].gen = late[p].gen
      <4>1. CASE late[q] # NoRequest
        BY <1>1, <3>1, <4>1 DEF Outdated, RequestsTyped, RequestState
      <4>2. CASE late[q] = NoRequest
        BY <1>1, <3>1, <4>2 DEF Outdated, RequestsTyped
      <4>3. QED
        BY <4>1, <4>2
    <3>2. QED
      BY <1>1, <1>6, <3>1 DEF Reported, ServeLate, Timeout, RequestsTyped
  <2>3. agent'[p].gen \in {agent[p].gen, 0}
    <3>1. ASSUME NEW h, NEW result
          PROVE  Accept(q, h, result).gen \in {agent[q].gen, 0}
      BY <1>1, AcceptFields
    <3>2. CASE Reported(q)
      BY <1>1, <3>1, <3>2 DEF Reported, AgentState
    <3>3. QED
      BY <1>6, <3>2 DEF ServeLate, Timeout
  <2>4. QED
    BY <2>1, <2>2, <2>3
<1>7. ASSUME NEW s \in Session, \/ CallStep(s) \/ GiveUp(s)
                                \/ \E q \in Proc : Allocate(s, q) \/ \E t \in Token : Present(s, t, q)
      PROVE  Fewer
  BY <1>3, <1>7, SessionRequests DEF CallStep
<1>8. ASSUME NEW q \in Proc, NEW t \in Token, CloseRoom(q, t)
      PROVE  Fewer
  BY <1>8 DEF CloseRoom, agentVars
<1>9. RestartCoordinator \/ (\E t \in Token : Expire(t)) \/ UNCHANGED vars => Fewer
  BY DEF RestartCoordinator, Expire, vars, agentVars
<1> HIDE DEF Fewer
<1>10. QED
  BY <1>2, <1>4, <1>5, <1>6, <1>7, <1>8, <1>9 DEF Next, PublishStep

LEMMA GenerationStep ==
  ASSUME TypeInv, GenerationsApart, [Next]_vars
  PROVE  GenerationsApart'
<1>1. lastGen \in Nat
  BY DEF TypeInv, TypeOK
<1>2. ASSUME NEW p \in Proc, NEW q \in Proc, NEW g, g # 0, Uses(p, g)', Uses(q, g)', Uses(p, g)
      PROVE  p = q
  <2>1. g \in 1 .. lastGen
    BY <1>1, <1>2, KnownGenerations
  <2>2. ~(Registered(q) /\ g = lastGen')
    BY <1>1, <2>1 DEF Registered, Register
  <2>3. Uses(q, g)
    BY <1>2, <2>2, UsesKept
  <2>4. QED
    BY <1>2, <2>1, <2>3 DEF GenerationsApart
<1>3. ASSUME NEW p \in Proc, NEW q \in Proc, Registered(p), Registered(q)
      PROVE  p = q
  <2>1. CASE p # q
    <3>1. flight' = [flight EXCEPT ![p] = Request("draft", lastGen', agent[p].completed)]
      BY <1>3 DEF Registered
    <3>2. flight' = [flight EXCEPT ![q] = Request("draft", lastGen', agent[q].completed)]
      BY <1>3 DEF Registered
    <3>3. flight[q].kind = "register" /\ flight \in [Proc -> RequestState \cup {NoRequest}]
      BY <1>3, TypeParts DEF Registered, TypeInv, RequestsTyped
    <3>4. QED
      BY <2>1, <3>1, <3>2, <3>3 DEF Request
  <2>2. QED
    BY <2>1
<1>4. QED
  BY <1>2, <1>3, UsesKept DEF GenerationsApart

LEMMA RegisteredIsUpStep ==
  ASSUME TypeInv, RegisteredIsUp, [Next]_vars
  PROVE  RegisteredIsUp'
<1>1. lastGen \in Nat /\ agent \in [Proc -> AgentState(lastGen)]
  BY TypeParts DEF TypeInv, CoordinatorTyped, ClientsTyped
<1>2. ASSUME AgentsKeepRegistration PROVE RegisteredIsUp'
  BY <1>2 DEF AgentsKeepRegistration, RegisteredIsUp
<1>3. ASSUME agent' = agent PROVE RegisteredIsUp'
  BY <1>3 DEF RegisteredIsUp
<1>4. ASSUME NEW q \in Proc, StartProcess(q) \/ Crash(q) \/ Registered(q)
      PROVE  RegisteredIsUp'
  <2>1. CASE StartProcess(q)
    BY <1>1, <2>1 DEF StartProcess, AgentState, RegisteredIsUp
  <2>2. CASE Crash(q)
    BY <1>1, <2>2 DEF Crash, AgentState, RegisteredIsUp
  <2>3. CASE Registered(q)
    BY <1>1, <2>3 DEF Registered, AgentState, RegisteredIsUp, TypeInv, RequestsInOrder
  <2>4. QED
    BY <1>4, <2>1, <2>2, <2>3
<1>5. ASSUME NEW q \in Proc, Reported(q)
      PROVE  RegisteredIsUp'
  <2>1. ASSUME NEW h, NEW result
        PROVE  Accept(q, h, result).gen \in {agent[q].gen, 0} /\ Accept(q, h, result).up = agent[q].up
    BY <1>1, AcceptFields
  <2>2. QED
    BY <1>1, <1>5, <2>1 DEF Reported, AgentState, RegisteredIsUp
<1>6. ASSUME NEW s \in Session, \/ CallStep(s) \/ GiveUp(s)
                                \/ \E q \in Proc : Allocate(s, q) \/ \E t \in Token : Present(s, t, q)
      PROVE  AgentsKeepRegistration
  BY <1>6, SessionRequests DEF CallStep
<1>7. ASSUME NEW q \in Proc, BeginPublish(q) \/ TakeSnapshot(q) \/ ServeLate(q) \/ Timeout(q)
                             \/ \E t \in Token : CloseRoom(q, t)
      PROVE  agent' = agent
  BY <1>7 DEF BeginPublish, TakeSnapshot, ServeLate, Timeout, CloseRoom, agentVars
<1>8. RestartCoordinator \/ (\E t \in Token : Expire(t)) \/ UNCHANGED vars => agent' = agent
  BY DEF RestartCoordinator, Expire, vars, agentVars
<1>9. QED
  BY <1>2, <1>3, <1>4, <1>5, <1>6, <1>7, <1>8 DEF Next, PublishStep

(***************************************************************************)
(* Rooms and snapshots                                                     *)
(***************************************************************************)
\* A room is new only if its command was granted.
NewRoom(p, t) == \E s \in Session : call[s].op = "granted" /\ call[s].proc = p /\ call[s].token = t

LEMMA RoomsGrow ==
  ASSUME TypeInv, [Next]_vars, NEW p \in Proc, NEW t \in rooms'[p], t \notin rooms[p]
  PROVE  NewRoom(p, t)
<1>1. RoomsTyped
  BY TypeParts DEF TypeInv
<1>2. rooms' = rooms => FALSE
  OBVIOUS
<1>3. ASSUME NEW s \in Session, RunCommand(s)
      PROVE  NewRoom(p, t)
  BY <1>1, <1>3 DEF RunCommand, Do, RoomsTyped, NewRoom
<1>4. ASSUME NEW s \in Session, \/ Allocated(s) \/ Taken(s) \/ CompleteCommand(s) \/ GiveUp(s)
                                \/ \E q \in Proc : Allocate(s, q) \/ \E u \in Token : Present(s, u, q)
      PROVE  rooms' = rooms
  BY <1>4 DEF Allocated, Taken, Answer, CompleteCommand, GiveUp, Allocate, Present
<1>5. ASSUME NEW q \in Proc, \/ StartProcess(q) \/ BeginPublish(q) \/ TakeSnapshot(q) \/ Registered(q)
                             \/ Reported(q) \/ ServeLate(q) \/ Timeout(q)
      PROVE  rooms' = rooms
  BY <1>5 DEF StartProcess, BeginPublish, TakeSnapshot, Registered, Reported, ServeLate, Timeout
<1>6. ASSUME NEW q \in Proc, Crash(q) \/ \E u \in Token : CloseRoom(q, u)
      PROVE  FALSE
  BY <1>1, <1>6 DEF Crash, CloseRoom, RoomsTyped
<1>7. RestartCoordinator \/ (\E u \in Token : Expire(u)) \/ UNCHANGED vars => rooms' = rooms
  BY DEF RestartCoordinator, Expire, vars
<1>8. QED
  BY <1>2, <1>3, <1>4, <1>5, <1>6, <1>7 DEF Next, PublishStep, CallStep

\* A new room is reserved, or its reservation is void; nobody completed it.
LEMMA NewRoomIsCounted ==
  ASSUME TypeInv, TicketInv, GrantsStand, NEW p \in Proc, NEW t, NewRoom(p, t)
  PROVE  /\ t \in Token \ ran
         /\ t \in void \/ t \in Reserved(NodeOf[p])
         /\ flight[p] # NoRequest => t \notin flight[p].done
         /\ late[p] # NoRequest => t \notin late[p].done
<1>1. t \in Token \ ran /\ (t \in void \/ t \in Reserved(NodeOf[p]))
  BY DEF NewRoom, TypeInv, CallsHaveOrigin, TicketInv, GrantedOnce, GrantsStand
<1>2. ~RanAt(p, t)
  BY <1>1 DEF TicketInv, RanInOnePlace
<1>3. QED
  BY <1>1, <1>2 DEF RanAt

\* What a delivered report names was run in its process.
LEMMA DeliveredWasRun ==
  ASSUME TypeInv, TicketInv, NEW q \in Proc, NEW t \in Token,
         \/ flight[q] # NoRequest /\ t \in flight[q].done
         \/ late[q] # NoRequest /\ t \in late[q].done
  PROVE  t \in ran /\ \A p \in Proc : RanAt(p, t) => p = q
<1>1. RanAt(q, t)
  BY DEF RanAt
<1>2. QED
  BY <1>1 DEF TicketInv, RanInOnePlace

LEMMA GrantStep ==
  ASSUME TypeInv, TicketInv, GrantsStand, [Next]_vars
  PROVE  GrantsStand'
<1>1. CoordinatorTyped /\ RequestsTyped /\ call \in [Session -> CallState(lastGen)] /\ TypeOK
  BY TypeParts DEF TypeInv, ClientsTyped
<1>2. \A s \in Session : call[s].op = "granted" => NodeOf[call[s].proc] \in Node
  BY NodeAssumption DEF TypeInv, CallsHaveOrigin
<1>3. ASSUME NEW q \in Proc, FlightDelivered(q) \/ LateDelivered(q)
      PROVE  GrantsStand'
  <2>1. PICK m \in RequestState : /\ Report(NodeOf[q], m) /\ call' = call /\ NodeOf[q] \in Node
                                  /\ \A t \in Token : t \in m.done => t \in ran
    BY <1>1, <1>3, DeliveredWasRun, NodeAssumption DEF FlightDelivered, LateDelivered, RequestsTyped
  <2>2. void' = void /\ \A k \in Node : \A t \in Reserved(k) :
          t \in m.done \/ (t \in Reserved(k)' /\ tickets'[t] = tickets[t])
    BY <1>1, <2>1, ReportedReservations
  <2>3. SUFFICES ASSUME NEW s \in Session, call[s].op = "granted"
                 PROVE  call[s].token \in void'
                        \/ (call[s].token \in Reserved(NodeOf[call[s].proc])' /\ tickets'[call[s].token].taken)
    BY <2>1 DEF GrantsStand
  <2>4. call[s].token \in Token \ ran
    BY <2>3 DEF TypeInv, CallsHaveOrigin, TicketInv, GrantedOnce
  <2>5. QED
    BY <1>2, <2>1, <2>2, <2>3, <2>4 DEF GrantsStand
<1>4. CASE ReservationsLast
  <2>1. ASSUME NEW s \in Session, call[s].op = "granted", NEW t, t = call[s].token,
               NEW n, n = NodeOf[call[s].proc]
        PROVE  t \in void' \/ (t \in Reserved(n)' /\ tickets'[t].taken)
    BY <1>2, <1>4, <2>1 DEF GrantsStand, ReservationsLast
  <2>2. CASE \A s \in Session : call'[s].op = "granted" => call'[s] = call[s]
    BY <2>1, <2>2 DEF GrantsStand
  <2>3. ASSUME NEW s \in Session, Taken(s), ~(call' = [call EXCEPT ![s] = Idle]),
               NEW t, t = call[s].token, NEW n, n = NodeOf[call[s].proc]
        PROVE  GrantsStand'
    <3>1. /\ Standing(n, call[s].gen) = "ok" /\ MayTake(n, t, call[s].gen) /\ state' = state
          /\ tickets' = [tickets EXCEPT ![t].taken = TRUE]
          /\ call' = [call EXCEPT ![s] = [call[s] EXCEPT !.op = "granted"]]
      BY <2>3 DEF Taken, Answer, Set
    <3>2. n \in Node /\ t \in Token /\ state[n].gen = call[s].gen
      BY <2>3, <3>1, NodeAssumption DEF Taken, Do, TypeInv, CallsHaveOrigin, Standing
    <3>3. t \in Reserved(n)
      BY <3>1, <3>2 DEF MayTake, Reserved
    <3>4. tickets'[t].taken
      BY <1>1, <3>1, <3>2 DEF CoordinatorTyped, MayTake, Issued
    <3>5. t \in void' \/ t \in Reserved(n)'
      BY <1>4, <3>2, <3>3 DEF ReservationsLast
    <3>6. call'[s].token = t /\ NodeOf[call'[s].proc] = n
      BY <1>1, <2>3, <3>1 DEF CallState
    <3>7. \A r \in Session \ {s} : call'[r] = call[r]
      BY <1>1, <3>1
    <3>8. QED
      BY <2>1, <3>4, <3>5, <3>6, <3>7 DEF GrantsStand
  <2>4. ASSUME NEW s \in Session, \/ Allocated(s) \/ RunCommand(s) \/ call' = [call EXCEPT ![s] = Idle]
        PROVE  \A r \in Session : call'[r].op = "granted" => call'[r] = call[r]
    <3>1. PICK k : k.op # "granted" /\ call' = [call EXCEPT ![s] = k]
      <4>1. Idle.op # "granted" /\ [call[s] EXCEPT !.op = "ran"].op # "granted"
        BY <1>1 DEF Idle, CallState
      <4>2. QED
        BY <2>4, <4>1 DEF Allocated, RunCommand, Answer, Set
    <3>2. QED
      BY <1>1, <3>1
  <2>5. (\A s \in Session : ~Allocated(s) /\ ~Taken(s) /\ ~RunCommand(s))
          => \A s \in Session : call'[s].op = "granted" => call'[s] = call[s]
    BY MostStepsShrink DEF TicketsShrink
  <2>6. QED
    BY <2>2, <2>3, <2>4, <2>5
<1>5. QED
  BY <1>3, <1>4, ReservationStep DEF Delivery

\* The node was registered anew or forgotten.
NewStanding(n) == ~state'[n].heard /\ state'[n].rooms = {} /\ state'[n].gen \in {0, lastGen + 1}

LEMMA StateStep ==
  ASSUME TypeInv, [Next]_vars, NEW n \in Node
  PROVE  \/ state'[n] = state[n]
         \/ NewStanding(n)
         \/ Delivery /\ state'[n].gen = state[n].gen /\ (state[n].heard => state'[n].heard)
<1>1. TypeOK /\ CoordinatorTyped /\ RequestsTyped /\ lastGen \in Nat
  BY TypeParts DEF TypeInv, CoordinatorTyped
<1>2. ASSUME NEW k \in Node, Register(k)
      PROVE  state'[n] = state[n] \/ (NewStanding(n))
  BY <1>1, <1>2 DEF Register, CoordinatorTyped, Unregistered, NewStanding
<1>3. CASE state' = state
  BY <1>3
<1>4. CASE RestartCoordinator
  BY <1>4 DEF RestartCoordinator, Unregistered, NewStanding
<1>5. ASSUME NEW p \in Proc, Registered(p) \/ Reported(p) \/ ServeLate(p) \/ Timeout(p)
      PROVE  \/ state'[n] = state[n]
             \/ NewStanding(n)
             \/ Delivery /\ state'[n].gen = state[n].gen /\ (state[n].heard => state'[n].heard)
  <2>1. NodeOf[p] \in Node /\ (flight[p] # NoRequest => flight[p] \in RequestState)
                           /\ (late[p] # NoRequest => late[p] \in RequestState)
    BY <1>1, NodeAssumption DEF RequestsTyped
  <2>2. ASSUME NEW m \in RequestState, Execute(NodeOf[p], m)
        PROVE  \/ state'[n] = state[n]
               \/ NewStanding(n)
               \/ m.kind # "register" /\ m.gen = state[NodeOf[p]].gen /\ ~m.old /\ Report(NodeOf[p], m)
                    /\ state'[n].gen = state[n].gen /\ (state[n].heard => state'[n].heard)
    <3>1. CASE Register(NodeOf[p])
      BY <1>2, <2>1, <3>1
    <3>2. CASE Report(NodeOf[p], m) /\ m.kind # "register" /\ m.gen = state[NodeOf[p]].gen
      <4>1. state'[n].gen = state[n].gen /\ (state[n].heard => state'[n].heard)
        BY <1>1, <2>1, <2>2, <3>2, ReportedReservations
      <4>2. m.old => state' = state
        BY <3>2 DEF Report, coordinatorVars
      <4>3. QED
        BY <3>2, <4>1, <4>2
    <3>3. QED
      BY <1>1, <2>1, <2>2, <3>1, <3>2, ExecuteFields DEF coordinatorVars
  <2>3. CASE UNCHANGED coordinatorVars
    BY <1>3, <2>3 DEF coordinatorVars
  <2>4. CASE Registered(p)
    BY <1>2, <2>1, <2>4 DEF Registered
  <2>5. CASE /\ flight[p] # NoRequest /\ flight[p].kind # "draft" /\ Execute(NodeOf[p], flight[p])
             /\ Outdated(p, flight[p].gen) /\ flight' = [flight EXCEPT ![p] = NoRequest]
             /\ UNCHANGED <<rooms, ran, call>>
    <3>1. flight[p].kind \in {"register", "report"}
      BY <2>1, <2>5 DEF RequestState
    <3>2. FlightDelivered(p) => Delivery
      BY DEF Delivery
    <3>3. QED
      BY <2>1, <2>2, <2>5, <3>1, <3>2 DEF FlightDelivered
  <2>6. CASE ServeLate(p)
    <3>1. late[p].kind \in {"register", "report"}
      BY <2>6, DelayAssumption DEF ServeLate, TypeInv, RequestsInOrder
    <3>2. LateDelivered(p) => Delivery
      BY DEF Delivery
    <3>3. QED
      BY <2>1, <2>2, <2>6, <3>1, <3>2 DEF LateDelivered, ServeLate, clientVars
  <2>7. QED
    BY <1>5, <2>3, <2>4, <2>5, <2>6 DEF Reported, Timeout, clientVars
<1>6. ASSUME NEW s \in Session, \/ CallStep(s) \/ GiveUp(s)
                                \/ \E p \in Proc : Allocate(s, p) \/ \E t \in Token : Present(s, t, p)
      PROVE  state' = state
  BY <1>6, SessionRequests DEF CallStep
<1>7. ASSUME NEW p \in Proc, \/ StartProcess(p) \/ Crash(p) \/ BeginPublish(p) \/ TakeSnapshot(p)
                             \/ \E t \in Token : CloseRoom(p, t)
      PROVE  state' = state
  BY <1>7 DEF StartProcess, Crash, BeginPublish, TakeSnapshot, CloseRoom, coordinatorVars
<1>8. (\E t \in Token : Expire(t)) \/ UNCHANGED vars => state' = state
  BY DEF Expire, vars, coordinatorVars
<1>9. QED
  BY <1>3, <1>4, <1>5, <1>6, <1>7, <1>8 DEF Next, PublishStep

\* A request that is under way was under way before, is the snapshot of now or
\* still without one.
LEMMA FlightStep ==
  ASSUME TypeInv, [Next]_vars, NEW p \in Proc, flight'[p] # NoRequest
  PROVE  \/ flight[p] # NoRequest /\ flight'[p] = flight[p]
         \/ flight'[p].rooms = rooms'[p]
         \/ flight'[p].kind # "report" /\ flight'[p].rooms = {}
<1>1. RequestsTyped /\ RoomsTyped
  BY TypeParts DEF TypeInv
<1>2. flight' = flight => flight[p] # NoRequest /\ flight'[p] = flight[p]
  OBVIOUS
<1>3. ASSUME NEW q \in Proc, TakeSnapshot(q)
      PROVE  \/ flight[p] # NoRequest /\ flight'[p] = flight[p]
             \/ flight'[p].rooms = rooms'[p]
  BY <1>1, <1>3 DEF TakeSnapshot, RequestsTyped, RequestState
<1>4. ASSUME NEW q \in Proc, BeginPublish(q) \/ Registered(q)
      PROVE  \/ flight[p] # NoRequest /\ flight'[p] = flight[p]
             \/ flight'[p].kind # "report" /\ flight'[p].rooms = {}
  BY <1>1, <1>4 DEF BeginPublish, Registered, Request, RequestsTyped
<1>5. ASSUME NEW q \in Proc, Crash(q) \/ Reported(q) \/ Timeout(q)
      PROVE  flight[p] # NoRequest /\ flight'[p] = flight[p]
  BY <1>1, <1>5 DEF Crash, Reported, Timeout, RequestsTyped
<1>6. ASSUME NEW q \in Proc, StartProcess(q) \/ ServeLate(q) \/ \E t \in Token : CloseRoom(q, t)
      PROVE  flight' = flight
  BY <1>6 DEF StartProcess, ServeLate, CloseRoom, agentVars
<1>7. ASSUME NEW s \in Session, \/ CallStep(s) \/ GiveUp(s)
                                \/ \E q \in Proc : Allocate(s, q) \/ \E t \in Token : Present(s, t, q)
      PROVE  flight' = flight
  BY <1>7, SessionRequests DEF CallStep
<1>8. RestartCoordinator \/ (\E t \in Token : Expire(t)) \/ UNCHANGED vars => flight' = flight
  BY DEF RestartCoordinator, Expire, vars, agentVars
<1>9. QED
  BY <1>2, <1>3, <1>4, <1>5, <1>6, <1>7, <1>8 DEF Next, PublishStep

\* An abandoned request was abandoned before, or just now.
LEMMA LateStep ==
  ASSUME TypeInv, [Next]_vars, NEW p \in Proc, late'[p] # NoRequest
  PROVE  \/ /\ late[p] # NoRequest /\ late'[p].done = late[p].done /\ late'[p].rooms = late[p].rooms
            /\ ~late'[p].old => late'[p] = late[p]
         \/ /\ flight[p] # NoRequest /\ late'[p] = flight[p] /\ flight'[p] = NoRequest
            /\ UNCHANGED <<coordinatorVars, rooms>>
<1>1. RequestsTyped
  BY TypeParts DEF TypeInv
<1> DEFINE Kept == /\ late[p] # NoRequest /\ late'[p].done = late[p].done /\ late'[p].rooms = late[p].rooms
                   /\ ~late'[p].old => late'[p] = late[p]
<1>2. late' = late => Kept
  OBVIOUS
<1>3. ASSUME NEW q \in Proc, NEW g, Outdated(q, g)
      PROVE  Kept
  <2>1. CASE late[q] # NoRequest /\ late[q].gen = g
    BY <1>1, <1>3, <2>1 DEF Outdated, RequestsTyped, RequestState
  <2>2. CASE ~(late[q] # NoRequest /\ late[q].gen = g)
    BY <1>1, <1>3, <2>2 DEF Outdated, RequestsTyped
  <2>3. QED
    BY <2>1, <2>2
<1>4. ASSUME NEW q \in Proc, Reported(q)
      PROVE  Kept
  BY <1>3, <1>4 DEF Reported
<1>5. ASSUME NEW q \in Proc, ServeLate(q)
      PROVE  Kept
  BY <1>1, <1>5 DEF ServeLate, RequestsTyped
<1>6. ASSUME NEW q \in Proc, Timeout(q)
      PROVE  \/ Kept
             \/ /\ flight[p] # NoRequest /\ late'[p] = flight[p] /\ flight'[p] = NoRequest
                /\ UNCHANGED <<coordinatorVars, rooms>>
  <2>1. CASE late' = [late EXCEPT ![q] = flight[q]] /\ UNCHANGED coordinatorVars
    BY <1>1, <1>6, <2>1 DEF Timeout, RequestsTyped
  <2>2. QED
    BY <1>2, <1>3, <1>6, <2>1 DEF Timeout
<1>7. ASSUME NEW q \in Proc, \/ StartProcess(q) \/ Crash(q) \/ BeginPublish(q) \/ TakeSnapshot(q)
                             \/ Registered(q) \/ \E t \in Token : CloseRoom(q, t)
      PROVE  late' = late
  BY <1>7 DEF StartProcess, Crash, BeginPublish, TakeSnapshot, Registered, CloseRoom, agentVars
<1>8. ASSUME NEW s \in Session, \/ CallStep(s) \/ GiveUp(s)
                                \/ \E q \in Proc : Allocate(s, q) \/ \E t \in Token : Present(s, t, q)
      PROVE  late' = late
  BY <1>8, SessionRequests DEF CallStep
<1>9. RestartCoordinator \/ (\E t \in Token : Expire(t)) \/ UNCHANGED vars => late' = late
  BY DEF RestartCoordinator, Expire, vars, agentVars
<1> HIDE DEF Kept
<1>10. Kept \/ (flight[p] # NoRequest /\ late'[p] = flight[p] /\ flight'[p] = NoRequest
                  /\ UNCHANGED <<coordinatorVars, rooms>>)
  BY <1>2, <1>4, <1>5, <1>6, <1>7, <1>8, <1>9 DEF Next, PublishStep
<1>11. QED
  BY <1>10 DEF Kept

\* A registration is kept as it is, forgotten or new.
LEMMA RegistrationKept ==
  ASSUME TypeInv, [Next]_vars, NEW p \in Proc
  PROVE  agent'[p].gen \in {agent[p].gen, 0} \/ Registered(p)
<1>1. lastGen \in Nat /\ agent \in [Proc -> AgentState(lastGen)]
  BY TypeParts DEF TypeInv, CoordinatorTyped, ClientsTyped
<1>2. CASE AgentsKeepRegistration
  BY <1>2 DEF AgentsKeepRegistration
<1>3. CASE agent' = agent
  BY <1>3
<1>4. ASSUME NEW q \in Proc, StartProcess(q) \/ Crash(q) \/ Registered(q)
      PROVE  agent'[p].gen \in {agent[p].gen, 0} \/ Registered(p)
  <2>1. CASE StartProcess(q)
    BY <1>1, <2>1 DEF StartProcess, AgentState
  <2>2. CASE Crash(q)
    BY <1>1, <2>2 DEF Crash, AgentState
  <2>3. CASE Registered(q) /\ p # q
    BY <1>1, <2>3 DEF Registered
  <2>4. QED
    BY <1>4, <2>1, <2>2, <2>3
<1>5. ASSUME NEW q \in Proc, Reported(q)
      PROVE  agent'[p].gen \in {agent[p].gen, 0}
  <2>1. ASSUME NEW h, NEW result
        PROVE  Accept(q, h, result).gen \in {agent[q].gen, 0}
    BY <1>1, AcceptFields
  <2>2. QED
    BY <1>1, <1>5, <2>1 DEF Reported, AgentState
<1>6. ASSUME NEW s \in Session, \/ CallStep(s) \/ GiveUp(s)
                                \/ \E q \in Proc : Allocate(s, q) \/ \E t \in Token : Present(s, t, q)
      PROVE  AgentsKeepRegistration
  BY <1>6, SessionRequests DEF CallStep
<1>7. ASSUME NEW q \in Proc, BeginPublish(q) \/ TakeSnapshot(q) \/ ServeLate(q) \/ Timeout(q)
                             \/ \E t \in Token : CloseRoom(q, t)
      PROVE  agent' = agent
  BY <1>7 DEF BeginPublish, TakeSnapshot, ServeLate, Timeout, CloseRoom, agentVars
<1>8. RestartCoordinator \/ (\E t \in Token : Expire(t)) \/ UNCHANGED vars => agent' = agent
  BY DEF RestartCoordinator, Expire, vars, agentVars
<1>9. QED
  BY <1>2, <1>3, <1>4, <1>5, <1>6, <1>7, <1>8 DEF Next, PublishStep

\* A snapshot goes on covering its process while reservations last,
LEMMA CoverKept ==
  ASSUME TypeInv, TicketInv, GrantsStand, [Next]_vars, ReservationsLast,
         NEW p \in Proc, NEW m, \A t \in Token : t \in m.done => t \in ran, Covers(p, m)
  PROVE  Covers(p, m)'
<1>1. SUFFICES ASSUME NEW t \in rooms'[p] \ m.rooms, NEW n, n = NodeOf[p]
               PROVE  t \in void' \/ (t \in Reserved(n)' /\ t \notin m.done)
  BY DEF Covers
<1>2. n \in Node
  BY <1>1, NodeAssumption
<1>3. t \in void \/ (t \in Reserved(n) /\ t \notin m.done)
  <2>1. CASE t \in rooms[p]
    BY <1>1, <2>1 DEF Covers
  <2>2. CASE t \notin rooms[p]
    BY <1>1, <2>2, RoomsGrow, NewRoomIsCounted
  <2>3. QED
    BY <2>1, <2>2
<1>4. QED
  BY <1>2, <1>3 DEF ReservationsLast

\* and while reports of other processes, or without its tokens, are executed.
LEMMA CoverDelivered ==
  ASSUME TypeInv, TicketInv, NEW q \in Proc, FlightDelivered(q) \/ LateDelivered(q),
         NEW p \in Proc, NEW m, Covers(p, m),
         p = q => LateDelivered(q) /\ \A t \in rooms[p] \ m.rooms : t \notin late[q].done
  PROVE  Covers(p, m)'
<1>1. TypeOK /\ RequestsTyped /\ RoomsTyped
  BY TypeParts DEF TypeInv
<1>2. rooms' = rooms
  BY DEF FlightDelivered, LateDelivered
<1>3. SUFFICES ASSUME NEW t \in rooms[p] \ m.rooms, NEW n, n = NodeOf[p]
               PROVE  t \in void' \/ (t \in Reserved(n)' /\ t \notin m.done)
  BY <1>2 DEF Covers
<1>4. n \in Node /\ t \in Token /\ RanAt(p, t)
  BY <1>1, <1>3, NodeAssumption DEF RoomsTyped, RanAt
<1>5. PICK d \in RequestState : Report(NodeOf[q], d) /\ NodeOf[q] \in Node /\ t \notin d.done
  <2>1. CASE FlightDelivered(q) /\ p # q
    BY <1>1, <1>4, <2>1, DeliveredWasRun, NodeAssumption DEF FlightDelivered, RequestsTyped
  <2>2. CASE LateDelivered(q)
    BY <1>1, <1>3, <1>4, <2>2, DeliveredWasRun, NodeAssumption DEF LateDelivered, RequestsTyped
  <2>3. QED
    BY <2>1, <2>2
<1>6. t \in Reserved(n) => t \in Reserved(n)'
  BY <1>1, <1>4, <1>5, ReportedReservations
<1>7. void' = void
  BY <1>1, <1>5, ReportedReservations
<1>8. QED
  BY <1>3, <1>6, <1>7 DEF Covers

LEMMA SnapshotStep ==
  ASSUME TypeInv, TicketInv, GrantsStand, SnapshotsCover, [Next]_vars
  PROVE  SnapshotsCover'
<1>1. RequestsTyped /\ RoomsTyped /\ lastGen \in Nat
  BY TypeParts DEF TypeInv, CoordinatorTyped
<1>2. ASSUME NEW p \in Proc, flight'[p] # NoRequest, flight'[p].kind = "report", NEW m, m = flight'[p]
      PROVE  Covers(p, m)'
  <2>1. CASE m.rooms = rooms'[p]
    BY <2>1 DEF Covers
  <2>2. CASE flight[p] # NoRequest /\ flight[p] = m
    <3>1. Covers(p, m)
      BY <1>2, <2>2 DEF SnapshotsCover
    <3>2. ASSUME NEW q \in Proc, FlightDelivered(q) \/ LateDelivered(q)
          PROVE  Covers(p, m)'
      <4>1. ~FlightDelivered(p)
        BY <1>1, <1>2 DEF FlightDelivered, RequestsTyped
      <4>2. LateDelivered(p) => \A t \in rooms[p] \ m.rooms : t \notin late[p].done
        BY <1>2, <2>2 DEF LateDelivered, SnapshotsCover
      <4>3. QED
        BY <3>1, <3>2, <4>1, <4>2, CoverDelivered
    <3>3. \A t \in Token : t \in m.done => t \in ran
      BY <2>2, DeliveredWasRun
    <3>4. QED
      BY <3>1, <3>2, <3>3, CoverKept, ReservationStep DEF Delivery
  <2>3. QED
    BY <1>2, <2>1, <2>2, FlightStep
<1>3. ASSUME NEW p \in Proc, late'[p] # NoRequest, late'[p].kind = "report", ~late'[p].old,
             late'[p].gen = state'[NodeOf[p]].gen, NEW m, m = late'[p]
      PROVE  Covers(p, m)'
  <2> DEFINE n == NodeOf[p]
  <2>1. n \in Node
    BY NodeAssumption
  <2>2. CASE late[p] # NoRequest /\ late[p] = m
    <3>1. m.gen # 0 /\ m.gen <= lastGen /\ m.gen \in Nat
      BY <1>1, <1>3, <2>2 DEF TypeInv, RequestsInOrder, RequestsTyped, RequestState
    <3>2. m.gen = state[n].gen
      BY <1>1, <1>3, <2>1, <3>1, StateStep DEF NewStanding
    <3>3. Covers(p, m)
      BY <1>3, <2>2, <3>2 DEF SnapshotsCover
    <3>4. ASSUME NEW q \in Proc, FlightDelivered(q) \/ LateDelivered(q)
          PROVE  Covers(p, m)'
      <4>1. ~LateDelivered(p)
        BY <1>1, <1>3 DEF LateDelivered, RequestsTyped
      <4>2. ~FlightDelivered(p)
        <5>1. SUFFICES ASSUME FlightDelivered(p) PROVE FALSE
          OBVIOUS
        <5>2. flight[p].gen = late[p].gen
          BY <2>2, <3>2, <5>1 DEF FlightDelivered
        <5>3. late'[p].old
          BY <1>1, <2>2, <5>1, <5>2 DEF FlightDelivered, Outdated, RequestsTyped, RequestState
        <5>4. QED
          BY <1>3, <5>3
      <4>3. QED
        BY <3>3, <3>4, <4>1, <4>2, CoverDelivered
    <3>5. \A t \in Token : t \in m.done => t \in ran
      BY <2>2, DeliveredWasRun
    <3>6. QED
      BY <3>3, <3>4, <3>5, CoverKept, ReservationStep DEF Delivery
  <2>3. CASE flight[p] # NoRequest /\ flight[p] = m /\ UNCHANGED <<coordinatorVars, rooms>>
    <3>1. Covers(p, m)
      BY <1>3, <2>3 DEF SnapshotsCover
    <3>2. UNCHANGED <<rooms, void, tickets, state>>
      BY <2>3 DEF coordinatorVars
    <3>3. QED
      BY <3>1, <3>2 DEF Covers, Reserved, Issued
  <2>4. QED
    BY <1>3, <2>2, <2>3, LateStep
<1>4. ASSUME NEW p \in Proc, flight'[p] # NoRequest, flight'[p].kind = "report", late'[p] # NoRequest,
             NEW t \in rooms'[p] \ flight'[p].rooms
      PROVE  t \notin late'[p].done
  <2>1. flight[p] # NoRequest /\ flight'[p] = flight[p]
    BY <1>4, FlightStep
  <2>2. late[p] # NoRequest /\ late'[p].done = late[p].done
    BY <1>4, <2>1, LateStep
  <2>3. CASE t \in rooms[p]
    BY <1>4, <2>1, <2>2, <2>3 DEF SnapshotsCover
  <2>4. CASE t \notin rooms[p]
    BY <1>4, <2>2, <2>4, RoomsGrow, NewRoomIsCounted
  <2>5. QED
    BY <2>3, <2>4
<1>5. QED
  <2>1. \A p \in Proc : flight'[p] # NoRequest /\ flight'[p].kind = "report" => Covers(p, flight[p])'
    BY <1>2 DEF Covers
  <2>2. \A p \in Proc : late'[p] # NoRequest /\ late'[p].kind = "report" /\ ~late'[p].old
                        /\ late'[p].gen = state'[NodeOf[p]].gen => Covers(p, late[p])'
    BY <1>3 DEF Covers
  <2>3. QED
    BY <1>4, <2>1, <2>2 DEF SnapshotsCover

LEMMA CountedStep ==
  ASSUME TypeInv, TicketInv, CountInv, [Next]_vars
  PROVE  CountedWithoutGap'
<1>1. TypeOK /\ RequestsTyped /\ RoomsTyped /\ lastGen \in Nat
  BY TypeParts DEF TypeInv, CoordinatorTyped
<1>2. SUFFICES ASSUME NEW p \in Proc, Holds(p)', NEW t \in rooms'[p] \ void', NEW n, n = NodeOf[p]
               PROVE  t \in Reserved(n)' \/ t \in state'[n].rooms
  BY DEF CountedWithoutGap
<1>3. n \in Node /\ agent'[p].gen # 0 /\ agent'[p].gen = state'[n].gen /\ state'[n].heard
  BY <1>2, NodeAssumption DEF Holds
<1>4. agent'[p].gen = agent[p].gen /\ agent[p].up
  <2>1. ~Registered(p)
    BY <1>1, <1>2, <1>3 DEF Registered, Register, TypeOK, Unregistered
  <2>2. QED
    BY <1>3, <2>1, RegistrationKept DEF CountInv, RegisteredIsUp
<1>5. CASE state'[n] = state[n] /\ ReservationsLast
  <2>1. Holds(p)
    BY <1>2, <1>3, <1>4, <1>5 DEF Holds
  <2>2. CASE t \in rooms[p]
    BY <1>2, <1>3, <1>5, <2>1, <2>2 DEF CountInv, CountedWithoutGap, ReservationsLast
  <2>3. CASE t \notin rooms[p]
    <3>1. t \in void \/ t \in Reserved(n)
      BY <1>2, <2>3, RoomsGrow, NewRoomIsCounted DEF CountInv
    <3>2. QED
      BY <1>2, <1>3, <1>5, <3>1 DEF ReservationsLast
  <2>4. QED
    BY <2>2, <2>3
<1>6. ASSUME NEW q \in Proc, FlightDelivered(q) \/ LateDelivered(q)
      PROVE  t \in Reserved(n)' \/ t \in state'[n].rooms
  <2>1. PICK m \in RequestState :
          /\ Report(NodeOf[q], m) /\ ~m.old /\ m.gen = state[NodeOf[q]].gen /\ m.gen # 0
          /\ (m = flight[q] /\ flight[q] # NoRequest) \/ (m = late[q] /\ late[q] # NoRequest)
          /\ m.kind = "report" /\ rooms' = rooms /\ NodeOf[q] \in Node
    <3>1. NodeOf[q] \in Node
      BY NodeAssumption
    <3>2. CASE FlightDelivered(q)
      <4>1. flight[q] # NoRequest /\ flight[q] \in RequestState
        BY <1>1, <3>2 DEF FlightDelivered, RequestsTyped
      <4>2. flight[q].kind = "report" /\ ~flight[q].old /\ flight[q].gen # 0
        BY <3>2, <4>1 DEF FlightDelivered, TypeInv, RequestsInOrder
      <4>3. QED
        BY <3>1, <3>2, <4>1, <4>2 DEF FlightDelivered
    <3>3. CASE LateDelivered(q)
      <4>1. late[q] # NoRequest /\ late[q] \in RequestState
        BY <1>1, <3>3 DEF LateDelivered, RequestsTyped
      <4>2. late[q].kind = "report" /\ ~late[q].old /\ late[q].gen # 0
        BY <3>3, <4>1 DEF LateDelivered, TypeInv, RequestsInOrder
      <4>3. QED
        BY <3>1, <3>3, <4>1, <4>2 DEF LateDelivered
    <3>4. QED
      BY <1>6, <3>2, <3>3
  <2>2. void' = void /\ \A k \in Node : \A u \in Reserved(k) : u \in m.done \/ u \in Reserved(k)'
    BY <1>1, <2>1, ReportedReservations
  <2>3. t \in rooms[p] /\ t \notin void /\ t \in Token /\ RanAt(p, t)
    BY <1>1, <1>2, <2>1, <2>2 DEF RoomsTyped, RanAt
  <2>4. CASE NodeOf[q] = n
    <3>1. state'[n].gen = state[n].gen /\ state'[n].rooms = m.rooms
      BY <1>1, <1>3, <2>1, <2>4, ReportedReservations
    <3>2. Uses(p, m.gen) /\ Uses(q, m.gen)
      BY <1>3, <1>4, <2>1, <2>4, <3>1 DEF Uses
    <3>3. p = q
      <4>1. m.gen \in 1 .. lastGen
        BY <1>1, <2>1, <3>2, KnownGenerations
      <4>2. QED
        BY <3>2, <4>1 DEF CountInv, GenerationsApart
    <3>4. Covers(p, m)
      BY <2>1, <3>3 DEF CountInv, SnapshotsCover
    <3>5. QED
      BY <1>2, <1>3, <2>2, <2>3, <3>1, <3>4 DEF Covers
  <2>5. CASE NodeOf[q] # n
    <3>1. state'[n] = state[n]
      BY <1>1, <1>3, <2>1, <2>5, ReportedReservations
    <3>2. t \in Reserved(n) \/ t \in state[n].rooms
      BY <1>2, <1>3, <1>4, <2>3, <3>1 DEF CountInv, CountedWithoutGap, Holds
    <3>3. t \notin m.done
      <4>1. p # q
        BY <1>2, <2>5
      <4>2. QED
        BY <2>1, <2>3, <4>1, DeliveredWasRun
    <3>4. QED
      BY <1>3, <2>2, <3>1, <3>2, <3>3
  <2>6. QED
    BY <2>4, <2>5
<1>7. QED
  BY <1>3, <1>5, <1>6, StateStep, ReservationStep DEF Delivery, NewStanding

LEMMA CountInvariant == Spec => []CountInv
<1>1. Init => CountInv
  BY DEF Init, CountInv, GenerationsApart, Uses, RegisteredIsUp, GrantsStand, SnapshotsCover,
         CountedWithoutGap, Holds, Idle
<1>2. TypeInv /\ TicketInv /\ CountInv /\ [Next]_vars => CountInv'
  BY GenerationStep, RegisteredIsUpStep, GrantStep, SnapshotStep, CountedStep DEF CountInv
<1>3. QED
  BY <1>1, <1>2, TypeInvariant, TicketInvariant, PTL DEF Spec

\* The room of a placed command is counted without a gap, by its ticket or by a
\* report, whatever was delayed, repeated, lost or restarted in between.
THEOREM RoomsAreCounted == Spec => []CountedWithoutGap
BY CountInvariant, PTL DEF CountInv

(***************************************************************************)
(* Reservations fit                                                        *)
(***************************************************************************)
\* What process p has to find room for: its rooms and the commands to come.
Occupied(p) == (rooms[p] \ void) \cup (Reserved(NodeOf[p]) \ (ran \cup void))

\* Both parts are finite and have no token in common.
LEMMA OccupiedSize ==
  ASSUME TypeOK, TicketInv, IsFiniteSet(issued), NEW p \in Proc
  PROVE  /\ rooms[p] \subseteq issued /\ Reserved(NodeOf[p]) \subseteq issued
         /\ IsFiniteSet(rooms[p]) /\ IsFiniteSet(Reserved(NodeOf[p])) /\ IsFiniteSet(Occupied(p))
         /\ Cardinality(Occupied(p)) =
              Cardinality(rooms[p] \ void) + Cardinality(Reserved(NodeOf[p]) \ (ran \cup void))
<1> DEFINE A == rooms[p] \ void
           B == Reserved(NodeOf[p]) \ (ran \cup void)
<1>1. rooms[p] \subseteq ran
  <2>1. rooms[p] \subseteq Token
    BY DEF TypeOK
  <2>2. \A t \in rooms[p] : RanAt(p, t)
    BY DEF RanAt
  <2>3. QED
    BY <2>1, <2>2 DEF TicketInv, RanInOnePlace
<1>2. rooms[p] \subseteq issued /\ Reserved(NodeOf[p]) \subseteq issued
  BY <1>1 DEF TicketInv, Untaken, Reserved
<1>3. A \subseteq issued /\ B \subseteq issued /\ A \cup B \subseteq issued /\ A \cap B = {}
  BY <1>1, <1>2
<1> HIDE DEF A, B
<1>4. IsFiniteSet(A) /\ IsFiniteSet(B) /\ IsFiniteSet(A \cup B)
  BY <1>3, FS_Subset
<1>5. IsFiniteSet(rooms[p]) /\ IsFiniteSet(Reserved(NodeOf[p]))
  BY <1>2, FS_Subset
<1>6. Cardinality(A \cup B) = Cardinality(A) + Cardinality(B) - Cardinality(A \cap B)
  BY <1>4, FS_Union
<1>7. Cardinality(A) \in Nat /\ Cardinality(B) \in Nat /\ Cardinality(A \cap B) = 0
  BY <1>3, <1>4, FS_CardinalityType, FS_EmptySet
<1>8. QED
  BY <1>2, <1>4, <1>5, <1>6, <1>7 DEF A, B, Occupied

\* Tokens are used up for good, and spent or voided for good.
LEMMA TokensGrow ==
  ASSUME TypeInv, TicketInv, [Next]_vars
  PROVE  /\ issued \subseteq issued' /\ ran \subseteq ran' /\ void \subseteq void'
         /\ IsFiniteSet(issued) => IsFiniteSet(issued')
<1>1. TypeOK /\ RequestsTyped
  BY TypeParts DEF TypeInv
<1>2. (\A s \in Session : ~Allocated(s) /\ ~Taken(s) /\ ~RunCommand(s)) => UNCHANGED <<issued, ran>>
  BY MostStepsShrink DEF TicketsShrink
<1>3. ASSUME NEW s \in Session, Taken(s) \/ RunCommand(s)
      PROVE  issued' = issued /\ ran \subseteq ran'
  BY <1>3 DEF Taken, RunCommand, Answer, coordinatorVars
<1>4. ASSUME NEW s \in Session, Allocated(s)
      PROVE  issued \subseteq issued' /\ ran' = ran /\ (IsFiniteSet(issued) => IsFiniteSet(issued'))
  <2>1. ran' = ran /\ (issued' = issued \/ \E t \in Token : issued' = issued \cup {t})
    BY <1>4 DEF Allocated, Answer
  <2>2. QED
    BY <2>1, FS_AddElement
<1>5. void \subseteq void'
  <2>1. ASSUME NEW q \in Proc, FlightDelivered(q) \/ LateDelivered(q)
        PROVE  void' = void
    <3>1. PICK m \in RequestState : Report(NodeOf[q], m) /\ NodeOf[q] \in Node
      BY <1>1, <2>1, NodeAssumption DEF FlightDelivered, LateDelivered, RequestsTyped
    <3>2. QED
      BY <1>1, <3>1, ReportedReservations
  <2>2. QED
    BY <2>1, ReservationStep DEF ReservationsLast, Delivery
<1>6. QED
  BY <1>2, <1>3, <1>4, <1>5

\* Tickets are not changed but by being taken, and not issued but by an allocation.
LEMMA TicketsKept ==
  ASSUME TypeInv, [Next]_vars, \A s \in Session : ~Allocated(s), NEW t \in Token, Issued(t)'
  PROVE  Issued(t) /\ tickets'[t].node = tickets[t].node /\ tickets'[t].gen = tickets[t].gen
<1>1. CoordinatorTyped
  BY TypeParts DEF TypeInv
<1>2. CASE tickets'[t] = tickets[t]
  BY <1>2 DEF Issued
<1>3. (\A s \in Session : ~Taken(s) /\ ~RunCommand(s)) => tickets'[t] = tickets[t]
  BY MostStepsShrink DEF TicketsShrink, Issued
<1>4. ASSUME NEW s \in Session, RunCommand(s)
      PROVE  tickets' = tickets
  BY <1>4 DEF RunCommand, coordinatorVars
<1>5. ASSUME NEW s \in Session, Taken(s)
      PROVE  Issued(t) /\ tickets'[t].node = tickets[t].node /\ tickets'[t].gen = tickets[t].gen
  <2>1. CASE Issued(call[s].token) /\ tickets' = [tickets EXCEPT ![call[s].token].taken = TRUE]
    <3>1. CASE t = call[s].token
      <4>1. tickets[t] \in [node : Node, gen : 1 .. lastGen, taken : BOOLEAN]
        BY <1>1, <2>1, <3>1 DEF CoordinatorTyped, Issued
      <4>2. QED
        BY <1>1, <2>1, <3>1, <4>1 DEF CoordinatorTyped
    <3>2. CASE t # call[s].token
      BY <1>1, <1>2, <2>1, <3>2 DEF CoordinatorTyped
    <3>3. QED
      BY <3>1, <3>2
  <2>2. QED
    BY <1>2, <1>5, <2>1 DEF Taken, MayTake
<1>6. QED
  BY <1>2, <1>3, <1>4, <1>5

\* Reservations of the same registration are added by an allocation only.
LEMMA ReservedGrows ==
  ASSUME TypeInv, [Next]_vars, NEW n \in Node, state'[n].gen = state[n].gen,
         NEW t \in Reserved(n)', t \notin Reserved(n)
  PROVE  \E s \in Session : Allocated(s)
BY TicketsKept DEF Reserved

\* A process that holds its registration held it before, or has just been heard.
LEMMA HeldBefore ==
  ASSUME TypeInv, CountInv, [Next]_vars, NEW p \in Proc, Holds(p)', NEW n, n = NodeOf[p]
  PROVE  /\ n \in Node /\ state'[n].gen = state[n].gen
         /\ state[n].heard => Holds(p)
<1>1. TypeOK /\ lastGen \in Nat /\ n \in Node
  BY NodeAssumption DEF TypeInv, TypeOK
<1>2. agent'[p].gen # 0 /\ agent'[p].gen = state'[n].gen /\ state'[n].heard
  BY DEF Holds
<1>3. agent'[p].gen = agent[p].gen /\ agent[p].up
  <2>1. ASSUME Registered(p)
        PROVE  ~state'[n].heard
    <3>1. state' = [state EXCEPT ![n] = [Unregistered EXCEPT !.gen = lastGen + 1]]
      BY <2>1 DEF Registered, Register
    <3>2. n \in DOMAIN state
      BY <1>1 DEF TypeOK
    <3>3. QED
      BY <3>1, <3>2 DEF Unregistered
  <2>2. QED
    BY <1>2, <2>1, RegistrationKept DEF CountInv, RegisteredIsUp
<1>4. state'[n].gen = state[n].gen
  BY <1>1, <1>2, StateStep DEF NewStanding
<1>5. QED
  BY <1>1, <1>2, <1>3, <1>4 DEF Holds

\* What a process has to find room for only shrinks, unless a room is placed.
LEMMA OccupiedStep ==
  ASSUME TypeInv, TicketInv, CountInv, [Next]_vars, NEW p \in Proc,
         state'[NodeOf[p]].gen = state[NodeOf[p]].gen,
         NEW t \in Occupied(p)', t \notin Occupied(p)
  PROVE  \E s \in Session : Allocated(s)
<1> DEFINE n == NodeOf[p]
<1>1. TypeOK /\ n \in Node /\ RoomsTyped
  BY NodeAssumption, TypeParts DEF TypeInv
<1>2. ran \subseteq ran' /\ void \subseteq void'
  BY TokensGrow
<1>3. CASE t \in rooms'[p] \ void'
  <2>1. t \notin rooms[p]
    BY <1>2, <1>3 DEF Occupied
  <2>2. t \in Reserved(n) /\ t \notin ran
    BY <1>2, <1>3, <2>1, RoomsGrow, NewRoomIsCounted DEF CountInv
  <2>3. QED
    BY <1>2, <1>3, <2>2 DEF Occupied
<1>4. ASSUME t \in Reserved(n)', t \notin ran' \cup void'
      PROVE  \E s \in Session : Allocated(s)
  <2>1. t \notin Reserved(n)
    BY <1>2, <1>4 DEF Occupied
  <2>2. QED
    BY <1>1, <1>4, <2>1, ReservedGrows
<1>5. QED
  BY <1>3, <1>4 DEF Occupied

\* The limit is looked up in the estimate, which misses nothing a process holds.
LEMMA AllocationFits ==
  ASSUME TypeInv, TicketInv, CountInv, FitInv, NEW s \in Session, Allocated(s),
         NEW p \in Proc, Holds(p)
  PROVE  Cardinality(Occupied(p)') <= MaxRooms
<1> DEFINE n == NodeOf[p]
<1>1. TypeOK /\ CoordinatorTyped /\ n \in Node /\ MaxRooms \in Nat
  BY NodeAssumption, BoundAssumption, TypeParts DEF TypeInv
<1>2. UNCHANGED <<state, rooms, ran, void>>
  BY DEF Allocated, Answer
<1>3. IsFiniteSet(issued) /\ state[n].rooms \subseteq issued /\ Cardinality(Occupied(p)) <= MaxRooms
  BY <1>1, OccupiedSize DEF FitInv, Counted, ReservationsFit
<1>4. IsFiniteSet(Reserved(n)) /\ IsFiniteSet(state[n].rooms) /\ IsFiniteSet(Occupied(p))
  BY <1>1, <1>3, OccupiedSize, FS_Subset
<1>5. CASE tickets' = tickets
  <2>1. Occupied(p)' = Occupied(p)
    BY <1>2, <1>5 DEF Occupied, Reserved, Issued
  <2>2. QED
    BY <1>3, <2>1
<1>6. ASSUME NEW t \in Token \ issued, NEW target \in Eligible,
             tickets' = [tickets EXCEPT ![t] =
                           [node |-> target, gen |-> state[target].gen, taken |-> FALSE]]
      PROVE  Cardinality(Occupied(p)') <= MaxRooms
  <2>1. \A u \in Token \ {t} : tickets'[u] = tickets[u]
    BY <1>1, <1>6 DEF CoordinatorTyped
  <2>2. tickets'[t] # NoTicket => tickets'[t].node = target
    BY <1>1, <1>6 DEF CoordinatorTyped
  <2>3. CASE n # target
    <3>1. Reserved(n)' \subseteq Reserved(n)
      BY <1>2, <2>1, <2>2, <2>3 DEF Reserved, Issued
    <3>2. Occupied(p)' \subseteq Occupied(p)
      BY <1>2, <3>1 DEF Occupied
    <3>3. Cardinality(Occupied(p)') <= Cardinality(Occupied(p))
      BY <1>4, <3>2, FS_Subset
    <3>4. Cardinality(Occupied(p)) \in Nat /\ Cardinality(Occupied(p)') \in Nat
      BY <1>4, <3>2, FS_Subset, FS_CardinalityType
    <3>5. QED
      BY <1>1, <1>3, <3>3, <3>4
  <2>4. CASE n = target
    <3> DEFINE R == state[n].rooms
               T == Reserved(n)
    <3>1. Occupied(p)' \subseteq (R \cup T) \cup {t}
      <4>1. Reserved(n)' \subseteq T \cup {t}
        BY <1>2, <2>1 DEF Reserved, Issued
      <4>2. rooms[p] \ void \subseteq T \cup R
        BY DEF CountInv, CountedWithoutGap
      <4>3. QED
        BY <1>2, <4>1, <4>2 DEF Occupied
    <3>2. Cardinality(R) + Cardinality(T) + 1 <= MaxRooms
      BY <1>6, <2>4 DEF Eligible, Estimate
    <3> HIDE DEF R, T
    <3>3. IsFiniteSet(R) /\ IsFiniteSet(T)
      BY <1>4 DEF R, T
    <3>4. IsFiniteSet(R \cup T) /\ Cardinality(R \cup T) <= Cardinality(R) + Cardinality(T)
      <4>1. IsFiniteSet(R \cup T) /\ Cardinality(R \cup T) = Cardinality(R) + Cardinality(T) - Cardinality(R \cap T)
        BY <3>3, FS_Union
      <4>2. IsFiniteSet(R \cap T)
        BY <3>3, FS_Subset
      <4>3. Cardinality(R) \in Nat /\ Cardinality(T) \in Nat /\ Cardinality(R \cap T) \in Nat
        BY <3>3, <4>2, FS_CardinalityType
      <4>4. QED
        BY <4>1, <4>3
    <3>5. /\ IsFiniteSet((R \cup T) \cup {t})
          /\ Cardinality((R \cup T) \cup {t}) \in {Cardinality(R \cup T), Cardinality(R \cup T) + 1}
      BY <3>4, FS_AddElement
    <3>6. Cardinality(Occupied(p)') <= Cardinality((R \cup T) \cup {t}) /\ IsFiniteSet(Occupied(p)')
      BY <3>1, <3>5, FS_Subset
    <3>7. /\ Cardinality(R) \in Nat /\ Cardinality(T) \in Nat /\ Cardinality(R \cup T) \in Nat
          /\ Cardinality((R \cup T) \cup {t}) \in Nat /\ Cardinality(Occupied(p)') \in Nat
      BY <3>3, <3>4, <3>5, <3>6, FS_CardinalityType
    <3>8. QED
      BY <1>1, <3>2, <3>4, <3>5, <3>6, <3>7
  <2>5. QED
    BY <2>3, <2>4
<1>7. QED
  BY <1>5, <1>6 DEF Allocated

\* Reservations fit if what a process has to find room for is in its limit.
LEMMA FitByOccupied ==
  TypeOK /\ TicketInv /\ IsFiniteSet(issued) =>
    (ReservationsFit <=> \A p \in Proc : Holds(p) => Cardinality(Occupied(p)) <= MaxRooms)
BY OccupiedSize DEF ReservationsFit

\* Rooms are placed with issued tokens.
LEMMA PlacedIsIssued ==
  TypeOK /\ TicketInv /\ IsFiniteSet(issued) =>
    \A q \in Proc : rooms[q] \subseteq issued /\ IsFiniteSet(rooms[q])
BY OccupiedSize

\* The hub's own limit bounds the rooms of a process.
LEMMA RoomLimitStep ==
  ASSUME TypeInv, TicketInv, Counted, [Next]_vars, NEW p \in Proc
  PROVE  Cardinality(rooms'[p]) <= MaxRooms
<1>1. TypeOK /\ RoomsTyped /\ MaxRooms \in Nat /\ IsFiniteSet(rooms[p]) /\ Cardinality(rooms[p]) <= MaxRooms
  BY OccupiedSize, BoundAssumption, TypeParts DEF TypeInv, Counted
<1>2. CASE rooms'[p] \subseteq rooms[p]
  <2>1. IsFiniteSet(rooms'[p]) /\ Cardinality(rooms'[p]) <= Cardinality(rooms[p])
    BY <1>1, <1>2, FS_Subset
  <2>2. Cardinality(rooms[p]) \in Nat /\ Cardinality(rooms'[p]) \in Nat
    BY <1>1, <2>1, FS_CardinalityType
  <2>3. QED
    BY <1>1, <2>1, <2>2
<1>3. ASSUME NEW s \in Session, RunCommand(s)
      PROVE  Cardinality(rooms'[p]) <= MaxRooms
  <2> DEFINE q == call[s].proc
             t == call[s].token
  <2>1. CASE rooms'[p] = rooms[p]
    BY <1>1, <2>1
  <2>2. CASE rooms'[p] = rooms[p] \cup {t} /\ Cardinality(rooms[p]) < MaxRooms
    <3>1. Cardinality(rooms'[p]) \in {Cardinality(rooms[p]), Cardinality(rooms[p]) + 1}
      BY <1>1, <2>2, FS_AddElement
    <3>2. Cardinality(rooms[p]) \in Nat
      BY <1>1, FS_CardinalityType
    <3>3. QED
      BY <1>1, <2>2, <3>1, <3>2
  <2>3. QED
    BY <1>1, <1>3, <2>1, <2>2 DEF RunCommand, RoomsTyped
<1>4. (\A s \in Session : ~RunCommand(s)) => rooms'[p] \subseteq rooms[p]
  <2>1. ASSUME NEW s \in Session, \/ Allocated(s) \/ Taken(s) \/ CompleteCommand(s) \/ GiveUp(s)
                                  \/ \E q \in Proc : Allocate(s, q) \/ \E u \in Token : Present(s, u, q)
        PROVE  rooms' = rooms
    BY <2>1 DEF Allocated, Taken, Answer, CompleteCommand, GiveUp, Allocate, Present
  <2>2. ASSUME NEW q \in Proc, \/ StartProcess(q) \/ BeginPublish(q) \/ TakeSnapshot(q) \/ Registered(q)
                               \/ Reported(q) \/ ServeLate(q) \/ Timeout(q)
        PROVE  rooms' = rooms
    BY <2>2 DEF StartProcess, BeginPublish, TakeSnapshot, Registered, Reported, ServeLate, Timeout
  <2>3. ASSUME NEW q \in Proc, Crash(q) \/ \E u \in Token : CloseRoom(q, u)
        PROVE  rooms'[p] \subseteq rooms[p]
    BY <1>1, <2>3 DEF Crash, CloseRoom, RoomsTyped
  <2>4. RestartCoordinator \/ (\E u \in Token : Expire(u)) \/ UNCHANGED vars => rooms' = rooms
    BY DEF RestartCoordinator, Expire, vars
  <2>5. QED
    BY <2>1, <2>2, <2>3, <2>4 DEF Next, PublishStep, CallStep
<1>5. QED
  BY <1>2, <1>3, <1>4

\* Reports name rooms that were placed, so all the sets stay finite.
LEMMA CountedSetsStep ==
  ASSUME TypeInv, TypeInv', TicketInv, TicketInv', Counted, [Next]_vars
  PROVE  Counted'
<1>1. TypeOK /\ RequestsTyped /\ issued \subseteq issued'
  BY TypeParts, TokensGrow DEF TypeInv
<1>2. IsFiniteSet(issued')
  BY TokensGrow DEF Counted
<1>3. \A p \in Proc : rooms'[p] \subseteq issued'
  <2>1. (TypeOK /\ TicketInv /\ IsFiniteSet(issued) =>
           \A q \in Proc : rooms[q] \subseteq issued /\ IsFiniteSet(rooms[q]))'
    BY PlacedIsIssued, PTL
  <2>2. QED
    BY <1>2, <2>1 DEF TypeInv
<1>4. ASSUME NEW p \in Proc, flight'[p] # NoRequest
      PROVE  flight'[p].rooms \subseteq issued'
  BY <1>1, <1>3, <1>4, FlightStep DEF Counted
<1>5. ASSUME NEW p \in Proc, late'[p] # NoRequest
      PROVE  late'[p].rooms \subseteq issued'
  BY <1>1, <1>5, LateStep DEF Counted
<1>6. ASSUME NEW n \in Node
      PROVE  state'[n].rooms \subseteq issued'
  <2>1. ASSUME NEW q \in Proc, FlightDelivered(q) \/ LateDelivered(q)
        PROVE  state'[n].rooms \subseteq issued'
    <3>1. PICK m \in RequestState : Report(NodeOf[q], m) /\ NodeOf[q] \in Node /\ m.rooms \subseteq issued
      BY <1>1, <2>1, NodeAssumption DEF FlightDelivered, LateDelivered, RequestsTyped, Counted
    <3>2. CASE m.old
      BY <1>1, <3>1, <3>2 DEF Report, coordinatorVars, Counted
    <3>3. CASE ~m.old
      BY <1>1, <3>1, <3>3, ReportedReservations DEF Counted
    <3>4. QED
      BY <3>2, <3>3
  <2>2. QED
    BY <1>1, <2>1, StateStep DEF Counted, NewStanding, Delivery
<1>7. QED
  BY <1>2, <1>4, <1>5, <1>6, RoomLimitStep DEF Counted

\* Rooms are given to nodes that were heard, so only those have reservations.
LEMMA ReservedOnceHeardStep ==
  ASSUME TypeInv, TypeInv', ReservedOnceHeard, [Next]_vars
  PROVE  ReservedOnceHeard'
<1>1. CoordinatorTyped /\ TypeOK /\ lastGen \in Nat
  BY TypeParts DEF TypeInv, CoordinatorTyped
<1>2. SUFFICES ASSUME NEW n \in Node, NEW t \in Reserved(n)', ~state'[n].heard
               PROVE  FALSE
  BY DEF ReservedOnceHeard
<1>3. t \in Token /\ Issued(t)' /\ tickets'[t].node = n /\ tickets'[t].gen = state'[n].gen
  BY DEF Reserved
<1>4. ASSUME NEW s \in Session, Allocated(s)
      PROVE  FALSE
  <2>1. state' = state
    BY <1>4 DEF Allocated, Answer
  <2>2. tickets' # tickets
    BY <1>2, <2>1 DEF ReservedOnceHeard, Reserved, Issued
  <2>3. PICK u \in Token, target \in Eligible :
          tickets' = [tickets EXCEPT ![u] = [node |-> target, gen |-> state[target].gen, taken |-> FALSE]]
    BY <1>4, <2>2 DEF Allocated
  <2>4. t # u
    BY <1>1, <1>2, <1>3, <2>1, <2>3 DEF CoordinatorTyped, Eligible
  <2>5. tickets'[t] = tickets[t]
    BY <1>1, <1>3, <2>3, <2>4 DEF CoordinatorTyped
  <2>6. QED
    BY <1>2, <1>3, <2>1, <2>5 DEF ReservedOnceHeard, Reserved, Issued
<1>5. CASE \A s \in Session : ~Allocated(s)
  <2>1. Issued(t) /\ tickets[t].node = n /\ tickets[t].gen = state'[n].gen
    BY <1>3, <1>5, TicketsKept
  <2>2. tickets[t].gen \in 1 .. lastGen
    BY <1>1, <1>3, <2>1 DEF CoordinatorTyped, Issued
  <2>3. state'[n].gen = state[n].gen /\ (state[n].heard => state'[n].heard)
    BY <1>1, <2>1, <2>2, StateStep DEF NewStanding
  <2>4. QED
    BY <1>2, <1>3, <2>1, <2>3 DEF ReservedOnceHeard, Reserved
<1>6. QED
  BY <1>4, <1>5

LEMMA FitStep ==
  ASSUME TypeInv, TypeInv', TicketInv, TicketInv', CountInv, FitInv, Counted', [Next]_vars
  PROVE  ReservationsFit'
<1>1. TypeOK /\ TypeOK' /\ IsFiniteSet(issued) /\ IsFiniteSet(issued') /\ MaxRooms \in Nat
  BY BoundAssumption DEF TypeInv, FitInv, Counted
<1>2. (TypeOK /\ TicketInv /\ IsFiniteSet(issued) =>
         (ReservationsFit <=> \A p \in Proc : Holds(p) => Cardinality(Occupied(p)) <= MaxRooms))'
  BY FitByOccupied, PTL
<1>3. (TypeOK /\ TicketInv /\ IsFiniteSet(issued) =>
         \A q \in Proc : rooms[q] \subseteq issued /\ IsFiniteSet(rooms[q]))'
  BY PlacedIsIssued, PTL
<1>4. SUFFICES ASSUME NEW p \in Proc, Holds(p)'
               PROVE  Cardinality(Occupied(p)') <= MaxRooms
  BY <1>1, <1>2
<1> DEFINE n == NodeOf[p]
<1>5. n \in Node /\ state'[n].gen = state[n].gen /\ (state[n].heard => Holds(p))
  BY <1>4, HeldBefore
<1>6. CASE Occupied(p)' \subseteq Occupied(p) /\ Holds(p)
  <2>1. IsFiniteSet(Occupied(p)) /\ Cardinality(Occupied(p)) <= MaxRooms
    BY <1>1, <1>6, OccupiedSize, FitByOccupied DEF FitInv
  <2>2. IsFiniteSet(Occupied(p)') /\ Cardinality(Occupied(p)') <= Cardinality(Occupied(p))
    BY <1>6, <2>1, FS_Subset
  <2>3. Cardinality(Occupied(p)) \in Nat /\ Cardinality(Occupied(p)') \in Nat
    BY <2>1, <2>2, FS_CardinalityType
  <2>4. QED
    BY <1>1, <2>1, <2>2, <2>3
<1>7. CASE ~state[n].heard
  <2>1. \A s \in Session : ~Allocated(s)
    BY <1>4, <1>7 DEF Holds, Allocated, Answer
  <2>2. Reserved(n)' = {}
    BY <1>5, <1>7, <2>1, ReservedGrows DEF FitInv, ReservedOnceHeard
  <2>3. Occupied(p)' \subseteq rooms'[p]
    BY <2>2 DEF Occupied
  <2>4. IsFiniteSet(rooms'[p]) /\ Cardinality(rooms'[p]) <= MaxRooms
    BY <1>1, <1>3 DEF Counted
  <2>5. IsFiniteSet(Occupied(p)') /\ Cardinality(Occupied(p)') <= Cardinality(rooms'[p])
    BY <2>3, <2>4, FS_Subset
  <2>6. Cardinality(rooms'[p]) \in Nat /\ Cardinality(Occupied(p)') \in Nat
    BY <2>4, <2>5, FS_CardinalityType
  <2>7. QED
    BY <1>1, <2>4, <2>5, <2>6
<1>8. CASE (\E s \in Session : Allocated(s)) /\ Holds(p)
  BY <1>8, AllocationFits
<1>9. QED
  BY <1>5, <1>6, <1>7, <1>8, OccupiedStep

LEMMA FitInvariant == Spec => []FitInv
<1>1. Init => FitInv
  <2>1. MaxRooms \in Nat /\ \A n \in Node : Init => Reserved(n) = {}
    BY BoundAssumption DEF Init, Reserved, Issued
  <2>2. Init => ReservedOnceHeard /\ Counted
    BY <2>1, FS_EmptySet DEF Init, Counted, ReservedOnceHeard, Unregistered
  <2>3. Init => ReservationsFit
    BY DEF Init, ReservationsFit, Holds
  <2>4. QED
    BY <2>2, <2>3 DEF FitInv
<1>2. TypeInv /\ TypeInv' /\ TicketInv /\ TicketInv' /\ CountInv /\ FitInv /\ [Next]_vars => FitInv'
  BY ReservedOnceHeardStep, CountedSetsStep, FitStep DEF FitInv
<1>3. QED
  BY <1>1, <1>2, TypeInvariant, TicketInvariant, CountInvariant, PTL DEF Spec

\* Placed rooms and the reservations whose command is still to run never exceed
\* the room limit of the process that holds the registration.
THEOREM ReservationsAlwaysFit == Spec => []ReservationsFit
BY FitInvariant, PTL DEF FitInv

=============================================================================
