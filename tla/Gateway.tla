------------------------------ MODULE Gateway ------------------------------
(***************************************************************************)
(* The process around the MQTT session: main and the start-up of the        *)
(* interface nodes (src/gatewayDevice.c, src/iot_mqttclient.c,              *)
(* src/httpclient.c), one I/O thread and one event loop for each stream,    *)
(* and the bus, evinterfaceBase, on which the nodes raise events.           *)
(*                                                                         *)
(* What the packets say is the subject of MqttSession and PacketFraming;    *)
(* here an input is a message with the temperature in its payload, or       *)
(* Other: a packet that is not passed to the application.                   *)
(***************************************************************************)
EXTENDS EventLoop

CONSTANTS
  NULL,
  Programs,        \* sequences of the nodes main may set up, in order
  Descriptors,     \* descriptors socket() may return
  Temperatures,    \* values in payloads
  Junk,            \* what the stack holds where nothing has been stored
  NoTemperature,   \* a payload without the name "temperature"
  Other,
  MaxInputs        \* bound: what a peer sends

Nodes == {"mqtt", "http"}
Payloads == Temperatures \cup {NoTemperature}
Inputs == Payloads \cup {Other}

ASSUME ProgramsAssumption ==
  \A p \in Programs : /\ p \in Seq(Nodes)
                      /\ \A i, j \in DOMAIN p : p[i] = p[j] => i = j
\* A loop's set has 64 bits and is doubled once
ASSUME DescriptorsAssumption == Descriptors \subseteq 0..(2 * NFDBITS - 1)
\* A loop_base whose bits that are set lie inside the memory of the set
Loops == {l \in [event_fds : Nat, masks : Nat, readset : SUBSET Descriptors,
                 ioQueue : Seq(Descriptors), active : SUBSET Descriptors, activeNum : Nat,
                 sigQueue : Seq([name : {"mqttRquest", "input"},
                                 func : {"mqttOnResponse", "httppipein"}])] :
            \A d \in l.readset : d < NFDBITS * l.masks}
ASSUME ValuesAssumption ==
  /\ NULL \notin Loops \cup {"open", "freed"}
  /\ NoTemperature \notin Temperatures /\ Other \notin Payloads /\ MaxInputs \in Nat

VARIABLES
  program,         \* the nodes main has yet to set up
  mainPc,          \* where main is
  process,         \* "running", "exited" from main, or "crashed"
  bus,             \* evinterfaceBase
  stream,          \* of each node: NULL, "open" or "freed"
  fd, loop,        \* socketId and loop of each stream
  istcpconnected,  \* of each stream
  ioPc,            \* where the I/O thread of each node is
  subscribed,      \* messageArrived is the handler of the topic
  \* the connections
  input,           \* what has arrived and has not been read
  peerUp,          \* the peer has not closed
  \* history, read by properties only
  sent,            \* number of inputs each peer has sent
  arrived,         \* payloads passed to messageArrived
  heard            \* values passed to onResponse

mainVars == <<program, mainPc, process, bus, subscribed>>
streamVars == <<stream, fd, loop, istcpconnected>>
peerVars == <<input, peerUp, sent>>
history == <<arrived, heard>>
vars == <<mainVars, streamVars, ioPc, peerVars, history>>

Init ==
  /\ program \in Programs
  /\ mainPc = "start" /\ process = "running" /\ bus = NULL /\ subscribed = FALSE
  /\ stream = [n \in Nodes |-> NULL] /\ fd = [n \in Nodes |-> NULL]
  /\ loop = [n \in Nodes |-> NULL] /\ istcpconnected = [n \in Nodes |-> FALSE]
  /\ ioPc = [n \in Nodes |-> "none"]
  /\ input = [n \in Nodes |-> << >>] /\ peerUp = [n \in Nodes |-> FALSE]
  /\ sent = [n \in Nodes |-> 0] /\ arrived = << >> /\ heard = << >>

Running == process = "running"

-----------------------------------------------------------------------------
(* main *)

At(node, pc) == /\ Running /\ mainPc = pc
                /\ IF pc = "start" THEN program # << >> /\ program[1] = node ELSE TRUE
Busy == {fd[n] : n \in {n \in Nodes : stream[n] = "open"}}

\* loop_base_init(&evinterfaceBase), if it is still NULL.  calloc may fail
BusInit == IF bus # NULL THEN {bus} ELSE {NULL, NewLoop}

\* clientConnect: a socket, a loop of its own, a stream of zeroes, and the socket's event
ClientConnect(node) ==
  /\ \E d \in Descriptors \ Busy :
       fd' = [fd EXCEPT ![node] = d] /\ loop' = [loop EXCEPT ![node] = ItemAdd(NewLoop, d)]
  /\ stream' = [stream EXCEPT ![node] = "open"] /\ peerUp' = [peerUp EXCEPT ![node] = TRUE]

ConnectFails(node) == UNCHANGED <<streamVars, peerVars>>

\* main returns -1
Exit == process' = "exited" /\ mainPc' = "done" /\ UNCHANGED program

\* forgets to say that the stream is connected
MutStreamConnected == UNCHANGED istcpconnected
StreamConnected == istcpconnected' = [istcpconnected EXCEPT !["mqtt"] = TRUE]

\* mqttinitInterfaceNode and mqttstreamConnect.  mqttstreamConnect has no return statement
\* behind event_on; built as in the Makefile it returns what event_on has returned, which is
\* -1 if there is no bus
MqttInit ==
  /\ At("mqtt", "start")
  /\ \E b \in BusInit :
       \/ ConnectFails("mqtt") /\ bus' = b /\ Exit
       \/ /\ ClientConnect("mqtt") /\ StreamConnected
          /\ IF b = NULL THEN bus' = b /\ Exit
             ELSE /\ bus' = EventOn(b, "mqttRquest", "mqttOnResponse")
                  /\ mainPc' = "dispatch" /\ UNCHANGED <<program, process>>
          /\ UNCHANGED <<input, sent>>
  /\ UNCHANGED <<subscribed, ioPc, history>>

\* mqttinterfaceDispatch
MqttDispatch == /\ At("mqtt", "dispatch") /\ mainPc' = "connect"
                /\ ioPc' = [ioPc EXCEPT !["mqtt"] = "loop"]
                /\ UNCHANGED <<program, process, bus, subscribed, streamVars, peerVars, history>>

\* mqttmakeRequest: MQTTConnect, then MQTTSubscribe whatever the first has returned; both
\* use the stream until they return
MqttConnect == /\ At("mqtt", "connect") /\ mainPc' = "subscribe"
               /\ UNCHANGED <<program, process, bus, subscribed, streamVars, ioPc, peerVars, history>>
MqttSubscribe == /\ At("mqtt", "subscribe") /\ subscribed' \in BOOLEAN
                 /\ mainPc' = "start" /\ program' = Tail(program)
                 /\ UNCHANGED <<process, bus, streamVars, ioPc, peerVars, history>>

\* httpinitInterfaceNode
HttpInit == /\ At("http", "start") /\ mainPc' = "request"
            /\ \E b \in BusInit :
                 bus' = IF b = NULL THEN b ELSE EventOn(b, "input", "httppipein")
            /\ UNCHANGED <<program, process, subscribed, streamVars, ioPc, peerVars, history>>

\* makehttpRequest: the answer is waited for on the stream's own loop.  Its caller does not
\* look at what it returns
HttpRequest ==
  /\ At("http", "request") /\ mainPc' = "httpDispatch"
  /\ \/ ConnectFails("http")
     \/ /\ ClientConnect("http")
        /\ UNCHANGED <<istcpconnected, input, sent>>
  /\ UNCHANGED <<program, process, bus, subscribed, ioPc, history>>

\* httpinterfaceDispatch
HttpDispatch == /\ At("http", "httpDispatch") /\ mainPc' = "start" /\ program' = Tail(program)
                /\ ioPc' = [ioPc EXCEPT !["http"] = "loop"]
                /\ UNCHANGED <<process, bus, subscribed, streamVars, peerVars, history>>

Main == MqttInit \/ MqttDispatch \/ MqttConnect \/ MqttSubscribe
        \/ HttpInit \/ HttpRequest \/ HttpDispatch

-----------------------------------------------------------------------------
(* The I/O thread of a node: runio or run *)

IoAt(n, pc) == Running /\ ioPc[n] = pc
Goto(n, pc) == ioPc' = [ioPc EXCEPT ![n] = pc]

\* loopRunForEver, between two rounds.  Without a stream it reads through a null pointer
LoopRound(n) ==
  /\ IoAt(n, "loop")
  /\ IF stream[n] = NULL
     THEN process' = "crashed" /\ UNCHANGED ioPc
     ELSE /\ Goto(n, IF istcpconnected[n] THEN "select" ELSE "disconnect")
          /\ UNCHANGED process
  /\ UNCHANGED <<program, mainPc, bus, subscribed, streamVars, peerVars, history>>

Ready(n) == IF input[n] # << >> \/ ~peerUp[n] THEN {fd[n]} ELSE {}

\* select_dispatch: waits until a descriptor of the set can be read
Dispatch(n) == /\ IoAt(n, "select") /\ CanSelect(loop[n], Ready(n))
               /\ loop' = [loop EXCEPT ![n] = SelectDispatch(@, Ready(n))]
               /\ Goto(n, "callbacks")
               /\ UNCHANGED <<mainVars, stream, fd, istcpconnected, peerVars, history>>

\* select fails with EINTR, and the set is as it was
Interrupted(n) == /\ IoAt(n, "select") /\ Goto(n, "callbacks")
                  /\ UNCHANGED <<mainVars, streamVars, peerVars, history>>

NothingActive(n) == /\ IoAt(n, "callbacks") /\ ~CallsBack(loop[n], fd[n]) /\ Goto(n, "loop")
                    /\ UNCHANGED <<mainVars, streamVars, peerVars, history>>

\* messageArrived: value[100] is not initialised, and filled in only if the payload has a
\* temperature; then event_emit
MessageArrived(payload) ==
  \E value \in IF payload \in Temperatures THEN {payload} ELSE Temperatures \cup {Junk} :
    /\ arrived' = Append(arrived, payload)
    /\ heard' = IF \E i \in Listeners(bus, "mqttRquest") : bus.sigQueue[i].func = "mqttOnResponse"
                THEN Append(heard, value) ELSE heard

\* event_monitor_queues, srecv and mqttioRecv, with something to read.  An event stays
\* active, so this follows an interrupted select too, and read then waits
MqttReceive == /\ IoAt("mqtt", "callbacks") /\ CallsBack(loop["mqtt"], fd["mqtt"])
               /\ input["mqtt"] # << >>
               /\ input' = [input EXCEPT !["mqtt"] = Tail(@)]
               /\ IF subscribed /\ input["mqtt"][1] # Other
                  THEN MessageArrived(input["mqtt"][1]) ELSE UNCHANGED history
               /\ Goto("mqtt", "loop")
               /\ UNCHANGED <<mainVars, streamVars, peerUp, sent>>

\* with nothing left to read: mqttdoNextPacket sees the end of the connection
MqttEnd == /\ IoAt("mqtt", "callbacks") /\ CallsBack(loop["mqtt"], fd["mqtt"])
           /\ input["mqtt"] = << >> /\ ~peerUp["mqtt"]
           /\ istcpconnected' = [istcpconnected EXCEPT !["mqtt"] = FALSE]
           /\ Goto("mqtt", "loop")
           /\ UNCHANGED <<mainVars, stream, fd, loop, peerVars, history>>

\* clientDisconnect closes the socket and frees loop, event and stream
ClientDisconnect(n) == /\ IoAt(n, "disconnect") /\ Goto(n, "done")
                       /\ stream' = [stream EXCEPT ![n] = "freed"]
                       /\ UNCHANGED <<mainVars, fd, loop, istcpconnected, peerVars, history>>

Io(n) == \/ LoopRound(n) \/ Dispatch(n) \/ Interrupted(n) \/ NothingActive(n)
         \/ ClientDisconnect(n) \/ (n = "mqtt" /\ (MqttReceive \/ MqttEnd))

-----------------------------------------------------------------------------
(* The peers *)

PeerSends(n) == /\ Running /\ peerUp[n] /\ sent[n] < MaxInputs
                /\ \E m \in IF n = "mqtt" THEN Inputs ELSE {Other} :
                     input' = [input EXCEPT ![n] = Append(@, m)]
                /\ sent' = [sent EXCEPT ![n] = @ + 1]
                /\ UNCHANGED <<mainVars, streamVars, ioPc, peerUp, history>>
PeerCloses(n) == /\ Running /\ peerUp[n] /\ peerUp' = [peerUp EXCEPT ![n] = FALSE]
                 /\ UNCHANGED <<mainVars, streamVars, ioPc, input, sent, history>>

Next == Main \/ \E n \in Nodes : Io(n) \/ PeerSends(n) \/ PeerCloses(n)
Spec == Init /\ [][Next]_vars

\* Both threads are scheduled, and signals do not interrupt select for ever
FairSpec == Spec /\ WF_vars(Main)
            /\ \A n \in Nodes : WF_vars(Io(n)) /\ SF_vars(Dispatch(n))

-----------------------------------------------------------------------------
(* Properties *)

\* The variables have their types, and every set of descriptors the memory its bits need
\* (selectLoop.c:119-154).
TypeOK ==
  /\ program \in Seq(Nodes) /\ process \in {"running", "exited", "crashed"}
  /\ mainPc \in {"start", "dispatch", "connect", "subscribe", "request", "httpDispatch", "done"}
  /\ bus \in Loops \cup {NULL} /\ subscribed \in BOOLEAN
  /\ stream \in [Nodes -> {NULL, "open", "freed"}] /\ fd \in [Nodes -> Descriptors \cup {NULL}]
  /\ loop \in [Nodes -> Loops \cup {NULL}] /\ istcpconnected \in [Nodes -> BOOLEAN]
  /\ ioPc \in [Nodes -> {"none", "loop", "select", "callbacks", "disconnect", "done"}]
  /\ input \in [Nodes -> Seq(Inputs)] /\ peerUp \in [Nodes -> BOOLEAN]
  /\ sent \in [Nodes -> 0..MaxInputs]
  /\ arrived \in Seq(Payloads) /\ heard \in Seq(Temperatures \cup {Junk})

\* As long as its I/O thread runs, the loop of a stream watches the stream's descriptor,
\* although select overwrites the set and nothing ever sets it again: every loop has one
\* descriptor only (selectLoop.c:207, clientConnect).
StaysWatched ==
  \A n \in Nodes : ioPc[n] \in {"loop", "select", "callbacks"} /\ stream[n] = "open" =>
    fd[n] \in loop[n].readset \cap Scanned(loop[n])

\* The I/O thread frees the stream of the MQTT node only when the broker has closed the
\* connection and everything the broker sent before has been read, in whatever order main and
\* the thread start.  It does not wait for main, which may be in a request then
\* (iot_mqttclient.c:243, 279-283, selectLoop.c:199).
FreedAfterTheEnd ==
  stream["mqtt"] = "freed" => ~peerUp["mqtt"] /\ input["mqtt"] = << >>

\* Every message passed to messageArrived is heard by the application, once and in order,
\* and with its own temperature if it has one: a second node on the bus does not take it
\* (iot_mqttclient.c:38-55, 246; httpclient.c:129).
EveryMessageHeard ==
  /\ Len(heard) = Len(arrived)
  /\ \A k \in DOMAIN arrived : arrived[k] \in Temperatures => heard[k] = arrived[k]

\* When the broker has closed the connection, the I/O thread reads what came before and
\* ends, as long as the process runs (iot_mqttclient.c:279-288, selectLoop.c:197-242).
Started == Running /\ ioPc["mqtt"] # "none"
EndIsSeen ==
  Started /\ ~peerUp["mqtt"] ~> (ioPc["mqtt"] = "done" /\ input["mqtt"] = << >>) \/ ~Running
=============================================================================
