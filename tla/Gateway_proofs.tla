---------------------------- MODULE Gateway_proofs ----------------------------
(***************************************************************************)
(* Proofs about Gateway, for every set of descriptors, every input and      *)
(* every order of the two nodes.  IInv says, beside the types, where main   *)
(* and the I/O threads stand together (Order, Threads), that the loop of a  *)
(* stream has one descriptor (Loop), what is known of the connection        *)
(* (Connection), and what is on the bus (Bus).                              *)
(***************************************************************************)
EXTENDS Gateway, FiniteSetTheorems, SequenceTheorems, TLAPS

MqttEvent == [name |-> "mqttRquest", func |-> "mqttOnResponse"]
HttpEvent == [name |-> "input", func |-> "httppipein"]

Untouched(n) == stream[n] = NULL /\ ioPc[n] = "none"

\* A node is set up once
Order ==
  /\ \A i, j \in DOMAIN program : program[i] = program[j] => i = j
  /\ \A i \in DOMAIN program : i # 1 \/ mainPc \in {"start", "request"} => Untouched(program[i])
  /\ mainPc \in {"dispatch", "connect", "subscribe"} => program # << >> /\ program[1] = "mqtt"
  /\ mainPc \in {"request", "httpDispatch"} => program # << >> /\ program[1] = "http"
  /\ mainPc = "dispatch" => ioPc["mqtt"] = "none" /\ stream["mqtt"] = "open"
  /\ mainPc \in {"connect", "subscribe"} => ioPc["mqtt"] # "none"
  /\ mainPc = "httpDispatch" => ioPc["http"] = "none"

\* Who uses a stream, and who has freed it
Threads ==
  /\ \A n \in Nodes : ioPc[n] \in {"select", "callbacks", "disconnect"} => stream[n] = "open"
  /\ \A n \in Nodes : stream[n] = "freed" <=> ioPc[n] = "done"
  /\ ioPc["mqtt"] # "none" => stream["mqtt"] # NULL

Watches(l, d) == /\ d \in Descriptors /\ l \in Loops
                 /\ l.event_fds = d /\ l.readset = {d} /\ l.ioQueue = <<d>>
Loop == \A n \in Nodes : stream[n] # NULL => Watches(loop[n], fd[n])

Connection ==
  /\ ioPc["mqtt"] = "disconnect" => ~istcpconnected["mqtt"]
  /\ stream["mqtt"] = "open" =>
       istcpconnected["mqtt"] \/ (~peerUp["mqtt"] /\ input["mqtt"] = << >>)
  /\ FreedAfterTheEnd

OnBus == bus.sigQueue
Bus ==
  /\ bus # NULL =>
       /\ bus \in Loops
       /\ OnBus \in {<< >>, <<MqttEvent>>, <<HttpEvent>>,
                     <<MqttEvent, HttpEvent>>, <<HttpEvent, MqttEvent>>}
       /\ stream["mqtt"] = NULL => OnBus \in {<< >>, <<HttpEvent>>}
       /\ \A i \in DOMAIN program :
            program[i] = "http" /\ (i # 1 \/ mainPc \notin {"request", "httpDispatch"})
              => OnBus \in {<< >>, <<MqttEvent>>}
  /\ ioPc["mqtt"] # "none" \/ mainPc = "dispatch" =>
       /\ bus # NULL
       /\ OnBus \in {<<MqttEvent>>, <<MqttEvent, HttpEvent>>, <<HttpEvent, MqttEvent>>}

IInv == TypeOK /\ Order /\ Threads /\ Loop /\ Connection /\ Bus /\ EveryMessageHeard

-----------------------------------------------------------------------------
(* The operations of a loop *)

\* Every descriptor lies within two words of a descriptor set.
LEMMA DescriptorBound ==
  ASSUME NEW d \in Descriptors
  PROVE  d \in Nat /\ d < 128
BY DescriptorsAssumption DEF NFDBITS

\* The set of a new loop has room for any descriptor, with one doubling
LEMMA NewLoopWatches ==
  ASSUME NEW d \in Descriptors
  PROVE  Watches(ItemAdd(NewLoop, d), d)
<1>1. d \in Nat /\ d < 128
  BY DescriptorBound
<1>2. Masks(33) = 1 /\ (d < 64 => Masks(d + 1) = 1) /\ (d >= 64 => Masks(d + 1) = 2)
  BY <1>1 DEF Masks, NFDBITS
<1> DEFINE l == ItemAdd(NewLoop, d)
<1>3. l = [event_fds |-> d, masks |-> IF d < 64 THEN 1 ELSE 2, readset |-> {d}, ioQueue |-> <<d>>,
           active |-> {}, activeNum |-> 0, sigQueue |-> << >>]
  <2> DEFINE first == SelectAdd(NewLoop, d)
  <2>1. /\ NewLoop.event_fds = 0 /\ NewLoop.masks = 1 /\ NewLoop.readset = {}
        /\ NewLoop.ioQueue = << >>
    BY <1>2 DEF NewLoop
  <2>2. (IF NewLoop.event_fds < d THEN d ELSE NewLoop.event_fds) = d
    BY <1>1, <2>1
  <2>3. (IF NewLoop.event_fds < d /\ NewLoop.masks < Masks(d + 1) THEN 2 * NewLoop.masks ELSE NewLoop.masks)
          = (IF d < 64 THEN 1 ELSE 2)
    BY <1>1, <1>2, <2>1
  <2>4. first = [NewLoop EXCEPT !.event_fds = d, !.masks = IF d < 64 THEN 1 ELSE 2, !.readset = {d}]
    BY <2>1, <2>2, <2>3 DEF SelectAdd
  <2>5. first = [event_fds |-> d, masks |-> IF d < 64 THEN 1 ELSE 2, readset |-> {d},
                 ioQueue |-> << >>, active |-> {}, activeNum |-> 0, sigQueue |-> << >>]
    BY <2>4 DEF NewLoop
  <2>6. <<d>> \o << >> = <<d>>
    OBVIOUS
  <2> HIDE DEF first
  <2>7. [first EXCEPT !.ioQueue = <<d>> \o first.ioQueue] = l
    BY DEF ItemAdd, first
  <2> HIDE DEF l
  <2> QED BY <2>5, <2>6, <2>7
<1> HIDE DEF l
<1>4. l \in Loops
  BY <1>1, <1>3 DEF Loops, NFDBITS
<1> QED BY <1>3, <1>4 DEF Watches, l

\* A row of one or two elements, put together.
LEMMA Concatenated ==
  ASSUME NEW a, NEW b
  PROVE  <<a>> \o << >> = <<a>> /\ <<a>> \o <<b>> = <<a, b>>
<1>1. <<a>> \o << >> = <<a>>
  OBVIOUS
<1>2. <<a>> \o <<b>> = <<a, b>>
  <2>1. <<a>> \in Seq({a, b}) /\ <<b>> \in Seq({a, b}) /\ <<a, b>> \in Seq({a, b})
    OBVIOUS
  <2>2. Len(<<a>> \o <<b>>) = 2 /\ (<<a>> \o <<b>>)[1] = a /\ (<<a>> \o <<b>>)[2] = b
    BY <2>1
  <2>3. <<a>> \o <<b>> \in Seq({a, b})
    BY <2>1
  <2> DEFINE s == <<a>> \o <<b>>
             t == <<a, b>>
  <2>4. Len(t) = 2 /\ t[1] = a /\ t[2] = b
    OBVIOUS
  <2> HIDE DEF s, t
  <2>5. Len(s) = Len(t) /\ \A i \in 1..Len(s) : s[i] = t[i]
    BY <2>2, <2>4 DEF s
  <2> QED BY <2>1, <2>3, <2>5, SeqEqual DEF s, t
<1> QED BY <1>1, <1>2

\* The loop that loop_base_new makes is a loop.
LEMMA NewLoopType == NewLoop \in Loops
BY DEF NewLoop, Loops, Masks, NFDBITS

\* Registering an event puts it first in the queue and keeps the rest of the loop.
LEMMA EventOnType ==
  ASSUME NEW b \in Loops, NEW e \in {MqttEvent, HttpEvent}
  PROVE  EventOn(b, e.name, e.func) \in Loops
         /\ EventOn(b, e.name, e.func).sigQueue = <<e>> \o b.sigQueue
<1> DEFINE Entries == [name : {"mqttRquest", "input"}, func : {"mqttOnResponse", "httppipein"}]
           q == <<e>> \o b.sigQueue
<1>1. e \in Entries /\ e = [name |-> e.name, func |-> e.func]
  BY DEF MqttEvent, HttpEvent
<1>2. b.sigQueue \in Seq(Entries)
  BY DEF Loops
<1>3. q \in Seq(Entries)
  BY <1>1, <1>2
<1>4. EventOn(b, e.name, e.func) = [b EXCEPT !.sigQueue = q]
  BY <1>1 DEF EventOn
<1> HIDE DEF q
<1>5. [b EXCEPT !.sigQueue = q] \in Loops /\ [b EXCEPT !.sigQueue = q].sigQueue = q
  BY <1>3 DEF Loops
<1> QED BY <1>4, <1>5 DEF q

\* select leaves the one descriptor in the set, or does not return
LEMMA DispatchKeepsWatching ==
  ASSUME NEW l, NEW d, Watches(l, d), NEW ready, CanSelect(l, ready)
  PROVE  Watches(SelectDispatch(l, ready), d)
<1> DEFINE queued == {i \in DOMAIN l.ioQueue : l.ioQueue[i] \in Selected(l, ready) \cap Scanned(l)}
           l2 == SelectDispatch(l, ready)
<1>1. Selected(l, ready) = {d}
  BY DEF Watches, CanSelect, Selected
<1>2. queued \subseteq {1} /\ queued \in SUBSET DOMAIN l.ioQueue
  BY DEF Watches
<1>3. Cardinality(queued) \in Nat
  <2>1. IsFiniteSet({1})
    BY FS_Singleton
  <2>2. IsFiniteSet(queued)
    BY <1>2, <2>1, FS_Subset
  <2> QED BY <2>2, FS_CardinalityType
<1>4. l2 = [l EXCEPT !.readset = {d}, !.active = l.active \cup {l.ioQueue[i] : i \in queued},
                    !.activeNum = l.activeNum + Cardinality(queued)]
  BY <1>1 DEF SelectDispatch
<1>5. {l.ioQueue[i] : i \in queued} \subseteq Descriptors
  BY <1>2 DEF Watches
<1> HIDE DEF queued, l2
<1>6. l2 \in Loops
  <2>1. l.active \cup {l.ioQueue[i] : i \in queued} \in SUBSET Descriptors
    BY <1>5 DEF Watches, Loops
  <2>2. l.activeNum + Cardinality(queued) \in Nat
    BY <1>3 DEF Watches, Loops
  <2> DEFINE a == l.active \cup {l.ioQueue[i] : i \in queued}
             k == l.activeNum + Cardinality(queued)
  <2> HIDE DEF a, k
  <2>3. l2 = [l EXCEPT !.readset = {d}, !.active = a, !.activeNum = k]
    BY <1>4 DEF a, k
  <2>4. a \in SUBSET Descriptors /\ k \in Nat
    BY <2>1, <2>2 DEF a, k
  <2> QED BY <2>3, <2>4 DEF Watches, Loops
<1> QED BY <1>4, <1>6 DEF Watches, Loops, l2
-----------------------------------------------------------------------------
(* The actions *)

\* Before main runs there is nothing: the invariant holds.
LEMMA InitInv == Init => IInv
<1> SUFFICES ASSUME Init PROVE IInv
  OBVIOUS
<1>1. TypeOK
  <2>1. program \in Seq(Nodes)
    BY ProgramsAssumption DEF Init
  <2>2. input \in [Nodes -> Seq(Inputs)] /\ arrived \in Seq(Payloads)
        /\ heard \in Seq(Temperatures \cup {Junk})
    BY DEF Init
  <2>3. sent \in [Nodes -> 0..MaxInputs]
    BY ValuesAssumption DEF Init
  <2> QED BY <2>1, <2>2, <2>3 DEF Init, TypeOK
<1>2. Order
  BY ProgramsAssumption, ValuesAssumption DEF Init, Order, Untouched, Nodes
<1>3. Threads
  BY ProgramsAssumption, ValuesAssumption DEF Init, Threads, Nodes
<1>4. Loop
  BY ProgramsAssumption, ValuesAssumption DEF Init, Loop, Nodes
<1>5. Connection
  BY ProgramsAssumption, ValuesAssumption DEF Init, Connection, FreedAfterTheEnd, Nodes
<1>6. Bus
  BY ProgramsAssumption, ValuesAssumption DEF Init, Bus, OnBus, Nodes
<1>7. EveryMessageHeard
  BY ProgramsAssumption, ValuesAssumption DEF Init, EveryMessageHeard, Nodes
<1> QED BY <1>1, <1>2, <1>3, <1>4, <1>5, <1>6, <1>7 DEF IInv

\* Starting the MQTT node's thread: its stream has been connected.
LEMMA MqttDispatchPreserves ==
  ASSUME IInv, MqttDispatch
  PROVE  IInv'
<1> USE ValuesAssumption DEF IInv, MqttDispatch, At, Running, mainVars, streamVars, peerVars, history
<1>1. TypeOK'
  BY DEF TypeOK, Nodes
<1>2. Order'
  BY DEF TypeOK, Order, Untouched, Nodes
<1>3. Threads'
  BY DEF TypeOK, Order, Threads, Nodes
<1>4. Loop'
  BY DEF TypeOK, Loop, Nodes
<1>5. Connection'
  BY DEF TypeOK, Connection, FreedAfterTheEnd, Nodes
<1>6. Bus'
  BY DEF TypeOK, Bus, OnBus, Nodes
<1>7. EveryMessageHeard'
  BY DEF TypeOK, EveryMessageHeard, Nodes
<1> QED BY <1>1, <1>2, <1>3, <1>4, <1>5, <1>6, <1>7

\* MQTTConnect changes nothing of the loops.
LEMMA MqttConnectPreserves ==
  ASSUME IInv, MqttConnect
  PROVE  IInv'
<1> USE ValuesAssumption DEF IInv, MqttConnect, At, Running, mainVars, streamVars, peerVars, history
<1>1. TypeOK'
  BY DEF TypeOK, Nodes
<1>2. Order'
  BY DEF TypeOK, Order, Untouched, Nodes
<1>3. Threads'
  BY DEF TypeOK, Threads, Nodes
<1>4. Loop'
  BY DEF TypeOK, Loop, Nodes
<1>5. Connection'
  BY DEF TypeOK, Connection, FreedAfterTheEnd, Nodes
<1>6. Bus'
  BY DEF TypeOK, Bus, OnBus, Nodes
<1>7. EveryMessageHeard'
  BY DEF TypeOK, EveryMessageHeard, Nodes
<1> QED BY <1>1, <1>2, <1>3, <1>4, <1>5, <1>6, <1>7

\* What is left of a sequence without its first element
LEMMA TailElements ==
  ASSUME NEW S, NEW s \in Seq(S), s # << >>
  PROVE  \A i \in DOMAIN Tail(s) : i \in Nat \ {0} /\ i + 1 \in DOMAIN s /\ Tail(s)[i] = s[i + 1]
OBVIOUS

\* MQTTSubscribe ends the MQTT node's part of the program.
LEMMA MqttSubscribePreserves ==
  ASSUME IInv, MqttSubscribe
  PROVE  IInv'
<1> USE ValuesAssumption DEF IInv, MqttSubscribe, At, Running, mainVars, streamVars, peerVars, history
<1>1. TypeOK'
  <2>1. program # << >>
    BY DEF Order
  <2>2. Tail(program) \in Seq(Nodes)
    BY <2>1 DEF TypeOK
  <2> QED BY <2>2 DEF TypeOK, Nodes
<1>2. Order'
  <2>1. program \in Seq(Nodes) /\ program # << >> /\ program' = Tail(program)
    BY DEF TypeOK, Order
  <2>2. \A i \in DOMAIN program' : /\ i \in Nat \ {0} /\ i + 1 \in DOMAIN program
                                  /\ program'[i] = program[i + 1]
    <3> HIDE DEF IInv, MqttSubscribe
    <3> QED BY <2>1, TailElements
  <2>3. \A i, j \in DOMAIN program' : program'[i] = program'[j] => i = j
    <3>1. \A i, j \in DOMAIN program : program[i] = program[j] => i = j
      BY DEF Order
    <3> HIDE DEF IInv, MqttSubscribe
    <3> QED BY SMT, <2>2, <3>1
  <2>4. \A i \in DOMAIN program' : Untouched(program[i])'
    <3>1. \A i \in DOMAIN program : i # 1 => Untouched(program[i])
      BY DEF Order
    <3>2. stream' = stream /\ ioPc' = ioPc
      OBVIOUS
    <3> HIDE DEF IInv, MqttSubscribe
    <3>3. \A i \in DOMAIN program' : stream[program'[i]] = NULL /\ ioPc[program'[i]] = "none"
      BY SMT, <2>2, <3>1 DEF Untouched
    <3> QED BY <3>2, <3>3 DEF Untouched
  <2>5. mainPc' = "start"
    OBVIOUS
  <2> HIDE DEF IInv, MqttSubscribe
  <2> QED BY <2>3, <2>4, <2>5 DEF Order
<1>3. Threads'
  BY DEF TypeOK, Threads, Nodes
<1>4. Loop'
  BY DEF TypeOK, Loop, Nodes
<1>5. Connection'
  BY DEF TypeOK, Connection, FreedAfterTheEnd, Nodes
<1>6. Bus'
  BY DEF TypeOK, Bus, OnBus, Nodes
<1>7. EveryMessageHeard'
  BY DEF TypeOK, EveryMessageHeard, Nodes
<1> QED BY <1>1, <1>2, <1>3, <1>4, <1>5, <1>6, <1>7

\* The HTTP node registers itself on the bus, which it may have to make.
LEMMA HttpInitPreserves ==
  ASSUME IInv, HttpInit
  PROVE  IInv'
<1> USE ValuesAssumption DEF IInv, HttpInit, At, Running, BusInit, mainVars, streamVars, peerVars, history
<1>1. TypeOK'
  <2>1. PICK b \in BusInit : bus' = IF b = NULL THEN b ELSE EventOn(b, "input", "httppipein")
    OBVIOUS
  <2>2. b = NULL \/ b \in Loops
    BY NewLoopType DEF TypeOK
  <2>3. HttpEvent.name = "input" /\ HttpEvent.func = "httppipein"
    BY DEF HttpEvent
  <2>4. bus' = NULL \/ bus' \in Loops
    BY <2>1, <2>2, <2>3, EventOnType
  <2> QED BY <2>4 DEF TypeOK
<1>2. Order'
  BY DEF TypeOK, Order, Untouched, Nodes
<1>3. Threads'
  BY DEF TypeOK, Threads, Nodes
<1>4. Loop'
  BY DEF TypeOK, Loop, Nodes
<1>5. Connection'
  BY DEF TypeOK, Connection, FreedAfterTheEnd, Nodes
<1>6. Bus'
  <2>1. PICK b \in BusInit : bus' = IF b = NULL THEN b ELSE EventOn(b, "input", "httppipein")
    OBVIOUS
  <2>2. HttpEvent.name = "input" /\ HttpEvent.func = "httppipein"
    BY DEF HttpEvent
  <2>3. \A i \in DOMAIN program' : program'[i] = "http" => i = 1 /\ mainPc' = "request"
    BY DEF Order, TypeOK
  <2>4. MqttEvent # HttpEvent /\ <<MqttEvent>> # <<HttpEvent>>
    <3>1. MqttEvent # HttpEvent
      BY DEF MqttEvent, HttpEvent
    <3> QED BY <3>1
  <2>5. /\ <<HttpEvent>> \o << >> = <<HttpEvent>>
        /\ <<HttpEvent>> \o <<MqttEvent>> = <<HttpEvent, MqttEvent>>
    BY Concatenated
  <2>6. CASE bus # NULL
    <3>1. program # << >> /\ program[1] = "http" /\ 1 \in DOMAIN program /\ mainPc = "start"
      BY DEF TypeOK
    <3>2. bus \in Loops /\ OnBus \in {<< >>, <<MqttEvent>>}
      BY <2>6, <3>1 DEF Bus
    <3>3. bus' \in Loops /\ bus'.sigQueue = <<HttpEvent>> \o OnBus
      BY <2>1, <2>2, <2>6, <3>2, EventOnType DEF OnBus
    <3>4. OnBus' \in {<<HttpEvent>>, <<HttpEvent, MqttEvent>>}
          /\ (OnBus' = <<HttpEvent>> <=> OnBus = << >>)
      <4>1. OnBus' = <<HttpEvent>> \o OnBus
        BY <3>3 DEF OnBus
      <4>2. <<HttpEvent>> # <<HttpEvent, MqttEvent>> /\ << >> # <<MqttEvent>>
        OBVIOUS
      <4> HIDE DEF OnBus, HttpInit, IInv
      <4> QED BY <2>5, <3>2, <4>1, <4>2
    <3>5. stream["mqtt"] = NULL => OnBus = << >>
      <4> SUFFICES ASSUME stream["mqtt"] = NULL PROVE OnBus = << >>
        OBVIOUS
      <4>1. OnBus \in {<< >>, <<HttpEvent>>}
        BY <2>6 DEF Bus
      <4> QED BY <2>4, <3>2, <4>1
    <3>6. ioPc["mqtt"] # "none" => OnBus # << >>
      BY <2>6 DEF Bus
    <3>7. UNCHANGED <<stream, ioPc>> /\ mainPc' = "request"
      OBVIOUS
    <3> HIDE DEF HttpInit, MqttEvent, HttpEvent
    <3>8. bus' # NULL => Bus'
      BY <2>3, <3>3, <3>4, <3>5, <3>6, <3>7 DEF Bus
    <3>9. bus' # NULL
      BY <3>3, ValuesAssumption
    <3> QED BY <3>8, <3>9
  <2>7. CASE bus = NULL
    <3>1. ioPc["mqtt"] = "none"
      BY <2>7 DEF Bus
    <3>2. b = NULL \/ b = NewLoop
      BY <2>7
    <3>3. b # NULL => /\ bus' \in Loops
                      /\ bus'.sigQueue = <<HttpEvent>> \o << >>
      BY <2>1, <2>2, <3>2, EventOnType, NewLoopType DEF NewLoop
    <3>4. b # NULL => OnBus' = <<HttpEvent>>
      BY <2>5, <3>3 DEF OnBus
    <3>5. UNCHANGED <<stream, ioPc>> /\ mainPc' = "request"
      OBVIOUS
    <3>6. b = NULL => bus' = NULL
      BY <2>1
    <3> HIDE DEF HttpInit
    <3> QED BY <2>3, <3>1, <3>3, <3>4, <3>5, <3>6 DEF Bus
  <2> QED BY <2>6, <2>7
<1>7. EveryMessageHeard'
  BY DEF TypeOK, EveryMessageHeard, Nodes
<1> QED BY <1>1, <1>2, <1>3, <1>4, <1>5, <1>6, <1>7

\* Starting the HTTP node's thread ends its part of the program.
LEMMA HttpDispatchPreserves ==
  ASSUME IInv, HttpDispatch
  PROVE  IInv'
<1> USE ValuesAssumption DEF IInv, HttpDispatch, At, Running, mainVars, streamVars, peerVars, history
<1>1. TypeOK'
  <2>1. program # << >>
    BY DEF Order
  <2>2. Tail(program) \in Seq(Nodes)
    BY <2>1 DEF TypeOK
  <2> QED BY <2>2 DEF TypeOK, Nodes
<1>2. Order'
  <2>1. program # << >> /\ program[1] = "http" /\ program \in Seq(Nodes)
    BY DEF Order, TypeOK
  <2>2. \A i \in DOMAIN Tail(program) :
          i + 1 \in DOMAIN program /\ i + 1 # 1 /\ Tail(program)[i] = program[i + 1]
    BY <2>1
  <2>3. \A i, j \in DOMAIN Tail(program) : Tail(program)[i] = Tail(program)[j] => i = j
    BY <2>1, <2>2 DEF Order
  <2>4. \A i \in DOMAIN Tail(program) :
          Untouched(Tail(program)[i]) /\ Tail(program)[i] # "http" /\ Tail(program)[i] \in Nodes
    BY <2>1, <2>2 DEF Order
  <2>5. ASSUME NEW n \in Nodes, Untouched(n), n # "http" PROVE Untouched(n)'
    BY <2>5 DEF Untouched, TypeOK
  <2> QED BY <2>3, <2>4, <2>5 DEF Order
<1>3. Threads'
  BY DEF TypeOK, Order, Threads, Nodes
<1>4. Loop'
  BY DEF TypeOK, Loop, Nodes
<1>5. Connection'
  BY DEF TypeOK, Connection, FreedAfterTheEnd, Nodes
<1>6. Bus'
  BY DEF TypeOK, Bus, OnBus, Nodes
<1>7. EveryMessageHeard'
  BY DEF TypeOK, EveryMessageHeard, Nodes
<1> QED BY <1>1, <1>2, <1>3, <1>4, <1>5, <1>6, <1>7

\* One round of a loop: on while the stream is connected.
LEMMA LoopRoundPreserves ==
  ASSUME IInv, NEW n \in Nodes, LoopRound(n)
  PROVE  IInv'
<1> USE ValuesAssumption DEF IInv, LoopRound, IoAt, Goto, Running, mainVars, streamVars, peerVars, history
<1>1. TypeOK'
  BY DEF TypeOK, Nodes
<1>2. Order'
  BY DEF TypeOK, Order, Untouched, Nodes
<1>3. Threads'
  BY DEF TypeOK, Threads, Nodes
<1>4. Loop'
  BY DEF TypeOK, Loop, Nodes
<1>5. Connection'
  BY DEF TypeOK, Connection, FreedAfterTheEnd, Nodes
<1>6. Bus'
  BY DEF TypeOK, Bus, OnBus, Nodes
<1>7. EveryMessageHeard'
  BY DEF TypeOK, EveryMessageHeard, Nodes
<1> QED BY <1>1, <1>2, <1>3, <1>4, <1>5, <1>6, <1>7

\* select changes the set in place; what the loop watches is ready, so it stays.
LEMMA DispatchPreserves ==
  ASSUME IInv, NEW n \in Nodes, Dispatch(n)
  PROVE  IInv'
<1> USE ValuesAssumption DEF IInv, Dispatch, IoAt, Goto, Running, mainVars, streamVars, peerVars, history
<1>1. TypeOK'
  <2>1. Watches(SelectDispatch(loop[n], Ready(n)), fd[n])
    BY DispatchKeepsWatching DEF Loop, Threads
  <2> QED BY <2>1 DEF TypeOK, Watches, Nodes
<1>2. Order'
  BY DEF TypeOK, Order, Untouched, Nodes
<1>3. Threads'
  BY DEF TypeOK, Threads, Nodes
<1>4. Loop'
  <2>1. Watches(SelectDispatch(loop[n], Ready(n)), fd[n])
    BY DispatchKeepsWatching DEF Loop, Threads
  <2> QED BY <2>1 DEF TypeOK, Loop
<1>5. Connection'
  BY DEF TypeOK, Connection, FreedAfterTheEnd, Nodes
<1>6. Bus'
  BY DEF TypeOK, Bus, OnBus, Nodes
<1>7. EveryMessageHeard'
  BY DEF TypeOK, EveryMessageHeard, Nodes
<1> QED BY <1>1, <1>2, <1>3, <1>4, <1>5, <1>6, <1>7

\* An interrupted select leaves the set alone.
LEMMA InterruptedPreserves ==
  ASSUME IInv, NEW n \in Nodes, Interrupted(n)
  PROVE  IInv'
<1> USE ValuesAssumption DEF IInv, Interrupted, IoAt, Goto, Running, mainVars, streamVars, peerVars, history
<1>1. TypeOK'
  BY DEF TypeOK, Nodes
<1>2. Order'
  BY DEF TypeOK, Order, Untouched, Nodes
<1>3. Threads'
  BY DEF TypeOK, Threads, Nodes
<1>4. Loop'
  BY DEF TypeOK, Loop, Nodes
<1>5. Connection'
  BY DEF TypeOK, Connection, FreedAfterTheEnd, Nodes
<1>6. Bus'
  BY DEF TypeOK, Bus, OnBus, Nodes
<1>7. EveryMessageHeard'
  BY DEF TypeOK, EveryMessageHeard, Nodes
<1> QED BY <1>1, <1>2, <1>3, <1>4, <1>5, <1>6, <1>7

\* A round without an active event.
LEMMA NothingActivePreserves ==
  ASSUME IInv, NEW n \in Nodes, NothingActive(n)
  PROVE  IInv'
<1> USE ValuesAssumption DEF IInv, NothingActive, IoAt, Goto, Running, mainVars, streamVars, peerVars, history
<1>1. TypeOK'
  BY DEF TypeOK, Nodes
<1>2. Order'
  BY DEF TypeOK, Order, Untouched, Nodes
<1>3. Threads'
  BY DEF TypeOK, Threads, Nodes
<1>4. Loop'
  BY DEF TypeOK, Loop, Nodes
<1>5. Connection'
  BY DEF TypeOK, Connection, FreedAfterTheEnd, Nodes
<1>6. Bus'
  BY DEF TypeOK, Bus, OnBus, Nodes
<1>7. EveryMessageHeard'
  BY DEF TypeOK, EveryMessageHeard, Nodes
<1> QED BY <1>1, <1>2, <1>3, <1>4, <1>5, <1>6, <1>7

\* A message goes to the listener registered first for its event, which is the node's own.
LEMMA MqttReceivePreserves ==
  ASSUME IInv, MqttReceive
  PROVE  IInv'
<1> USE ValuesAssumption DEF IInv, MqttReceive, IoAt, Goto, Running, mainVars, streamVars, peerVars, history
<1>1. TypeOK'
  <2>1. input["mqtt"] \in Seq(Inputs) /\ input["mqtt"] # << >> /\ "mqtt" \in Nodes
    BY DEF TypeOK, Nodes
  <2>2. Tail(input["mqtt"]) \in Seq(Inputs) /\ input["mqtt"][1] \in Inputs
    BY <2>1
  <2>3. arrived' \in Seq(Payloads) /\ heard' \in Seq(Temperatures \cup {Junk})
    <3>1. CASE subscribed /\ input["mqtt"][1] # Other
      <4>1. MessageArrived(input["mqtt"][1])
        BY <3>1
      <4>2. input["mqtt"][1] \in Payloads
        BY <2>2, <3>1 DEF Inputs
      <4>3. PICK v \in Temperatures \cup {Junk} :
              /\ arrived' = Append(arrived, input["mqtt"][1])
              /\ heard' = Append(heard, v) \/ heard' = heard
        BY <4>1 DEF MessageArrived
      <4>4. arrived \in Seq(Payloads) /\ heard \in Seq(Temperatures \cup {Junk})
        BY DEF TypeOK
      <4>5. Append(arrived, input["mqtt"][1]) \in Seq(Payloads)
            /\ Append(heard, v) \in Seq(Temperatures \cup {Junk})
        <5> HIDE DEF MqttReceive, IInv
        <5> QED BY <4>2, <4>4
      <4> QED BY <4>3, <4>4, <4>5
    <3>2. CASE ~(subscribed /\ input["mqtt"][1] # Other)
      BY <3>2 DEF TypeOK
    <3> QED BY <3>1, <3>2
  <2> QED BY <2>1, <2>2, <2>3 DEF TypeOK
<1>2. Order'
  BY DEF TypeOK, Order, Untouched, Nodes
<1>3. Threads'
  BY DEF TypeOK, Threads, Nodes
<1>4. Loop'
  BY DEF TypeOK, Loop, Nodes
<1>5. Connection'
  BY DEF TypeOK, Connection, FreedAfterTheEnd, Nodes
<1>6. Bus'
  BY DEF TypeOK, Bus, OnBus, Nodes
<1>7. EveryMessageHeard'
  <2>1. CASE subscribed /\ input["mqtt"][1] # Other
    <3>1. \E i \in Listeners(bus, "mqttRquest") : bus.sigQueue[i].func = "mqttOnResponse"
      <4>1. OnBus \in {<<MqttEvent>>, <<MqttEvent, HttpEvent>>, <<HttpEvent, MqttEvent>>}
        BY DEF Bus
      <4>2. MqttEvent.name = "mqttRquest" /\ HttpEvent.name = "input"
            /\ MqttEvent.func = "mqttOnResponse"
        BY DEF MqttEvent, HttpEvent
      <4>3. CASE OnBus[1] = MqttEvent
        BY <4>1, <4>2, <4>3 DEF Listeners, OnBus
      <4>4. CASE OnBus = <<HttpEvent, MqttEvent>>
        BY <4>2, <4>4 DEF Listeners, OnBus
      <4> QED BY <4>1, <4>3, <4>4
    <3>2. MessageArrived(input["mqtt"][1])
      BY <2>1
    <3> DEFINE payload == input["mqtt"][1]
    <3>3. PICK v : /\ payload \in Temperatures => v = payload
                   /\ arrived' = Append(arrived, payload) /\ heard' = Append(heard, v)
      BY <3>1, <3>2 DEF MessageArrived
    <3> QED BY <3>3 DEF EveryMessageHeard, TypeOK
  <2> QED BY <2>1 DEF EveryMessageHeard
<1> QED BY <1>1, <1>2, <1>3, <1>4, <1>5, <1>6, <1>7

\* The end of the MQTT connection clears istcpconnected, so that the loop ends.
LEMMA MqttEndPreserves ==
  ASSUME IInv, MqttEnd
  PROVE  IInv'
<1> USE ValuesAssumption DEF IInv, MqttEnd, IoAt, Goto, Running, mainVars, streamVars, peerVars, history
<1>1. TypeOK'
  BY DEF TypeOK, Nodes
<1>2. Order'
  BY DEF TypeOK, Order, Untouched, Nodes
<1>3. Threads'
  BY DEF TypeOK, Threads, Nodes
<1>4. Loop'
  BY DEF TypeOK, Loop, Nodes
<1>5. Connection'
  BY DEF TypeOK, Connection, FreedAfterTheEnd, Nodes
<1>6. Bus'
  BY DEF TypeOK, Bus, OnBus, Nodes
<1>7. EveryMessageHeard'
  BY DEF TypeOK, EveryMessageHeard, Nodes
<1> QED BY <1>1, <1>2, <1>3, <1>4, <1>5, <1>6, <1>7

\* A thread that leaves its loop frees its stream.
LEMMA ClientDisconnectPreserves ==
  ASSUME IInv, NEW n \in Nodes, ClientDisconnect(n)
  PROVE  IInv'
<1> USE ValuesAssumption DEF IInv, ClientDisconnect, IoAt, Goto, Running, mainVars, streamVars, peerVars, history
<1>1. TypeOK'
  BY DEF TypeOK, Nodes
<1>2. Order'
  BY DEF TypeOK, Order, Untouched, Nodes
<1>3. Threads'
  BY DEF TypeOK, Threads, Nodes
<1>4. Loop'
  BY DEF TypeOK, Threads, Loop, Nodes
<1>5. Connection'
  BY DEF TypeOK, Threads, Connection, FreedAfterTheEnd, Nodes
<1>6. Bus'
  BY DEF TypeOK, Bus, OnBus, Nodes
<1>7. EveryMessageHeard'
  BY DEF TypeOK, EveryMessageHeard, Nodes
<1> QED BY <1>1, <1>2, <1>3, <1>4, <1>5, <1>6, <1>7

\* What a peer sends waits in the kernel.
LEMMA PeerSendsPreserves ==
  ASSUME IInv, NEW n \in Nodes, PeerSends(n)
  PROVE  IInv'
<1> USE ValuesAssumption DEF IInv, PeerSends, Running, mainVars, streamVars, peerVars, history
<1>1. TypeOK'
  <2>1. PICK m \in Inputs : input' = [input EXCEPT ![n] = Append(@, m)]
    BY DEF Inputs
  <2>2. Append(input[n], m) \in Seq(Inputs) /\ sent[n] + 1 \in 0..MaxInputs
    BY DEF TypeOK
  <2> QED BY <2>1, <2>2 DEF TypeOK
<1>2. Order'
  BY DEF TypeOK, Order, Untouched, Nodes
<1>3. Threads'
  BY DEF TypeOK, Threads, Nodes
<1>4. Loop'
  BY DEF TypeOK, Loop, Nodes
<1>5. Connection'
  BY DEF TypeOK, Connection, FreedAfterTheEnd, Nodes
<1>6. Bus'
  BY DEF TypeOK, Bus, OnBus, Nodes
<1>7. EveryMessageHeard'
  BY DEF TypeOK, EveryMessageHeard, Nodes
<1> QED BY <1>1, <1>2, <1>3, <1>4, <1>5, <1>6, <1>7

\* A peer closes its connection.
LEMMA PeerClosesPreserves ==
  ASSUME IInv, NEW n \in Nodes, PeerCloses(n)
  PROVE  IInv'
<1> USE ValuesAssumption DEF IInv, PeerCloses, Running, mainVars, streamVars, peerVars, history
<1>1. TypeOK'
  BY DEF TypeOK, Nodes
<1>2. Order'
  BY DEF TypeOK, Order, Untouched, Nodes
<1>3. Threads'
  BY DEF TypeOK, Threads, Nodes
<1>4. Loop'
  BY DEF TypeOK, Loop, Nodes
<1>5. Connection'
  BY DEF TypeOK, Connection, FreedAfterTheEnd, Nodes
<1>6. Bus'
  BY DEF TypeOK, Bus, OnBus, Nodes
<1>7. EveryMessageHeard'
  BY DEF TypeOK, EveryMessageHeard, Nodes
<1> QED BY <1>1, <1>2, <1>3, <1>4, <1>5, <1>6, <1>7

\* A stream that is connected has a loop that watches its descriptor
LEMMA ConnectWatches ==
  ASSUME IInv, NEW n \in Nodes, ClientConnect(n)
  PROVE  /\ fd' \in [Nodes -> Descriptors \cup {NULL}] /\ loop' \in [Nodes -> Loops \cup {NULL}]
         /\ Watches(loop'[n], fd'[n])
         /\ \A k \in Nodes : k # n => loop'[k] = loop[k] /\ fd'[k] = fd[k]
         /\ stream' = [stream EXCEPT ![n] = "open"] /\ peerUp' = [peerUp EXCEPT ![n] = TRUE]
<1>1. PICK d \in Descriptors : /\ fd' = [fd EXCEPT ![n] = d]
                               /\ loop' = [loop EXCEPT ![n] = ItemAdd(NewLoop, d)]
  BY DEF ClientConnect
<1>2. Watches(ItemAdd(NewLoop, d), d)
  BY NewLoopWatches
<1>3. ItemAdd(NewLoop, d) \in Loops
  BY <1>2 DEF Watches
<1> QED BY <1>1, <1>2, <1>3 DEF IInv, TypeOK, ClientConnect

\* makehttpRequest, with and without a connection.
LEMMA HttpRequestPreserves ==
  ASSUME IInv, HttpRequest
  PROVE  IInv'
<1> USE ValuesAssumption DEF IInv, HttpRequest, At, Running
<1>1. CASE ConnectFails("http")
  <2> USE <1>1 DEF ConnectFails, streamVars, peerVars, history
  <2>1. TypeOK' /\ Threads' /\ Loop' /\ Connection' /\ EveryMessageHeard'
    BY DEF TypeOK, Threads, Loop, Connection, FreedAfterTheEnd, EveryMessageHeard
  <2>2. Order'
    BY DEF TypeOK, Order, Untouched, Nodes
  <2>3. Bus'
    BY DEF TypeOK, Bus, OnBus, Nodes
  <2> QED BY <2>1, <2>2, <2>3
<1>2. CASE ClientConnect("http") /\ UNCHANGED <<istcpconnected, input, sent>>
  <2>0. "http" \in Nodes /\ "mqtt" \in Nodes /\ "http" # "mqtt"
    BY DEF Nodes
  <2>1. program # << >> /\ program[1] = "http" /\ Untouched("http") /\ program \in Seq(Nodes)
    BY DEF Order, TypeOK
  <2> DEFINE n == "http"
  <2>2. /\ fd' \in [Nodes -> Descriptors \cup {NULL}] /\ loop' \in [Nodes -> Loops \cup {NULL}]
        /\ Watches(loop'[n], fd'[n])
        /\ \A k \in Nodes : k # n => loop'[k] = loop[k] /\ fd'[k] = fd[k]
        /\ stream' = [stream EXCEPT ![n] = "open"] /\ peerUp' = [peerUp EXCEPT ![n] = TRUE]
    BY <1>2, <2>0, ConnectWatches
  <2>3. UNCHANGED <<program, process, bus, subscribed, ioPc, arrived, heard, istcpconnected, input, sent>>
        /\ mainPc' = "httpDispatch" /\ mainPc = "request"
    BY <1>2 DEF history
  <2> HIDE DEF HttpRequest
  <2>4. TypeOK'
    BY <2>2, <2>3 DEF TypeOK
  <2>5. stream'["mqtt"] = stream["mqtt"] /\ peerUp'["mqtt"] = peerUp["mqtt"] /\ stream'[n] = "open"
        /\ \A k \in Nodes : k # n => stream'[k] = stream[k]
    BY <2>0, <2>2 DEF TypeOK
  <2>6. Order'
    <3>1. \A i \in DOMAIN program : i # 1 => program[i] # n /\ program[i] \in Nodes
      BY <2>1 DEF Order
    <3> QED BY <2>1, <2>3, <2>5, <3>1 DEF Order, Untouched
  <2>7. Threads' /\ Loop'
    BY <2>1, <2>2, <2>3, <2>5 DEF Threads, Loop, Untouched
  <2>8. Connection' /\ EveryMessageHeard'
    BY <2>3, <2>5 DEF Connection, FreedAfterTheEnd, EveryMessageHeard
  <2>9. Bus'
    BY <2>3, <2>5 DEF Bus, OnBus
  <2> QED BY <2>4, <2>6, <2>7, <2>8, <2>9
<1> QED BY <1>1, <1>2

\* The MQTT node connects its stream, gets its loop and registers on the bus, or fails.
LEMMA MqttInitPreserves ==
  ASSUME IInv, MqttInit
  PROVE  IInv'
<1> USE ValuesAssumption DEF IInv
<1>0. "http" \in Nodes /\ "mqtt" \in Nodes /\ "http" # "mqtt"
  BY DEF Nodes
<1>1. /\ program # << >> /\ program[1] = "mqtt" /\ program \in Seq(Nodes)
      /\ mainPc = "start" /\ Untouched("mqtt")
      /\ UNCHANGED <<subscribed, ioPc, arrived, heard>>
  BY DEF MqttInit, At, Order, TypeOK, history
<1>2. PICK b \in BusInit :
        \/ ConnectFails("mqtt") /\ bus' = b /\ Exit
        \/ /\ ClientConnect("mqtt") /\ StreamConnected
           /\ IF b = NULL THEN bus' = b /\ Exit
              ELSE /\ bus' = EventOn(b, "mqttRquest", "mqttOnResponse")
                   /\ mainPc' = "dispatch" /\ UNCHANGED <<program, process>>
           /\ UNCHANGED <<input, sent>>
  BY DEF MqttInit
<1>3. /\ b = NULL \/ b \in Loops
      /\ b # NULL => b.sigQueue \in {<< >>, <<HttpEvent>>}
      /\ b # NULL /\ (\E i \in DOMAIN program : program[i] = "http") => b.sigQueue = << >>
  <2>1. CASE bus = NULL
    <3>1. b = NULL \/ b = NewLoop
      BY <2>1 DEF BusInit
    <3>2. NewLoop.sigQueue = << >>
      BY DEF NewLoop
    <3> HIDE DEF IInv
    <3> QED BY <3>1, <3>2, NewLoopType
  <2>2. CASE bus # NULL
    <3>1. b = bus /\ bus \in Loops /\ OnBus \in {<< >>, <<HttpEvent>>}
      BY <1>1, <2>2 DEF BusInit, Bus, Untouched
    <3>2. (\E i \in DOMAIN program : program[i] = "http") => OnBus \in {<< >>, <<MqttEvent>>}
      BY <1>1, <2>2 DEF Bus
    <3>3. <<MqttEvent>> # <<HttpEvent>>
      <4>1. MqttEvent # HttpEvent
        BY DEF MqttEvent, HttpEvent
      <4> QED BY <4>1
    <3> QED BY <2>2, <3>1, <3>2, <3>3 DEF OnBus
  <2> QED BY <2>1, <2>2
<1>4. \A i \in DOMAIN program : i # 1 => program[i] # "mqtt" /\ program[i] \in Nodes
  BY <1>1 DEF Order
<1>5. CASE ConnectFails("mqtt") /\ bus' = b /\ Exit
  <2>1. UNCHANGED <<program, stream, fd, loop, istcpconnected, input, peerUp, sent>>
        /\ bus' = b /\ mainPc' = "done" /\ process' = "exited"
    BY <1>5 DEF ConnectFails, Exit, streamVars, peerVars
  <2>2. TypeOK'
    BY <1>1, <1>3, <2>1 DEF TypeOK
  <2>3. Order' /\ Threads' /\ Loop' /\ Connection' /\ EveryMessageHeard'
    BY <1>1, <2>1 DEF Order, Untouched, Threads, Loop, Connection, FreedAfterTheEnd, EveryMessageHeard
  <2>4. Bus'
    BY <1>1, <1>3, <2>1 DEF Bus, OnBus, Untouched
  <2> QED BY <2>2, <2>3, <2>4
<1>6. CASE ClientConnect("mqtt") /\ StreamConnected /\ UNCHANGED <<input, sent>>
           /\ IF b = NULL THEN bus' = b /\ Exit
              ELSE /\ bus' = EventOn(b, "mqttRquest", "mqttOnResponse")
                   /\ mainPc' = "dispatch" /\ UNCHANGED <<program, process>>
  <2> DEFINE n == "mqtt"
  <2>1. /\ fd' \in [Nodes -> Descriptors \cup {NULL}] /\ loop' \in [Nodes -> Loops \cup {NULL}]
        /\ Watches(loop'[n], fd'[n])
        /\ \A k \in Nodes : k # n => loop'[k] = loop[k] /\ fd'[k] = fd[k]
        /\ stream' = [stream EXCEPT ![n] = "open"] /\ peerUp' = [peerUp EXCEPT ![n] = TRUE]
    BY <1>0, <1>6, ConnectWatches
  <2>2. /\ istcpconnected' = [istcpconnected EXCEPT ![n] = TRUE]
        /\ UNCHANGED <<program, input, sent>>
        /\ \/ b = NULL /\ bus' = NULL /\ mainPc' = "done" /\ process' = "exited"
           \/ /\ b # NULL /\ bus' = EventOn(b, "mqttRquest", "mqttOnResponse")
              /\ mainPc' = "dispatch" /\ process' = process
    BY <1>6 DEF StreamConnected, Exit
  <2>3. b # NULL => /\ bus' \in Loops
                    /\ OnBus' \in {<<MqttEvent>>, <<MqttEvent, HttpEvent>>}
                    /\ (\E i \in DOMAIN program : program[i] = "http") => OnBus' = <<MqttEvent>>
    <3>1. MqttEvent.name = "mqttRquest" /\ MqttEvent.func = "mqttOnResponse"
      BY DEF MqttEvent
    <3>2. b # NULL => bus' \in Loops /\ bus'.sigQueue = <<MqttEvent>> \o b.sigQueue
      BY <1>3, <2>2, <3>1, EventOnType
    <3>3. <<MqttEvent>> \o << >> = <<MqttEvent>>
          /\ <<MqttEvent>> \o <<HttpEvent>> = <<MqttEvent, HttpEvent>>
      BY Concatenated
    <3> HIDE DEF IInv
    <3> QED BY <1>3, <3>2, <3>3 DEF OnBus
  <2>4. TypeOK'
    BY <1>1, <2>1, <2>2, <2>3 DEF TypeOK
  <2>5. stream'[n] = "open" /\ istcpconnected'[n] = TRUE
        /\ \A k \in Nodes : k # n => stream'[k] = stream[k]
    BY <1>0, <2>1, <2>2 DEF TypeOK
  <2>6. Order'
    BY <1>1, <1>4, <2>2, <2>5 DEF Order, Untouched
  <2>7. Threads' /\ Loop'
    BY <1>1, <2>1, <2>5 DEF Threads, Loop, Untouched
  <2>8. Connection' /\ EveryMessageHeard'
    BY <1>1, <2>5 DEF Connection, FreedAfterTheEnd, EveryMessageHeard, Untouched
  <2>9. Bus'
    <3>1. bus' # NULL => b # NULL
      BY <2>2
    <3>2. b # NULL => bus' # NULL
      BY <2>3
    <3>3. ioPc'["mqtt"] = "none" /\ stream'["mqtt"] # NULL /\ (mainPc' = "dispatch" => b # NULL)
      BY <1>1, <2>2, <2>5 DEF Untouched
    <3> HIDE DEF IInv, n
    <3> QED BY <2>2, <2>3, <3>1, <3>2, <3>3 DEF Bus
  <2> QED BY <2>4, <2>6, <2>7, <2>8, <2>9
<1> QED BY <1>2, <1>5, <1>6

-----------------------------------------------------------------------------
(* The theorems *)

\* The inductive invariant: whatever main, the I/O threads and the peers do next, it goes on to
\* hold (gatewayDevice.c:12-36, iot_mqttclient.c:172-288, selectLoop.c:119-242).
THEOREM Invariance == Spec => []IInv
<1>1. IInv /\ [Next]_vars => IInv'
  <2> SUFFICES ASSUME IInv, [Next]_vars PROVE IInv'
    OBVIOUS
  <2>1. CASE Main
    BY <2>1, MqttInitPreserves, MqttDispatchPreserves, MqttConnectPreserves, MqttSubscribePreserves,
       HttpInitPreserves, HttpRequestPreserves, HttpDispatchPreserves DEF Main
  <2>2. ASSUME NEW n \in Nodes, Io(n) PROVE IInv'
    <3>1. \/ LoopRound(n) \/ Dispatch(n) \/ Interrupted(n) \/ NothingActive(n)
          \/ ClientDisconnect(n) \/ MqttReceive \/ MqttEnd
      BY <2>2 DEF Io
    <3>2. LoopRound(n) \/ Dispatch(n) \/ Interrupted(n) \/ NothingActive(n) => IInv'
      BY LoopRoundPreserves, DispatchPreserves, InterruptedPreserves, NothingActivePreserves
    <3>3. ClientDisconnect(n) \/ MqttReceive \/ MqttEnd => IInv'
      BY ClientDisconnectPreserves, MqttReceivePreserves, MqttEndPreserves
    <3> QED BY <3>1, <3>2, <3>3
  <2>3. ASSUME NEW n \in Nodes, PeerSends(n) \/ PeerCloses(n) PROVE IInv'
    BY <2>3, PeerSendsPreserves, PeerClosesPreserves
  <2>4. CASE UNCHANGED vars
    <3> USE <2>4 DEF vars, mainVars, streamVars, peerVars, history, IInv
    <3>1. TypeOK' /\ Threads' /\ Loop' /\ Connection' /\ EveryMessageHeard'
      BY DEF TypeOK, Threads, Loop, Connection, FreedAfterTheEnd, EveryMessageHeard
    <3>2. Order' /\ Bus'
      BY DEF Order, Untouched, Bus, OnBus
    <3> QED BY <3>1, <3>2
  <2> QED BY <2>1, <2>2, <2>3, <2>4 DEF Next
<1> QED BY <1>1, InitInv, PTL DEF Spec

\* No bit outside the memory of a descriptor set is set, for any descriptor below 128
\* (selectLoop.c:119-154).
THEOREM TypeCorrect == Spec => []TypeOK
<1>1. IInv => TypeOK
  BY DEF IInv
<1> QED BY <1>1, Invariance, PTL

\* A loop whose thread runs still watches the stream's descriptor (selectLoop.c:197-242).
THEOREM WatchingGoesOn == Spec => []StaysWatched
<1>1. IInv => StaysWatched
  <2> SUFFICES ASSUME IInv, NEW n \in Nodes, stream[n] = "open"
               PROVE  fd[n] \in loop[n].readset \cap Scanned(loop[n])
    BY DEF StaysWatched
  <2>1. Watches(loop[n], fd[n])
    BY ValuesAssumption DEF IInv, Loop
  <2>2. fd[n] \in 0..fd[n]
    <3>1. fd[n] \in Nat
      <4>1. fd[n] \in Descriptors
        BY <2>1 DEF Watches
      <4> QED BY <4>1, DescriptorBound
    <3> QED BY <3>1
  <2> QED BY <2>1, <2>2 DEF Watches, Scanned
<1> QED BY <1>1, Invariance, PTL

\* The stream of the MQTT node is freed after the end of the connection and not before, and
\* after everything that came on it has been read, however the start of main and of the thread,
\* the broker's messages and its close fall (iot_mqttclient.c:243, 279-283).
THEOREM StreamFreedAfterTheEnd == Spec => []FreedAfterTheEnd
<1>1. IInv => FreedAfterTheEnd
  BY DEF IInv, Connection
<1> QED BY <1>1, Invariance, PTL

\* Nothing that reaches messageArrived is lost on the bus, and nothing is heard twice or with
\* another temperature, whichever node registers first (iot_mqttclient.c:38-55, 246).
THEOREM NothingUnheard == Spec => []EveryMessageHeard
<1>1. IInv => EveryMessageHeard
  BY DEF IInv
<1> QED BY <1>1, Invariance, PTL
=============================================================================
