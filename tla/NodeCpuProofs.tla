---------------------------- MODULE NodeCpuProofs ----------------------------
(****************************************************************************)
(* Proofs about NodeCpu for any callers and any machines: what the flag     *)
(* has_data_, which is read without the lock, says about the tables, and    *)
(* what the lookups find in them.                                           *)
(****************************************************************************)
EXTENDS NodeCpu, FiniteSetTheorems, TLAPS

\* Nothing is read and nobody holds the lock.
LEMMA InitFill == Init => FillInv
  BY NodeCpuAssumption DEF Init, FillInv, AtLabels, Empty

\* What the files say depends on the machine alone.
LEMMA SameMachine ==
  ASSUME UNCHANGED layout
  PROVE  /\ \A n : Parsed(n)' = Parsed(n)
         /\ \A s : OfSocket(s)' = OfSocket(s)
         /\ \A k : OfCore(k)' = OfCore(k)
  BY DEF Parsed, ThreadsOf, OfSocket, OfCore

\* A step that changes neither the machine nor what was read of it leaves what the
\* tables say.
LEMMA SameTables ==
  ASSUME UNCHANGED <<layout, read>>
  PROVE  /\ NodesRead' <=> NodesRead
         /\ CpusRead' <=> CpusRead
  BY SameMachine DEF NodesRead, CpusRead, read

\* The frame of a step that moves one caller and leaves the machine and the tables:
\* what the caller must know where it goes is all there is to show.
LEMMA MoveFrame ==
  ASSUME FillInv, NEW c \in Callers, NEW l \in AtLabels,
         Goto(c, l), UNCHANGED <<layout, read>>,
         \A d \in Callers \ {c} : (holder' = d) <=> (holder = d),
         (holder' = c) <=> l \in {"nodes", "cpus", "others"},
         \A d \in Callers \ {c} : d \in overtaken => d \in overtaken',
         l \in {"cpus", "others"} => NodesRead,
         l = "others" => CpusRead,
         l = "read" => (NodesRead /\ CpusRead) \/ c \in overtaken',
         has_data_' => NodesRead /\ CpusRead
  PROVE  FillInv'
<1>1. /\ NodesRead' <=> NodesRead
      /\ CpusRead' <=> CpusRead
  BY SameTables
<1>2. /\ at' \in [Callers -> AtLabels]
      /\ at'[c] = l
      /\ \A d \in Callers \ {c} : at'[d] = at[d]
  BY DEF FillInv, Goto
<1>3. /\ hpthread_' \subseteq DOMAIN layout'
      /\ \A s \in Sockets : socket_hpthread_'[s] \subseteq OfSocket(s)'
      /\ \A k \in CoreIds : core_hpthread_'[k] \subseteq OfCore(k)'
      /\ \A n \in Nodes : node_hpthread_'[n] \subseteq Parsed(n)'
  BY SameMachine DEF FillInv, read
<1>4. \A d \in Callers : (holder' = d) <=> at'[d] \in {"nodes", "cpus", "others"}
  BY <1>2 DEF FillInv
<1>5. /\ \A d \in Callers : at'[d] \in {"cpus", "others"} => NodesRead'
      /\ \A d \in Callers : at'[d] = "others" => CpusRead'
      /\ \A d \in Callers : at'[d] = "read" => (NodesRead' /\ CpusRead') \/ d \in overtaken'
  BY <1>1, <1>2 DEF FillInv
<1> QED BY <1>1, <1>2, <1>3, <1>4, <1>5 DEF FillInv

\* Filling keeps the tables within what the files say, and so leaves a table that
\* is already complete as it is; only the holder of the lock fills.
LEMMA FillNodes ==
  ASSUME FillInv, NEW c \in Callers, RefreshNodes(c)
  PROVE  FillInv'
<1>1. PICK done \in SUBSET Nodes :
        /\ IF done = Nodes THEN Goto(c, "cpus") /\ UNCHANGED holder ELSE Throws(c)
        /\ node_hpthread_' = [n \in Nodes |-> node_hpthread_[n] \cup (IF n \in done THEN Parsed(n) ELSE {})]
  BY DEF RefreshNodes
<1>2. /\ at[c] = "nodes"
      /\ UNCHANGED <<layout, socket_hpthread_, core_hpthread_, hpthread_, has_data_, overtaken>>
  BY DEF RefreshNodes
<1>3. /\ \A n \in Nodes : node_hpthread_'[n] \subseteq Parsed(n)'
      /\ NodesRead => NodesRead'
      /\ done = Nodes => NodesRead'
  BY <1>1, <1>2, SameMachine DEF FillInv, NodesRead
<1>4. CpusRead' <=> CpusRead
  BY <1>2, SameMachine DEF CpusRead
<1>5. /\ at' \in [Callers -> AtLabels]
      /\ \A d \in Callers \ {c} : at'[d] = at[d]
      /\ \/ done = Nodes /\ at'[c] = "cpus" /\ holder' = holder
         \/ at'[c] = "idle" /\ holder' = NoCaller
  BY <1>1 DEF FillInv, Goto, Throws, AtLabels
<1>6. \A d \in Callers : (holder' = d) <=> at'[d] \in {"nodes", "cpus", "others"}
  BY <1>2, <1>5, NodeCpuAssumption DEF FillInv
<1>7. /\ hpthread_' \subseteq DOMAIN layout'
      /\ \A s \in Sockets : socket_hpthread_'[s] \subseteq OfSocket(s)'
      /\ \A k \in CoreIds : core_hpthread_'[k] \subseteq OfCore(k)'
  BY <1>2, SameMachine DEF FillInv
<1>8. /\ \A d \in Callers : at'[d] \in {"cpus", "others"} => NodesRead'
      /\ \A d \in Callers : at'[d] = "others" => CpusRead'
      /\ \A d \in Callers : at'[d] = "read" => (NodesRead' /\ CpusRead') \/ d \in overtaken'
      /\ has_data_' => NodesRead' /\ CpusRead'
  BY <1>2, <1>3, <1>4, <1>5 DEF FillInv
<1> QED BY <1>3, <1>5, <1>6, <1>7, <1>8 DEF FillInv

\* The same for /proc/cpuinfo.
LEMMA FillCpus ==
  ASSUME FillInv, NEW c \in Callers, RefreshCpus(c)
  PROVE  FillInv'
<1>1. CASE Throws(c) /\ UNCHANGED <<socket_hpthread_, core_hpthread_, hpthread_>>
  <2>1. /\ UNCHANGED <<layout, read, has_data_, overtaken>>
        /\ at[c] = "cpus"
        /\ Goto(c, "idle")
        /\ holder' = NoCaller
    BY <1>1 DEF RefreshCpus, read, Throws
  <2>2. holder = c
    BY <2>1 DEF FillInv
  <2> QED BY <2>1, <2>2, MoveFrame, NodeCpuAssumption DEF FillInv, AtLabels
<1>2. CASE /\ Goto(c, "others")
           /\ socket_hpthread_' = [s \in Sockets |-> socket_hpthread_[s] \cup OfSocket(s)]
           /\ core_hpthread_' = [k \in CoreIds |-> core_hpthread_[k] \cup OfCore(k)]
           /\ hpthread_' = hpthread_ \cup DOMAIN layout
           /\ UNCHANGED holder
  <2>1. /\ at[c] = "cpus"
        /\ UNCHANGED <<layout, node_hpthread_, has_data_, overtaken, holder>>
    BY <1>2 DEF RefreshCpus
  <2>2. CpusRead'
    BY <1>2, <2>1, SameMachine DEF FillInv, CpusRead
  <2>3. NodesRead' /\ NodesRead
    BY <2>1, SameMachine DEF FillInv, NodesRead
  <2>4. /\ at' \in [Callers -> AtLabels]
        /\ at'[c] = "others"
        /\ \A d \in Callers \ {c} : at'[d] = at[d]
    BY <1>2 DEF FillInv, Goto, AtLabels
  <2>5. \A d \in Callers : (holder' = d) <=> at'[d] \in {"nodes", "cpus", "others"}
    BY <2>1, <2>4 DEF FillInv
  <2>6. /\ hpthread_' \subseteq DOMAIN layout'
        /\ \A s \in Sockets : socket_hpthread_'[s] \subseteq OfSocket(s)'
        /\ \A k \in CoreIds : core_hpthread_'[k] \subseteq OfCore(k)'
        /\ \A n \in Nodes : node_hpthread_'[n] \subseteq Parsed(n)'
    BY <2>1, <2>2, <2>3 DEF CpusRead, NodesRead
  <2> QED BY <2>2, <2>3, <2>4, <2>5, <2>6 DEF FillInv
<1> QED BY <1>1, <1>2 DEF RefreshCpus

\* The tables are emptied while nobody holds the lock, and the flag falls with them;
\* whoever trusted it is overtaken.
LEMMA FillClear ==
  ASSUME FillInv, NEW c \in Callers, Clear(c)
  PROVE  FillInv'
<1>1. /\ holder = NoCaller
      /\ UNCHANGED <<layout, holder, at>>
      /\ has_data_' = FALSE
      /\ overtaken' = {d \in Callers : at[d] = "read"}
      /\ hpthread_' = {}
      /\ \A s \in Sockets : socket_hpthread_'[s] = {}
      /\ \A k \in CoreIds : core_hpthread_'[k] = {}
      /\ \A n \in Nodes : node_hpthread_'[n] = {}
  BY DEF Clear, Empty
<1>2. \A d \in Callers : at[d] \notin {"nodes", "cpus", "others"}
  BY <1>1, NodeCpuAssumption DEF FillInv
<1> QED BY <1>1, <1>2 DEF FillInv

\* Every step keeps what has_data_ stands for.
LEMMA NextFill == FillInv /\ [Next]_vars => FillInv'
<1> SUFFICES ASSUME FillInv, [Next]_vars PROVE FillInv'
  OBVIOUS
<1>1. ASSUME NEW c \in Callers, Check(c) PROVE FillInv'
  <2>1. /\ at[c] = "idle"
        /\ UNCHANGED <<layout, read, has_data_, holder, overtaken>>
        /\ \/ has_data_ /\ Goto(c, "read")
           \/ Goto(c, "lock")
    BY <1>1 DEF Check
  <2>2. holder # c
    BY <2>1 DEF FillInv
  <2> QED BY <2>1, <2>2, MoveFrame DEF FillInv, AtLabels
<1>2. ASSUME NEW c \in Callers, Lock(c) PROVE FillInv'
  <2>1. /\ holder = NoCaller /\ holder' = c /\ Goto(c, "nodes")
        /\ UNCHANGED <<layout, read, has_data_, overtaken>>
    BY <1>2 DEF Lock
  <2> QED BY <2>1, MoveFrame, NodeCpuAssumption DEF FillInv, AtLabels
<1>3. ASSUME NEW c \in Callers, RefreshNodes(c) PROVE FillInv'
  BY <1>3, FillNodes
<1>4. ASSUME NEW c \in Callers, RefreshCpus(c) PROVE FillInv'
  BY <1>4, FillCpus
<1>5. ASSUME NEW c \in Callers, RefreshOthers(c) PROVE FillInv'
  <2>1. /\ at[c] = "others" /\ holder' = NoCaller /\ Goto(c, "read")
        /\ UNCHANGED <<layout, read, overtaken>>
    BY <1>5 DEF RefreshOthers
  <2>2. holder = c /\ NodesRead /\ CpusRead
    BY <2>1 DEF FillInv
  <2> QED BY <2>1, <2>2, MoveFrame, NodeCpuAssumption DEF AtLabels
<1>6. ASSUME NEW c \in Callers, Read(c) PROVE FillInv'
  <2>1. /\ at[c] = "read" /\ holder = NoCaller /\ Goto(c, "idle")
        /\ overtaken' = overtaken \ {c}
        /\ UNCHANGED <<layout, read, has_data_, holder>>
    BY <1>6 DEF Read
  <2> QED BY <2>1, MoveFrame, NodeCpuAssumption DEF FillInv, AtLabels
<1>7. ASSUME NEW c \in Callers, Clear(c) PROVE FillInv'
  BY <1>7, FillClear
<1>8. CASE UNCHANGED vars
  BY <1>8, SameTables, SameMachine DEF vars, FillInv, read
<1> QED BY <1>1, <1>2, <1>3, <1>4, <1>5, <1>6, <1>7, <1>8 DEF Next

\* For any callers and machines, and whatever fails: has_data_ is up only with complete
\* tables, and only the holder of the lock fills them (node_cpu.cpp:213-301).
THEOREM FlagStandsForTables == Spec => []FillInv
  BY InitFill, NextFill, PTL DEF Spec

\* For any callers and machines a getter reads complete tables, unless a clear() came
\* between its look at has_data_ and its lock (node_cpu.cpp:30-90, 213-225).
THEOREM GettersReadFilled == Spec => ReadsFilled
<1>1. FillInv /\ [Next]_vars =>
        [\A c \in Callers : at[c] = "read" /\ at'[c] = "idle"
            => (NodesRead /\ CpusRead) \/ c \in overtaken]_vars
  BY DEF FillInv
<1> QED BY <1>1, FlagStandsForTables, PTL DEF Spec, ReadsFilled

-------------------------------------------------------------------------------
\* What is derived from the tables, and the lookups.

LEMMA SameDerived ==
  ASSUME UNCHANGED layout
  PROVE  /\ \A n : SocketsIn(n)' = SocketsIn(n) /\ CoresIn(n)' = CoresIn(n)
         /\ \A s : CoresOf(s)' = CoresOf(s)
  BY SameMachine DEF SocketsIn, CoresIn, CoresOf

LEMMA InitDerived == Init => DerivedInv
  BY DEF Init, DerivedInv, Empty

\* A step that leaves the derived tables and raises no flag.
LEMMA DerivedFrame ==
  ASSUME DerivedInv, UNCHANGED <<layout, derived>>, has_data_' => has_data_,
         DOMAIN node_hpthread_' = Nodes, DOMAIN socket_hpthread_' = Sockets, DOMAIN core_hpthread_' = CoreIds
  PROVE  DerivedInv'
<1>1. UNCHANGED <<layout, node_socket_, node_core_, socket_core_>>
  BY DEF derived
<1> QED
  BY <1>1, SameDerived DEF DerivedInv

\* refresh_others() finds the tables complete, and what it derives is the machine's.
LEMMA DerivedOthers ==
  ASSUME FillInv, DerivedInv, NEW c \in Callers, RefreshOthers(c)
  PROVE  DerivedInv'
<1>1. NodesRead /\ CpusRead /\ UNCHANGED <<layout, node_hpthread_, socket_hpthread_, core_hpthread_>>
  BY DEF RefreshOthers, FillInv, read
<1>2. /\ DOMAIN node_hpthread_ = Nodes /\ DOMAIN socket_hpthread_ = Sockets
      /\ DOMAIN core_hpthread_ = CoreIds
  BY DEF DerivedInv
<1>3. ASSUME NEW n \in Nodes
      PROVE  /\ Within(node_hpthread_, socket_hpthread_)[n] = SocketsIn(n)
             /\ Within(node_hpthread_, core_hpthread_)[n] = CoresIn(n)
  BY <1>1, <1>2 DEF Within, SocketsIn, CoresIn, NodesRead, CpusRead
<1>4. ASSUME NEW s \in Sockets PROVE Within(socket_hpthread_, core_hpthread_)[s] = CoresOf(s)
  BY <1>1, <1>2 DEF Within, CoresOf, CpusRead
<1>5. /\ node_socket_' = [n \in Nodes |-> node_socket_[n] \cup Within(node_hpthread_, socket_hpthread_)[n]]
      /\ node_core_' = [n \in Nodes |-> node_core_[n] \cup Within(node_hpthread_, core_hpthread_)[n]]
      /\ socket_core_' = [s \in Sockets |-> socket_core_[s] \cup Within(socket_hpthread_, core_hpthread_)[s]]
  BY DEF RefreshOthers
<1>6. ASSUME NEW n \in Nodes PROVE node_socket_'[n] = SocketsIn(n) /\ node_core_'[n] = CoresIn(n)
  <2>1. /\ node_socket_'[n] = node_socket_[n] \cup SocketsIn(n)
        /\ node_core_'[n] = node_core_[n] \cup CoresIn(n)
    BY <1>3, <1>5
  <2>2. node_socket_[n] \subseteq SocketsIn(n) /\ node_core_[n] \subseteq CoresIn(n)
    BY DEF DerivedInv
  <2> QED
    BY <2>1, <2>2
<1>7. ASSUME NEW s \in Sockets PROVE socket_core_'[s] = CoresOf(s)
  <2>1. socket_core_'[s] = socket_core_[s] \cup CoresOf(s)
    BY <1>4, <1>5
  <2>2. socket_core_[s] \subseteq CoresOf(s)
    BY DEF DerivedInv
  <2> QED
    BY <2>1, <2>2
<1>8. DOMAIN node_socket_' = Nodes /\ DOMAIN node_core_' = Nodes /\ DOMAIN socket_core_' = Sockets
  BY <1>5
<1>9. layout' \in Layouts
  BY <1>1 DEF DerivedInv
<1> QED
  BY <1>1, <1>2, <1>6, <1>7, <1>8, <1>9, SameDerived DEF DerivedInv

LEMMA NextDerived == FillInv /\ DerivedInv /\ [Next]_vars => DerivedInv'
<1> SUFFICES ASSUME FillInv, DerivedInv, [Next]_vars PROVE DerivedInv'
  OBVIOUS
<1>1. /\ DOMAIN node_hpthread_ = Nodes /\ DOMAIN socket_hpthread_ = Sockets
      /\ DOMAIN core_hpthread_ = CoreIds
  BY DEF DerivedInv
<1>2. ASSUME NEW c \in Callers, Check(c) \/ Lock(c) \/ Read(c) PROVE DerivedInv'
  BY <1>1, <1>2, DerivedFrame DEF Check, Lock, Read, read
<1>3. ASSUME NEW c \in Callers, RefreshNodes(c) PROVE DerivedInv'
  BY <1>1, <1>3, DerivedFrame DEF RefreshNodes
<1>4. ASSUME NEW c \in Callers, RefreshCpus(c) PROVE DerivedInv'
  BY <1>1, <1>4, DerivedFrame DEF RefreshCpus
<1>5. ASSUME NEW c \in Callers, RefreshOthers(c) PROVE DerivedInv'
  BY <1>5, DerivedOthers
<1>6. ASSUME NEW c \in Callers, Clear(c) PROVE DerivedInv'
  BY <1>6, SameDerived DEF Clear, Empty, DerivedInv
<1>7. CASE UNCHANGED vars
  BY <1>1, <1>7, DerivedFrame DEF vars, read
<1> QED
  BY <1>2, <1>3, <1>4, <1>5, <1>6, <1>7 DEF Next

\* For any callers and machines the derived tables hold nothing but what the complete
\* tables give, and all of that once has_data_ is up (node_cpu.cpp:303-329).
THEOREM DerivedTables == Spec => []DerivedInv
<1> QED
  BY InitDerived, NextDerived, FlagStandsForTables, PTL DEF Spec

\* The machine: its threads have one digit, and belong to its nodes, sockets and cores.
LEMMA MachineIs ==
  ASSUME DerivedInv, NEW h \in DOMAIN layout
  PROVE  /\ h \in Digits /\ layout[h].node \in Nodes /\ layout[h].socket \in Sockets
         /\ <<layout[h].socket, layout[h].core>> \in CoreIds
  BY NodeCpuAssumption DEF DerivedInv, CoreIds

\* The first of one id, and of one core.
LEMMA FirstOfOne ==
  /\ \A i \in Nat : FirstId({i}) = i
  /\ \A k : FirstCore({k}) = k
  /\ FirstId({}) = NoId
<1>1. ASSUME NEW i \in Nat PROVE FirstId({i}) = i
  BY DEF FirstId, Min
<1>2. ASSUME NEW k PROVE FirstCore({k}) = k
  BY DEF FirstCore
<1> QED
  BY <1>1, <1>2 DEF FirstId

\* The socket and the core that the lookups give for a thread are the machine's.
LEMMA ThreadLookups ==
  ASSUME FillInv, DerivedInv, has_data_, NEW h \in DOMAIN layout
  PROVE  /\ SocketOfHpthread(h) = layout[h].socket
         /\ CoreOfHpthread(h) = <<layout[h].socket, layout[h].core>>
<1>1. CpusRead /\ DOMAIN socket_hpthread_ = Sockets /\ DOMAIN core_hpthread_ = CoreIds
  BY DEF FillInv, DerivedInv
<1>2. layout[h].socket \in Sockets /\ <<layout[h].socket, layout[h].core>> \in CoreIds
  BY MachineIs
<1>3. get_key_by_value(socket_hpthread_, h) = {layout[h].socket}
  BY <1>1, <1>2 DEF get_key_by_value, CpusRead, OfSocket
<1>4. get_key_by_value(core_hpthread_, h) = {<<layout[h].socket, layout[h].core>>}
  BY <1>1, <1>2 DEF get_key_by_value, CpusRead, OfCore
<1>5. layout[h].socket \in Nat
  BY <1>2, NodeCpuAssumption
<1> QED
  BY <1>3, <1>4, <1>5, FirstOfOne DEF SocketOfHpthread, CoreOfHpthread

\* A well cut list of a node is read as its threads.
LEMMA ReadsThreads ==
  ASSUME CutsWell, DerivedInv, NEW n \in Nodes, WellCut(ThreadsOf(n))
  PROVE  Parsed(n) = ThreadsOf(n)
<1>1. ThreadsOf(n) \subseteq Digits
  BY MachineIs DEF ThreadsOf
<1> QED
  BY <1>1 DEF Parsed, CutsWell

\* For any callers and machines, and whatever failed before, the tables are the machine's
\* once has_data_ is up, if the kernel's lists are read back as they should
\* (node_cpu.cpp:213-301).
THEOREM TablesAreTheMachine == ASSUME CutsWell PROVE Spec => []FilledWhole
<1>1. FillInv /\ DerivedInv => FilledWhole
  <2> SUFFICES ASSUME FillInv, DerivedInv, has_data_ PROVE FilledWhole
    BY DEF FilledWhole
  <2>1. NodesRead /\ hpthread_ = DOMAIN layout
    BY DEF FillInv, CpusRead
  <2> QED
    BY <2>1, ThreadLookups, ReadsThreads DEF FilledWhole, NodesRead
<1> QED
  BY <1>1, FlagStandsForTables, DerivedTables, PTL

\* The node that the lookups give for a thread and its core is the machine's, if every
\* list of a node is well cut.
LEMMA NodeLookups ==
  ASSUME CutsWell, CoresWithinNodes, FillInv, DerivedInv, has_data_,
         \A n \in Nodes : WellCut(ThreadsOf(n)), NEW h \in DOMAIN layout
  PROVE  /\ NodeOfHpthread(h) = layout[h].node
         /\ NodeOfCore(<<layout[h].socket, layout[h].core>>) = layout[h].node
<1> DEFINE k == <<layout[h].socket, layout[h].core>>
           n == layout[h].node
<1>1. \A m \in Nodes : Parsed(m) = ThreadsOf(m)
  BY ReadsThreads
<1>2. /\ DOMAIN node_hpthread_ = Nodes /\ \A m \in Nodes : node_hpthread_[m] = ThreadsOf(m)
      /\ DOMAIN node_core_ = Nodes /\ \A m \in Nodes : node_core_[m] = CoresIn(m)
  BY <1>1 DEF FillInv, NodesRead, DerivedInv
<1>3. n \in Nodes /\ k \in CoreIds /\ n \in Nat
  BY MachineIs, NodeCpuAssumption
<1>4. get_key_by_value(node_hpthread_, h) = {n}
  BY <1>2, <1>3 DEF get_key_by_value, ThreadsOf
<1>5. h \in OfCore(k) /\ OfCore(k) \subseteq ThreadsOf(n)
  BY DEF OfCore, ThreadsOf, CoresWithinNodes, DerivedInv
<1> HIDE DEF k
<1>6. \A m \in Nodes : OfCore(k) \subseteq ThreadsOf(m) => m = n
  BY <1>5 DEF ThreadsOf
<1>7. get_key_by_value(node_core_, k) = {n}
  BY <1>1, <1>2, <1>3, <1>5, <1>6 DEF get_key_by_value, CoresIn
<1> QED
  BY <1>3, <1>4, <1>7, FirstOfOne DEF NodeOfHpthread, NodeOfCore, k

\* A socket has a node exactly if all its threads are of that node.
LEMMA SocketLookups ==
  ASSUME CutsWell, CoresWithinNodes, FillInv, DerivedInv, has_data_,
         \A n \in Nodes : WellCut(ThreadsOf(n)), NEW s \in get_keys(socket_hpthread_)
  PROVE  LET nodes == {NodeOfHpthread(h) : h \in socket_hpthread_[s]}
         IN  NodeOfSocket(s) = IF Cardinality(nodes) = 1 THEN CHOOSE n \in nodes : TRUE ELSE NoId
<1> DEFINE nodes == {NodeOfHpthread(h) : h \in socket_hpthread_[s]}
           keys  == get_key_by_value(node_socket_, s)
<1> SUFFICES NodeOfSocket(s) = IF Cardinality(nodes) = 1 THEN CHOOSE n \in nodes : TRUE ELSE NoId
  OBVIOUS
<1>1. /\ s \in Sockets /\ socket_hpthread_[s] = OfSocket(s) /\ OfSocket(s) # {}
      /\ DOMAIN node_socket_ = Nodes /\ \A m \in Nodes : node_socket_[m] = SocketsIn(m)
  BY DEF get_keys, FillInv, CpusRead, DerivedInv
<1>2. \A m \in Nodes : Parsed(m) = ThreadsOf(m)
  BY ReadsThreads
<1>3. OfSocket(s) \subseteq DOMAIN layout
  BY DEF OfSocket
<1>4. nodes = {layout[h].node : h \in OfSocket(s)}
  BY <1>1, <1>3, NodeLookups
<1>5. nodes \subseteq Nodes /\ IsFiniteSet(nodes)
  <2>1. nodes \subseteq Nodes
    BY <1>3, <1>4, MachineIs
  <2> QED
    BY <2>1, NodeCpuAssumption, FS_Subset
<1>6. keys = {m \in Nodes : OfSocket(s) \subseteq ThreadsOf(m)}
  BY <1>1, <1>2 DEF get_key_by_value, SocketsIn
<1>7. \A m \in Nodes : OfSocket(s) \subseteq ThreadsOf(m) <=> \A h \in OfSocket(s) : layout[h].node = m
  BY <1>3 DEF ThreadsOf
<1>8. \A m \in Nodes : m \in keys <=> nodes = {m}
  <2> SUFFICES ASSUME NEW m \in Nodes PROVE m \in keys <=> nodes = {m}
    OBVIOUS
  <2> HIDE DEF keys, nodes
  <2>1. m \in keys <=> \A h \in OfSocket(s) : layout[h].node = m
    BY <1>6, <1>7
  <2>2. (\A h \in OfSocket(s) : layout[h].node = m) <=> nodes = {m}
    BY <1>1, <1>4
  <2> QED
    BY <2>1, <2>2
<1> HIDE DEF keys, nodes
<1>9. CASE Cardinality(nodes) = 1
  <2>1. PICK n : nodes = {n}
    BY <1>5, <1>9, FS_Singleton
  <2>2. keys \subseteq Nodes
    BY <1>6
  <2>3. keys = {n} /\ n \in Nat
    BY <1>5, <1>8, <2>1, <2>2, NodeCpuAssumption
  <2>4. NodeOfSocket(s) = n
    BY <2>3, FirstOfOne DEF NodeOfSocket, keys
  <2> QED
    BY <1>9, <2>1, <2>4
<1>10. CASE Cardinality(nodes) # 1
  <2>1. \A m \in Nodes : nodes # {m}
    BY <1>10, FS_Singleton
  <2>2. keys = {}
    BY <1>6, <1>8, <2>1
  <2> QED
    BY <1>10, <2>2, FirstOfOne DEF NodeOfSocket, keys
<1> QED
  BY <1>9, <1>10

\* For any callers and machines whose cores lie within nodes, the lookups agree with each
\* other, whichever table they take the way through (node_cpu.cpp:97-165, 303-329).
THEOREM LookupsAreOfOneMachine == ASSUME CutsWell, CoresWithinNodes PROVE Spec => []LookupsAgree
<1>1. FillInv /\ DerivedInv => LookupsAgree
  <2> SUFFICES ASSUME FillInv, DerivedInv, has_data_, \A n \in Nodes : WellCut(ThreadsOf(n))
               PROVE  LookupsAgree
    BY DEF LookupsAgree
  <2>1. hpthread_ = DOMAIN layout /\ \A s \in Sockets : socket_core_[s] = CoresOf(s)
    BY DEF FillInv, CpusRead, DerivedInv
  <2>2. ASSUME NEW h \in hpthread_
        PROVE  /\ NodeOfCore(CoreOfHpthread(h)) = NodeOfHpthread(h)
               /\ SocketOfCore(CoreOfHpthread(h)) = SocketOfHpthread(h)
               /\ CoreOfHpthread(h) \in get_value_by_key(socket_core_, SocketOfHpthread(h))
    <3> DEFINE k == <<layout[h].socket, layout[h].core>>
    <3>1. CoreOfHpthread(h) = k /\ SocketOfHpthread(h) = layout[h].socket
      BY <2>1, ThreadLookups
    <3>2. NodeOfCore(k) = NodeOfHpthread(h)
      BY <2>1, NodeLookups
    <3>3. SocketOfCore(k) = layout[h].socket
      BY DEF SocketOfCore
    <3>4. layout[h].socket \in Sockets /\ k \in CoreIds /\ h \in OfCore(k)
      BY <2>1, MachineIs DEF OfCore
    <3>5. OfCore(k) \subseteq OfSocket(layout[h].socket)
      BY DEF OfCore, OfSocket
    <3> HIDE DEF k
    <3>6. k \in socket_core_[layout[h].socket]
      BY <2>1, <3>4, <3>5 DEF CoresOf
    <3> QED
      BY <3>1, <3>2, <3>3, <3>6 DEF get_value_by_key
  <2> QED
    BY <2>2, SocketLookups DEF LookupsAgree
<1> QED
  BY <1>1, FlagStandsForTables, DerivedTables, PTL
================================================================================
