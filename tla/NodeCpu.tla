-------------------------------- MODULE NodeCpu --------------------------------
(****************************************************************************)
(* NodeCpu (src/src/sysinfo/host/static/node_cpu.cpp): which hardware       *)
(* threads, cores, sockets and NUMA nodes belong together.  The tables are  *)
(* filled once, from the nodes' cpulist files and /proc/cpuinfo, by the     *)
(* first call that finds has_data_ down; has_data_ is tested without the    *)
(* lock, so that several calls may find it down and fill the tables in turn.*)
(*                                                                          *)
(* A table maps an id to a set; an id that has no entry is mapped to {}.    *)
(* The ids of hardware threads have one digit, so that a cpulist is a       *)
(* sequence of digits, commas and dashes.                                   *)
(****************************************************************************)
EXTENDS Integers, Sequences, FiniteSets, SequencesExt, FiniteSetsExt

CONSTANTS Callers,  \* threads of the program
          NoCaller, \* nobody
          Nodes, Sockets, CoreNos,
          Layouts,  \* the machines: for each online hardware thread its node, socket, core id
          MayFail   \* whether files may fail to open, and the program may clear()

Digits == 0..9
CoreIds == Sockets \X CoreNos
NoId   == -1

ASSUME NodeCpuAssumption ==
    /\ NoCaller \notin Callers
    /\ Nodes \subseteq Nat /\ IsFiniteSet(Nodes) /\ Sockets \subseteq Nat /\ CoreNos \subseteq Nat
    /\ MayFail \in BOOLEAN
    /\ \A l \in Layouts : \A h \in DOMAIN l :
          h \in Digits /\ l[h].node \in Nodes /\ l[h].socket \in Sockets /\ l[h].core \in CoreNos

VARIABLES layout,                                    \* the machine
          node_hpthread_, socket_hpthread_, core_hpthread_, hpthread_,
          node_socket_, node_core_, socket_core_,
          has_data_,
          holder,    \* who has data_mutex_ exclusively
          at,        \* at[c]: where caller c is
          overtaken  \* the callers that have seen has_data_ up and then a clear() (history)

read    == <<node_hpthread_, socket_hpthread_, core_hpthread_, hpthread_>>
derived == <<node_socket_, node_core_, socket_core_>>
vars    == <<layout, read, derived, has_data_, holder, at, overtaken>>

AtLabels == {"idle", "lock", "nodes", "cpus", "others", "read"}

Empty(S) == [s \in S |-> {}]

Init == /\ layout \in Layouts
        /\ node_hpthread_ = Empty(Nodes)
        /\ socket_hpthread_ = Empty(Sockets)
        /\ core_hpthread_ = Empty(CoreIds)
        /\ hpthread_ = {}
        /\ node_socket_ = Empty(Nodes)
        /\ node_core_ = Empty(Nodes)
        /\ socket_core_ = Empty(Sockets)
        /\ has_data_ = FALSE
        /\ holder = NoCaller
        /\ at = [c \in Callers |-> "idle"]
        /\ overtaken = {}

-------------------------------------------------------------------------------
\* cpulist: "0-2,4" is <<0, Dash, 2, Comma, 4>>

Comma == 10
Dash  == 11

ThreadsOf(n) == {h \in DOMAIN layout : layout[h].node = n}
OfSocket(s)  == {h \in DOMAIN layout : layout[h].socket = s}
OfCore(k)    == {h \in DOMAIN layout : <<layout[h].socket, layout[h].core>> = k}

\* The maximal intervals of S, in order, as <<first, last>>.
Intervals(S) ==
    LET firsts  == {h \in S : h - 1 \notin S}
        End(h)  == CHOOSE e \in S : e >= h /\ h..e \subseteq S /\ e + 1 \notin S
    IN  SetToSortSeq({<<h, End(h)>> : h \in firsts}, LAMBDA v, w : v[1] < w[1])

\* What the kernel writes for a node with the threads S.
CpuList(S) ==
    LET parts == Intervals(S)
        Text(i) == (IF i > 1 THEN <<Comma>> ELSE <<>>)
                   \o (IF parts[i][1] = parts[i][2] THEN <<parts[i][1]>>
                       ELSE <<parts[i][1], Dash, parts[i][2]>>)
    IN  FlattenSeq([i \in DOMAIN parts |-> Text(i)])

\* The parts that the loop of refresh_node_hpthread() cuts out of a list: a part ends
\* before a comma or at the end of the list, and begins behind the comma before; but
\* the number of characters taken is counted from the start of the line.
PartsOf(list) ==
    LET n        == Len(list)
        Ends     == {i \in 1..n : list[i] = Comma \/ i = n}
        Count(i) == IF i = n THEN n ELSE i - 1
        Begin(i) == 1 + Max({0} \cup {j \in 1..(i - 1) : list[j] = Comma})
    IN  {SubSeq(list, Begin(i), Min({n, Begin(i) + Count(i) - 1})) : i \in Ends}

FirstDash(part) == CHOOSE i \in DOMAIN part : part[i] = Dash /\ \A j \in 1..(i - 1) : part[j] # Dash

\* Fault: the end of a range does not belong to it.
PartThreadsOpen(part) == IF Contains(part, Dash) THEN part[1]..(part[FirstDash(part) + 1] - 1)
                         ELSE {part[1]}

\* stoi() reads the digit it begins with and ignores what follows.
PartThreads(part) == IF Contains(part, Dash) THEN part[1]..part[FirstDash(part) + 1]
                     ELSE {part[1]}

ThreadsIn(list) == UNION {PartThreads(p) : p \in PartsOf(list)}

Parsed(n) == ThreadsIn(CpuList(ThreadsOf(n)))

\* The lists that are cut without harm: no single thread stands between two commas
\* with a range behind it, which the overlong cut may reach.
WellCut(S) == LET parts == Intervals(S)
                  Single(i) == parts[i][1] = parts[i][2]
              IN  \A i, j \in DOMAIN parts : 1 < i /\ i < j /\ Single(i) => Single(j)

-------------------------------------------------------------------------------
\* refresh()

Goto(c, l) == at' = [at EXCEPT ![c] = l]

\* Fault: the caller is not sent to fill the tables when it is the second one.
CheckTrusts(c) == /\ at[c] = "idle"
                  /\ Goto(c, IF has_data_ \/ holder # NoCaller THEN "read" ELSE "lock")
                  /\ UNCHANGED <<layout, read, derived, has_data_, holder, overtaken>>

Check(c) == /\ at[c] = "idle"
            /\ Goto(c, IF has_data_ THEN "read" ELSE "lock")
            /\ UNCHANGED <<layout, read, derived, has_data_, holder, overtaken>>

Lock(c) == /\ at[c] = "lock"
           /\ holder = NoCaller
           /\ holder' = c
           /\ Goto(c, "nodes")
           /\ UNCHANGED <<layout, read, derived, has_data_, overtaken>>

\* Fault: the exception leaves the call with the mutex locked.
ThrowsLocked(c) == /\ MayFail
                   /\ Goto(c, "idle")
                   /\ UNCHANGED holder

\* The exception unlocks the mutex and leaves the call.
Throws(c) == /\ MayFail
             /\ holder' = NoCaller
             /\ Goto(c, "idle")

\* refresh_node_hpthread(): a cpulist that does not open ends it between two nodes;
\* the directories are read in no particular order.
RefreshNodes(c) ==
    /\ at[c] = "nodes"
    /\ \E done \in SUBSET Nodes :
         /\ IF done = Nodes THEN Goto(c, "cpus") /\ UNCHANGED holder ELSE Throws(c)
         /\ node_hpthread_' = [n \in Nodes |-> node_hpthread_[n] \cup (IF n \in done THEN Parsed(n) ELSE {})]
    /\ UNCHANGED <<layout, socket_hpthread_, core_hpthread_, hpthread_, derived, has_data_, overtaken>>

\* refresh_socket_core_hpthread()
RefreshCpus(c) ==
    /\ at[c] = "cpus"
    /\ \/ Throws(c) /\ UNCHANGED <<socket_hpthread_, core_hpthread_, hpthread_>>
       \/ /\ Goto(c, "others")
          /\ socket_hpthread_' = [s \in Sockets |-> socket_hpthread_[s] \cup OfSocket(s)]
          /\ core_hpthread_' = [k \in CoreIds |-> core_hpthread_[k] \cup OfCore(k)]
          /\ hpthread_' = hpthread_ \cup DOMAIN layout
          /\ UNCHANGED holder
    /\ UNCHANGED <<layout, node_hpthread_, derived, has_data_, overtaken>>

\* Fault: it is enough that an outer and an inner set meet.
WithinMeets(outer, inner) ==
    [o \in DOMAIN outer |-> {i \in DOMAIN inner : outer[o] \cap inner[i] # {}}]

\* Of two tables of threads: for each outer id the inner ids with all threads in it.
Within(outer, inner) ==
    [o \in DOMAIN outer |-> {i \in DOMAIN inner : inner[i] # {} /\ inner[i] \subseteq outer[o]}]

\* refresh_others(), and the end of refresh()
RefreshOthers(c) ==
    /\ at[c] = "others"
    /\ node_socket_' = [n \in Nodes |-> node_socket_[n] \cup Within(node_hpthread_, socket_hpthread_)[n]]
    /\ node_core_' = [n \in Nodes |-> node_core_[n] \cup Within(node_hpthread_, core_hpthread_)[n]]
    /\ socket_core_' = [s \in Sockets |-> socket_core_[s] \cup Within(socket_hpthread_, core_hpthread_)[s]]
    /\ has_data_' = TRUE
    /\ holder' = NoCaller
    /\ Goto(c, "read")
    /\ UNCHANGED <<layout, read, overtaken>>

-------------------------------------------------------------------------------
\* The getters read one table under a shared lock, after refresh().

get_keys(data) == {k \in DOMAIN data : data[k] # {}}
get_value_by_key(data, key) == data[key]

\* The keys under which a table has the value; the first of them is taken.
get_key_by_value(data, value) == {k \in DOMAIN data : value \in data[k]}

FirstId(keys) == IF keys = {} THEN NoId ELSE Min(keys)

LessCore(j, k) == j[1] < k[1] \/ (j[1] = k[1] /\ j[2] < k[2])

FirstCore(keys) == IF keys = {} THEN <<NoId, NoId>>
                   ELSE CHOOSE k \in keys : \A j \in keys \ {k} : LessCore(k, j)

NodeOfSocket(s)     == FirstId(get_key_by_value(node_socket_, s))
NodeOfCore(k)       == FirstId(get_key_by_value(node_core_, k))
NodeOfHpthread(h)   == FirstId(get_key_by_value(node_hpthread_, h))
SocketOfHpthread(h) == FirstId(get_key_by_value(socket_hpthread_, h))
CoreOfHpthread(h)   == FirstCore(get_key_by_value(core_hpthread_, h))
SocketOfCore(k)     == k[1]

Read(c) == /\ at[c] = "read"
           /\ holder = NoCaller
           /\ Goto(c, "idle")
           /\ overtaken' = overtaken \ {c}
           /\ UNCHANGED <<layout, read, derived, has_data_, holder>>

\* clear(), which the program may call
Clear(c) == /\ MayFail
            /\ at[c] = "idle"
            /\ holder = NoCaller
            /\ node_hpthread_' = Empty(Nodes)
            /\ socket_hpthread_' = Empty(Sockets)
            /\ core_hpthread_' = Empty(CoreIds)
            /\ hpthread_' = {}
            /\ node_socket_' = Empty(Nodes)
            /\ node_core_' = Empty(Nodes)
            /\ socket_core_' = Empty(Sockets)
            /\ has_data_' = FALSE
            /\ overtaken' = {d \in Callers : at[d] = "read"}
            /\ UNCHANGED <<layout, holder, at>>

Next == \E c \in Callers : \/ Check(c) \/ Lock(c)
                           \/ RefreshNodes(c) \/ RefreshCpus(c) \/ RefreshOthers(c)
                           \/ Read(c) \/ Clear(c)

Spec == Init /\ [][Next]_vars

-------------------------------------------------------------------------------
\* Once has_data_ is up the node of every hardware thread is the machine's, however
\* many calls filled the tables one after the other and whatever attempts failed
\* before: reading a well cut cpulist inverts what the kernel wrote
\* (node_cpu.cpp:213-301).
FilledWhole ==
    has_data_ => /\ hpthread_ = DOMAIN layout
                 /\ \A h \in hpthread_ : /\ SocketOfHpthread(h) = layout[h].socket
                                         /\ CoreOfHpthread(h) = <<layout[h].socket, layout[h].core>>
                 /\ \A n \in Nodes : WellCut(ThreadsOf(n)) => node_hpthread_[n] = ThreadsOf(n)

\* The lookups agree with each other, whichever table they take the way through: the
\* node of a core is the node of its threads, and a socket has a node exactly if all
\* its threads are of one (node_cpu.cpp:97-165, 303-329).
LookupsAgree ==
    has_data_ /\ (\A n \in Nodes : WellCut(ThreadsOf(n))) =>
        /\ \A h \in hpthread_ : /\ NodeOfCore(CoreOfHpthread(h)) = NodeOfHpthread(h)
                                /\ SocketOfCore(CoreOfHpthread(h)) = SocketOfHpthread(h)
                                /\ CoreOfHpthread(h) \in get_value_by_key(socket_core_, SocketOfHpthread(h))
        /\ \A s \in get_keys(socket_hpthread_) :
              LET nodes == {NodeOfHpthread(h) : h \in socket_hpthread_[s]}
              IN  NodeOfSocket(s) = IF Cardinality(nodes) = 1 THEN CHOOSE n \in nodes : TRUE ELSE NoId

\* Everything that /proc/cpuinfo says is in the tables.
CpusRead == /\ hpthread_ = DOMAIN layout
            /\ \A s \in Sockets : socket_hpthread_[s] = OfSocket(s)
            /\ \A k \in CoreIds : core_hpthread_[k] = OfCore(k)

\* Everything that the cpulist files say, as they are parsed, is in the tables.
NodesRead == \A n \in Nodes : node_hpthread_[n] = Parsed(n)

\* Why has_data_ can be trusted: who fills the tables holds the lock, failed attempts
\* leave nothing that the files do not say, and the flag goes up behind the last table
\* (node_cpu.cpp:213-301).
FillInv ==
    /\ at \in [Callers -> AtLabels]
    /\ hpthread_ \subseteq DOMAIN layout
    /\ \A s \in Sockets : socket_hpthread_[s] \subseteq OfSocket(s)
    /\ \A k \in CoreIds : core_hpthread_[k] \subseteq OfCore(k)
    /\ \A n \in Nodes : node_hpthread_[n] \subseteq Parsed(n)
    /\ \A c \in Callers : (holder = c) <=> at[c] \in {"nodes", "cpus", "others"}
    /\ \A c \in Callers : at[c] \in {"cpus", "others"} => NodesRead
    /\ \A c \in Callers : at[c] = "others" => CpusRead
    /\ \A c \in Callers : at[c] = "read" => (NodesRead /\ CpusRead) \/ c \in overtaken
    /\ has_data_ => NodesRead /\ CpusRead

\* What refresh_others() derives, if it finds the tables complete.
SocketsIn(n) == {s \in Sockets : OfSocket(s) # {} /\ OfSocket(s) \subseteq Parsed(n)}
CoresIn(n)   == {k \in CoreIds : OfCore(k) # {} /\ OfCore(k) \subseteq Parsed(n)}
CoresOf(s)   == {k \in CoreIds : OfCore(k) # {} /\ OfCore(k) \subseteq OfSocket(s)}

\* The derived tables hold nothing else at any time, and all of it once the flag is up.
DerivedInv ==
    /\ layout \in Layouts
    /\ DOMAIN node_hpthread_ = Nodes /\ DOMAIN socket_hpthread_ = Sockets /\ DOMAIN core_hpthread_ = CoreIds
    /\ DOMAIN node_socket_ = Nodes /\ DOMAIN node_core_ = Nodes /\ DOMAIN socket_core_ = Sockets
    /\ \A n \in Nodes : node_socket_[n] \subseteq SocketsIn(n) /\ node_core_[n] \subseteq CoresIn(n)
    /\ \A s \in Sockets : socket_core_[s] \subseteq CoresOf(s)
    /\ has_data_ => /\ \A n \in Nodes : node_socket_[n] = SocketsIn(n) /\ node_core_[n] = CoresIn(n)
                    /\ \A s \in Sockets : socket_core_[s] = CoresOf(s)

\* What the proofs ask for: reading a list that is cut without harm inverts what the kernel
\* wrote (there are 1024 sets of ten threads), and the threads of a core are of one node.
CutsWell == \A S \in SUBSET Digits : WellCut(S) => ThreadsIn(CpuList(S)) = S

CoresWithinNodes ==
    \A l \in Layouts : \A g, h \in DOMAIN l :
        l[g].socket = l[h].socket /\ l[g].core = l[h].core => l[g].node = l[h].node

\* A getter reads filled tables, although has_data_ is tested before the lock, unless
\* a clear() came between the test and the read (node_cpu.cpp:213-225, 199-211).
ReadsFilled ==
    [][\A c \in Callers : at[c] = "read" /\ at'[c] = "idle"
                             => (NodesRead /\ CpusRead) \/ c \in overtaken]_vars
================================================================================
