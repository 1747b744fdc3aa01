----------------------- MODULE AgentLaunching_proofs -----------------------
(***************************************************************************)
(* Agents are launched and recorded in good order, for every set of apps,  *)
(* devices and commands, and any number of restarts.                       *)
(***************************************************************************)
EXTENDS AgentLaunching, FiniteSetTheorems, SequenceTheorems, TLAPS

-----------------------------------------------------------------------------
(* What is recorded of a device: device_info first, the table of its type  *)
(* next, its launch file last.                                             *)

Ops == {"launch", "disable", "insert", "disabled", "check", "info", "type", "file",
        "load-agent", "start-agent", "stop-agent"}
Steps == [op : Ops, name : Names]

\* In what discovery has yet to do, the record a step relies on is there, or
\* an earlier step makes it.
Ordered(q, inKnown, inTyped) ==
  \A i \in 1 .. Len(q) :
    /\ q[i].op \in {"info", "type", "file"} => q[i].name \in Devices
    /\ q[i].op = "check" => Len(q) = 1
    /\ q[i].op = "type" =>
         q[i].name \in inKnown \/ \E j \in 1 .. i - 1 : q[j] = Do("info", q[i].name)
    /\ q[i].op = "file" =>
         q[i].name \in inTyped \/ \E j \in 1 .. i - 1 : q[j] = Do("type", q[i].name)

RecordsOK ==
  /\ {alive, launcherUp, initiated} \subseteq BOOLEAN /\ read \in BOOLEAN
  /\ row \in [Apps -> {"none", "running", "disabled"}]
  /\ typed \subseteq known /\ known \subseteq Devices /\ bemoss \subseteq known
  /\ files \subseteq typed
  /\ restarts \in 0 .. MaxRestarts

OrderInv ==
  /\ PlatformTypeOK
  /\ RecordsOK
  /\ todo \in [Clients -> Seq(Steps)]
  /\ Ordered(todo[Discovery], known, typed)

LEMMA Popped ==
  ASSUME NEW q \in Seq(Steps), q # <<>>, NEW k, NEW t, NEW k2, NEW t2,
         Ordered(q, k, t), k \subseteq k2, t \subseteq t2,
         Head(q).op = "info" => Head(q).name \in k2,
         Head(q).op = "type" => Head(q).name \in t2
  PROVE  Ordered(Tail(q), k2, t2)
<1> DEFINE p == Tail(q)
<1>1. /\ Len(p) = Len(q) - 1 /\ Len(q) \in Nat
      /\ \A i \in 1 .. Len(p) : p[i] = q[i + 1] /\ i + 1 \in 1 .. Len(q)
      /\ Head(q) = q[1]
  OBVIOUS
<1> HIDE DEF p
<1>2. ASSUME NEW i \in 1 .. Len(p), NEW o, NEW n, NEW j \in 1 .. (i + 1) - 1, q[j] = Do(o, n),
             ~ \E l \in 1 .. i - 1 : p[l] = Do(o, n)
      PROVE  Head(q) = Do(o, n)
  <2>1. CASE j = 1
    BY <1>1, <1>2, <2>1
  <2>2. CASE j # 1
    <3>1. j - 1 \in 1 .. i - 1 /\ j - 1 \in 1 .. Len(p) /\ (j - 1) + 1 = j
      BY <1>1, <2>2
    <3>2. p[j - 1] = q[j]
      BY <1>1, <3>1
    <3> QED
      BY <1>2, <3>1, <3>2
  <2> QED
    BY <2>1, <2>2
<1>3. Do("info", Head(q).name).op = "info" /\ Do("type", Head(q).name).op = "type"
  BY DEF Do
<1>4. SUFFICES ASSUME NEW i \in 1 .. Len(p)
               PROVE  /\ p[i].op \in {"info", "type", "file"} => p[i].name \in Devices
                      /\ p[i].op = "check" => Len(p) = 1
                      /\ p[i].op = "type" =>
                           p[i].name \in k2 \/ \E j \in 1 .. i - 1 : p[j] = Do("info", p[i].name)
                      /\ p[i].op = "file" =>
                           p[i].name \in t2 \/ \E j \in 1 .. i - 1 : p[j] = Do("type", p[i].name)
  BY DEF Ordered, p
<1>5. p[i] = q[i + 1] /\ i + 1 \in 1 .. Len(q) /\ i + 1 # 1
  BY <1>1
<1>6. /\ q[i + 1].op \in {"info", "type", "file"} => q[i + 1].name \in Devices
      /\ q[i + 1].op = "check" => Len(q) = 1
      /\ q[i + 1].op = "type" =>
           q[i + 1].name \in k \/ \E j \in 1 .. (i + 1) - 1 : q[j] = Do("info", q[i + 1].name)
      /\ q[i + 1].op = "file" =>
           q[i + 1].name \in t \/ \E j \in 1 .. (i + 1) - 1 : q[j] = Do("type", q[i + 1].name)
  BY <1>5 DEF Ordered
<1>7. ASSUME p[i].op = "type", p[i].name \notin k2,
             ~ \E j \in 1 .. i - 1 : p[j] = Do("info", p[i].name)
      PROVE  FALSE
  <2>1. PICK j \in 1 .. (i + 1) - 1 : q[j] = Do("info", p[i].name)
    BY <1>5, <1>6, <1>7
  <2>2. Head(q) = Do("info", p[i].name)
    BY <1>2, <1>7, <2>1
  <2> QED
    BY <1>7, <2>2 DEF Do
<1>8. ASSUME p[i].op = "file", p[i].name \notin t2,
             ~ \E j \in 1 .. i - 1 : p[j] = Do("type", p[i].name)
      PROVE  FALSE
  <2>1. PICK j \in 1 .. (i + 1) - 1 : q[j] = Do("type", p[i].name)
    BY <1>5, <1>6, <1>8
  <2>2. Head(q) = Do("type", p[i].name)
    BY <1>2, <1>8, <2>1
  <2> QED
    BY <1>8, <2>2 DEF Do
<1> QED
  BY <1>1, <1>5, <1>6, <1>7, <1>8

\* A command relies on no record.
LEMMA PushedCommands ==
  ASSUME NEW d \in Names, NEW k, NEW t
  PROVE  /\ <<>> \in Seq(Steps) /\ Ordered(<<>>, k, t)
         /\ <<Do("stop-agent", d)>> \in Seq(Steps) /\ Ordered(<<Do("stop-agent", d)>>, k, t)
         /\ LaunchAgent(d) \in Seq(Steps) /\ Ordered(LaunchAgent(d), k, t)
<1>1. \A o \in Ops : /\ Do(o, d) \in Steps
                     /\ Do(o, d).op = o /\ Do(o, d).name = d
  BY DEF Steps, Do
<1>2. <<>> \in Seq(Steps) /\ Ordered(<<>>, k, t)
  BY DEF Ordered
<1>3. <<Do("stop-agent", d)>> \in Seq(Steps) /\ Ordered(<<Do("stop-agent", d)>>, k, t)
  <2>1. Do("stop-agent", d) \in Steps /\ Do("stop-agent", d).op = "stop-agent"
    BY <1>1 DEF Ops
  <2> QED
    BY <2>1 DEF Ordered
<1>4. LaunchAgent(d) \in Seq(Steps) /\ Ordered(LaunchAgent(d), k, t)
  <2> DEFINE q == LaunchAgent(d)
  <2>1. /\ q \in Seq(Steps) /\ Len(q) = 3
        /\ q[1].op = "stop-agent" /\ q[2].op = "load-agent" /\ q[3].op = "start-agent"
    BY <1>1 DEF LaunchAgent, Ops
  <2> HIDE DEF q
  <2>2. \A i \in 1 .. Len(q) : q[i].op \in {"stop-agent", "load-agent", "start-agent"}
    BY <2>1
  <2>3. Ordered(q, k, t)
    BY <2>2 DEF Ordered
  <2> QED
    BY <2>1, <2>3 DEF q
<1> QED
  BY <1>2, <1>3, <1>4

LEMMA Pushed ==
  ASSUME NEW d \in Devices, NEW k, NEW t
  PROVE  /\ <<Do("check", d)>> \in Seq(Steps) /\ Ordered(<<Do("check", d)>>, k, t)
         /\ NewDevice(d) \o LaunchAgent(d) \in Seq(Steps)
         /\ Ordered(NewDevice(d) \o LaunchAgent(d), k, t)
<1>1. \A o \in Ops : /\ Do(o, d) \in Steps
                     /\ Do(o, d).op = o /\ Do(o, d).name = d
  BY ClientsAssumption DEF Steps, Do
<1>2. <<Do("check", d)>> \in Seq(Steps) /\ Ordered(<<Do("check", d)>>, k, t)
  <2>1. Do("check", d) \in Steps /\ Do("check", d).op = "check"
    BY <1>1 DEF Ops
  <2> QED
    BY <2>1 DEF Ordered
<1>3. /\ NewDevice(d) \o LaunchAgent(d) \in Seq(Steps)
      /\ Ordered(NewDevice(d) \o LaunchAgent(d), k, t)
  <2> DEFINE p == NewDevice(d)
             l == LaunchAgent(d)
             q == p \o l
  <2>1. /\ p \in Seq(Steps) /\ Len(p) = 3
        /\ p[1] = Do("info", d) /\ p[2] = Do("type", d) /\ p[3] = Do("file", d)
    BY <1>1 DEF NewDevice, Ops
  <2>2. /\ l \in Seq(Steps) /\ Len(l) = 3
        /\ \A i \in 1 .. 3 : l[i].op \in {"stop-agent", "load-agent", "start-agent"}
    <3>1. /\ l \in Seq(Steps) /\ Len(l) = 3
          /\ l[1].op = "stop-agent" /\ l[2].op = "load-agent" /\ l[3].op = "start-agent"
      BY <1>1 DEF LaunchAgent, Ops
    <3> HIDE DEF l
    <3> QED
      BY <3>1
  <2>3. /\ Do("info", d).op = "info" /\ Do("info", d).name = d
        /\ Do("type", d).op = "type" /\ Do("type", d).name = d
        /\ Do("file", d).op = "file" /\ Do("file", d).name = d
    BY <1>1 DEF Ops
  <2> HIDE DEF p, l
  <2>4. /\ Len(q) = 6 /\ q \in Seq(Steps)
        /\ q[1] = p[1] /\ q[2] = p[2] /\ q[3] = p[3]
        /\ \A i \in 4 .. 6 : q[i] = l[i - 3]
    <3>1. /\ q \in Seq(Steps) /\ Len(q) = Len(p) + Len(l)
          /\ \A i \in 1 .. Len(p) + Len(l) :
               q[i] = IF i <= Len(p) THEN p[i] ELSE l[i - Len(p)]
      BY <2>1, <2>2, ConcatProperties
    <3> HIDE DEF q
    <3> QED
      BY <2>1, <2>2, <3>1
  <2> HIDE DEF q
  <2>5. \A i \in 4 .. 6 : q[i].op \in {"stop-agent", "load-agent", "start-agent"}
    BY <2>2, <2>4
  <2>6. \A i \in 1 .. Len(q) : i = 1 \/ i = 2 \/ i = 3 \/ i \in 4 .. 6
    BY <2>4
  <2>7. ASSUME NEW i \in 1 .. Len(q)
        PROVE  /\ q[i].op \in {"info", "type", "file"} => q[i].name \in Devices
               /\ q[i].op = "check" => Len(q) = 1
               /\ q[i].op = "type" =>
                    q[i].name \in k \/ \E j \in 1 .. i - 1 : q[j] = Do("info", q[i].name)
               /\ q[i].op = "file" =>
                    q[i].name \in t \/ \E j \in 1 .. i - 1 : q[j] = Do("type", q[i].name)
    <3>1. CASE i = 1
      BY <2>1, <2>3, <2>4, <3>1
    <3>2. CASE i = 2
      <4>1. 1 \in 1 .. i - 1 /\ q[1] = Do("info", d)
        BY <2>1, <2>4, <3>2
      <4> QED
        BY <2>1, <2>3, <2>4, <3>2, <4>1
    <3>3. CASE i = 3
      <4>1. 2 \in 1 .. i - 1 /\ q[2] = Do("type", d)
        BY <2>1, <2>4, <3>3
      <4> QED
        BY <2>1, <2>3, <2>4, <3>3, <4>1
    <3>4. CASE i \in 4 .. 6
      BY <2>5, <3>4
    <3> QED
      BY <2>6, <3>1, <3>2, <3>3, <3>4
  <2>8. Ordered(q, k, t)
    BY <2>7 DEF Ordered
  <2> QED
    BY <2>4, <2>8 DEF q, p, l
<1> QED
  BY <1>2, <1>3

LEMMA OrderTypes == OrderInv => TypeOK
<1> SUFFICES ASSUME OrderInv
             PROVE  TypeOK
  OBVIOUS
<1>1. ASSUME NEW c \in Clients, NEW i \in DOMAIN todo[c]
      PROVE  todo[c][i].name \in Names
  <2>1. todo[c] \in Seq(Steps)
    BY DEF OrderInv
  <2>2. todo[c][i] \in Steps
    BY <1>1, <2>1
  <2> QED
    BY <2>2 DEF Steps
<1> QED
  BY <1>1 DEF OrderInv, RecordsOK, TypeOK

\* A client goes on to its next step; steps may be put before the others.
LEMMA Advance ==
  ASSUME OrderInv, NEW c \in Clients, ~Idle(c), NEW steps \in Seq(Steps), Then(c, steps)
  PROVE  /\ todo' \in [Clients -> Seq(Steps)]
         /\ todo'[c] = steps \o Tail(todo[c])
         /\ \A d \in Clients \ {c} : todo'[d] = todo[d]
<1>1. todo[c] \in Seq(Steps) /\ todo[c] # <<>>
  BY DEF OrderInv, Idle
<1>2. Tail(todo[c]) \in Seq(Steps)
  BY <1>1
<1>3. steps \o Tail(todo[c]) \in Seq(Steps)
  BY <1>2, ConcatProperties
<1>4. todo' = [todo EXCEPT ![c] = steps \o Tail(todo[c])]
  BY DEF Then
<1> QED
  BY <1>2, <1>3, <1>4 DEF OrderInv

LEMMA AdvanceBare ==
  ASSUME OrderInv, NEW c \in Clients, ~Idle(c), Then(c, <<>>)
  PROVE  /\ todo' \in [Clients -> Seq(Steps)]
         /\ todo'[c] = Tail(todo[c])
         /\ \A d \in Clients \ {c} : todo'[d] = todo[d]
<1>1. <<>> \in Seq(Steps)
  OBVIOUS
<1>2. todo[c] \in Seq(Steps) /\ todo[c] # <<>>
  BY DEF OrderInv, Idle
<1>3. <<>> \o Tail(todo[c]) = Tail(todo[c])
  <2>1. Tail(todo[c]) \in Seq(Steps)
    BY <1>2
  <2> QED
    BY <2>1, ConcatEmptySeq
<1> QED
  BY <1>1, <1>3, Advance

LEMMA HeadNamed ==
  ASSUME OrderInv, NEW c \in Clients, ~Idle(c)
  PROVE  Head(todo[c]) \in Steps /\ Head(todo[c]).name \in Names
<1>1. todo[c] \in Seq(Steps) /\ todo[c] # <<>>
  BY DEF OrderInv, Idle
<1>2. Head(todo[c]) \in Steps
  BY <1>1
<1> QED
  BY <1>2 DEF Steps

LEMMA PrimeOrdered ==
  Ordered(todo'[Discovery], known', typed') => Ordered(todo[Discovery], known, typed)'
BY DEF Ordered, Do, Discovery

\* The step of a command leaves the records and their order as they are.
LEMMA OtherAdvance ==
  ASSUME OrderInv, NEW c \in Clients, ~Idle(c), Then(c, <<>>),
         Head(todo[c]).op \notin {"info", "type"}, known' = known, typed' = typed
  PROVE  todo' \in [Clients -> Seq(Steps)] /\ Ordered(todo[Discovery], known, typed)'
<1>1. /\ todo' \in [Clients -> Seq(Steps)]
      /\ todo'[c] = Tail(todo[c])
      /\ \A d \in Clients \ {c} : todo'[d] = todo[d]
  BY AdvanceBare
<1>2. Discovery \in Clients /\ Ordered(todo[Discovery], known, typed)
  BY ClientsAssumption DEF OrderInv
<1>3. CASE c = Discovery
  <2>1. todo[c] \in Seq(Steps) /\ todo[c] # <<>>
    BY DEF OrderInv, Idle
  <2>2. Ordered(Tail(todo[c]), known, typed)
    BY <1>2, <1>3, <2>1, Popped
  <2>3. Ordered(todo'[Discovery], known', typed')
    BY <1>1, <1>3, <2>2
  <2> QED
    BY <1>1, <2>3, PrimeOrdered
<1>4. CASE c # Discovery
  <2>1. Ordered(todo'[Discovery], known', typed')
    BY <1>1, <1>2, <1>4
  <2> QED
    BY <1>1, <2>1, PrimeOrdered
<1> QED
  BY <1>3, <1>4

LEMMA CommandOrder ==
  ASSUME OrderInv, NEW c \in Clients, ClientStep(c)
  PROVE  OrderInv'
<1>1. ~Idle(c) => Head(todo[c]).name \in Names
  BY HeadNamed
<1>2. UNCHANGED launching => RecordsOK' /\ known' = known /\ typed' = typed
  BY DEF OrderInv, RecordsOK, launching
<1>3. ASSUME Then(c, <<>>), ~Idle(c), UNCHANGED launching, PlatformTypeOK',
             Head(todo[c]).op \in {"load-agent", "start-agent", "stop-agent"}
      PROVE  OrderInv'
  BY <1>2, <1>3, OtherAdvance DEF OrderInv
<1>4. CASE Load(c)
  <2>1. PlatformTypeOK'
    BY <1>1, <1>4 DEF Load, Doing, LoadAgent, OrderInv, PlatformTypeOK
  <2> QED
    BY <1>3, <1>4, <2>1 DEF Load, Doing
<1>5. CASE Start(c)
  <2>1. PlatformTypeOK'
    BY <1>1, <1>5 DEF Start, Doing, StartAgent, OrderInv, PlatformTypeOK
  <2> QED
    BY <1>3, <1>5, <2>1 DEF Start, Doing
<1>6. CASE Stop(c)
  <2>1. PlatformTypeOK'
    BY <1>1, <1>6 DEF Stop, Doing, StopAgent, StopReturns, platform, OrderInv, PlatformTypeOK
  <2>2. CASE UNCHANGED todo
    BY <1>2, <1>6, <2>1, <2>2 DEF Stop, OrderInv, Ordered, Do, Discovery
  <2>3. CASE Then(c, <<>>)
    BY <1>3, <1>6, <2>1, <2>3 DEF Stop, Doing
  <2> QED
    BY <1>6, <2>2, <2>3 DEF Stop
<1> QED
  BY <1>4, <1>5, <1>6 DEF ClientStep

\* A client that is idle gets something to do.
LEMMA GivenOrder ==
  ASSUME OrderInv, NEW c \in Clients, NEW steps \in Seq(Steps), Given(c, steps),
         known' = known, typed' = typed,
         c = Discovery => Ordered(steps, known, typed)
  PROVE  todo' \in [Clients -> Seq(Steps)] /\ Ordered(todo[Discovery], known, typed)'
<1>1. todo' = [todo EXCEPT ![c] = steps]
  BY DEF Given
<1>2. Discovery \in Clients /\ Ordered(todo[Discovery], known, typed)
  BY ClientsAssumption DEF OrderInv
<1>3. todo' \in [Clients -> Seq(Steps)]
  BY <1>1 DEF OrderInv
<1>4. todo'[Discovery] = IF c = Discovery THEN steps ELSE todo[Discovery]
  BY <1>1, <1>2 DEF OrderInv
<1>5. Ordered(todo'[Discovery], known', typed')
  BY <1>2, <1>4
<1> QED
  BY <1>3, <1>5, PrimeOrdered

LEMMA LauncherOrder ==
  ASSUME OrderInv, LauncherStep
  PROVE  OrderInv'
<1> DEFINE app == Head(todo[Launcher]).name
<1>1. Launcher \in Clients /\ Discovery \in Clients /\ Launcher # Discovery
  BY ClientsAssumption DEF Launcher, Discovery
<1>2. \A o \in Ops, n \in Names : Do(o, n) \in Steps
  BY DEF Do, Steps
<1>3. UNCHANGED platform => PlatformTypeOK'
  BY DEF OrderInv, PlatformTypeOK, platform
<1>4. ASSUME todo' \in [Clients -> Seq(Steps)], todo'[Discovery] = todo[Discovery],
             UNCHANGED <<known, typed>>
      PROVE  Ordered(todo[Discovery], known, typed)'
  BY <1>4 DEF OrderInv, Ordered, Do, Discovery
<1>5. ~Idle(Launcher) => app \in Names
  BY <1>1, HeadNamed
<1>6. CASE AppLauncherInitiator
  <2>1. PICK apps \in SetToSeqs(PreviousApps) :
          Given(Launcher, [i \in DOMAIN apps |-> Do("launch", apps[i])])
    BY <1>6 DEF AppLauncherInitiator
  <2> DEFINE n == Cardinality(PreviousApps)
             steps == [i \in DOMAIN apps |-> Do("launch", apps[i])]
  <2>2. n \in Nat /\ PreviousApps \subseteq Names
    <3>1. PreviousApps \subseteq Apps /\ IsFiniteSet(Apps) /\ Apps \subseteq Names
      BY ClientsAssumption DEF PreviousApps
    <3> QED
      BY <3>1, FS_Subset, FS_CardinalityType
  <2>3. apps \in [1 .. n -> PreviousApps]
    BY DEF SetToSeqs
  <2> HIDE DEF n
  <2>4. steps \in [1 .. n -> Steps]
    BY <1>2, <2>2, <2>3 DEF Ops
  <2>5. steps \in Seq(Steps)
    BY <2>2, <2>4
  <2> HIDE DEF steps
  <2>6. Given(Launcher, steps)
    BY <2>1 DEF steps
  <2>7. UNCHANGED <<platform, alive, launcherUp, row, known, typed, bemoss, read, files, restarts>>
        /\ initiated' = TRUE
    BY <1>6 DEF AppLauncherInitiator
  <2>8. todo' \in [Clients -> Seq(Steps)] /\ Ordered(todo[Discovery], known, typed)'
    BY <1>1, <2>5, <2>6, <2>7, GivenOrder
  <2> QED
    BY <1>3, <2>7, <2>8 DEF OrderInv, RecordsOK
<1>7. ASSUME NEW steps \in Seq(Steps), Then(Launcher, steps), ~Idle(Launcher),
             UNCHANGED <<platform, alive, launcherUp, initiated, known, typed, bemoss, read, files, restarts>>,
             row' \in [Apps -> {"none", "running", "disabled"}]
      PROVE  OrderInv'
  <2>1. todo' \in [Clients -> Seq(Steps)] /\ todo'[Discovery] = todo[Discovery]
    BY <1>1, <1>7, Advance
  <2> QED
    BY <1>3, <1>4, <1>7, <2>1 DEF OrderInv, RecordsOK
<1>8. <<>> \in Seq(Steps) /\ row \in [Apps -> {"none", "running", "disabled"}]
  BY DEF OrderInv, RecordsOK
<1>9. CASE LaunchApp
  <2> DEFINE two == <<Do("load-agent", app), Do("start-agent", app)>>
             one == <<Do("insert", app)>>
  <2>1. /\ ~Idle(Launcher)
        /\ UNCHANGED <<platform, alive, launcherUp, initiated, known, typed, bemoss, read, files, restarts>>
        /\ \/ row' = [row EXCEPT ![app] = "running"] /\ Then(Launcher, <<>>)
           \/ row' = row /\ Then(Launcher, two \o one)
           \/ row' = row /\ Then(Launcher, two \o <<>>)
    BY <1>9 DEF LaunchApp, Doing
  <2>2. two \in Seq(Steps) /\ one \in Seq(Steps)
    BY <1>2, <1>5, <2>1 DEF Ops
  <2>3. [row EXCEPT ![app] = "running"] \in [Apps -> {"none", "running", "disabled"}]
    BY <1>8
  <2> HIDE DEF app, two, one
  <2>4. two \o one \in Seq(Steps) /\ two \o <<>> \in Seq(Steps)
    BY <1>8, <2>2, ConcatProperties
  <2> QED
    BY <1>7, <1>8, <2>1, <2>3, <2>4
<1>10. CASE DisableApp
  <2> DEFINE two == <<Do("stop-agent", app), Do("disabled", app)>>
  <2>1. /\ ~Idle(Launcher)
        /\ UNCHANGED <<platform, launching>>
        /\ Then(Launcher, <<>>) \/ Then(Launcher, two)
    BY <1>10 DEF DisableApp, Doing
  <2>2. two \in Seq(Steps)
    BY <1>2, <1>5, <2>1 DEF Ops
  <2> HIDE DEF two
  <2> QED
    BY <1>7, <1>8, <2>1, <2>2 DEF launching
<1>11. CASE RecordApp
  <2>1. /\ ~Idle(Launcher) /\ Then(Launcher, <<>>)
        /\ UNCHANGED <<platform, alive, launcherUp, initiated, known, typed, bemoss, read, files, restarts>>
        /\ \/ row' = [row EXCEPT ![app] = "running"]
           \/ row' = [row EXCEPT ![app] = "disabled"]
    BY <1>11 DEF RecordApp, Doing
  <2>2. row' \in [Apps -> {"none", "running", "disabled"}]
    BY <1>8, <2>1
  <2> QED
    BY <1>7, <1>8, <2>1, <2>2
<1> QED
  BY <1>6, <1>9, <1>10, <1>11 DEF LauncherStep

LEMMA FindOrder ==
  ASSUME OrderInv, NEW d \in Devices, FindDevice(d)
  PROVE  OrderInv'
<1>1. Discovery \in Clients
  BY ClientsAssumption
<1>2. UNCHANGED <<platform, alive, launcherUp, initiated, row, known, typed, bemoss, files, restarts>>
      /\ read' \in BOOLEAN
  <2>1. UNCHANGED <<platform, alive, launcherUp, initiated, row, known, typed, bemoss, files, restarts>>
        /\ (read' = (d \in bemoss) \/ read' = read)
    BY DEF FindDevice
  <2>2. (d \in bemoss) \in BOOLEAN /\ read \in BOOLEAN
    BY DEF OrderInv, RecordsOK
  <2> QED
    BY <2>1, <2>2
<1>3. \E steps \in Seq(Steps) : Given(Discovery, steps) /\ Ordered(steps, known, typed)
  BY Pushed DEF FindDevice
<1>4. todo' \in [Clients -> Seq(Steps)] /\ Ordered(todo[Discovery], known, typed)'
  BY <1>1, <1>2, <1>3, GivenOrder
<1> QED
  BY <1>2, <1>4 DEF OrderInv, RecordsOK, PlatformTypeOK, platform

LEMMA DiscoveryOrder ==
  ASSUME OrderInv, DiscoveryStep
  PROVE  OrderInv'
<1> DEFINE q == todo[Discovery]
           d == Head(q).name
<1>1. Discovery \in Clients /\ q \in Seq(Steps) /\ Ordered(q, known, typed)
  BY ClientsAssumption DEF OrderInv
<1>2. ~Idle(Discovery) /\ q # <<>>
  BY DEF DiscoveryStep, CheckDevice, RecordDevice, Doing, Idle
<1>3. PlatformTypeOK' /\ d \in Names
  BY <1>1, <1>2, HeadNamed
     DEF DiscoveryStep, CheckDevice, RecordDevice, OrderInv, PlatformTypeOK, platform
<1> HIDE DEF q, d
<1>4. 1 \in 1 .. Len(q) /\ Head(q) = q[1] /\ d = q[1].name
  BY <1>1, <1>2 DEF d
<1>5. /\ q[1].op \in {"info", "type", "file"} => d \in Devices
      /\ q[1].op = "check" => Len(q) = 1
      /\ q[1].op = "type" => d \in known
      /\ q[1].op = "file" => d \in typed
  <2>1. \A j \in 1 .. 1 - 1 : FALSE
    OBVIOUS
  <2> QED
    BY <1>4, <1>1, <2>1 DEF Ordered
<1>6. CASE CheckDevice
  <2>1. /\ Head(q).op = "check"
        /\ UNCHANGED <<launcherUp, initiated, row, known, typed, bemoss, files, restarts>>
        /\ alive' \in BOOLEAN /\ read' = FALSE
    BY <1>6 DEF CheckDevice, Doing, q
  <2>2. Tail(q) = <<>>
    <3>1. q \in Seq(Steps) /\ q # <<>> /\ Len(q) = 1
      BY <1>1, <1>2, <1>4, <1>5, <2>1
    <3>2. Tail(q) \in Seq(Steps) /\ Len(Tail(q)) = 0
      BY <3>1
    <3> QED
      BY <3>2, EmptySeq
  <2>3. \E steps \in {<<>>, LaunchAgent(d), <<Do("stop-agent", d)>>} : Then(Discovery, steps)
    BY <1>6 DEF CheckDevice, CheckSteps, q, d
  <2>4. \A steps \in {<<>>, LaunchAgent(d), <<Do("stop-agent", d)>>} :
          steps \in Seq(Steps) /\ Ordered(steps, known, typed)
    BY <1>3, PushedCommands
  <2>5. PICK steps \in Seq(Steps) : Then(Discovery, steps) /\ Ordered(steps, known, typed)
    BY <2>3, <2>4
  <2>6. todo' \in [Clients -> Seq(Steps)] /\ todo'[Discovery] = steps \o Tail(q)
    BY <1>1, <1>2, <2>5, Advance DEF q
  <2>7. steps \o Tail(q) = steps
    BY <2>2, ConcatEmptySeq
  <2>8. Ordered(todo[Discovery], known, typed)'
    <3>1. known' = known /\ typed' = typed /\ todo'[Discovery] = steps
      BY <2>1, <2>6, <2>7
    <3>2. Ordered(todo'[Discovery], known', typed')
      BY <2>5, <3>1
    <3> QED
      BY <3>2, PrimeOrdered
  <2>9. RecordsOK'
    <3>1. {alive', launcherUp', initiated'} \subseteq BOOLEAN
      BY <2>1 DEF OrderInv, RecordsOK
    <3> QED
      BY <2>1, <3>1 DEF OrderInv, RecordsOK
  <2> QED
    BY <1>3, <2>6, <2>8, <2>9 DEF OrderInv
<1>7. CASE RecordDevice
  <2>1. /\ UNCHANGED <<alive, launcherUp, initiated, row, read, restarts>>
        /\ Then(Discovery, <<>>)
        /\ \/ /\ Head(q).op = "info"
              /\ known' = known \cup {d} /\ bemoss' = bemoss \cup {d}
              /\ UNCHANGED <<typed, files>>
           \/ /\ Head(q).op = "type"
              /\ typed' = typed \cup {d}
              /\ UNCHANGED <<known, bemoss, files>>
           \/ /\ Head(q).op = "file"
              /\ files' = files \cup {d}
              /\ UNCHANGED <<known, bemoss, typed>>
    BY <1>7 DEF RecordDevice, Doing, q, d
  <2>2. RecordsOK'
    BY <1>4, <1>5, <2>1 DEF OrderInv, RecordsOK
  <2>3. todo' \in [Clients -> Seq(Steps)] /\ todo'[Discovery] = Tail(q)
    BY <1>1, <1>2, <2>1, AdvanceBare DEF q
  <2>4. /\ known \subseteq known' /\ typed \subseteq typed'
        /\ Head(q).op = "info" => Head(q).name \in known'
        /\ Head(q).op = "type" => Head(q).name \in typed'
    BY <2>1 DEF d
  <2>5. Ordered(Tail(q), known', typed')
    BY <1>1, <1>2, <2>4, Popped
  <2>6. Ordered(todo[Discovery], known, typed)'
    BY <2>3, <2>5 DEF Ordered, Do, Discovery
  <2> QED
    BY <1>3, <2>2, <2>3, <2>6 DEF OrderInv
<1> QED
  BY <1>6, <1>7 DEF DiscoveryStep

LEMMA NextOrder == OrderInv /\ [Next]_vars => OrderInv'
<1> SUFFICES ASSUME OrderInv, [Next]_vars
             PROVE  OrderInv'
  OBVIOUS
<1>1. ASSUME NEW c \in Clients, ClientStep(c)
      PROVE  OrderInv'
  BY <1>1, CommandOrder
<1>2. ASSUME NEW a \in Apps, NEW op \in {"launch", "disable"}, OnMatch(a, op)
      PROVE  OrderInv'
  <2>1. Launcher \in Clients /\ Launcher # Discovery /\ a \in Names
    BY ClientsAssumption DEF Launcher, Discovery
  <2>2. Do(op, a) \in Steps
    BY <2>1 DEF Do, Steps, Ops
  <2>3. <<Do(op, a)>> \in Seq(Steps)
    BY <2>2
  <2>4. UNCHANGED <<platform, launching>> /\ Given(Launcher, <<Do(op, a)>>)
    BY <1>2 DEF OnMatch
  <2>5. todo' \in [Clients -> Seq(Steps)] /\ Ordered(todo[Discovery], known, typed)'
    BY <2>1, <2>3, <2>4, GivenOrder DEF launching
  <2> QED
    BY <2>4, <2>5 DEF OrderInv, RecordsOK, PlatformTypeOK, platform, launching
<1>3. CASE LauncherStep
  BY <1>3, LauncherOrder
<1>4. ASSUME NEW d \in Devices, FindDevice(d)
      PROVE  OrderInv'
  BY <1>4, FindOrder
<1>5. ASSUME NEW d \in Devices, Approve(d)
      PROVE  OrderInv'
  BY <1>5 DEF Approve, OrderInv, RecordsOK, PlatformTypeOK, platform, Ordered, Do, Discovery
<1>6. CASE DiscoveryStep
  BY <1>6, DiscoveryOrder
<1>7. ASSUME NEW command \in Commands, Command(command)
      PROVE  OrderInv'
  <2>1. Operator \in Clients /\ Operator # Discovery
    BY ClientsAssumption DEF Operator, Discovery
  <2>2. command \in Steps
    BY ClientsAssumption DEF Steps, Ops
  <2>3. <<command>> \in Seq(Steps)
    BY <2>2
  <2>4. UNCHANGED <<platform, launching>> /\ Given(Operator, <<command>>)
    BY <1>7 DEF Command
  <2>5. todo' \in [Clients -> Seq(Steps)] /\ Ordered(todo[Discovery], known, typed)'
    BY <2>1, <2>3, <2>4, GivenOrder DEF launching
  <2> QED
    BY <2>4, <2>5 DEF OrderInv, RecordsOK, PlatformTypeOK, platform, launching
<1>8. ASSUME NEW n \in Names, AgentEnds(n)
      PROVE  OrderInv'
  BY <1>8 DEF AgentEnds, ProcessEnds, launching, OrderInv, RecordsOK, PlatformTypeOK,
              Ordered, Do, Discovery
<1>9. CASE Down
  <2>1. /\ todo' = [c \in Clients |-> <<>>] /\ Discovery \in Clients
        /\ restarts' \in 0 .. MaxRestarts
    BY <1>9, ClientsAssumption DEF Down, OrderInv, RecordsOK
  <2>2. todo' \in [Clients -> Seq(Steps)] /\ todo'[Discovery] = <<>>
    BY <2>1
  <2>3. Ordered(todo[Discovery], known, typed)'
    BY <2>2 DEF Ordered, Discovery
  <2> QED
    BY <1>9, <2>1, <2>2, <2>3 DEF Down, PlatformEnds, OrderInv, RecordsOK, PlatformTypeOK
<1>10. CASE KeepAlivePlatform
  BY <1>10 DEF KeepAlivePlatform, PlatformStarts, OrderInv, RecordsOK, PlatformTypeOK,
               Ordered, Do, Discovery
<1>11. CASE RunAppLauncher
  BY <1>11 DEF RunAppLauncher, OrderInv, RecordsOK, PlatformTypeOK, platform,
               Ordered, Do, Discovery
<1>12. CASE UNCHANGED vars
  BY <1>12 DEF vars, platform, launching, OrderInv, RecordsOK, PlatformTypeOK,
               Ordered, Do, Discovery
<1> QED
  BY <1>1, <1>2, <1>3, <1>4, <1>5, <1>6, <1>7, <1>8, <1>9, <1>10, <1>11, <1>12 DEF Next

LEMMA InitOrder == Init => OrderInv
<1> SUFFICES ASSUME Init
             PROVE  OrderInv
  OBVIOUS
<1>1. Discovery \in Clients /\ todo = [c \in Clients |-> <<>>]
  BY ClientsAssumption DEF Init
<1>2. todo \in [Clients -> Seq(Steps)] /\ todo[Discovery] = <<>>
  BY <1>1
<1>3. Ordered(todo[Discovery], known, typed)
  BY <1>2 DEF Ordered
<1>4. PlatformTypeOK
  BY DEF Init, PlatformInit, PlatformTypeOK
<1>5. MaxRestarts \in Nat /\ 0 \in 0 .. MaxRestarts
  BY ClientsAssumption
<1>6. RecordsOK
  BY <1>5 DEF Init, RecordsOK
<1> QED
  BY <1>2, <1>3, <1>4, <1>6 DEF OrderInv

\* Whatever discovery, the launcher, the operator and the crashes of the
\* platform do in between, a device is in device_info before it is in the table
\* of its type, and there before its launch file is written.
THEOREM RecordsOrdered == Spec => []TypeOK
BY InitOrder, NextOrder, OrderTypes, PTL DEF Spec

-----------------------------------------------------------------------------

\* An agent that runs was loaded, and that of a device from its launch file.
LoadedInv ==
  /\ installed \cap Devices \subseteq files
  /\ \A n \in Names : IsRunning(n) => n \in installed

\* The steps of the clients but their commands.
LEMMA LoadedKept ==
  ASSUME LoadedInv, files \subseteq files', UNCHANGED platform
  PROVE  LoadedInv'
BY DEF LoadedInv, platform, IsRunning

LEMMA CommandLoaded ==
  ASSUME OrderInv, LoadedInv, NEW c \in Clients, ClientStep(c)
  PROVE  LoadedInv'
<1>1. ~Idle(c) => Head(todo[c]).name \in Names
  BY HeadNamed
<1>2. UNCHANGED launching => files' = files
  BY DEF launching
<1>3. agents \in [Names -> {"running", "signalled", "ended"}]
  BY DEF OrderInv, PlatformTypeOK
<1>4. CASE Load(c)
  BY <1>1, <1>2, <1>4, ClientsAssumption DEF Load, Doing, LoadAgent, LoadedInv, IsRunning
<1>5. CASE Start(c)
  BY <1>1, <1>2, <1>3, <1>5 DEF Start, Doing, StartAgent, StartFails, LoadedInv, IsRunning
<1>6. CASE Stop(c)
  BY <1>1, <1>2, <1>3, <1>6, LoadedKept
     DEF Stop, Doing, StopAgent, StopReturns, LoadedInv, IsRunning
<1> QED
  BY <1>4, <1>5, <1>6 DEF ClientStep

LEMMA NextLoaded == OrderInv /\ LoadedInv /\ [Next]_vars => LoadedInv'
<1> SUFFICES ASSUME OrderInv, LoadedInv, [Next]_vars
             PROVE  LoadedInv'
  OBVIOUS
<1>1. agents \in [Names -> {"running", "signalled", "ended"}]
  BY DEF OrderInv, PlatformTypeOK
<1>2. ASSUME NEW c \in Clients, ClientStep(c)
      PROVE  LoadedInv'
  BY <1>2, CommandLoaded
<1>3. ASSUME NEW a \in Apps, NEW op \in {"launch", "disable"}, OnMatch(a, op)
      PROVE  LoadedInv'
  BY <1>3, LoadedKept DEF OnMatch, launching
<1>4. CASE LauncherStep
  BY <1>4, LoadedKept DEF LauncherStep, AppLauncherInitiator, LaunchApp, DisableApp,
                          RecordApp, launching
<1>5. ASSUME NEW d \in Devices, FindDevice(d) \/ Approve(d)
      PROVE  LoadedInv'
  BY <1>5, LoadedKept DEF FindDevice, Approve
<1>6. CASE DiscoveryStep
  BY <1>6, LoadedKept DEF DiscoveryStep, CheckDevice, RecordDevice
<1>7. ASSUME NEW command \in Commands, Command(command)
      PROVE  LoadedInv'
  BY <1>7, LoadedKept DEF Command, launching
<1>8. ASSUME NEW n \in Names, AgentEnds(n)
      PROVE  LoadedInv'
  BY <1>1, <1>8 DEF AgentEnds, ProcessEnds, launching, LoadedInv, IsRunning
<1>9. CASE Down
  BY <1>9 DEF Down, PlatformEnds, LoadedInv, IsRunning
<1>10. CASE KeepAlivePlatform
  BY <1>10 DEF KeepAlivePlatform, PlatformStarts, LoadedInv, IsRunning
<1>11. CASE RunAppLauncher
  BY <1>11, LoadedKept DEF RunAppLauncher
<1>12. CASE UNCHANGED vars
  BY <1>12, LoadedKept DEF vars, launching
<1> QED
  BY <1>2, <1>3, <1>4, <1>5, <1>6, <1>7, <1>8, <1>9, <1>10, <1>11, <1>12 DEF Next

\* Whoever starts the agent of a device, in whatever step of discovery and
\* after however many restarts, the device is in both tables by then.
THEOREM RunsRecorded == Spec => []RecordedFirst
<1>1. Init => LoadedInv
  BY DEF Init, PlatformInit, LoadedInv, IsRunning
<1>2. OrderInv /\ LoadedInv => RecordedFirst
  BY ClientsAssumption DEF OrderInv, RecordsOK, LoadedInv, RecordedFirst
<1> QED
  BY <1>1, <1>2, InitOrder, NextOrder, NextLoaded, PTL DEF Spec

=============================================================================
