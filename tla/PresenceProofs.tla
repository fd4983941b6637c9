---------------------------- MODULE PresenceProofs ----------------------------
(***************************************************************************)
(* Proofs about Presence, for any devices and bounds and one worker.  Two  *)
(* workers interleave their Redis commands, and two sessions of a device   *)
(* (tabs, a reload) share its connection key.  And about Notifications,    *)
(* which looks presence up: who is owed a push, and who may get one.       *)
(***************************************************************************)
EXTENDS Presence, TLAPS

OneWorker == /\ \A v, w \in Workers : v = w
             /\ DeviceOf \in [Sessions -> Devices]
             /\ \A s, t \in Sessions : DeviceOf[s] = DeviceOf[t] => s = t

Steps == {"idle", "set", "sadd", "del", "smembers", "drop", "emit", "ack"}

Shape == /\ session \in [Sessions -> {"off", "on", "lost"}]
         /\ queue \in Seq(Command)
         /\ job \in [Workers -> Command \cup {NoCommand}]
         /\ pc \in [Workers -> Steps]
         /\ \A w \in Workers : pc[w] # "idle" => job[w] \in Command
         /\ conn \subseteq Devices /\ devs \subseteq Devices
         /\ handled \in [Devices -> BOOLEAN]
         /\ faults \in Nat

(* A command of the device waits, or is in hand.                           *)
Waiting(d) == \E i \in 1 .. Len(queue) : queue[i].device = d
Holding(w, d) == pc[w] # "idle" /\ job[w].device = d
Held(d) == \E w \in Workers : Holding(w, d)

(* Redis says what the last command of the device said.                    *)
Settled(d) == /\ d \in devs <=> handled[d]
              /\ d \in conn <=> handled[d]

(* A command that failed half-way is waiting again, so a device that is    *)
(* not settled has a command to come.                                      *)
Tables == \A d \in Devices : Settled(d) \/ Waiting(d) \/ Held(d)

(* How far the Redis commands of the one in hand have come.                *)
Halfway(w) ==
    LET c == job[w] IN
    /\ pc[w] \in {"set", "sadd"} => c.isOnline
    /\ pc[w] = "sadd" => c.device \in conn
    /\ pc[w] \in {"del", "smembers", "drop"} => ~c.isOnline
    /\ pc[w] \in {"smembers", "drop"} => c.device \notin conn /\ c.device \notin devs
    /\ pc[w] = "drop" => devs = {}
    /\ pc[w] \in {"emit", "ack"} => /\ c.device \in devs <=> c.isOnline
                                    /\ c.device \in conn <=> c.isOnline

(* Until a fault commands are handled in order: the last word on a device, *)
(* waiting, in hand or handled, is what its session said last.             *)
On(s) == session[s] # "off"
Last(i) == \A k \in 1 .. Len(queue) : k > i => queue[k].device # queue[i].device
LastWord(s) ==
    /\ \A i \in 1 .. Len(queue) :
          queue[i].device = DeviceOf[s] /\ Last(i) => (queue[i].isOnline <=> On(s))
    /\ \A w \in Workers :
          Holding(w, DeviceOf[s]) /\ ~Waiting(DeviceOf[s]) => (job[w].isOnline <=> On(s))
    /\ ~Waiting(DeviceOf[s]) /\ ~Held(DeviceOf[s]) => (handled[DeviceOf[s]] <=> On(s))
InOrder == faults = 0 => \A s \in Sessions : LastWord(s)

Good == /\ Shape /\ Tables /\ InOrder
        /\ \A w \in Workers : Halfway(w)

LEMMA GoodHonest == OneWorker /\ Good => PresenceHonest
<1> SUFFICES ASSUME OneWorker, Good, Quiet
             PROVE  /\ devs = {d \in Devices : handled[d]} /\ conn = devs
                    /\ faults = 0 /\ (\E s \in Sessions : session[s] = "on") => devs # {}
  BY DEF PresenceHonest
<1>1. \A d \in Devices : ~Waiting(d) /\ ~Held(d)
  BY DEF Quiet, Waiting, Held, Holding
<1>2. \A d \in Devices : Settled(d)
  BY <1>1 DEF Good, Tables
<1>3. devs = {d \in Devices : handled[d]} /\ conn = devs
  BY <1>2 DEF Settled, Good, Shape
<1>4. ASSUME faults = 0, NEW s \in Sessions, session[s] = "on" PROVE devs # {}
  <2>1. DeviceOf[s] \in Devices
    BY DEF OneWorker
  <2>2. handled[DeviceOf[s]]
    BY <1>1, <1>4, <2>1 DEF Good, InOrder, LastWord, On
  <2> QED
    BY <2>1, <2>2, <1>3
<1> QED
  BY <1>3, <1>4

-----------------------------------------------------------------------------
(* What the clients and the peer do.                                       *)

(* A session announces what it has become.                                 *)
LEMMA AnnounceStep ==
    ASSUME OneWorker, Good, NEW s \in Sessions, NEW on \in BOOLEAN, SetPresence(s, on),
           session' \in [Sessions -> {"off", "on", "lost"}],
           On(s)' <=> on,
           \A t \in Sessions : t # s => session'[t] = session[t]
    PROVE  Good'
<1> DEFINE c == [device |-> DeviceOf[s], isOnline |-> on]
           n == Len(queue)
<1>1. /\ Shape /\ c \in Command /\ n \in Nat /\ queue' = Append(queue, c)
      /\ UNCHANGED <<job, pc, changed, conn, devs, handled, faults>>
  BY DEF Good, Shape, SetPresence, redisVars, OneWorker, Command
<1>2. /\ Len(queue') = n + 1 /\ queue'[n + 1] = c
      /\ \A i \in 1 .. n : queue'[i] = queue[i]
      /\ queue' \in Seq(Command)
  BY <1>1 DEF Shape
<1>3. Shape'
  BY <1>1, <1>2 DEF Shape
<1>4. \A d : Waiting(d)' <=> Waiting(d) \/ d = DeviceOf[s]
  <2>1. ASSUME NEW d, Waiting(d)' PROVE Waiting(d) \/ d = DeviceOf[s]
    BY <1>1, <1>2, <2>1 DEF Waiting
  <2>2. ASSUME NEW d, Waiting(d) PROVE Waiting(d)'
    BY <1>1, <1>2, <2>2 DEF Waiting
  <2>3. n + 1 \in 1 .. Len(queue') /\ queue'[n + 1].device = DeviceOf[s]
    BY <1>1, <1>2
  <2>4. Waiting(DeviceOf[s])'
    BY <2>3 DEF Waiting
  <2> QED
    BY <2>1, <2>2, <2>4
<1>5. \A d : Held(d)' <=> Held(d)
  BY <1>1 DEF Held, Holding
<1>6. \A d \in Devices : Settled(d)' <=> Settled(d)
  BY <1>1 DEF Settled
<1>7. Tables'
  BY <1>4, <1>5, <1>6 DEF Good, Tables
<1>8. \A w \in Workers : Halfway(w)'
  BY <1>1 DEF Good, Halfway
<1>9. ASSUME faults = 0, NEW t \in Sessions PROVE LastWord(t)'
  <2>1. CASE t = s
    <3>1. ASSUME NEW i \in 1 .. Len(queue'), queue'[i].device = DeviceOf[s], Last(i)'
          PROVE  queue'[i].isOnline <=> On(s)'
      <4>1. i = n + 1
        <5> SUFFICES ASSUME i # n + 1 PROVE FALSE
          OBVIOUS
        <5>1. n + 1 \in 1 .. Len(queue') /\ n + 1 > i
          BY <1>1, <1>2
        <5>2. queue'[n + 1].device # queue'[i].device
          BY <3>1, <5>1 DEF Last
        <5> QED
          BY <5>2, <3>1, <1>2
      <4> QED
        BY <4>1, <1>2
    <3> QED
      BY <2>1, <3>1, <1>4 DEF LastWord
  <2>2. CASE t # s
    <3>1. DeviceOf[t] # DeviceOf[s] /\ LastWord(t) /\ (On(t)' <=> On(t))
      BY <1>9, <2>2 DEF OneWorker, Good, InOrder, On
    <3>2. ASSUME NEW i \in 1 .. Len(queue'), queue'[i].device = DeviceOf[t], Last(i)'
          PROVE  queue'[i].isOnline <=> On(t)'
      <4>1. i \in 1 .. n /\ queue'[i] = queue[i]
        BY <1>1, <1>2, <3>1, <3>2
      <4>2. Last(i)
        BY <1>1, <1>2, <3>2, <4>1 DEF Last
      <4> QED
        BY <3>1, <3>2, <4>1, <4>2 DEF LastWord
    <3>3. Waiting(DeviceOf[t])' <=> Waiting(DeviceOf[t])
      BY <3>1, <1>4
    <3> QED
      BY <1>1, <1>5, <3>1, <3>2, <3>3 DEF LastWord, Holding
  <2> QED
    BY <2>1, <2>2
<1>10. InOrder'
  BY <1>1, <1>9 DEF InOrder
<1> QED
  BY <1>3, <1>7, <1>8, <1>10 DEF Good

LEMMA ClientStep ==
    ASSUME OneWorker, Good, NEW s \in Sessions, Connect(s) \/ Disconnect(s) \/ Will(s)
    PROVE  Good'
<1>1. session \in [Sessions -> {"off", "on", "lost"}]
  BY DEF Good, Shape
<1>2. CASE Connect(s)
  <2>1. session' = [session EXCEPT ![s] = "on"] /\ SetPresence(s, TRUE)
    BY <1>2 DEF Connect
  <2>2. On(s)' <=> TRUE
    BY <1>1, <2>1 DEF On
  <2> QED
    BY <1>1, <2>1, <2>2, AnnounceStep
<1>3. CASE Disconnect(s) \/ Will(s)
  <2>1. session' = [session EXCEPT ![s] = "off"] /\ SetPresence(s, FALSE)
    BY <1>3 DEF Disconnect, Will
  <2>2. On(s)' <=> FALSE
    BY <1>1, <2>1 DEF On
  <2> QED
    BY <1>1, <2>1, <2>2, AnnounceStep
<1> QED
  BY <1>2, <1>3

(* Steps of which the handled commands and Redis see nothing.              *)
LEMMA OutsideStep ==
    ASSUME Good, UNCHANGED <<queue, job, pc, changed, conn, devs, handled, faults>>,
           session' \in [Sessions -> {"off", "on", "lost"}],
           \A s \in Sessions : On(s)' <=> On(s)
    PROVE  Good'
<1>1. Shape'
  BY DEF Good, Shape
<1>2. \A d : (Waiting(d)' <=> Waiting(d)) /\ (Held(d)' <=> Held(d))
  BY DEF Waiting, Held, Holding
<1>3. Tables' /\ \A w \in Workers : Halfway(w)'
  BY <1>2 DEF Good, Tables, Settled, Halfway
<1>4. ASSUME NEW s \in Sessions, LastWord(s) PROVE LastWord(s)'
  BY <1>2, <1>4 DEF LastWord, Last, Holding
<1> QED
  BY <1>1, <1>3, <1>4 DEF Good, InOrder

-----------------------------------------------------------------------------
(* What the worker does.                                                   *)

LEMMA DeliverStep ==
    ASSUME OneWorker, Good, NEW w \in Workers, Deliver(w) PROVE Good'
<1> DEFINE h == Head(queue)
           n == Len(queue)
<1>1. /\ Shape /\ pc[w] = "idle" /\ queue # <<>>
      /\ \A v \in Workers : v = w
      /\ queue' = Tail(queue) /\ UNCHANGED <<session, conn, devs, handled, faults>>
  BY DEF Good, Deliver, OneWorker, redisVars
<1>2. /\ n \in Nat \ {0} /\ h = queue[1] /\ h \in Command
      /\ queue' \in Seq(Command) /\ Len(queue') = n - 1
      /\ \A i \in 1 .. n - 1 : queue'[i] = queue[i + 1]
  BY <1>1 DEF Shape
<1>3. /\ job'[w] = h /\ pc'[w] = IF h.isOnline THEN "set" ELSE "del"
      /\ job' \in [Workers -> Command \cup {NoCommand}] /\ pc' \in [Workers -> Steps]
  BY <1>1, <1>2 DEF Deliver, Shape, Steps
<1>4. Shape'
  BY <1>1, <1>2, <1>3 DEF Shape
<1>5. \A d : ~Held(d)
  BY <1>1 DEF Held, Holding
<1>6. \A d : Held(d)' <=> d = h.device
  BY <1>1, <1>3 DEF Held, Holding
<1>7. ASSUME NEW d PROVE Waiting(d) <=> Waiting(d)' \/ d = h.device
  <2>1. ASSUME Waiting(d) PROVE Waiting(d)' \/ d = h.device
    <3>1. PICK i \in 1 .. n : queue[i].device = d
      BY <2>1 DEF Waiting
    <3>2. CASE i = 1
      BY <3>1, <3>2, <1>2
    <3>3. CASE i # 1
      <4>1. i - 1 \in 1 .. n - 1 /\ (i - 1) + 1 = i
        BY <3>1, <3>3, <1>2
      <4>2. queue'[i - 1] = queue[i]
        BY <4>1, <1>2
      <4> QED
        BY <3>1, <4>1, <4>2, <1>2 DEF Waiting
    <3> QED
      BY <3>2, <3>3
  <2>2. ASSUME Waiting(d)' PROVE Waiting(d)
    <3>1. PICK i \in 1 .. n - 1 : queue'[i].device = d
      BY <2>2, <1>2 DEF Waiting
    <3>2. i + 1 \in 1 .. n /\ queue[i + 1].device = d
      BY <3>1, <1>2
    <3> QED
      BY <3>2 DEF Waiting
  <2>3. 1 \in 1 .. n
    BY <1>2
  <2>4. Waiting(h.device)
    BY <1>2, <2>3 DEF Waiting
  <2> QED
    BY <2>1, <2>2, <2>4
<1>8. Tables'
  BY <1>1, <1>5, <1>6, <1>7 DEF Good, Tables, Settled
<1>9. \A v \in Workers : Halfway(v)'
  BY <1>1, <1>3 DEF Halfway
<1>10. ASSUME faults = 0, NEW t \in Sessions PROVE LastWord(t)'
  <2>1. LastWord(t) /\ (On(t)' <=> On(t))
    BY <1>1, <1>10 DEF Good, InOrder, On
  <2>2. ASSUME NEW i \in 1 .. Len(queue'), queue'[i].device = DeviceOf[t], Last(i)'
        PROVE  queue'[i].isOnline <=> On(t)
    <3>1. i \in 1 .. n - 1 /\ i + 1 \in 1 .. n /\ queue'[i] = queue[i + 1]
      BY <2>2, <1>2
    <3>2. Last(i + 1)
      <4> SUFFICES ASSUME NEW k \in 1 .. n, k > i + 1
                   PROVE  queue[k].device # queue[i + 1].device
        BY DEF Last
      <4>1. k - 1 \in 1 .. n - 1 /\ k - 1 > i /\ (k - 1) + 1 = k
        BY <3>1, <1>2
      <4>2. queue'[k - 1] = queue[k] /\ k - 1 \in 1 .. Len(queue')
        BY <4>1, <1>2
      <4>3. queue'[k - 1].device # queue'[i].device
        BY <2>2, <4>1, <4>2 DEF Last
      <4> QED
        BY <3>1, <4>2, <4>3
    <3> QED
      BY <2>1, <2>2, <3>1, <3>2 DEF LastWord
  <2>3. ASSUME h.device = DeviceOf[t], ~Waiting(DeviceOf[t])' PROVE h.isOnline <=> On(t)
    <3>1. ASSUME NEW k \in 1 .. n, k > 1 PROVE queue[k].device # queue[1].device
      <4>1. k - 1 \in 1 .. n - 1 /\ (k - 1) + 1 = k
        BY <3>1, <1>2
      <4>2. queue'[k - 1] = queue[k] /\ k - 1 \in 1 .. Len(queue')
        BY <4>1, <1>2
      <4> QED
        BY <2>3, <4>2, <1>2 DEF Waiting
    <3>2. 1 \in 1 .. n /\ Last(1) /\ queue[1].device = DeviceOf[t]
      BY <3>1, <2>3, <1>2 DEF Last
    <3> QED
      BY <2>1, <3>2, <1>2 DEF LastWord
  <2>4. ~Waiting(DeviceOf[t])' /\ ~Held(DeviceOf[t])' => (handled[DeviceOf[t]] <=> On(t))
    BY <1>5, <1>6, <1>7, <2>1 DEF LastWord
  <2>5. \A v \in Workers :
           Holding(v, DeviceOf[t])' /\ ~Waiting(DeviceOf[t])' => (job'[v].isOnline <=> On(t))
    BY <1>1, <1>3, <2>3 DEF Holding
  <2> QED
    BY <1>1, <2>1, <2>2, <2>4, <2>5 DEF LastWord
<1>11. InOrder'
  BY <1>1, <1>10 DEF InOrder
<1> QED
  BY <1>4, <1>8, <1>9, <1>11 DEF Good

(* A step in the middle of a command touches Redis for its device only.    *)
LEMMA MiddleStep ==
    ASSUME OneWorker, Good, NEW w \in Workers, NEW x \in Steps,
           pc[w] # "idle", x # "idle", pc' = [pc EXCEPT ![w] = x],
           UNCHANGED <<session, queue, job, handled>>,
           faults' = faults \/ faults' = faults + 1,
           conn' \subseteq Devices, devs' \subseteq Devices,
           \A d \in Devices : d # job[w].device => /\ d \in conn' <=> d \in conn
                                                   /\ d \in devs' <=> d \in devs,
           Halfway(w)'
    PROVE  Good'
<1>1. /\ Shape /\ pc'[w] = x /\ \A v \in Workers : v = w
      /\ \A v \in Workers : Halfway(v)'
  BY DEF Good, OneWorker, Shape
<1>2. Shape'
  BY <1>1 DEF Shape
<1>3. \A d : /\ Waiting(d)' <=> Waiting(d)
             /\ \A v \in Workers : Holding(v, d)' <=> Holding(v, d)
             /\ Held(d)' <=> Held(d)
  BY <1>1 DEF Waiting, Held, Holding
<1>4. Tables'
  <2> SUFFICES ASSUME NEW d \in Devices, ~Held(d) PROVE Settled(d)' \/ Waiting(d)'
    BY <1>3 DEF Tables
  <2>1. d # job[w].device
    BY DEF Held, Holding
  <2> QED
    BY <2>1, <1>3 DEF Good, Tables, Settled
<1>5. InOrder'
  <2> SUFFICES ASSUME faults' = 0, NEW t \in Sessions PROVE LastWord(t)'
    BY DEF InOrder
  <2>1. faults = 0
    BY <1>1 DEF Shape
  <2>2. LastWord(t) /\ (On(t)' <=> On(t))
    BY <2>1 DEF Good, InOrder, On
  <2> QED
    BY <1>3, <2>2 DEF LastWord, Last
<1> QED
  BY <1>1, <1>2, <1>4, <1>5 DEF Good

LEMMA RedisStep ==
    ASSUME OneWorker, Good, NEW w \in Workers,
           \/ SetConnection(w) \/ AddDevice(w) \/ RemoveDevice(w)
           \/ ReadMembers(w) \/ DropSet(w) \/ DropFails(w) \/ Emit(w)
    PROVE  Good'
<1> DEFINE d == job[w].device
<1>1. Shape /\ Halfway(w)
  BY DEF Good
<1>2. CASE SetConnection(w)
  <2>1. /\ pc[w] = "set" /\ pc' = [pc EXCEPT ![w] = "sadd"] /\ pc'[w] = "sadd"
        /\ conn' = conn \cup {d} /\ d \in Devices
        /\ UNCHANGED <<session, queue, job, handled, devs, faults>>
    BY <1>1, <1>2 DEF SetConnection, At, Shape, Command
  <2>2. Halfway(w)'
    BY <1>1, <2>1 DEF Halfway
  <2> QED
    BY <1>1, <2>1, <2>2, MiddleStep DEF Shape, Steps
<1>3. CASE AddDevice(w)
  <2> DEFINE x == IF d \in devs THEN "ack" ELSE "emit"
  <2>1. /\ pc[w] = "sadd" /\ pc' = [pc EXCEPT ![w] = x] /\ pc'[w] = x
        /\ devs' = devs \cup {d} /\ d \in Devices
        /\ UNCHANGED <<session, queue, job, handled, conn, faults>>
    BY <1>1, <1>3 DEF AddDevice, At, Shape, Command
  <2>2. Halfway(w)'
    BY <1>1, <2>1 DEF Halfway
  <2>3. x \in Steps /\ x # "idle"
    BY DEF Steps
  <2> HIDE DEF x
  <2> QED
    BY <1>1, <2>1, <2>2, <2>3, MiddleStep DEF Shape
<1>4. CASE RemoveDevice(w)
  <2>1. /\ pc[w] = "del" /\ pc' = [pc EXCEPT ![w] = "smembers"] /\ pc'[w] = "smembers"
        /\ devs' = devs \ {d} /\ conn' = conn \ {d} /\ d \in Devices
        /\ UNCHANGED <<session, queue, job, handled, faults>>
    BY <1>1, <1>4 DEF RemoveDevice, At, Shape, Command
  <2>2. Halfway(w)'
    BY <1>1, <2>1 DEF Halfway
  <2> QED
    BY <1>1, <2>1, <2>2, MiddleStep DEF Shape, Steps
<1>5. CASE ReadMembers(w)
  <2> DEFINE x == IF devs = {} THEN "drop" ELSE AfterRemove(w)
  <2>1. /\ pc[w] = "smembers" /\ pc' = [pc EXCEPT ![w] = x] /\ pc'[w] = x
        /\ UNCHANGED <<session, queue, job, handled, conn, devs, faults>>
    BY <1>1, <1>5 DEF ReadMembers, At, Shape, redisVars
  <2>2. x \in {"drop", "emit", "ack"} /\ (x = "drop" => devs = {})
    BY DEF AfterRemove
  <2> HIDE DEF x
  <2>3. Halfway(w)'
    BY <1>1, <2>1, <2>2 DEF Halfway
  <2>4. x \in Steps /\ x # "idle"
    BY <2>2 DEF Steps
  <2> QED
    BY <1>1, <2>1, <2>3, <2>4, MiddleStep DEF Shape
<1>6. CASE DropSet(w) \/ DropFails(w)
  <2> DEFINE x == AfterRemove(w)
  <2>1. x \in {"emit", "ack"} /\ x \in Steps /\ x # "idle"
    BY DEF AfterRemove, Steps
  <2>2. /\ pc[w] = "drop" /\ pc' = [pc EXCEPT ![w] = x] /\ pc'[w] = x /\ devs = {}
        /\ UNCHANGED <<session, queue, job, handled, conn, devs>>
        /\ faults' = faults \/ faults' = faults + 1
    BY <1>1, <1>6 DEF DropSet, DropFails, At, Shape, redisVars, Halfway
  <2> HIDE DEF x
  <2>3. Halfway(w)'
    BY <1>1, <2>1, <2>2 DEF Halfway
  <2> QED
    BY <1>1, <2>1, <2>2, <2>3, MiddleStep DEF Shape
<1>7. CASE Emit(w)
  <2>1. /\ pc[w] = "emit" /\ pc' = [pc EXCEPT ![w] = "ack"] /\ pc'[w] = "ack"
        /\ UNCHANGED <<session, queue, job, handled, conn, devs, faults>>
    BY <1>1, <1>7 DEF Emit, At, Shape, redisVars
  <2>2. Halfway(w)'
    BY <1>1, <2>1 DEF Halfway
  <2> QED
    BY <1>1, <2>1, <2>2, MiddleStep DEF Shape, Steps
<1> QED
  BY <1>2, <1>3, <1>4, <1>5, <1>6, <1>7

LEMMA AckStep ==
    ASSUME OneWorker, Good, NEW w \in Workers, Ack(w) PROVE Good'
<1> DEFINE c == job[w]
<1>1. /\ Shape /\ Halfway(w) /\ pc[w] = "ack" /\ c \in Command
      /\ \A v \in Workers : v = w
      /\ UNCHANGED <<session, queue, conn, devs, faults>>
      /\ handled' = [handled EXCEPT ![c.device] = c.isOnline]
  BY DEF Good, Ack, OneWorker, redisVars, Shape
<1>2. /\ pc'[w] = "idle" /\ c.device \in Devices /\ c.isOnline \in BOOLEAN
      /\ handled'[c.device] = c.isOnline
      /\ \A d \in Devices : d # c.device => handled'[d] = handled[d]
  BY <1>1 DEF Ack, Shape, Command
<1>3. Shape'
  <2>1. /\ job' \in [Workers -> Command \cup {NoCommand}] /\ pc' \in [Workers -> Steps]
    BY <1>1 DEF Ack, Shape, Steps
  <2>2. handled' \in [Devices -> BOOLEAN]
    BY <1>1, <1>2 DEF Shape
  <2> QED
    BY <1>1, <1>2, <2>1, <2>2 DEF Shape
<1>4. \A d : /\ Waiting(d)' <=> Waiting(d)
             /\ ~Held(d)' /\ \A v \in Workers : ~Holding(v, d)'
             /\ Held(d) <=> d = c.device
  BY <1>1, <1>2 DEF Waiting, Held, Holding
<1>5. \A v \in Workers : Halfway(v)'
  BY <1>1, <1>2 DEF Halfway
<1>6. Tables'
  <2> SUFFICES ASSUME NEW d \in Devices, ~Waiting(d) PROVE Settled(d)'
    BY <1>4 DEF Tables
  <2>1. CASE d = c.device
    BY <1>1, <1>2, <2>1 DEF Settled, Halfway
  <2>2. CASE d # c.device
    BY <1>1, <1>2, <1>4, <2>2 DEF Good, Tables, Settled
  <2> QED
    BY <2>1, <2>2
<1>7. ASSUME faults = 0, NEW t \in Sessions PROVE LastWord(t)'
  <2>1. LastWord(t) /\ (On(t)' <=> On(t)) /\ DeviceOf[t] \in Devices
    BY <1>1, <1>7 DEF Good, InOrder, On, OneWorker
  <2>2. ASSUME ~Waiting(DeviceOf[t]) PROVE handled'[DeviceOf[t]] <=> On(t)
    <3>1. CASE DeviceOf[t] = c.device
      <4>1. Holding(w, DeviceOf[t])
        BY <1>1, <3>1 DEF Holding
      <4>2. c.isOnline <=> On(t)
        BY <2>1, <2>2, <4>1 DEF LastWord
      <4> QED
        BY <1>2, <3>1, <4>2
    <3>2. CASE DeviceOf[t] # c.device
      BY <1>2, <1>4, <2>1, <2>2, <3>2 DEF LastWord
    <3> QED
      BY <3>1, <3>2
  <2> QED
    BY <1>1, <1>4, <2>1, <2>2 DEF LastWord, Last
<1> QED
  BY <1>1, <1>3, <1>5, <1>6, <1>7 DEF Good, InOrder

(* The command in hand waits again, at either end of the queue.            *)
LEMMA FailStep ==
    ASSUME OneWorker, Good, NEW w \in Workers, Fail(w) PROVE Good'
<1> DEFINE c == job[w]
           n == Len(queue)
<1>1. /\ Shape /\ c \in Command /\ n \in Nat
      /\ \A v \in Workers : v = w
      /\ UNCHANGED <<session, conn, devs, handled>>
      /\ pc' = [pc EXCEPT ![w] = "idle"] /\ job' = [job EXCEPT ![w] = NoCommand]
      /\ pc'[w] = "idle" /\ faults' = faults + 1
  BY DEF Good, Fail, OneWorker, redisVars, Shape
<1>2. /\ queue' \in Seq(Command)
      /\ \A d : Waiting(d) \/ d = c.device => Waiting(d)'
  <2>1. CASE queue' = Append(queue, c)
    <3>1. /\ queue' \in Seq(Command) /\ Len(queue') = n + 1 /\ queue'[n + 1] = c
          /\ \A i \in 1 .. n : queue'[i] = queue[i] /\ i \in 1 .. n + 1
          /\ n + 1 \in 1 .. n + 1
      BY <1>1, <2>1 DEF Shape
    <3> QED
      BY <3>1 DEF Waiting
  <2>2. CASE queue' = <<c>> \o queue
    <3>1. /\ queue' \in Seq(Command) /\ Len(queue') = n + 1 /\ queue'[1] = c
          /\ 1 \in 1 .. n + 1
          /\ \A i \in 1 .. n : queue'[i + 1] = queue[i] /\ i + 1 \in 1 .. n + 1
      BY <1>1, <2>2 DEF Shape
    <3> QED
      BY <3>1 DEF Waiting
  <2> QED
    BY <2>1, <2>2 DEF Fail
<1>3. Shape'
  BY <1>1, <1>2 DEF Shape, Steps
<1>4. \A v \in Workers : Halfway(v)'
  BY <1>1 DEF Halfway
<1>5. \A d : Held(d) => d = c.device
  BY <1>1 DEF Held, Holding
<1>6. Tables'
  BY <1>1, <1>2, <1>5 DEF Good, Tables, Settled
<1>7. InOrder'
  BY <1>1 DEF InOrder, Shape
<1> QED
  BY <1>3, <1>4, <1>6, <1>7 DEF Good

-----------------------------------------------------------------------------
LEMMA StepGood == OneWorker /\ Good /\ [Next]_vars => Good'
<1> SUFFICES ASSUME OneWorker, Good, [Next]_vars PROVE Good'
  OBVIOUS
<1>1. session \in [Sessions -> {"off", "on", "lost"}]
  BY DEF Good, Shape
<1>2. CASE UNCHANGED vars
  <2>1. UNCHANGED <<queue, job, pc, changed, conn, devs, handled, faults, session>>
    BY <1>2 DEF vars, redisVars
  <2>2. \A s \in Sessions : On(s)' <=> On(s)
    BY <2>1 DEF On
  <2> QED
    BY <1>1, <2>1, <2>2, OutsideStep
<1>3. CASE Show \/ GraceExpires
  <2>1. UNCHANGED <<queue, job, pc, changed, conn, devs, handled, faults, session>>
    BY <1>3 DEF Show, GraceExpires, redisVars
  <2>2. \A s \in Sessions : On(s)' <=> On(s)
    BY <2>1 DEF On
  <2> QED
    BY <1>1, <2>1, <2>2, OutsideStep
<1>4. ASSUME NEW s \in Sessions, Lose(s) PROVE Good'
  <2>1. /\ UNCHANGED <<queue, job, pc, changed, conn, devs, handled, faults>>
        /\ session[s] = "on" /\ session' = [session EXCEPT ![s] = "lost"]
    BY <1>4 DEF Lose, redisVars
  <2>2. /\ session' \in [Sessions -> {"off", "on", "lost"}]
        /\ \A t \in Sessions : On(t)' <=> On(t)
    BY <1>1, <2>1 DEF On
  <2> QED
    BY <2>1, <2>2, OutsideStep
<1>5. ASSUME NEW s \in Sessions, Connect(s) \/ Disconnect(s) \/ Will(s) PROVE Good'
  BY <1>5, ClientStep
<1>6. ASSUME NEW w \in Workers, Deliver(w) \/ Handle(w) \/ DropFails(w) \/ Fail(w)
      PROVE  Good'
  BY <1>6, DeliverStep, RedisStep, AckStep, FailStep DEF Handle
<1> QED
  BY <1>2, <1>3, <1>4, <1>5, <1>6 DEF Next

LEMMA InitGood == OneWorker /\ Init => Good
<1> SUFFICES ASSUME OneWorker, Init PROVE Good
  OBVIOUS
<1>1. Shape
  BY DEF Init, Shape, Steps
<1>2. \A d : ~Waiting(d) /\ ~Held(d) /\ \A w \in Workers : ~Holding(w, d)
  BY DEF Init, Waiting, Held, Holding
<1>3. Tables /\ \A w \in Workers : Halfway(w)
  BY DEF Init, Tables, Settled, Halfway
<1>4. \A s \in Sessions : LastWord(s)
  BY <1>2 DEF Init, LastWord, On, OneWorker
<1> QED
  BY <1>1, <1>3, <1>4 DEF Good, InOrder

(* Whatever failed half-way and was redelivered, when no command is left   *)
(* the presence set and the connection keys are what the last commands     *)
(* said, and until a fault nobody with a connection is offline             *)
(* (packages/redis/src/index.ts:41-76, handlers/presence.ts).              *)
THEOREM PresenceKept == OneWorker => (Spec => []PresenceHonest)
<1> SUFFICES ASSUME OneWorker PROVE Spec => []PresenceHonest
  OBVIOUS
<1>1. Spec => []Good
  BY InitGood, StepGood, PTL DEF Spec
<1> QED
  BY <1>1, GoodHonest, PTL

-----------------------------------------------------------------------------
(* Pushes: Notifications, for any users, messages and bounds.  Presence is *)
(* looked up while people come and go, so its proofs are kept here.        *)
CONSTANTS Users, Sender, MaxMoves, MaxTwice
VARIABLES members, online, created, unread, run, pushed, recorded, moves, twice,
          sawOffline, stayed, excused

N == INSTANCE Notifications WITH queue <- unread

Lookups == UNION {[S -> {"check", "send", "record"}] : S \in SUBSET Users}

PushShape == /\ members \subseteq Users /\ online \subseteq Users
             /\ created \subseteq N!Messages /\ unread \subseteq created
             /\ run \in [N!Messages -> Lookups]
             /\ DOMAIN sawOffline = N!Messages /\ DOMAIN stayed = N!Messages
             /\ sawOffline = [m \in N!Messages |-> sawOffline[m]]
             /\ stayed = [m \in N!Messages |-> stayed[m]]
             /\ pushed \subseteq N!Messages \X Users

(* The history of a message is that of the people: whoever is offline was  *)
(* seen so, whoever stayed is an offline member.                           *)
Followed == \A m \in N!Messages :
    /\ m \in created => Users \ online \subseteq sawOffline[m]
    /\ stayed[m] \subseteq members \ online

(* Lookups are for others than the sender, and past the lookup for people  *)
(* that were offline; recorded is what was pushed.                         *)
Justified ==
    /\ recorded \subseteq pushed
    /\ \A m \in N!Messages, u \in Users :
          /\ <<m, u>> \in pushed => m \in created /\ u \in sawOffline[m] \ {Sender[m]}
          /\ u \in DOMAIN run[m] =>
                /\ m \in created /\ u # Sender[m]
                /\ run[m][u] \in {"send", "record"} => u \in sawOffline[m]
                /\ run[m][u] = "record" => <<m, u>> \in pushed

(* Nobody who stayed is forgotten once the event is taken.                 *)
Owed == \A m \in created \ unread : \A u \in stayed[m] \ {Sender[m]} :
    <<m, u>> \in pushed \cup excused \/ u \in DOMAIN run[m]

PushGood == PushShape /\ Followed /\ Justified /\ Owed

LEMMA LookupsDef ==
    ASSUME NEW f
    PROVE  f \in Lookups <=> /\ f = [u \in DOMAIN f |-> f[u]]
                             /\ DOMAIN f \subseteq Users
                             /\ \A u \in DOMAIN f : f[u] \in {"check", "send", "record"}
<1>1. ASSUME f \in Lookups
      PROVE  /\ f = [u \in DOMAIN f |-> f[u]]
             /\ DOMAIN f \subseteq Users
             /\ \A u \in DOMAIN f : f[u] \in {"check", "send", "record"}
  <2>1. PICK S \in SUBSET Users : f \in [S -> {"check", "send", "record"}]
    BY <1>1 DEF Lookups
  <2>2. QED
    BY <2>1
<1>2. ASSUME f = [u \in DOMAIN f |-> f[u]], DOMAIN f \subseteq Users,
             \A u \in DOMAIN f : f[u] \in {"check", "send", "record"}
      PROVE  f \in Lookups
  <2>1. f \in [DOMAIN f -> {"check", "send", "record"}]
    BY <1>2
  <2>2. QED
    BY <1>2, <2>1 DEF Lookups
<1>3. QED
  BY <1>1, <1>2

LEMMA NoRunShape == N!NoRun \in Lookups /\ DOMAIN N!NoRun = {}
<1>1. N!NoRun \in [{} -> {"check", "send", "record"}]
  BY DEF N!NoRun
<1>2. QED
  BY <1>1 DEF Lookups

(* People come and go.                                                     *)
LEMMA MoveKeeps ==
    ASSUME PushGood, N!Move, members' \subseteq Users, online' \subseteq Users
    PROVE  PushGood'
<1>1. /\ UNCHANGED <<created, unread, run, pushed, recorded, excused>>
      /\ sawOffline' = [m \in N!Messages |-> IF m \in created
                                             THEN sawOffline[m] \cup (Users \ online') ELSE {}]
      /\ stayed' = [m \in N!Messages |-> stayed[m] \cap (members' \ online')]
  BY DEF N!Move, N!Follow
<1>2. PushShape'
  BY <1>1 DEF PushGood, PushShape
<1>3. Followed'
  BY <1>1 DEF Followed
<1>4. \A m \in created : m \in N!Messages /\ sawOffline[m] \subseteq sawOffline'[m]
  BY <1>1 DEF PushGood, PushShape
<1>5. Justified'
  BY <1>1, <1>4 DEF PushGood, Justified
<1>6. Owed'
  BY <1>1 DEF PushGood, PushShape, Owed
<1>7. QED
  BY <1>2, <1>3, <1>5, <1>6 DEF PushGood

LEMMA CreatedKeeps ==
    ASSUME PushGood, NEW m \in N!Messages, N!Created(m) PROVE PushGood'
<1>1. /\ m \notin created /\ created' = created \cup {m} /\ unread' = unread \cup {m}
      /\ sawOffline' = [sawOffline EXCEPT ![m] = Users \ online]
      /\ stayed' = [stayed EXCEPT ![m] = members \ online]
      /\ UNCHANGED <<members, online, run, pushed, recorded, excused>>
  BY DEF N!Created
<1>2. /\ DOMAIN sawOffline = N!Messages /\ DOMAIN stayed = N!Messages
      /\ sawOffline'[m] = Users \ online /\ stayed'[m] = members \ online
      /\ \A k \in N!Messages \ {m} : sawOffline'[k] = sawOffline[k] /\ stayed'[k] = stayed[k]
  BY <1>1 DEF PushGood, PushShape
<1>3. PushShape'
  BY <1>1, <1>2 DEF PushGood, PushShape
<1>4. Followed'
  BY <1>1, <1>2 DEF PushGood, Followed
<1>5. Justified'
  BY <1>1, <1>2 DEF PushGood, Justified
<1>6. Owed'
  BY <1>1, <1>2 DEF PushGood, PushShape, Owed
<1>7. QED
  BY <1>3, <1>4, <1>5, <1>6 DEF PushGood

LEMMA TakeKeeps ==
    ASSUME PushGood, NEW m \in N!Messages, N!Take(m) PROVE PushGood'
<1> DEFINE f == [u \in N!Recipients(m) |-> "check"]
<1>1. /\ m \in unread /\ unread' \in {unread, unread \ {m}}
      /\ run' = [run EXCEPT ![m] = f]
      /\ UNCHANGED <<members, online, created, pushed, recorded, sawOffline, stayed, excused>>
  BY DEF N!Take, N!History
<1>2. /\ f \in Lookups /\ DOMAIN f = members \ {Sender[m]}
      /\ \A u \in DOMAIN f : f[u] = "check"
  <2>1. f \in [N!Recipients(m) -> {"check", "send", "record"}]
    OBVIOUS
  <2>2. N!Recipients(m) \in SUBSET Users
    BY DEF N!Recipients, PushGood, PushShape
  <2>3. QED
    BY <2>1, <2>2 DEF Lookups, N!Recipients
<1> HIDE DEF f
<1>3. /\ run' \in [N!Messages -> Lookups] /\ run'[m] = f
      /\ \A k \in N!Messages \ {m} : run'[k] = run[k]
  BY <1>1, <1>2 DEF PushGood, PushShape
<1>4. PushShape'
  BY <1>1, <1>3 DEF PushGood, PushShape
<1>5. Followed'
  BY <1>1 DEF PushGood, Followed
<1>6. Justified'
  BY <1>1, <1>2, <1>3 DEF PushGood, PushShape, Justified
<1>7. Owed'
  <2>1. ASSUME NEW k \in created' \ unread', NEW u \in stayed'[k] \ {Sender[k]}
        PROVE  <<k, u>> \in pushed' \cup excused' \/ u \in DOMAIN run'[k]
    <3>1. CASE k = m
      <4>1. u \in members
        BY <1>1, <3>1 DEF PushGood, Followed
      <4>2. QED
        BY <1>2, <1>3, <3>1, <4>1
    <3>2. CASE k # m
      <4>1. k \in created \ unread /\ k \in N!Messages
        BY <1>1, <3>2 DEF PushGood, PushShape
      <4>2. QED
        BY <1>1, <1>3, <3>2, <4>1 DEF PushGood, Owed
    <3>3. QED
      BY <3>1, <3>2
  <2>2. QED
    BY <2>1 DEF Owed
<1>8. QED
  BY <1>4, <1>5, <1>6, <1>7 DEF PushGood

(* A lookup of u goes on: its state changes, or it ends.                   *)
LEMMA GotoShape ==
    ASSUME PushShape, NEW m \in N!Messages, NEW u \in DOMAIN run[m],
           NEW step \in {"check", "send", "record"}, N!Goto(m, u, step)
    PROVE  /\ run' \in [N!Messages -> Lookups]
           /\ \A k \in N!Messages : DOMAIN run'[k] = DOMAIN run[k]
           /\ run'[m][u] = step
           /\ \A k \in N!Messages : \A v \in DOMAIN run[k] :
                 <<k, v>> # <<m, u>> => run'[k][v] = run[k][v]
<1> DEFINE f == [run[m] EXCEPT ![u] = step]
<1>1. run[m] \in Lookups /\ run \in [N!Messages -> Lookups]
  BY DEF PushShape
<1>2. /\ DOMAIN f = DOMAIN run[m] /\ f[u] = step /\ f = [v \in DOMAIN f |-> f[v]]
      /\ \A v \in DOMAIN run[m] \ {u} : f[v] = run[m][v]
  BY <1>1, LookupsDef
<1>3. run' = [run EXCEPT ![m] = f]
  BY DEF N!Goto
<1> HIDE DEF f
<1>4. f \in Lookups
  BY <1>1, <1>2, LookupsDef
<1>5. run' \in [N!Messages -> Lookups] /\ run'[m] = f
      /\ \A k \in N!Messages \ {m} : run'[k] = run[k]
  BY <1>1, <1>3, <1>4
<1>6. QED
  BY <1>2, <1>5

LEMMA EndedShape ==
    ASSUME PushShape, NEW m \in N!Messages, NEW u \in DOMAIN run[m], N!Ended(m, u)
    PROVE  /\ run' \in [N!Messages -> Lookups]
           /\ DOMAIN run'[m] = DOMAIN run[m] \ {u}
           /\ \A v \in DOMAIN run'[m] : run'[m][v] = run[m][v]
           /\ \A k \in N!Messages \ {m} : run'[k] = run[k]
<1> DEFINE f == [v \in DOMAIN run[m] \ {u} |-> run[m][v]]
<1>1. run[m] \in Lookups /\ run \in [N!Messages -> Lookups]
  BY DEF PushShape
<1>2. /\ DOMAIN f = DOMAIN run[m] \ {u} /\ f = [v \in DOMAIN f |-> f[v]]
      /\ \A v \in DOMAIN f : f[v] = run[m][v]
  OBVIOUS
<1>3. run' = [run EXCEPT ![m] = f]
  BY DEF N!Ended
<1> HIDE DEF f
<1>4. f \in Lookups
  <2>1. DOMAIN run[m] \subseteq Users
    BY <1>1, LookupsDef
  <2>2. \A v \in DOMAIN run[m] : run[m][v] \in {"check", "send", "record"}
    BY <1>1, LookupsDef
  <2>3. QED
    BY <1>2, <2>1, <2>2, LookupsDef
<1>5. QED
  BY <1>1, <1>2, <1>3, <1>4

LEMMA RunKeeps ==
    ASSUME PushGood, NEW m \in N!Messages, NEW u \in Users,
           \/ N!Check(m, u) \/ N!CheckFails(m, u) \/ N!Send(m, u) \/ N!Record(m, u)
           \/ N!Throws(m, u)
    PROVE  PushGood'
<1>1. /\ UNCHANGED <<members, online, created, unread, sawOffline, stayed>>
      /\ u \in DOMAIN run[m] /\ PushShape
  BY DEF N!Check, N!CheckFails, N!Send, N!Record, N!Throws, N!At, N!History, PushGood
<1>2. Followed'
  BY <1>1 DEF PushGood, Followed
<1>3. SUFFICES PushShape' /\ Justified' /\ Owed'
  BY <1>2 DEF PushGood
<1>4. m \in created /\ u # Sender[m]
  BY <1>1 DEF PushGood, Justified
<1>5. CASE N!Ended(m, u)
  <2>1. /\ run' \in [N!Messages -> Lookups]
        /\ DOMAIN run'[m] = DOMAIN run[m] \ {u}
        /\ \A v \in DOMAIN run'[m] : run'[m][v] = run[m][v]
        /\ \A k \in N!Messages \ {m} : run'[k] = run[k]
    BY <1>1, <1>5, EndedShape
  <2>2. /\ pushed' = pushed
        /\ recorded' = recorded \/ (recorded' = recorded \cup {<<m, u>>} /\ run[m][u] = "record")
        /\ excused \subseteq excused'
        /\ u \in stayed[m] => <<m, u>> \in pushed \cup excused'
    <3>1. CASE N!Check(m, u)
      <4>1. u \in online
        <5>1. SUFFICES ASSUME u \notin online PROVE FALSE
          OBVIOUS
        <5>2. N!Goto(m, u, "send")
          BY <3>1, <5>1 DEF N!Check
        <5>3. DOMAIN run'[m] = DOMAIN run[m]
          BY <1>1, <5>2, GotoShape
        <5>4. QED
          BY <1>1, <2>1, <5>3
      <4>2. u \notin stayed[m]
        BY <4>1 DEF PushGood, Followed
      <4>3. QED
        BY <3>1, <4>2 DEF N!Check, N!History
    <3>2. CASE N!CheckFails(m, u)
      BY <3>2 DEF N!CheckFails
    <3>3. CASE N!Send(m, u)
      <4>1. DOMAIN run'[m] = DOMAIN run[m]
        BY <1>1, <3>3, GotoShape DEF N!Send
      <4>2. QED
        BY <1>1, <2>1, <4>1
    <3>4. CASE N!Record(m, u)
      <4>1. run[m][u] = "record" /\ <<m, u>> \in pushed
        BY <1>1, <3>4 DEF N!Record, N!At, PushGood, Justified
      <4>2. QED
        BY <3>4, <4>1 DEF N!Record, N!History
    <3>5. CASE N!Throws(m, u)
      BY <3>5 DEF N!Throws
    <3>6. QED
      BY <3>1, <3>2, <3>3, <3>4, <3>5
  <2>3. PushShape'
    BY <1>1, <2>1, <2>2 DEF PushShape
  <2>4. Justified'
    <3>1. recorded' \subseteq pushed'
      BY <1>1, <2>2 DEF PushGood, Justified
    <3>2. ASSUME NEW k \in N!Messages, NEW v \in Users
          PROVE  /\ <<k, v>> \in pushed' => k \in created' /\ v \in sawOffline'[k] \ {Sender[k]}
                 /\ v \in DOMAIN run'[k] =>
                       /\ k \in created' /\ v # Sender[k]
                       /\ run'[k][v] \in {"send", "record"} => v \in sawOffline'[k]
                       /\ run'[k][v] = "record" => <<k, v>> \in pushed'
      <4>1. v \in DOMAIN run'[k] => v \in DOMAIN run[k] /\ run'[k][v] = run[k][v]
        BY <2>1
      <4>2. QED
        BY <1>1, <2>2, <4>1 DEF PushGood, Justified
    <3>3. QED
      BY <3>1, <3>2 DEF Justified
  <2>5. Owed'
    <3>1. ASSUME NEW k \in created \ unread, NEW v \in stayed[k] \ {Sender[k]}
          PROVE  <<k, v>> \in pushed' \cup excused' \/ v \in DOMAIN run'[k]
      <4>1. k \in N!Messages /\ (<<k, v>> \in pushed \cup excused \/ v \in DOMAIN run[k])
        BY DEF PushGood, PushShape, Owed
      <4>2. CASE k = m /\ v = u
        BY <2>2, <4>2
      <4>3. CASE k # m \/ v # u
        BY <2>1, <2>2, <4>1, <4>3
      <4>4. QED
        BY <4>2, <4>3
    <3>2. QED
      BY <1>1, <3>1 DEF Owed
  <2>6. QED
    BY <2>3, <2>4, <2>5
<1>6. CASE N!Check(m, u) /\ u \notin online
  <2>1. N!Goto(m, u, "send") /\ UNCHANGED <<pushed, recorded, excused>>
    BY <1>6 DEF N!Check, N!History
  <2>2. /\ run' \in [N!Messages -> Lookups]
        /\ \A k \in N!Messages : DOMAIN run'[k] = DOMAIN run[k]
        /\ run'[m][u] = "send"
        /\ \A k \in N!Messages : \A v \in DOMAIN run[k] :
              <<k, v>> # <<m, u>> => run'[k][v] = run[k][v]
    BY <1>1, <2>1, GotoShape
  <2>3. u \in sawOffline[m]
    BY <1>4, <1>6 DEF PushGood, Followed
  <2>4. PushShape'
    BY <1>1, <2>1, <2>2 DEF PushShape
  <2>5. Justified'
    <3>1. ASSUME NEW k \in N!Messages, NEW v \in Users, v \in DOMAIN run'[k]
          PROVE  /\ k \in created' /\ v # Sender[k]
                 /\ run'[k][v] \in {"send", "record"} => v \in sawOffline'[k]
                 /\ run'[k][v] = "record" => <<k, v>> \in pushed'
      <4>1. CASE k = m /\ v = u
        BY <1>1, <1>4, <2>2, <2>3, <4>1
      <4>2. CASE ~(k = m /\ v = u)
        <5>1. v \in DOMAIN run[k] /\ run'[k][v] = run[k][v]
          BY <2>2, <3>1, <4>2
        <5>2. QED
          BY <1>1, <2>1, <5>1 DEF PushGood, Justified
      <4>3. QED
        BY <4>1, <4>2
    <3>2. QED
      BY <1>1, <2>1, <3>1 DEF PushGood, Justified
  <2>6. Owed'
    BY <1>1, <2>1, <2>2 DEF PushGood, PushShape, Owed
  <2>7. QED
    BY <2>4, <2>5, <2>6
<1>7. CASE N!Send(m, u)
  <2>1. /\ N!Goto(m, u, "record") /\ run[m][u] = "send" /\ pushed' = pushed \cup {<<m, u>>}
        /\ UNCHANGED <<recorded, excused>>
    BY <1>7 DEF N!Send, N!At, N!History
  <2>2. /\ run' \in [N!Messages -> Lookups]
        /\ \A k \in N!Messages : DOMAIN run'[k] = DOMAIN run[k]
        /\ run'[m][u] = "record"
        /\ \A k \in N!Messages : \A v \in DOMAIN run[k] :
              <<k, v>> # <<m, u>> => run'[k][v] = run[k][v]
    BY <1>1, <2>1, GotoShape
  <2>3. u \in sawOffline[m]
    BY <1>1, <2>1 DEF PushGood, Justified
  <2>4. PushShape'
    BY <1>1, <2>1, <2>2 DEF PushShape
  <2>5. Justified'
    <3>1. recorded' \subseteq pushed'
      BY <2>1 DEF PushGood, Justified
    <3>2. ASSUME NEW k \in N!Messages, NEW v \in Users, <<k, v>> \in pushed'
          PROVE  k \in created' /\ v \in sawOffline'[k] \ {Sender[k]}
      <4>1. CASE k = m /\ v = u
        BY <1>1, <1>4, <2>3, <4>1
      <4>2. CASE ~(k = m /\ v = u)
        <5>1. <<k, v>> \in pushed
          BY <2>1, <3>2, <4>2
        <5>2. QED
          BY <1>1, <5>1 DEF PushGood, Justified
      <4>3. QED
        BY <4>1, <4>2
    <3>3. ASSUME NEW k \in N!Messages, NEW v \in Users, v \in DOMAIN run'[k]
          PROVE  /\ k \in created' /\ v # Sender[k]
                 /\ run'[k][v] \in {"send", "record"} => v \in sawOffline'[k]
                 /\ run'[k][v] = "record" => <<k, v>> \in pushed'
      <4>1. CASE k = m /\ v = u
        BY <1>1, <1>4, <2>1, <2>3, <4>1
      <4>2. CASE ~(k = m /\ v = u)
        <5>1. v \in DOMAIN run[k] /\ run'[k][v] = run[k][v]
          BY <2>2, <3>3, <4>2
        <5>2. QED
          BY <1>1, <2>1, <5>1 DEF PushGood, Justified
      <4>3. QED
        BY <4>1, <4>2
    <3>4. QED
      BY <3>1, <3>2, <3>3 DEF Justified
  <2>6. Owed'
    BY <1>1, <2>1, <2>2 DEF PushGood, PushShape, Owed
  <2>7. QED
    BY <2>4, <2>5, <2>6
<1>8. QED
  BY <1>5, <1>6, <1>7 DEF N!Check, N!CheckFails, N!Record, N!Throws

LEMMA CrashKeeps == ASSUME PushGood, N!Crash PROVE PushGood'
<1>1. /\ run' = [m \in N!Messages |-> N!NoRun]
      /\ excused' = excused \cup UNION {{m} \X DOMAIN run[m] : m \in N!Messages}
      /\ UNCHANGED <<members, online, created, unread, pushed, recorded, sawOffline, stayed>>
  BY DEF N!Crash
<1>2. \A m \in N!Messages : run'[m] = N!NoRun /\ DOMAIN run'[m] = {}
  BY <1>1, NoRunShape
<1>3. PushShape'
  BY <1>1, NoRunShape DEF PushGood, PushShape
<1>4. Followed'
  BY <1>1 DEF PushGood, Followed
<1>5. Justified'
  BY <1>1, <1>2 DEF PushGood, Justified
<1>6. Owed'
  <2>1. ASSUME NEW k \in created \ unread, NEW v \in stayed[k] \ {Sender[k]}
        PROVE  <<k, v>> \in pushed \cup excused'
    <3>1. k \in N!Messages /\ (<<k, v>> \in pushed \cup excused \/ v \in DOMAIN run[k])
      BY DEF PushGood, PushShape, Owed
    <3>2. ASSUME v \in DOMAIN run[k] PROVE <<k, v>> \in excused'
      BY <1>1, <3>1, <3>2
    <3>3. QED
      BY <1>1, <3>1, <3>2
  <2>2. QED
    BY <1>1, <2>1 DEF Owed
<1>7. QED
  BY <1>3, <1>4, <1>5, <1>6 DEF PushGood

LEMMA PushStep == PushGood /\ [N!Next]_(N!vars) => PushGood'
<1> SUFFICES ASSUME PushGood, [N!Next]_(N!vars) PROVE PushGood'
  OBVIOUS
<1>1. ASSUME NEW u \in Users, N!Come(u) \/ N!Go(u) \/ N!Join(u) \/ N!Leave(u) PROVE PushGood'
  <2>1. N!Move /\ members' \subseteq Users /\ online' \subseteq Users
    BY <1>1 DEF N!Come, N!Go, N!Join, N!Leave, PushGood, PushShape
  <2>2. QED
    BY <2>1, MoveKeeps
<1>2. CASE UNCHANGED N!vars
  BY <1>2 DEF N!vars, PushGood, PushShape, Followed, Justified, Owed
<1>3. QED
  BY <1>1, <1>2, CreatedKeeps, TakeKeeps, RunKeeps, CrashKeeps DEF N!Next

(* A push goes only to a member other than the sender who was offline at   *)
(* some time after the message, and to every member who was offline all    *)
(* the time, except for failed calls and crashes                           *)
(* (notification-worker/src/index.ts:64-102); for any people, messages and *)
(* lookups that overlap with people coming and going.                      *)
THEOREM PushesKept == N!Spec => []N!PushesHonest
<1>1. N!Init => PushGood
  <2> SUFFICES ASSUME N!Init PROVE PushGood
    OBVIOUS
  <2>1. /\ members = Users /\ online \in SUBSET Users /\ created = {} /\ unread = {}
        /\ run = [m \in N!Messages |-> N!NoRun] /\ pushed = {} /\ recorded = {}
        /\ sawOffline = [m \in N!Messages |-> {}] /\ stayed = [m \in N!Messages |-> {}]
    BY DEF N!Init
  <2>2. PushShape
    BY <2>1, NoRunShape DEF PushShape
  <2>3. Followed /\ Owed
    BY <2>1 DEF Followed, Owed
  <2>4. Justified
    BY <2>1, NoRunShape DEF Justified
  <2>5. QED
    BY <2>2, <2>3, <2>4 DEF PushGood
<1>2. PushGood => N!PushesHonest
  <2> SUFFICES ASSUME PushGood PROVE N!PushesHonest
    OBVIOUS
  <2>1. ASSUME NEW p \in pushed PROVE p[2] \in sawOffline[p[1]] \ {Sender[p[1]]}
    <3>1. PICK m \in N!Messages, u \in Users : p = <<m, u>>
      BY DEF PushGood, PushShape
    <3>2. u \in sawOffline[m] \ {Sender[m]}
      BY <3>1 DEF PushGood, Justified
    <3>3. QED
      BY <3>1, <3>2
  <2>2. ASSUME NEW m \in N!Messages, m \in created \ unread, run[m] = N!NoRun,
               NEW u \in stayed[m] \ {Sender[m]}
        PROVE  <<m, u>> \in pushed \cup excused
    BY <2>2, NoRunShape DEF PushGood, Owed
  <2>3. QED
    BY <2>1, <2>2 DEF N!PushesHonest, PushGood, Justified
<1>3. QED
  BY <1>1, <1>2, PushStep, PTL DEF N!Spec
===============================================================================
