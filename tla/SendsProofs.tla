------------------------------ MODULE SendsProofs ------------------------------
(***************************************************************************)
(* Proofs about Sends, for both clients, any finite set of messages and    *)
(* any bounds.                                                             *)
(***************************************************************************)
EXTENDS Sends, FiniteSetTheorems, TLAPS

FewMessages == IsFiniteSet(Messages)

States == {"unsent", "queued", "pending", "failed", "none"}
Flush == {q \in Seq(Messages) : q # <<>>}

(* A flush in progress has a message whose publish it awaits.              *)
Shape == /\ entry \in [Messages -> States]
         /\ flushes \in Seq(Flush)
         /\ \A e \in events : /\ e.id \in Messages
                              /\ e.type \in {"message.created", "message.rejected"}
         /\ cmds \subseteq Messages /\ log \subseteq Messages

Good == Shape /\ NeverLost

-----------------------------------------------------------------------------
(* What one step does to the entry of m: it is gone after message.created  *)
(* only, and what was gone comes back in a flush only.                     *)
Kept(m) == /\ entry'[m] = "none" => entry[m] = "none" \/ m \in rows'
           /\ entry[m] = "none" /\ entry'[m] # "none" =>
                 \E i \in DOMAIN flushes : m \in ToSet(Tail(flushes[i]))

StepOK == /\ entry' \in [Messages -> States]
          /\ rows \subseteq rows'
          /\ \A m \in Messages : Kept(m)

LEMMA FailedOK ==
    ASSUME entry \in [Messages -> States], NEW m \in Messages, MarkFailed(m)
    PROVE  /\ entry' \in [Messages -> States]
           /\ \A k \in Messages : entry'[k] = "none" <=> entry[k] = "none"
<1>1. entry' = [entry EXCEPT ![m] = IF entry[m] = "none" THEN "none" ELSE "failed"]
  BY DEF MarkFailed, Entry
<1> QED
  BY <1>1 DEF States

(* The queued messages in some order.                                      *)
LEMMA Orders ==
    ASSUME FewMessages, entry \in [Messages -> States], Queued # {},
           NEW todo \in SetToSeqs(Queued)
    PROVE  todo \in Flush /\ Head(todo) \in Messages /\ entry[Head(todo)] = "queued"
<1> DEFINE n == Cardinality(Queued)
<1>1. n \in Nat /\ n # 0
  <2>1. IsFiniteSet(Queued)
    BY FS_Subset DEF FewMessages, Queued
  <2> QED
    BY <2>1, FS_CardinalityType, FS_EmptySet
<1>2. todo \in [1 .. n -> Queued]
  BY DEF SetToSeqs
<1> HIDE DEF n
<1>3. todo \in Seq(Queued) /\ Len(todo) = n
  BY <1>1, <1>2
<1>4. Head(todo) = todo[1] /\ todo[1] \in Queued /\ todo # <<>>
  BY <1>1, <1>2, <1>3
<1>5. todo \in Seq(Messages)
  BY <1>3 DEF Queued
<1> QED
  BY <1>4, <1>5 DEF Queued, Flush

LEMMA UserStep ==
    ASSUME Shape, NEW m \in Messages,
           SendMobile(m) \/ SendWeb(m) \/ RetryMobile(m) \/ RetryWeb(m) \/ TimerFires(m)
    PROVE  StepOK /\ Shape'
<1>1. UNCHANGED <<flushes, rows, cmds, log, events>>
  BY DEF SendMobile, SendWeb, RetryMobile, RetryWeb, Retry, TimerFires, environment,
         serverVars
<1>2. /\ entry' \in [Messages -> States]
      /\ \A k \in Messages : entry'[k] = "none" <=> entry[k] = "none"
  <2>1. CASE TimerFires(m)
    BY <2>1, FailedOK DEF TimerFires, Shape
  <2>2. CASE ~TimerFires(m)
    <3>1. /\ entry[m] \in {"unsent", "failed"}
          /\ \E x \in {"pending", "queued", "failed"} : entry' = [entry EXCEPT ![m] = x]
      BY <2>2 DEF SendMobile, SendWeb, RetryMobile, RetryWeb, Retry, Entry, Shape
    <3> QED
      BY <3>1 DEF Shape, States
  <2> QED
    BY <2>1, <2>2
<1> QED
  BY <1>1, <1>2 DEF StepOK, Kept, Shape

LEMMA ReceiveStep ==
    ASSUME Shape, NEW e \in events, Receive(e)
    PROVE  StepOK /\ Shape'
<1>1. /\ UNCHANGED <<flushes, cmds, log>> /\ events' \subseteq events
      /\ e.id \in Messages /\ entry \in [Messages -> States]
  BY DEF Receive, Shape
<1>2. CASE Entry(e.id, "none") /\ rows' = rows \cup {e.id}
  <2>1. /\ entry' \in [Messages -> States]
        /\ \A k \in Messages : entry'[k] = IF k = e.id THEN "none" ELSE entry[k]
    BY <1>1, <1>2 DEF Entry, States
  <2> QED
    BY <1>1, <1>2, <2>1 DEF StepOK, Kept, Shape
<1>3. CASE MarkFailed(e.id) /\ UNCHANGED rows
  <2>1. /\ entry' \in [Messages -> States]
        /\ \A k \in Messages : entry'[k] = "none" <=> entry[k] = "none"
    BY <1>1, <1>3, FailedOK
  <2> QED
    BY <1>1, <1>3, <2>1 DEF StepOK, Kept, Shape
<1> QED
  BY <1>2, <1>3 DEF Receive, ReconcileMobile, ReconcileWeb

LEMMA FlushStep ==
    ASSUME FewMessages, Shape, FlushWeb \/ FlushMobile
    PROVE  StepOK /\ Shape'
<1>1. UNCHANGED <<rows, cmds, log, events>> /\ entry \in [Messages -> States]
  BY DEF FlushWeb, FlushMobile, serverVars, Shape
<1>2. /\ entry' \in [Messages -> States] /\ flushes' \in Seq(Flush)
      /\ \A k \in Messages : entry'[k] = "none" <=> entry[k] = "none"
  <2>1. CASE FlushWeb
    BY <1>1, <2>1 DEF FlushWeb, Queued, Shape, States
  <2>2. CASE FlushMobile /\ UNCHANGED <<entry, flushes>>
    BY <1>1, <2>2 DEF Shape
  <2>3. CASE /\ UNCHANGED flushes
             /\ entry' = [m \in Messages |-> IF m \in Queued THEN "failed" ELSE entry[m]]
    BY <1>1, <2>3 DEF Queued, Shape, States
  <2>4. ASSUME Queued # {}, NEW todo \in SetToSeqs(Queued),
               flushes' = Append(flushes, todo),
               entry' = [entry EXCEPT ![Head(todo)] = "pending"]
        PROVE  /\ entry' \in [Messages -> States] /\ flushes' \in Seq(Flush)
               /\ \A k \in Messages : entry'[k] = "none" <=> entry[k] = "none"
    <3>1. todo \in Flush /\ Head(todo) \in Messages /\ entry[Head(todo)] = "queued"
      BY <1>1, <2>4, Orders
    <3>2. flushes' \in Seq(Flush)
      BY <2>4, <3>1 DEF Shape
    <3> QED
      BY <1>1, <2>4, <3>1, <3>2 DEF States
  <2> QED
    BY <2>1, <2>2, <2>3, <2>4 DEF FlushMobile
<1> QED
  BY <1>1, <1>2 DEF StepOK, Kept, Shape

(* The next message of a flush, noted while it was queued, is pending      *)
(* again whatever happened to it.                                          *)
LEMMA FlushAckedStep ==
    ASSUME Shape, NEW i \in DOMAIN flushes, FlushAcked(i)
    PROVE  StepOK /\ Shape'
<1> DEFINE todo == flushes[i]
<1>1. /\ UNCHANGED <<rows, log, events>> /\ entry \in [Messages -> States]
      /\ cmds' = cmds \cup {Head(todo)}
      /\ flushes \in Seq(Flush) /\ i \in 1 .. Len(flushes) /\ Len(flushes) \in Nat
  BY DEF FlushAcked, Shape
<1>2. todo \in Seq(Messages) /\ todo # <<>>
  BY <1>1 DEF Flush
<1>3. Head(todo) \in Messages
  BY <1>2
<1>4. CASE flushes' = RemoveAt(flushes, i) /\ UNCHANGED entry
  <2>1. /\ SubSeq(flushes, 1, i - 1) \in Seq(Flush)
        /\ SubSeq(flushes, i + 1, Len(flushes)) \in Seq(Flush)
    BY <1>1
  <2>2. flushes' \in Seq(Flush)
    BY <1>4, <2>1 DEF RemoveAt
  <2> QED
    BY <1>1, <1>3, <1>4, <2>2 DEF StepOK, Kept, Shape
<1>5. CASE /\ Len(todo) > 1
           /\ flushes' = [flushes EXCEPT ![i] = Tail(todo)]
           /\ entry' = [entry EXCEPT ![todo[2]] = "pending"]
  <2>1. /\ Tail(todo) \in Seq(Messages) /\ Len(Tail(todo)) = Len(todo) - 1
        /\ Tail(todo)[1] = todo[2] /\ 1 \in DOMAIN Tail(todo) /\ todo[2] \in Messages
    BY <1>2, <1>5
  <2>2. Tail(todo) \in Flush
    <3>1. Len(Tail(todo)) # 0
      BY <1>2, <1>5, <2>1
    <3>2. Tail(todo) # <<>>
      BY <3>1
    <3> QED
      BY <2>1, <3>2 DEF Flush
  <2>3. flushes' \in Seq(Flush)
    BY <1>1, <1>5, <2>2
  <2>4. todo[2] \in ToSet(Tail(todo))
    BY <2>1 DEF ToSet
  <2>5. /\ entry' \in [Messages -> States]
        /\ \A k \in Messages : entry'[k] = IF k = todo[2] THEN "pending" ELSE entry[k]
    BY <1>1, <1>5, <2>1 DEF States
  <2>6. StepOK
    BY <1>1, <2>4, <2>5 DEF StepOK, Kept
  <2> QED
    BY <1>1, <1>3, <2>3, <2>5, <2>6 DEF Shape
<1> QED
  BY <1>4, <1>5 DEF FlushAcked

LEMMA ServerStep ==
    ASSUME Shape, NEW m \in Messages,
           PubAck(m) \/ Transmit(m) \/ Store(m) \/ Reject(m)
    PROVE  StepOK /\ Shape'
<1>1. UNCHANGED <<entry, flushes, rows>>
  BY DEF PubAck, Transmit, Store, Reject, clientVars
<1>2. /\ cmds' \subseteq Messages /\ log' \subseteq Messages
      /\ \A e \in events' : /\ e.id \in Messages
                            /\ e.type \in {"message.created", "message.rejected"}
  <2>1. CASE PubAck(m) \/ Transmit(m)
    BY <2>1 DEF PubAck, Transmit, Shape
  <2>2. CASE Store(m)
    BY <2>2 DEF Store, Shape
  <2>3. CASE Reject(m)
    BY <2>3 DEF Reject, Shape
  <2> QED
    BY <2>1, <2>2, <2>3
<1> QED
  BY <1>1, <1>2 DEF StepOK, Kept, Shape

LEMMA StepShape == FewMessages /\ Shape /\ [Next]_vars => StepOK /\ Shape'
<1> SUFFICES ASSUME FewMessages, Shape, [Next]_vars PROVE StepOK /\ Shape'
  OBVIOUS
<1>1. CASE UNCHANGED <<entry, flushes, cmds, log, rows>> /\ events' \subseteq events
  BY <1>1 DEF StepOK, Kept, Shape
<1>2. CASE UNCHANGED vars
  BY <1>1, <1>2 DEF vars, clientVars, serverVars
<1>3. CASE Drop \/ Reconnect
  BY <1>1, <1>3 DEF Drop, Reconnect, clientVars, serverVars
<1>4. ASSUME NEW e \in events, Lose(e) PROVE StepOK /\ Shape'
  BY <1>1, <1>4 DEF Lose, clientVars
<1>5. CASE History
  BY <1>5 DEF History, serverVars, StepOK, Kept, Shape
<1> QED
  BY <1>2, <1>3, <1>4, <1>5, UserStep, ReceiveStep, FlushStep, FlushAckedStep, ServerStep
     DEF Next

LEMMA InitGood == Init => Good
BY DEF Init, Good, Shape, NeverLost, States

LEMMA StepGood == FewMessages /\ Good /\ [Next]_vars => Good'
<1> SUFFICES ASSUME FewMessages, Good, [Next]_vars PROVE Good'
  OBVIOUS
<1>1. StepOK /\ Shape'
  BY StepShape DEF Good
<1> QED
  BY <1>1 DEF Good, NeverLost, StepOK, Kept

LEMMA AlwaysGood == FewMessages => (Spec => []Good)
<1> SUFFICES ASSUME FewMessages PROVE Spec => []Good
  OBVIOUS
<1> QED
  BY InitGood, StepGood, PTL DEF Spec

-----------------------------------------------------------------------------
(* On both clients what the user has sent is on the screen, as a bubble or *)
(* as its row, through drops, rejections, timeouts and retries             *)
(* (message-lifecycle.ts, chat-store.ts, Composer.tsx:37).                 *)
THEOREM BubbleOrRow == FewMessages => (Spec => []NeverLost)
<1> SUFFICES ASSUME FewMessages PROVE Spec => []NeverLost
  OBVIOUS
<1>1. Good => NeverLost
  BY DEF Good
<1> QED
  BY <1>1, AlwaysGood, PTL

(* Only a flush that noted a message while it was queued brings a          *)
(* reconciled one back (message-lifecycle.ts:74-82).                       *)
THEOREM ReconciledStays == FewMessages => (Spec => ReconcileFinal)
<1> SUFFICES ASSUME FewMessages PROVE Spec => ReconcileFinal
  OBVIOUS
<1>1. Good /\ [Next]_vars =>
         [\A m \in Messages :
             entry[m] = "none" /\ entry'[m] # "none" =>
                 \E i \in DOMAIN flushes : m \in ToSet(Tail(flushes[i]))]_vars
  BY StepShape DEF Good, StepOK, Kept
<1> QED
  BY <1>1, AlwaysGood, PTL DEF Spec, ReconcileFinal
================================================================================
