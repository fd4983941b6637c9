--------------------------- MODULE WebTimelineProofs ---------------------------
(***************************************************************************)
(* Proofs about what a browser tab shows, for conversations, pages,        *)
(* recoveries and loads of any size.                                       *)
(*                                                                         *)
(* A tab that buffers has something under way that will replay the buffer. *)
(* And without faults no page of history erases a live change.  For that   *)
(* the events still to be handled, in the buffer, on the wire and in the   *)
(* outbox, are seen as one queue, of which every step of the relay and of  *)
(* the buffer only moves the borders: the last event on a row says what    *)
(* the row is, creations come without a gap after what the tab knows, and  *)
(* every row shown or on its way is the server's or has an event in the    *)
(* queue.  The replay of the buffer handles a prefix of the queue, by      *)
(* induction on its length.  Nor is there a hole: what is shown and what   *)
(* the queue will create reach without a gap to the end of the log, with   *)
(* or without the pages that are on their way.                             *)
(***************************************************************************)
EXTENDS WebTimeline, FiniteSetTheorems, SequenceTheorems, WellFoundedInduction, TLAPS

(* A nonempty set of naturals has a least element.  Induction over data    *)
(* is done with it: the set is that of the counterexamples.                *)
LEMMA LeastNatural ==
    ASSUME NEW T, T \subseteq Nat, T # {}
    PROVE  \E n \in T : \A m \in T : n <= m
  <1>1. PICK n \in T : \A m \in T : ~(<<m, n>> \in OpToRel(<, Nat))
    BY NatLessThanWellFounded, WFMin, Zenon
  <1>2. \A m \in T : ~(m < n)
    BY <1>1 DEF OpToRel
  <1>3. QED
    BY <1>2

-----------------------------------------------------------------------------
(* Buffering *)

Phased == /\ DOMAIN fetch = Slots
          /\ \A r \in Recoveries : "phase" \in DOMAIN fetch[r]

(* The inductive invariant of BufferingEnds.                               *)
Buffered == Phased /\ BufferingEnds

LEMMA BufferedStep == Buffered /\ [Next]_vars => Buffered'
  <1> SUFFICES ASSUME Buffered, [Next]_vars PROVE Buffered'
    OBVIOUS
  <1> USE WebTimelineAssumption DEF Buffered, Phased, BufferingEnds, Slots, Idle, Ask
  <1> USE DEF serverVars, storeVars, pageVars, boundVars
  <1>1. CASE Server
    <2>1. UNCHANGED <<conn, boot, buffering, fetch>>
      BY <1>1 DEF Server, Create, Change, Relay, clientVars
    <2>2. QED
      BY <2>1
  <1>2. CASE Connection
    <2>1. CASE Deliver
      BY <2>1 DEF Deliver, Install
    <2>2. CASE Connect
      BY <2>2 DEF Connect
    <2>3. CASE ConnectFails
      BY <2>3 DEF ConnectFails
    <2>4. CASE Drop
      BY <2>4 DEF Drop
    <2>5. CASE Reconnecting
      BY <2>5 DEF Reconnecting
    <2>6. CASE Reconnect
      BY <2>6 DEF Reconnect, Recover
    <2>7. QED
      BY <1>2, <2>1, <2>2, <2>3, <2>4, <2>5, <2>6 DEF Connection
  <1>3. CASE Boot
    <2>1. CASE BootListed
      BY <2>1 DEF BootListed
    <2>2. CASE BootReady
      BY <2>2 DEF BootReady, Replay
    <2>3. CASE BootFails
      BY <2>3 DEF BootFails
    <2>4. QED
      BY <1>3, <2>1, <2>2, <2>3 DEF Boot
  <1>4. CASE History
    <2>1. CASE Open \/ Close \/ PageLoaded
      BY <2>1 DEF Open, Close, PageLoaded
    <2>2. CASE TryAgain \/ RetryLoaded
      BY <2>2 DEF TryAgain, RetryLoaded
    <2>3. CASE LoadOlder \/ OlderLoaded
      BY <2>3 DEF LoadOlder, OlderLoaded
    <2>4. ASSUME NEW k \in Slots, HistoryFails(k) PROVE Buffered'
      BY <2>4 DEF HistoryFails
    <2>5. QED
      BY <1>4, <2>1, <2>2, <2>3, <2>4 DEF History
  <1>5. CASE Recovery
    <2>1. CASE GapFilled \/ GapFails
      BY <2>1 DEF GapFilled, GapFails
    <2>2. ASSUME NEW r \in Recoveries, RecoveryListed(r) PROVE Buffered'
      BY <2>2 DEF RecoveryListed
    <2>3. ASSUME NEW r \in Recoveries, NothingOpen(r) PROVE Buffered'
      BY <2>3 DEF NothingOpen, RecoveryEnds, Replay
    <2>4. ASSUME NEW r \in Recoveries, Recovered(r) PROVE Buffered'
      BY <2>4 DEF Recovered, RecoveryEnds, Replay
    <2>5. ASSUME NEW r \in Recoveries, RecoveryFails(r) PROVE Buffered'
      BY <2>5 DEF RecoveryFails, RecoveryEnds, Replay
    <2>6. QED
      BY <1>5, <2>1, <2>2, <2>3, <2>4, <2>5 DEF Recovery
  <1>6. ASSUME NEW k \in Slots, Answer(k) PROVE Buffered'
    <2>1. UNCHANGED <<conn, boot, buffering>> /\ DOMAIN fetch' = DOMAIN fetch
      BY <1>6 DEF Answer
    <2>2. \A j \in Slots \ {k} : fetch'[j] = fetch[j]
      BY <1>6 DEF Answer
    <2>3. DOMAIN fetch'[k] = DOMAIN fetch[k]
      <3>1. \/ fetch'[k] = [fetch[k] EXCEPT !.phase = "listed", !.last = Len(log)]
            \/ fetch'[k] = [fetch[k] EXCEPT !.phase = "answered",
                                            !.rows = [s \in Selected(k) |-> log[s]],
                                            !.more = (Cardinality(Selected(k)) = Limit(k))]
        BY <1>6 DEF Answer
      <3>2. QED
        BY <3>1
    <2>4. "phase" \in DOMAIN fetch[k] => fetch'[k].phase \in {"listed", "answered"}
      BY <1>6 DEF Answer
    <2>5. QED
      BY <2>1, <2>2, <2>3, <2>4
  <1>7. CASE UNCHANGED vars
    BY <1>7 DEF vars
  <1>8. QED
    BY <1>1, <1>2, <1>3, <1>4, <1>5, <1>6, <1>7 DEF Next

(* A connected tab that still buffers events has something under way that  *)
(* will apply them, through any number of drops and recoveries             *)
(* (page.tsx:67-93).                                                       *)
THEOREM BufferReplayed == Spec => []BufferingEnds
  <1>1. Init => Buffered
    BY DEF Init, Buffered, Phased, BufferingEnds, Slots, Idle
  <1>2. Buffered => BufferingEnds
    BY DEF Buffered
  <1>3. QED
    BY <1>1, <1>2, BufferedStep, PTL DEF Spec

-----------------------------------------------------------------------------
(* Live rows *)

Row == [content : {"sent", "edited", ""}, deleted : BOOLEAN]
Event == [type : {"message.created"} \cup ChangeTypes, seq : Nat \ {0}]
Caches == UNION {[S -> Row] : S \in SUBSET Nat}
Phases == {"idle", "list", "listed", "asked", "answered"}
CallRecord == [phase : Phases, mark : Nat, last : Nat, rows : Caches, more : BOOLEAN,
               active : BOOLEAN]

(* The events still to come, in the order in which they will be handled.   *)
Pipe == buffer \o (wire \o outbox)

(* Event i of q is the last one on its row, and says what the row is.      *)
Said(type) == CASE type = "message.created" -> Fresh
                [] type = "message.edited"  -> [content |-> "edited", deleted |-> FALSE]
                [] type = "message.deleted" -> [content |-> "", deleted |-> TRUE]
LastOn(q, i) == \A j \in DOMAIN q : j > i => q[j].seq # q[i].seq
Tells(q) == \A i \in DOMAIN q :
    /\ q[i].seq \in DOMAIN log
    /\ q[i].type = "message.deleted" => log[q[i].seq].deleted
    /\ LastOn(q, i) => log[q[i].seq] = Said(q[i].type)

(* Of q the first i events are handled, and last is n: creations come one  *)
(* after the other, from what is known on, up to the end of the log.       *)
Creates(q, i, s) == q[i].type = "message.created" /\ q[i].seq = s
Chain(q, i, n) ==
    /\ \A j \in DOMAIN q : j > i /\ q[j].type = "message.created" =>
          \/ q[j].seq <= n + 1
          \/ \E h \in DOMAIN q : i < h /\ h < j /\ Creates(q, h, q[j].seq - 1)
    /\ \/ Len(log) <= n
       \/ \E j \in DOMAIN q : j > i /\ Creates(q, j, Len(log))

(* Row r of message s is the server's, or an event on it is still to come. *)
Covered(q, i, r, s) == r = log[s] \/ \E j \in DOMAIN q : j > i /\ q[j].seq = s

(* What a store or an answer may hold: nothing is deleted too early.       *)
Possible(r) == \A s \in DOMAIN r : s \in DOMAIN log /\ (r[s].deleted => log[s].deleted)

StoreRecord == [rows : Caches, last : Nat, gap : {Idle}, overtaken : SUBSET Nat]

(* A store when the first i events of q are handled.                       *)
Good(st, q, i) ==
    /\ st \in StoreRecord
    /\ Possible(st.rows)
    /\ \A s \in DOMAIN st.rows \ st.overtaken : Covered(q, i, st.rows[s], s)
    /\ \A k \in {"page", "older"} :
          \A s \in DOMAIN fetch[k].rows \ (DOMAIN st.rows \cup st.overtaken) :
              Covered(q, i, fetch[k].rows[s], s)
    /\ Chain(q, i, st.last)

Types ==
    /\ log \in Seq(Row) /\ {outbox, wire, buffer} \subseteq Seq(Event)
    /\ fetch \in [Slots -> CallRecord]
    /\ rows \in Caches /\ last \in Nat /\ overtaken \in SUBSET Nat
    /\ {open, more, buffering} \subseteq BOOLEAN

(* Without faults the tab stays connected and nothing is ever recovered.   *)
Calm ==
    /\ conn \in {"connecting", "connected"} /\ ~loadError
    /\ conn = "connecting" <=> boot = "connecting"
    /\ conn = "connecting" => wire = <<>> /\ buffer = <<>>
    /\ boot \in {"connecting", "loading", "presence", "ready"}
    /\ boot \notin {"presence", "ready"} =>
          rows = <<>> /\ ~open /\ fetch["page"] = Idle /\ fetch["older"] = Idle
    /\ boot # "loading" => fetch["boot"] = Idle
    /\ fetch["boot"].phase \in {"idle", "list", "listed"}
    /\ boot # "ready" => buffering
    /\ ~buffering => buffer = <<>>
    /\ \A k \in Recoveries \cup {"retry", "gap"} : fetch[k] = Idle

Watermark ==
    /\ boot \in {"presence", "ready"} => Chain(Pipe, 0, last)
    /\ fetch["boot"].phase = "listed" => Chain(Pipe, 0, fetch["boot"].last)

Snapshots ==
    /\ Possible(rows)
    /\ \A k \in {"page", "older"} : Possible(fetch[k].rows)
    /\ \A s \in DOMAIN rows \ overtaken : Covered(Pipe, 0, rows[s], s)
    /\ \A k \in {"page", "older"} :
          \A s \in DOMAIN fetch[k].rows \ (DOMAIN rows \cup overtaken) :
              Covered(Pipe, 0, fetch[k].rows[s], s)

(* The inductive invariant of LiveRowsCurrent.                             *)
Live == Types /\ Calm /\ Tells(Pipe) /\ Watermark /\ Snapshots
LiveInv == faults \in Nat /\ (faults = 0 => Live)

-----------------------------------------------------------------------------
(* Maxima and minima of the sets of sequence numbers in the model.         *)
LEMMA MaxOfBounded ==
    ASSUME NEW S, S \subseteq Nat, S # {}, NEW n \in Nat, \A s \in S : s <= n
    PROVE  Max(S) \in S /\ \A y \in S : Max(S) >= y
  <1> DEFINE T == {m \in Nat : \A s \in S : s <= m}
  <1>1. PICK b \in T : \A m \in T : b <= m
    <2>1. n \in T
      OBVIOUS
    <2>2. QED
      BY <2>1, LeastNatural
  <1>2. b \in S
    <2>1. SUFFICES ASSUME b \notin S PROVE FALSE
      OBVIOUS
    <2>2. PICK s \in S : TRUE
      OBVIOUS
    <2>3. \A t \in S : t <= b - 1
      BY <2>1
    <2>4. b - 1 \in Nat
      BY <2>2, <2>3
    <2>5. b - 1 \in T
      BY <2>3, <2>4
    <2>6. QED
      BY <1>1, <2>5
  <1>3. \E x \in S : \A y \in S : x >= y
    BY <1>2
  <1>4. QED
    BY <1>3 DEF Max

LEMMA MinOfNaturals ==
    ASSUME NEW S, S \subseteq Nat, S # {}
    PROVE  Min(S) \in S /\ \A y \in S : Min(S) <= y
  <1>1. \E x \in S : \A y \in S : x =< y
    BY LeastNatural
  <1>2. QED
    BY <1>1 DEF Min

LEMMA MaxOfTwo ==
    ASSUME NEW a \in Nat, NEW b \in Nat
    PROVE  Max({a, b}) \in {a, b} /\ Max({a, b}) >= a /\ Max({a, b}) >= b
  <1>1. \E x \in {a, b} : \A y \in {a, b} : x >= y
    OBVIOUS
  <1>2. QED
    BY <1>1 DEF Max

(* What a cached list is.                                                  *)
LEMMA CachesDef ==
    ASSUME NEW r
    PROVE  r \in Caches <=> /\ r = [s \in DOMAIN r |-> r[s]]
                            /\ DOMAIN r \subseteq Nat
                            /\ \A s \in DOMAIN r : r[s] \in Row
  <1>1. ASSUME r \in Caches
        PROVE  /\ r = [s \in DOMAIN r |-> r[s]]
               /\ DOMAIN r \subseteq Nat
               /\ \A s \in DOMAIN r : r[s] \in Row
    <2>1. PICK S \in SUBSET Nat : r \in [S -> Row]
      BY <1>1 DEF Caches
    <2>2. QED
      BY <2>1
  <1>2. ASSUME r = [s \in DOMAIN r |-> r[s]], DOMAIN r \subseteq Nat,
               \A s \in DOMAIN r : r[s] \in Row
        PROVE  r \in Caches
    <2>1. r \in [DOMAIN r -> Row]
      BY <1>2
    <2>2. QED
      BY <1>2, <2>1 DEF Caches
  <1>3. QED
    BY <1>1, <1>2

LEMMA KnownNat ==
    ASSUME NEW r \in Caches, Possible(r), log \in Seq(Row)
    PROVE  LastKnown(r) \in Nat
  <1>1. DOMAIN r \subseteq Nat
    BY CachesDef
  <1>2. \A s \in DOMAIN r \cup {0} : s <= Len(log)
    BY DEF Possible
  <1>3. LastKnown(r) \in DOMAIN r \cup {0}
    BY <1>1, <1>2, MaxOfBounded DEF LastKnown
  <1>4. QED
    BY <1>1, <1>3

-----------------------------------------------------------------------------
(* An event that is not on s covers no row of s, handled or not.           *)
LEMMA CoveredStill ==
    ASSUME NEW q \in Seq(Event), NEW i \in DOMAIN q, NEW r, NEW s, s # q[i].seq,
           Covered(q, i - 1, r, s)
    PROVE  Covered(q, i, r, s)
  BY DEF Covered

(* The creation that is handled comes next after what is known, and the    *)
(* rest of the queue goes on from it.                                      *)
LEMMA ChainCreated ==
    ASSUME log \in Seq(Row), NEW q \in Seq(Event), NEW i \in DOMAIN q, NEW n \in Nat,
           Chain(q, i - 1, n), q[i].type = "message.created"
    PROVE  /\ q[i].seq <= n + 1
           /\ \A m \in Nat : m >= n /\ m >= q[i].seq => Chain(q, i, m)
  <1>1. \A j \in DOMAIN q : q[j].seq \in Nat
    <2>1. \A j \in DOMAIN q : q[j] \in Event
      OBVIOUS
    <2>2. QED
      BY <2>1 DEF Event
  <1>2. q[i].seq <= n + 1
    BY DEF Chain
  <1>3. ASSUME NEW m \in Nat, m >= n, m >= q[i].seq PROVE Chain(q, i, m)
    <2>1. ASSUME NEW j \in DOMAIN q, j > i, q[j].type = "message.created"
          PROVE  \/ q[j].seq <= m + 1
                 \/ \E h \in DOMAIN q : i < h /\ h < j /\ Creates(q, h, q[j].seq - 1)
      <3>1. CASE q[j].seq <= n + 1
        BY <1>1, <1>3, <3>1
      <3>2. CASE \E h \in DOMAIN q : i - 1 < h /\ h < j /\ Creates(q, h, q[j].seq - 1)
        <4>1. PICK h \in DOMAIN q : i - 1 < h /\ h < j /\ Creates(q, h, q[j].seq - 1)
          BY <3>2
        <4>2. CASE h = i
          BY <1>1, <1>3, <4>1, <4>2 DEF Creates
        <4>3. CASE h # i
          BY <4>1, <4>3
        <4>4. QED
          BY <4>2, <4>3
      <3>3. QED
        BY <2>1, <3>1, <3>2 DEF Chain
    <2>2. Len(log) <= m \/ \E j \in DOMAIN q : j > i /\ Creates(q, j, Len(log))
      <3>1. CASE Len(log) <= n
        BY <1>3, <3>1
      <3>2. CASE \E j \in DOMAIN q : j > i - 1 /\ Creates(q, j, Len(log))
        BY <1>1, <1>3, <3>2 DEF Creates
      <3>3. QED
        BY <3>1, <3>2 DEF Chain
    <2>3. QED
      BY <2>1, <2>2 DEF Chain
  <1>4. QED
    BY <1>2, <1>3

LEMMA ChainChanged ==
    ASSUME NEW q \in Seq(Event), NEW i \in DOMAIN q, NEW n \in Nat,
           Chain(q, i - 1, n), q[i].type # "message.created"
    PROVE  Chain(q, i, n)
  BY DEF Chain, Creates

(* handleEvent on a creation.                                              *)
LEMMA CreatedGood ==
    ASSUME Types, NEW q \in Seq(Event), Tells(q), NEW i \in DOMAIN q,
           NEW st, Good(st, q, i - 1), q[i].type = "message.created"
    PROVE  Good(Created(st, q[i].seq), q, i)
  <1> DEFINE e == q[i].seq
             known == Max({st.last, LastKnown(st.rows)})
             new == Created(st, e)
  <1>1. /\ e \in Nat /\ e \in DOMAIN log
        /\ st \in StoreRecord /\ st.rows \in Caches /\ st.last \in Nat
        /\ log \in Seq(Row) /\ Possible(st.rows) /\ Chain(q, i - 1, st.last)
    BY DEF Tells, Event, Good, StoreRecord, Types
  <1>2. known \in Nat /\ known >= st.last
    BY <1>1, KnownNat, MaxOfTwo
  <1>3. e <= st.last + 1
    BY <1>1, ChainCreated
  <1>4. ~(e > known + 1)
    BY <1>1, <1>2, <1>3
  <1>5. /\ new.rows = Upserted([x \in {e} |-> Fresh], st.rows) /\ new.last = Max({st.last, e})
        /\ new.gap = st.gap /\ new.overtaken = st.overtaken
        /\ DOMAIN new = {"rows", "last", "gap", "overtaken"}
        /\ new = [rows |-> new.rows, last |-> new.last, gap |-> new.gap,
                  overtaken |-> new.overtaken]
    <2>1. new = [st EXCEPT !.rows = Upserted([x \in {e} |-> Fresh], st.rows),
                           !.last = Max({st.last, e}), !.gap = st.gap]
      BY <1>1, <1>4, Zenon DEF Created
    <2> HIDE DEF new
    <2>2. QED
      BY <1>1, <2>1 DEF StoreRecord
  <1> HIDE DEF new
  <1>6. /\ DOMAIN new.rows = {e} \cup DOMAIN st.rows
        /\ new.rows[e] = Fresh
        /\ \A s \in DOMAIN st.rows \ {e} : new.rows[s] = st.rows[s]
        /\ new.rows = [s \in DOMAIN new.rows |-> new.rows[s]]
    BY <1>5 DEF Upserted
  <1>7. new.rows \in Caches
    <2>1. Fresh \in Row
      BY DEF Fresh, Row
    <2>2. QED
      BY <1>1, <1>6, <2>1, CachesDef
  <1>8. new.last \in Nat /\ new.last >= st.last /\ new.last >= e
    <2>1. /\ Max({st.last, e}) \in {st.last, e}
          /\ Max({st.last, e}) >= st.last /\ Max({st.last, e}) >= e
      BY <1>1, MaxOfTwo
    <2>2. QED
      BY <1>1, <1>5, <2>1
  <1>9. new \in StoreRecord
    BY <1>1, <1>5, <1>7, <1>8 DEF StoreRecord
  <1>10. Possible(new.rows)
    BY <1>1, <1>6 DEF Possible, Fresh
  <1>11. Covered(q, i, Fresh, e)
    BY DEF Covered, Tells, LastOn, Said
  <1>12. ASSUME NEW s \in DOMAIN new.rows \ new.overtaken
         PROVE  Covered(q, i, new.rows[s], s)
    <2>1. CASE s = e
      BY <1>6, <1>11, <2>1
    <2>2. CASE s # e
      BY <1>5, <1>6, <2>2, CoveredStill DEF Good
    <2>3. QED
      BY <2>1, <2>2
  <1>13. ASSUME NEW k \in {"page", "older"},
                NEW s \in DOMAIN fetch[k].rows \ (DOMAIN new.rows \cup new.overtaken)
         PROVE  Covered(q, i, fetch[k].rows[s], s)
    BY <1>5, <1>6, CoveredStill DEF Good
  <1>14. Chain(q, i, new.last)
    BY <1>1, <1>8, ChainCreated
  <1>15. QED
    BY <1>9, <1>10, <1>12, <1>13, <1>14 DEF Good, new

(* handleEvent on an edit or a deletion.                                   *)
LEMMA ChangedGood ==
    ASSUME Types, NEW q \in Seq(Event), Tells(q), NEW i \in DOMAIN q,
           NEW st, Good(st, q, i - 1), q[i].type # "message.created"
    PROVE  Good(HandleEvent(st, q[i]), q, i)
  <1> DEFINE e == q[i].seq
             type == q[i].type
             new == HandleEvent(st, q[i])
  <1>1. /\ e \in Nat /\ e \in DOMAIN log /\ type \in ChangeTypes
        /\ st \in StoreRecord /\ st.rows \in Caches /\ st.last \in Nat
        /\ st.overtaken \in SUBSET Nat
        /\ log \in Seq(Row) /\ Possible(st.rows) /\ Chain(q, i - 1, st.last)
    <2>1. q[i] \in Event
      OBVIOUS
    <2>2. e \in Nat /\ e \in DOMAIN log /\ type \in ChangeTypes
      BY <2>1 DEF Tells, Event
    <2>3. QED
      BY <2>2 DEF Good, StoreRecord, Types
  <1>2. /\ new.rows = [s \in DOMAIN st.rows |-> IF s = e THEN Patch(st.rows[s], type)
                                                ELSE st.rows[s]]
        /\ new.last = st.last /\ new.gap = st.gap
        /\ new.overtaken = IF Overtakes(st, q[i]) THEN st.overtaken \cup {e}
                           ELSE st.overtaken
        /\ new = [rows |-> new.rows, last |-> new.last, gap |-> new.gap,
                  overtaken |-> new.overtaken]
    <2>1. new = [st EXCEPT !.rows = [s \in DOMAIN st.rows |->
                                        IF s = e THEN Patch(st.rows[s], type)
                                        ELSE st.rows[s]],
                           !.overtaken = IF Overtakes(st, q[i]) THEN st.overtaken \cup {e}
                                         ELSE st.overtaken]
      BY Zenon DEF HandleEvent
    <2> HIDE DEF new
    <2>2. QED
      BY <1>1, <2>1 DEF StoreRecord
  <1> HIDE DEF new
  <1>3. \A r \in Row : /\ Patch(r, type) \in Row
                       /\ type = "message.edited" =>
                             Patch(r, type) = [content |-> "edited", deleted |-> r.deleted]
                       /\ type = "message.deleted" =>
                             Patch(r, type) = [content |-> "", deleted |-> TRUE]
    BY <1>1 DEF Patch, Row, ChangeTypes
  <1>4. /\ DOMAIN new.rows = DOMAIN st.rows
        /\ e \in DOMAIN st.rows => new.rows[e] = Patch(st.rows[e], type)
        /\ \A s \in DOMAIN st.rows \ {e} : new.rows[s] = st.rows[s]
        /\ new.rows = [s \in DOMAIN new.rows |-> new.rows[s]]
        /\ \A s \in DOMAIN st.rows : st.rows[s] \in Row
    BY <1>1, <1>2, CachesDef
  <1>5. new \in StoreRecord
    <2>1. new.rows \in Caches
      <3>1. \A s \in DOMAIN new.rows : new.rows[s] \in Row
        BY <1>3, <1>4
      <3>2. DOMAIN new.rows \subseteq Nat
        BY <1>1, <1>4, CachesDef
      <3>3. QED
        BY <1>4, <3>1, <3>2, CachesDef
    <2>2. new.overtaken \in SUBSET Nat
      BY <1>1, <1>2
    <2>3. QED
      BY <1>1, <1>2, <2>1, <2>2 DEF StoreRecord
  <1>6. Possible(new.rows)
    <2>1. e \in DOMAIN st.rows /\ new.rows[e].deleted => log[e].deleted
      <3>1. CASE type = "message.edited"
        <4>1. e \in DOMAIN st.rows => new.rows[e].deleted = st.rows[e].deleted
          BY <1>3, <1>4, <3>1
        <4>2. QED
          BY <1>1, <4>1 DEF Possible
      <3>2. CASE type = "message.deleted"
        BY <3>2 DEF Tells
      <3>3. QED
        BY <1>1, <3>1, <3>2 DEF ChangeTypes
    <2>2. QED
      BY <1>1, <1>4, <2>1 DEF Possible
  <1>7. ASSUME e \in DOMAIN st.rows PROVE Covered(q, i, new.rows[e], e)
    <2>1. CASE LastOn(q, i)
      <3>1. log[e] = Said(type)
        BY <2>1 DEF Tells
      <3>2. CASE type = "message.edited"
        <4>1. log[e] = [content |-> "edited", deleted |-> FALSE]
          BY <3>1, <3>2 DEF Said
        <4>2. st.rows[e].deleted = FALSE
          <5>1. st.rows[e].deleted \in BOOLEAN
            BY <1>4, <1>7 DEF Row
          <5>2. st.rows[e].deleted => log[e].deleted
            BY <1>1, <1>7 DEF Possible
          <5>3. ~log[e].deleted
            BY <4>1
          <5>4. QED
            BY <5>1, <5>2, <5>3
        <4>3. QED
          BY <1>3, <1>4, <1>7, <3>2, <4>1, <4>2 DEF Covered
      <3>3. CASE type = "message.deleted"
        BY <1>3, <1>4, <1>7, <3>1, <3>3 DEF Covered, Said
      <3>4. QED
        BY <1>1, <3>2, <3>3 DEF ChangeTypes
    <2>2. CASE ~LastOn(q, i)
      BY <2>2 DEF LastOn, Covered
    <2>3. QED
      BY <2>1, <2>2
  <1>8. ASSUME NEW s \in DOMAIN new.rows \ new.overtaken
        PROVE  Covered(q, i, new.rows[s], s)
    <2>1. CASE s = e
      BY <1>4, <1>7, <2>1
    <2>2. CASE s # e
      BY <1>2, <1>4, <2>2, CoveredStill DEF Good
    <2>3. QED
      BY <2>1, <2>2
  <1>9. ASSUME NEW k \in {"page", "older"},
               NEW s \in DOMAIN fetch[k].rows \ (DOMAIN new.rows \cup new.overtaken)
        PROVE  Covered(q, i, fetch[k].rows[s], s)
    <2>1. s # e
      BY <1>2, <1>4 DEF Overtakes
    <2>2. QED
      BY <1>2, <1>4, <2>1, CoveredStill DEF Good
  <1>10. Chain(q, i, new.last)
    BY <1>1, <1>2, ChainChanged
  <1>11. QED
    BY <1>5, <1>6, <1>8, <1>9, <1>10 DEF Good, new

LEMMA HandleGood ==
    ASSUME Types, NEW q \in Seq(Event), Tells(q), NEW i \in DOMAIN q,
           NEW st, Good(st, q, i - 1)
    PROVE  Good(HandleEvent(st, q[i]), q, i)
  BY CreatedGood, ChangedGood DEF HandleEvent

-----------------------------------------------------------------------------
(* The replay: a function with the stores after each event exists, ...     *)
Stores(st, f, n) ==
    f = [i \in 0..n |-> IF i = 0 THEN st ELSE HandleEvent(f[i - 1], buffer[i])]

LEMMA StoresExist ==
    ASSUME buffer \in Seq(Event), NEW st
    PROVE  \E f : Stores(st, f, Len(buffer))
  <1> DEFINE Bad == {n \in Nat : ~\E f : Stores(st, f, n)}
  <1>1. SUFFICES Bad = {}
    BY LenProperties
  <1>2. SUFFICES ASSUME Bad # {} PROVE FALSE
    OBVIOUS
  <1>3. PICK n \in Bad : \A m \in Bad : n <= m
    BY <1>2, LeastNatural
  <1>4. CASE n = 0
    <2> DEFINE f == [i \in 0..0 |-> st]
    <2>1. Stores(st, f, 0)
      BY DEF Stores
    <2>2. QED
      BY <1>4, <2>1
  <1>5. CASE n # 0
    <2>1. PICK f : Stores(st, f, n - 1)
      BY <1>3, <1>5
    <2> DEFINE g == [i \in 0..n |-> IF i = n THEN HandleEvent(f[n - 1], buffer[n]) ELSE f[i]]
    <2>2. \A i \in 0..n : g[i] = IF i = 0 THEN st ELSE HandleEvent(g[i - 1], buffer[i])
      <3>1. ASSUME NEW i \in 0..n
            PROVE  g[i] = IF i = 0 THEN st ELSE HandleEvent(g[i - 1], buffer[i])
        <4>1. n \in Nat
          OBVIOUS
        <4>2. CASE i = n
          <5>1. g[i - 1] = f[n - 1]
            BY <1>5, <4>1, <4>2
          <5>2. QED
            BY <1>5, <4>1, <4>2, <5>1
        <4>3. CASE i = 0
          <5>1. f[0] = st
            BY <1>5, <2>1, <4>1 DEF Stores
          <5>2. QED
            BY <1>5, <4>1, <4>3, <5>1
        <4>4. CASE i # n /\ i # 0
          <5>1. g[i] = f[i] /\ g[i - 1] = f[i - 1]
            BY <4>1, <4>4
          <5>2. f[i] = HandleEvent(f[i - 1], buffer[i])
            BY <2>1, <4>1, <4>4 DEF Stores
          <5>3. QED
            BY <4>4, <5>1, <5>2
        <4>5. QED
          BY <4>2, <4>3, <4>4
      <3>2. QED
        BY <3>1
    <2>3. g = [i \in 0..n |-> g[i]]
      OBVIOUS
    <2> HIDE DEF g
    <2>4. Stores(st, g, n)
      BY <2>2, <2>3 DEF Stores
    <2>5. QED
      BY <2>4
  <1>6. QED
    BY <1>4, <1>5

(* ... it is what the replay computes, ...                                 *)
LEMMA ReplayedStores ==
    ASSUME buffer \in Seq(Event), NEW st
    PROVE  \E f : Stores(st, f, Len(buffer)) /\ Replayed(st) = f[Len(buffer)]
  <1>1. \E f : f = [i \in 0..Len(buffer) |->
                      IF i = 0 THEN st ELSE HandleEvent(f[i - 1], buffer[i])]
    BY StoresExist DEF Stores
  <1>2. QED
    BY <1>1, Zenon DEF Replayed, Stores

(* ... and every one of them is good.                                      *)
LEMMA ReplayGood ==
    ASSUME Types, NEW q \in Seq(Event), Tells(q), Len(buffer) <= Len(q),
           \A i \in DOMAIN buffer : q[i] = buffer[i],
           NEW st, Good(st, q, 0)
    PROVE  Good(Replayed(st), q, Len(buffer))
  <1>0. buffer \in Seq(Event) /\ Len(buffer) \in Nat /\ DOMAIN buffer = 1..Len(buffer)
    BY LenProperties DEF Types
  <1>1. PICK f : Stores(st, f, Len(buffer)) /\ Replayed(st) = f[Len(buffer)]
    BY <1>0, ReplayedStores
  <1> DEFINE Bad == {i \in 0..Len(buffer) : ~Good(f[i], q, i)}
  <1>2. SUFFICES ASSUME Bad # {} PROVE FALSE
    BY <1>0, <1>1
  <1>3. PICK i \in Bad : \A m \in Bad : i <= m
    <2>1. Bad \subseteq Nat
      BY <1>0
    <2>2. QED
      BY <1>2, <2>1, LeastNatural
  <1>4. i # 0
    BY <1>0, <1>1, <1>3 DEF Stores
  <1>5. i \in DOMAIN buffer /\ i - 1 \in 0..Len(buffer) /\ i \in DOMAIN q
    BY <1>0, <1>3, <1>4
  <1>6. Good(f[i - 1], q, i - 1)
    BY <1>0, <1>3, <1>4, <1>5
  <1>7. f[i] = HandleEvent(f[i - 1], q[i])
    BY <1>0, <1>1, <1>4, <1>5 DEF Stores
  <1>8. QED
    BY <1>3, <1>5, <1>6, <1>7, HandleGood

-----------------------------------------------------------------------------
(* p is what q leaves when its first i events are handled.                 *)
Rest(p, q, i) == /\ Len(p) = Len(q) - i
                 /\ \A j \in DOMAIN p : p[j] = q[i + j]

LEMMA RestTells ==
    ASSUME NEW p \in Seq(Event), NEW q \in Seq(Event), NEW i \in 0..Len(q),
           Rest(p, q, i), Tells(q)
    PROVE  Tells(p)
  <1>1. ASSUME NEW j \in DOMAIN p
        PROVE  /\ p[j].seq \in DOMAIN log
               /\ p[j].type = "message.deleted" => log[p[j].seq].deleted
               /\ LastOn(p, j) => log[p[j].seq] = Said(p[j].type)
    <2>1. i + j \in DOMAIN q /\ p[j] = q[i + j]
      BY LenProperties DEF Rest
    <2>2. LastOn(p, j) => LastOn(q, i + j)
      <3>1. SUFFICES ASSUME LastOn(p, j), NEW h \in DOMAIN q, h > i + j
                     PROVE  q[h].seq # q[i + j].seq
        BY DEF LastOn
      <3>2. h - i \in DOMAIN p /\ h - i > j /\ p[h - i] = q[h]
        BY <3>1, LenProperties DEF Rest
      <3>3. QED
        BY <2>1, <3>1, <3>2 DEF LastOn
    <2>3. QED
      BY <2>1, <2>2 DEF Tells
  <1>2. QED
    BY <1>1 DEF Tells

LEMMA RestCovered ==
    ASSUME NEW p \in Seq(Event), NEW q \in Seq(Event), NEW i \in 0..Len(q),
           Rest(p, q, i), NEW r, NEW s, Covered(q, i, r, s)
    PROVE  Covered(p, 0, r, s)
  <1>1. CASE r = log[s]
    BY <1>1 DEF Covered
  <1>2. ASSUME NEW j \in DOMAIN q, j > i, q[j].seq = s PROVE Covered(p, 0, r, s)
    <2>1. j - i \in DOMAIN p /\ j - i > 0 /\ p[j - i] = q[j]
      BY <1>2, LenProperties DEF Rest
    <2>2. QED
      BY <1>2, <2>1 DEF Covered
  <1>3. QED
    BY <1>1, <1>2 DEF Covered

LEMMA RestChain ==
    ASSUME NEW p \in Seq(Event), NEW q \in Seq(Event), NEW i \in 0..Len(q),
           Rest(p, q, i), NEW n \in Nat, Chain(q, i, n)
    PROVE  Chain(p, 0, n)
  <1>1. \A j \in DOMAIN p : i + j \in DOMAIN q /\ i + j > i /\ p[j] = q[i + j]
    BY LenProperties DEF Rest
  <1>2. \A h \in DOMAIN q : h > i => h - i \in DOMAIN p /\ h - i > 0 /\ p[h - i] = q[h]
    BY LenProperties DEF Rest
  <1>3. ASSUME NEW j \in DOMAIN p, j > 0, p[j].type = "message.created"
        PROVE  \/ p[j].seq <= n + 1
               \/ \E h \in DOMAIN p : 0 < h /\ h < j /\ Creates(p, h, p[j].seq - 1)
    <2>1. CASE q[i + j].seq <= n + 1
      BY <1>1, <2>1
    <2>2. ASSUME NEW h \in DOMAIN q, i < h, h < i + j, Creates(q, h, q[i + j].seq - 1)
          PROVE  \E g \in DOMAIN p : 0 < g /\ g < j /\ Creates(p, g, p[j].seq - 1)
      <3>1. h - i \in DOMAIN p /\ h - i > 0 /\ h - i < j /\ p[h - i] = q[h]
        BY <1>2, <2>2, LenProperties
      <3>2. Creates(p, h - i, p[j].seq - 1)
        BY <1>1, <2>2, <3>1 DEF Creates
      <3>3. QED
        BY <3>1, <3>2
    <2>3. QED
      BY <1>1, <1>3, <2>1, <2>2 DEF Chain
  <1>4. Len(log) <= n \/ \E j \in DOMAIN p : j > 0 /\ Creates(p, j, Len(log))
    <2>1. ASSUME NEW h \in DOMAIN q, h > i, Creates(q, h, Len(log))
          PROVE  \E j \in DOMAIN p : j > 0 /\ Creates(p, j, Len(log))
      <3>1. h - i \in DOMAIN p /\ h - i > 0 /\ Creates(p, h - i, Len(log))
        BY <1>2, <2>1 DEF Creates
      <3>2. QED
        BY <3>1
    <2>2. QED
      BY <2>1 DEF Chain
  <1>5. QED
    BY <1>3, <1>4 DEF Chain

(* The queue and its three parts.                                          *)
PipeShape ==
    /\ Pipe \in Seq(Event)
    /\ Len(Pipe) = Len(buffer) + Len(wire) + Len(outbox)
    /\ Len(buffer) \in Nat /\ Len(wire) \in Nat /\ Len(outbox) \in Nat
    /\ \A i \in 1..Len(Pipe) :
          Pipe[i] = IF i <= Len(buffer) THEN buffer[i]
                    ELSE IF i <= Len(buffer) + Len(wire) THEN wire[i - Len(buffer)]
                    ELSE outbox[i - Len(buffer) - Len(wire)]

LEMMA PipeParts == Types => PipeShape
  <1> SUFFICES ASSUME Types PROVE PipeShape
    OBVIOUS
  <1>1. buffer \in Seq(Event) /\ wire \in Seq(Event) /\ outbox \in Seq(Event)
    BY DEF Types
  <1>2. Len(buffer) \in Nat /\ Len(wire) \in Nat /\ Len(outbox) \in Nat
    BY <1>1, LenProperties
  <1> DEFINE w == wire \o outbox
  <1>3. /\ w \in Seq(Event) /\ Len(w) = Len(wire) + Len(outbox)
        /\ \A i \in 1..Len(wire) + Len(outbox) :
              w[i] = IF i <= Len(wire) THEN wire[i] ELSE outbox[i - Len(wire)]
    BY <1>1, ConcatProperties
  <1> HIDE DEF w
  <1>4. /\ buffer \o w \in Seq(Event) /\ Len(buffer \o w) = Len(buffer) + Len(w)
        /\ \A i \in 1..Len(buffer) + Len(w) :
              (buffer \o w)[i] = IF i <= Len(buffer) THEN buffer[i] ELSE w[i - Len(buffer)]
    <2>1. buffer \in Seq(Event) /\ w \in Seq(Event)
      BY <1>1, <1>3
    <2>2. QED
      BY <2>1, ConcatProperties
  <1>5. Pipe = buffer \o w
    BY DEF Pipe, w
  <1>6. ASSUME NEW i \in 1..Len(Pipe)
        PROVE  Pipe[i] = IF i <= Len(buffer) THEN buffer[i]
                         ELSE IF i <= Len(buffer) + Len(wire) THEN wire[i - Len(buffer)]
                         ELSE outbox[i - Len(buffer) - Len(wire)]
    <2>1. CASE i <= Len(buffer)
      BY <1>2, <1>3, <1>4, <1>5, <2>1
    <2>2. CASE i > Len(buffer)
      <3>1. Pipe[i] = w[i - Len(buffer)] /\ i - Len(buffer) \in 1..Len(wire) + Len(outbox)
        BY <1>2, <1>3, <1>4, <1>5, <2>2
      <3>2. QED
        BY <1>2, <1>3, <2>2, <3>1
    <2>3. QED
      BY <1>2, <2>1, <2>2
  <1>7. QED
    BY <1>2, <1>3, <1>4, <1>5, <1>6 DEF PipeShape

(* A log row changes, or is new, and the event that says so is queued.     *)
Announced(e) ==
    /\ e \in Event
    /\ outbox' = Append(outbox, e) /\ UNCHANGED <<wire, buffer>>
    /\ DOMAIN log \subseteq DOMAIN log'
    /\ \A s \in DOMAIN log \ {e.seq} : log'[s] = log[s]
    /\ e.seq \in DOMAIN log' /\ log'[e.seq] = Said(e.type)
    /\ e.seq \in DOMAIN log => (log[e.seq].deleted => log'[e.seq].deleted)

LEMMA PipeAppend ==
    ASSUME Types, Types', NEW e \in Event, outbox' = Append(outbox, e),
           UNCHANGED <<wire, buffer>>
    PROVE  /\ Len(Pipe') = Len(Pipe) + 1 /\ Pipe'[Len(Pipe) + 1] = e
           /\ \A i \in 1..Len(Pipe) : Pipe'[i] = Pipe[i]
           /\ Pipe' \in Seq(Event)
  <1>1. outbox \in Seq(Event)
    BY DEF Types
  <1>2. /\ Len(outbox') = Len(outbox) + 1
        /\ \A i \in 1..Len(outbox) : outbox'[i] = outbox[i]
        /\ outbox'[Len(outbox) + 1] = e
    BY <1>1, AppendProperties
  <1>3. /\ Pipe' \in Seq(Event)
        /\ Len(Pipe') = Len(buffer) + Len(wire) + Len(outbox')
        /\ \A i \in 1..Len(Pipe') :
              Pipe'[i] = IF i <= Len(buffer) THEN buffer[i]
                         ELSE IF i <= Len(buffer) + Len(wire) THEN wire[i - Len(buffer)]
                         ELSE outbox'[i - Len(buffer) - Len(wire)]
    <2>1. PipeShape'
      BY PipeParts, PTL
    <2>2. QED
      BY <2>1 DEF PipeShape
  <1>4. PipeShape
    BY PipeParts
  <1>5. Len(Pipe') = Len(Pipe) + 1 /\ Len(Pipe) \in Nat
    BY <1>2, <1>3, <1>4 DEF PipeShape
  <1>6. Pipe'[Len(Pipe) + 1] = e
    <2>1. /\ Len(Pipe) + 1 \in 1..Len(Pipe')
          /\ ~(Len(Pipe) + 1 <= Len(buffer)) /\ ~(Len(Pipe) + 1 <= Len(buffer) + Len(wire))
          /\ Len(Pipe) + 1 - Len(buffer) - Len(wire) = Len(outbox) + 1
      BY <1>4, <1>5 DEF PipeShape
    <2>2. QED
      BY <1>2, <1>3, <2>1
  <1>7. ASSUME NEW i \in 1..Len(Pipe) PROVE Pipe'[i] = Pipe[i]
    <2>1. i \in 1..Len(Pipe')
      BY <1>5
    <2>2. ~(i <= Len(buffer) + Len(wire)) => i - Len(buffer) - Len(wire) \in 1..Len(outbox)
      BY <1>4 DEF PipeShape
    <2>3. Pipe[i] = IF i <= Len(buffer) THEN buffer[i]
                    ELSE IF i <= Len(buffer) + Len(wire) THEN wire[i - Len(buffer)]
                    ELSE outbox[i - Len(buffer) - Len(wire)]
      BY <1>4 DEF PipeShape
    <2>4. i <= Len(buffer) => i <= Len(buffer) + Len(wire)
      BY <1>4 DEF PipeShape
    <2>5. QED
      BY <1>2, <1>3, <2>1, <2>2, <2>3, <2>4
  <1>8. QED
    BY <1>3, <1>5, <1>6, <1>7

LEMMA AnnouncedKeeps ==
    ASSUME Types, Types', NEW e, Announced(e), Tells(Pipe)
    PROVE  /\ Tells(Pipe)'
           /\ \A r : Possible(r) => Possible(r)'
           /\ \A r, s : s \in DOMAIN log /\ Covered(Pipe, 0, r, s) => Covered(Pipe, 0, r, s)'
  <1> DEFINE n == Len(Pipe)
  <1>1. /\ Len(Pipe') = n + 1 /\ Pipe'[n + 1] = e
        /\ \A i \in 1..n : Pipe'[i] = Pipe[i]
        /\ Pipe' \in Seq(Event) /\ Pipe \in Seq(Event) /\ n \in Nat
        /\ DOMAIN Pipe = 1..n /\ DOMAIN Pipe' = 1..(n + 1)
    BY PipeAppend, PipeParts, LenProperties DEF Announced, PipeShape
  <1> HIDE DEF n
  <1>2. ASSUME NEW i \in DOMAIN Pipe'
        PROVE  /\ Pipe'[i].seq \in DOMAIN log'
               /\ Pipe'[i].type = "message.deleted" => log'[Pipe'[i].seq].deleted
               /\ LastOn(Pipe, i)' => log'[Pipe'[i].seq] = Said(Pipe'[i].type)
    <2>1. CASE i = n + 1
      <3>1. Pipe'[i] = e /\ e.seq \in DOMAIN log' /\ log'[e.seq] = Said(e.type)
        BY <1>1, <2>1 DEF Announced
      <3>2. e.type = "message.deleted" => Said(e.type).deleted
        BY DEF Said
      <3>3. QED
        BY <3>1, <3>2
    <2>2. CASE i # n + 1
      <3>1. i \in DOMAIN Pipe /\ Pipe'[i] = Pipe[i]
        BY <1>1, <2>2
      <3>2. Pipe[i].seq \in DOMAIN log /\ Pipe[i].seq \in DOMAIN log'
        BY <3>1 DEF Tells, Announced
      <3>3. Pipe[i].type = "message.deleted" => log'[Pipe[i].seq].deleted
        BY <3>1, <3>2 DEF Tells, Announced
      <3>4. ASSUME LastOn(Pipe, i)' PROVE log'[Pipe[i].seq] = Said(Pipe[i].type)
        <4>1. Pipe[i].seq # e.seq
          BY <1>1, <2>2, <3>1, <3>4 DEF LastOn
        <4>2. LastOn(Pipe, i)
          BY <1>1, <3>1, <3>4 DEF LastOn
        <4>3. QED
          BY <3>1, <3>2, <4>1, <4>2 DEF Tells, Announced
      <3>5. QED
        BY <3>1, <3>2, <3>3, <3>4
    <2>3. QED
      BY <2>1, <2>2
  <1>3. Tells(Pipe)'
    BY <1>2 DEF Tells
  <1>4. ASSUME NEW r, Possible(r) PROVE Possible(r)'
    BY <1>4 DEF Possible, Announced
  <1>5. ASSUME NEW r, NEW s, s \in DOMAIN log, Covered(Pipe, 0, r, s)
        PROVE  Covered(Pipe, 0, r, s)'
    <2>1. CASE s = e.seq
      <3>1. n + 1 \in DOMAIN Pipe' /\ n + 1 > 0 /\ Pipe'[n + 1].seq = s
        BY <1>1, <2>1
      <3>2. QED
        BY <3>1 DEF Covered
    <2>2. CASE s # e.seq /\ r = log[s]
      BY <1>5, <2>2 DEF Covered, Announced
    <2>3. CASE \E j \in DOMAIN Pipe : j > 0 /\ Pipe[j].seq = s
      <3>1. \E j \in DOMAIN Pipe' : j > 0 /\ Pipe'[j].seq = s
        BY <1>1, <2>3
      <3>2. QED
        BY <3>1 DEF Covered
    <2>4. QED
      BY <1>5, <2>1, <2>2, <2>3 DEF Covered
  <1>6. QED
    BY <1>3, <1>4, <1>5

(* The rest of the invariant after such a step, the watermark apart.       *)
LEMMA AnnouncedSnapshots ==
    ASSUME Types, Types', NEW e, Announced(e), Tells(Pipe), Snapshots,
           UNCHANGED <<rows, overtaken, fetch>>
    PROVE  Snapshots'
  <1>1. Possible(rows)' /\ \A k \in {"page", "older"} : Possible(fetch[k].rows)'
    BY AnnouncedKeeps DEF Snapshots
  <1>2. ASSUME NEW s \in DOMAIN rows \ overtaken PROVE Covered(Pipe, 0, rows[s], s)'
    <2>1. s \in DOMAIN log /\ Covered(Pipe, 0, rows[s], s)
      BY DEF Snapshots, Possible
    <2>2. PICK r : r = rows[s]
      OBVIOUS
    <2>3. Covered(Pipe, 0, r, s)'
      BY <2>1, <2>2, AnnouncedKeeps
    <2>4. QED
      BY <2>2, <2>3 DEF Covered
  <1>3. ASSUME NEW k \in {"page", "older"},
               NEW s \in DOMAIN fetch[k].rows \ (DOMAIN rows \cup overtaken)
        PROVE  Covered(Pipe, 0, fetch[k].rows[s], s)'
    <2>1. s \in DOMAIN log /\ Covered(Pipe, 0, fetch[k].rows[s], s)
      BY DEF Snapshots, Possible
    <2>2. PICK r : r = fetch[k].rows[s]
      OBVIOUS
    <2>3. Covered(Pipe, 0, r, s)'
      BY <2>1, <2>2, AnnouncedKeeps
    <2>4. QED
      BY <2>2, <2>3 DEF Covered
  <1>4. QED
    BY <1>1, <1>2, <1>3 DEF Snapshots

-----------------------------------------------------------------------------
LEMMA WatermarkKept ==
    ASSUME Types, Watermark, UNCHANGED <<boot, last, fetch>>,
           \A n \in Nat : Chain(Pipe, 0, n) => Chain(Pipe, 0, n)'
    PROVE  Watermark'
  <1>1. last \in Nat /\ fetch["boot"].last \in Nat
    BY DEF Types, CallRecord, Slots
  <1>2. PICK n \in Nat : n = last
    BY <1>1
  <1>3. PICK m \in Nat : m = fetch["boot"].last
    BY <1>1
  <1>4. Chain(Pipe, 0, last) => Chain(Pipe, 0, last)'
    BY <1>2 DEF Chain
  <1>5. Chain(Pipe, 0, fetch["boot"].last) => Chain(Pipe, 0, fetch["boot"].last)'
    BY <1>3 DEF Chain
  <1>6. QED
    BY <1>4, <1>5 DEF Watermark

(* Create and Change.                                                      *)
LEMMA CreateLive ==
    ASSUME Live, Create PROVE Live'
  <1> DEFINE e == [type |-> "message.created", seq |-> Len(log) + 1]
  <1>1. Types /\ log \in Seq(Row) /\ outbox \in Seq(Event) /\ Len(log) \in Nat
    BY LenProperties DEF Live, Types
  <1>2. /\ UNCHANGED <<wire, conn, boot, buffering, buffer, rows, last, more, open,
                       loadError, fetch, overtaken>>
        /\ log' = Append(log, Fresh) /\ outbox' = Append(outbox, e)
    BY DEF Create, clientVars, storeVars, pageVars
  <1>3. e \in Event /\ Fresh \in Row
    <2>1. e \in Event
      BY <1>1 DEF Event
    <2>2. Fresh \in Row
      BY DEF Fresh, Row
    <2>3. QED
      BY <2>1, <2>2
  <1>4. /\ log' \in Seq(Row) /\ Len(log') = Len(log) + 1
        /\ \A s \in 1..Len(log) : log'[s] = log[s]
        /\ log'[Len(log) + 1] = Fresh
    BY <1>1, <1>2, <1>3, AppendProperties
  <1>5. Types'
    <2>1. outbox' \in Seq(Event)
      BY <1>1, <1>2, <1>3, AppendProperties
    <2>2. QED
      BY <1>1, <1>2, <1>4, <2>1 DEF Types
  <1>6. Announced(e)
    BY <1>1, <1>2, <1>3, <1>4, LenProperties DEF Announced, Said
  <1>7. Calm'
    BY <1>2 DEF Live, Calm
  <1>8. ASSUME NEW n \in Nat, Chain(Pipe, 0, n) PROVE Chain(Pipe, 0, n)'
    <2> DEFINE m == Len(Pipe)
    <2>1. /\ Len(Pipe') = m + 1 /\ Pipe'[m + 1] = e
          /\ \A i \in 1..m : Pipe'[i] = Pipe[i]
          /\ m \in Nat /\ DOMAIN Pipe = 1..m /\ DOMAIN Pipe' = 1..(m + 1)
          /\ e.type = "message.created" /\ e.seq = Len(log) + 1
      BY <1>1, <1>2, <1>3, <1>5, PipeAppend, PipeParts, LenProperties DEF PipeShape
    <2> HIDE DEF m, e
    <2>2. ASSUME NEW j \in DOMAIN Pipe', j > 0, Pipe'[j].type = "message.created"
          PROVE  \/ Pipe'[j].seq <= n + 1
                 \/ \E h \in DOMAIN Pipe' : 0 < h /\ h < j /\ Creates(Pipe', h, Pipe'[j].seq - 1)
      <3>1. CASE j = m + 1
        <4>1. CASE Len(log) <= n
          BY <1>1, <2>1, <3>1, <4>1
        <4>2. CASE \E h \in DOMAIN Pipe : h > 0 /\ Creates(Pipe, h, Len(log))
          <5>1. PICK h \in DOMAIN Pipe : h > 0 /\ Creates(Pipe, h, Len(log))
            BY <4>2
          <5>2. h \in DOMAIN Pipe' /\ h < j /\ Pipe'[h] = Pipe[h] /\ Pipe'[j].seq - 1 = Len(log)
            BY <1>1, <2>1, <3>1
          <5>3. QED
            BY <5>1, <5>2 DEF Creates
        <4>3. QED
          BY <1>8, <4>1, <4>2 DEF Chain
      <3>2. CASE j # m + 1
        <4>1. j \in DOMAIN Pipe /\ Pipe'[j] = Pipe[j]
          BY <2>1, <3>2
        <4>2. CASE Pipe[j].seq <= n + 1
          BY <4>1, <4>2
        <4>3. ASSUME NEW h \in DOMAIN Pipe, 0 < h, h < j, Creates(Pipe, h, Pipe[j].seq - 1)
              PROVE  h \in DOMAIN Pipe' /\ Creates(Pipe', h, Pipe'[j].seq - 1)
          BY <2>1, <4>1, <4>3 DEF Creates
        <4>4. QED
          BY <1>8, <2>2, <4>1, <4>2, <4>3 DEF Chain
      <3>3. QED
        BY <3>1, <3>2
    <2>3. m + 1 \in DOMAIN Pipe' /\ m + 1 > 0 /\ Creates(Pipe', m + 1, Len(log'))
      BY <1>1, <1>4, <2>1 DEF Creates
    <2>4. QED
      BY <2>2, <2>3 DEF Chain
  <1>9. Watermark'
    BY <1>1, <1>2, <1>8, WatermarkKept DEF Live
  <1>10. QED
    BY <1>1, <1>2, <1>5, <1>6, <1>7, <1>9, AnnouncedKeeps, AnnouncedSnapshots DEF Live

LEMMA ChangeLive ==
    ASSUME Live, NEW c \in DOMAIN log, NEW type \in ChangeTypes, Change(c, type)
    PROVE  Live'
  <1> DEFINE e == [type |-> type, seq |-> c]
  <1>1. Types /\ log \in Seq(Row) /\ outbox \in Seq(Event) /\ Len(log) \in Nat
        /\ DOMAIN log = 1..Len(log) /\ log[c] \in Row
    BY LenProperties DEF Live, Types
  <1>2. /\ UNCHANGED <<wire, conn, boot, buffering, buffer, rows, last, more, open,
                       loadError, fetch, overtaken>>
        /\ log' = [log EXCEPT ![c] = Patch(log[c], type)] /\ outbox' = Append(outbox, e)
        /\ ~log[c].deleted
    BY DEF Change, clientVars, storeVars, pageVars
  <1>3. e \in Event
    BY <1>1 DEF Event
  <1>4. Patch(log[c], type) = Said(type) /\ Said(type) \in Row
    <2>1. log[c].deleted = FALSE
      BY <1>1, <1>2 DEF Row
    <2>2. QED
      <3>1. CASE type = "message.edited"
        <4>1. Patch(log[c], type) = [log[c] EXCEPT !.content = "edited"]
          BY <3>1 DEF Patch
        <4>2. Said(type) = [content |-> "edited", deleted |-> FALSE]
          BY <3>1 DEF Said
        <4>3. QED
          BY <1>1, <2>1, <4>1, <4>2 DEF Row
      <3>2. CASE type = "message.deleted"
        <4>1. Patch(log[c], type) = [content |-> "", deleted |-> TRUE]
          BY <3>2 DEF Patch
        <4>2. Said(type) = [content |-> "", deleted |-> TRUE]
          BY <3>2 DEF Said
        <4>3. [content |-> "", deleted |-> TRUE] \in Row
          BY DEF Row
        <4>4. QED
          BY <4>1, <4>2, <4>3
      <3>3. QED
        BY <3>1, <3>2 DEF ChangeTypes
  <1>5. /\ log' \in Seq(Row) /\ Len(log') = Len(log) /\ DOMAIN log' = DOMAIN log
        /\ \A s \in DOMAIN log \ {c} : log'[s] = log[s]
        /\ log'[c] = Said(type)
    BY <1>1, <1>2, <1>4
  <1>6. Types'
    <2>1. outbox' \in Seq(Event)
      BY <1>1, <1>2, <1>3, AppendProperties
    <2>2. QED
      BY <1>1, <1>2, <1>5, <2>1 DEF Types
  <1>7. Announced(e)
    BY <1>2, <1>3, <1>5 DEF Announced
  <1>8. Calm'
    BY <1>2 DEF Live, Calm
  <1>9. ASSUME NEW n \in Nat, Chain(Pipe, 0, n) PROVE Chain(Pipe, 0, n)'
    <2> DEFINE m == Len(Pipe)
    <2>1. /\ Len(Pipe') = m + 1 /\ Pipe'[m + 1] = e
          /\ \A i \in 1..m : Pipe'[i] = Pipe[i]
          /\ m \in Nat /\ DOMAIN Pipe = 1..m /\ DOMAIN Pipe' = 1..(m + 1)
          /\ e.type # "message.created"
      BY <1>1, <1>2, <1>3, <1>6, PipeAppend, PipeParts, LenProperties
         DEF PipeShape, ChangeTypes
    <2> HIDE DEF m, e
    <2>2. ASSUME NEW j \in DOMAIN Pipe', j > 0, Pipe'[j].type = "message.created"
          PROVE  \/ Pipe'[j].seq <= n + 1
                 \/ \E h \in DOMAIN Pipe' : 0 < h /\ h < j /\ Creates(Pipe', h, Pipe'[j].seq - 1)
      <3>1. j \in DOMAIN Pipe /\ Pipe'[j] = Pipe[j]
        BY <2>1, <2>2
      <3>2. CASE Pipe[j].seq <= n + 1
        BY <3>1, <3>2
      <3>3. ASSUME NEW h \in DOMAIN Pipe, 0 < h, h < j, Creates(Pipe, h, Pipe[j].seq - 1)
            PROVE  h \in DOMAIN Pipe' /\ Creates(Pipe', h, Pipe'[j].seq - 1)
        BY <2>1, <3>1, <3>3 DEF Creates
      <3>4. QED
        BY <1>9, <2>2, <3>1, <3>2, <3>3 DEF Chain
    <2>3. \/ Len(log') <= n
          \/ \E j \in DOMAIN Pipe' : j > 0 /\ Creates(Pipe', j, Len(log'))
      BY <1>5, <1>9, <2>1 DEF Chain, Creates
    <2>4. QED
      BY <2>2, <2>3 DEF Chain
  <1>10. Watermark'
    BY <1>1, <1>2, <1>9, WatermarkKept DEF Live
  <1>11. QED
    BY <1>1, <1>2, <1>6, <1>7, <1>8, <1>10, AnnouncedKeeps, AnnouncedSnapshots DEF Live

(* The queue stays as it is, or loses its first events.                    *)
LEMMA MoveHead ==
    ASSUME NEW S, NEW w \in Seq(S), NEW o \in Seq(S), o # <<>>
    PROVE  Append(w, Head(o)) \o Tail(o) = w \o o
  OBVIOUS

LEMMA TailConcat ==
    ASSUME NEW S, NEW w \in Seq(S), NEW o \in Seq(S), w # <<>>
    PROVE  /\ w \o o \in Seq(S) /\ w \o o # <<>>
           /\ Head(w \o o) = Head(w) /\ Tail(w \o o) = Tail(w) \o o
  OBVIOUS

LEMMA TailRest ==
    ASSUME NEW S, NEW q \in Seq(S), q # <<>>
    PROVE  Rest(Tail(q), q, 1) /\ 1 \in 0..Len(q) /\ 1 \in DOMAIN q /\ Tail(q) \in Seq(S)
  BY HeadTailProperties, LenProperties DEF Rest

LEMMA ConcatRest ==
    ASSUME NEW S, NEW b \in Seq(S), NEW w \in Seq(S)
    PROVE  /\ Rest(w, b \o w, Len(b)) /\ Len(b) \in 0..Len(b \o w)
           /\ \A i \in DOMAIN b : (b \o w)[i] = b[i]
  BY ConcatProperties, LenProperties DEF Rest

(* Relay: the queue keeps its events, or the first one is published while  *)
(* the tab is not subscribed and has nothing yet.                          *)
LEMMA RelayLive ==
    ASSUME Live, NEW i \in DOMAIN outbox, NEW marked \in BOOLEAN, Relay(i, marked),
           faults = 0, faults' = 0
    PROVE  Live'
  <1>1. /\ Types /\ outbox \in Seq(Event) /\ wire \in Seq(Event) /\ buffer \in Seq(Event)
        /\ outbox # <<>> /\ Calm
    BY DEF Live, Types
  <1>2. /\ i = 1 /\ marked
        /\ UNCHANGED <<log, conn, boot, buffering, buffer, rows, last, more, open,
                       loadError, fetch, overtaken>>
    BY DEF Relay, Fault, storeVars, pageVars
  <1>3. outbox' = Tail(outbox)
    <2>1. outbox' = SubSeq(outbox, 1, 0) \o SubSeq(outbox, 2, Len(outbox))
      BY <1>2 DEF Relay, RemoveAt
    <2>2. QED
      BY <1>1, <2>1
  <1>4. /\ outbox' \in Seq(Event) /\ Len(outbox') = Len(outbox) - 1
        /\ \A j \in 1..Len(outbox') : outbox'[j] = outbox[j + 1]
    BY <1>1, <1>3, HeadTailProperties
  <1>5. wire' = IF conn = "connected" THEN Append(wire, Head(outbox)) ELSE wire
    BY <1>2 DEF Relay
  <1>6. wire' \in Seq(Event)
    BY <1>1, <1>5, AppendProperties
  <1>7. Types'
    BY <1>1, <1>2, <1>4, <1>6 DEF Types
  <1>8. CASE conn = "connected"
    <2>1. wire' \o outbox' = wire \o outbox
      BY <1>1, <1>3, <1>5, <1>8, MoveHead
    <2>2. Pipe' = Pipe
      BY <1>2, <2>1 DEF Pipe
    <2>3. QED
      BY <1>1, <1>2, <1>7, <1>8, <2>2
         DEF Live, Calm, Tells, LastOn, Watermark, Snapshots, Chain, Creates, Covered, Possible
  <1>9. CASE conn = "connecting"
    <2>1. /\ buffer = <<>> /\ wire = <<>> /\ wire' = wire /\ boot = "connecting"
          /\ rows = <<>> /\ fetch["page"] = Idle /\ fetch["older"] = Idle
          /\ fetch["boot"] = Idle
      BY <1>1, <1>5, <1>9 DEF Calm
    <2>2. Pipe = outbox /\ Pipe' = Tail(outbox)
      BY <1>1, <1>2, <1>3, <2>1, ConcatEmptySeq DEF Pipe
    <2>4. Rest(Pipe', Pipe, 1) /\ 1 \in 0..Len(Pipe) /\ Pipe \in Seq(Event) /\ Pipe' \in Seq(Event)
      BY <1>1, <2>2, TailRest
    <2>5. PICK p : p = Pipe'
      OBVIOUS
    <2>6. Tells(p)
      BY <2>4, <2>5, RestTells DEF Live
    <2>7. Tells(Pipe)'
      BY <1>2, <2>5, <2>6 DEF Tells, LastOn
    <2>8. Watermark'
      BY <1>2, <2>1 DEF Watermark, Idle
    <2>9. Snapshots'
      BY <1>2, <2>1 DEF Snapshots, Possible, Idle
    <2>10. Calm'
      BY <1>1, <1>2, <2>1 DEF Calm
    <2>11. QED
      BY <1>7, <2>7, <2>8, <2>9, <2>10 DEF Live
  <1>10. QED
    BY <1>1, <1>8, <1>9 DEF Calm

-----------------------------------------------------------------------------
(* Handling events.                                                        *)
LEMMA StoreGood ==
    ASSUME Live, boot \in {"presence", "ready"}
    PROVE  Good(Store(rows, last, fetch["gap"]), Pipe, 0)
  <1> DEFINE st == Store(rows, last, fetch["gap"])
  <1>1. /\ st.rows = rows /\ st.last = last /\ st.overtaken = overtaken
        /\ st \in StoreRecord
    BY DEF Store, StoreRecord, Live, Types, Calm
  <1> HIDE DEF st
  <1>2. Good(st, Pipe, 0)
    BY <1>1 DEF Good, Live, Snapshots, Watermark
  <1>3. QED
    BY <1>2 DEF st

(* The first i events are handled, and st is installed.                    *)
LEMMA InstalledLive ==
    ASSUME Live, NEW i \in 0..Len(Pipe), NEW st, Good(st, Pipe, i),
           Pipe' \in Seq(Event), Rest(Pipe', Pipe, i),
           rows' = st.rows, last' = st.last, overtaken' = st.overtaken,
           fetch' = [fetch EXCEPT !["gap"] = st.gap], UNCHANGED log
    PROVE  /\ rows' \in Caches /\ last' \in Nat /\ overtaken' \in SUBSET Nat /\ fetch' = fetch
           /\ Tells(Pipe)' /\ Snapshots' /\ Chain(Pipe, 0, last)'
  <1>1. /\ Types /\ Pipe \in Seq(Event) /\ st \in StoreRecord
        /\ fetch["gap"] = Idle /\ "gap" \in Slots
    BY PipeParts DEF Live, PipeShape, Good, Calm, Slots
  <1>2. /\ rows' \in Caches /\ last' \in Nat /\ overtaken' \in SUBSET Nat /\ st.gap = Idle
    BY <1>1 DEF StoreRecord
  <1>3. fetch' = fetch
    BY <1>1, <1>2 DEF Types
  <1>4. PICK p : p = Pipe'
    OBVIOUS
  <1>5. p \in Seq(Event) /\ Rest(p, Pipe, i)
    BY <1>4
  <1>6. Tells(Pipe)'
    <2>1. Tells(p)
      BY <1>1, <1>5, RestTells DEF Live
    <2>2. QED
      BY <1>4, <2>1 DEF Tells, LastOn
  <1>7. Chain(Pipe, 0, last)'
    <2>1. Chain(p, 0, st.last) /\ last' = st.last
      BY <1>1, <1>2, <1>5, RestChain DEF Good
    <2>2. QED
      BY <1>4, <2>1 DEF Chain, Creates
  <1>8. Snapshots'
    <2>1. Possible(rows)' /\ \A k \in {"page", "older"} : Possible(fetch[k].rows)'
      BY <1>3 DEF Good, Live, Snapshots, Possible
    <2>2. ASSUME NEW s \in DOMAIN st.rows \ st.overtaken PROVE Covered(p, 0, st.rows[s], s)
      BY <1>1, <1>5, RestCovered DEF Good
    <2>3. ASSUME NEW k \in {"page", "older"},
                 NEW s \in DOMAIN fetch[k].rows \ (DOMAIN st.rows \cup st.overtaken)
          PROVE  Covered(p, 0, fetch[k].rows[s], s)
      BY <1>1, <1>5, RestCovered DEF Good
    <2>4. ASSUME NEW s \in DOMAIN rows' \ overtaken' PROVE Covered(Pipe, 0, rows[s], s)'
      BY <1>4, <2>2 DEF Covered
    <2>5. ASSUME NEW k \in {"page", "older"},
                 NEW s \in DOMAIN fetch'[k].rows \ (DOMAIN rows' \cup overtaken')
          PROVE  Covered(Pipe, 0, fetch[k].rows[s], s)'
      BY <1>3, <1>4, <2>3 DEF Covered
    <2>6. QED
      BY <2>1, <2>4, <2>5 DEF Snapshots
  <1>9. QED
    BY <1>2, <1>3, <1>6, <1>7, <1>8

LEMMA DeliverLive ==
    ASSUME Live, Deliver PROVE Live'
  <1>1. /\ Types /\ Calm /\ buffer \in Seq(Event) /\ wire \in Seq(Event)
        /\ outbox \in Seq(Event) /\ wire # <<>> /\ wire' = Tail(wire) /\ conn = "connected"
        /\ UNCHANGED <<log, outbox, conn, boot, buffering, more, open, loadError>>
    BY DEF Live, Types, Deliver, serverVars, pageVars
  <1>2. wire' \in Seq(Event) /\ Head(wire) \in Event
    BY <1>1, HeadTailProperties
  <1>3. CASE buffering
    <2>1. /\ buffer' = Append(buffer, Head(wire))
          /\ UNCHANGED <<rows, last, overtaken, fetch>>
      BY <1>3 DEF Deliver
    <2>2. Types'
      <3>1. buffer' \in Seq(Event)
        BY <1>1, <1>2, <2>1, AppendProperties
      <3>2. QED
        BY <1>1, <1>2, <2>1, <3>1 DEF Types
    <2>3. Pipe' = Pipe
      <3>1. /\ wire \o outbox \in Seq(Event) /\ wire \o outbox # <<>>
            /\ Head(wire \o outbox) = Head(wire)
            /\ Tail(wire \o outbox) = wire' \o outbox'
        BY <1>1, TailConcat
      <3>2. Append(buffer, Head(wire \o outbox)) \o Tail(wire \o outbox)
               = buffer \o (wire \o outbox)
        BY <1>1, <3>1, MoveHead
      <3>3. QED
        BY <2>1, <3>1, <3>2 DEF Pipe
    <2>4. QED
      BY <1>1, <1>3, <2>1, <2>2, <2>3
         DEF Live, Calm, Tells, LastOn, Watermark, Snapshots, Chain, Creates, Covered, Possible
  <1>4. CASE ~buffering
    <2> DEFINE st == HandleEvent(Store(rows, last, fetch["gap"]), Head(wire))
    <2>1. /\ rows' = st.rows /\ last' = st.last /\ overtaken' = st.overtaken
          /\ fetch' = [fetch EXCEPT !["gap"] = st.gap] /\ UNCHANGED buffer
      BY <1>4 DEF Deliver, Install
    <2>2. boot = "ready" /\ buffer = <<>>
      BY <1>1, <1>4 DEF Calm
    <2>3. Pipe = wire \o outbox /\ Pipe' = wire' \o outbox'
      <3>1. wire \o outbox \in Seq(Event) /\ wire' \o outbox' \in Seq(Event)
        BY <1>1, <1>2, ConcatProperties
      <3>2. QED
        BY <2>1, <2>2, <3>1, ConcatEmptySeq DEF Pipe
    <2>4. /\ Pipe \in Seq(Event) /\ Pipe # <<>> /\ Head(Pipe) = Head(wire)
          /\ Pipe' = Tail(Pipe)
      BY <1>1, <2>3, TailConcat
    <2>5. /\ Rest(Pipe', Pipe, 1) /\ 1 \in 0..Len(Pipe) /\ 1 \in DOMAIN Pipe
          /\ Pipe' \in Seq(Event) /\ Pipe[1] = Head(wire)
      BY <2>4, TailRest
    <2>6. Good(Store(rows, last, fetch["gap"]), Pipe, 1 - 1)
      BY <2>2, StoreGood
    <2>7. Good(st, Pipe, 1)
      BY <1>1, <2>4, <2>5, <2>6, HandleGood DEF Live
    <2> HIDE DEF st
    <2>8. /\ rows' \in Caches /\ last' \in Nat /\ overtaken' \in SUBSET Nat /\ fetch' = fetch
          /\ Tells(Pipe)' /\ Snapshots' /\ Chain(Pipe, 0, last)'
      BY <1>1, <2>1, <2>5, <2>7, InstalledLive
    <2>9. Types'
      BY <1>1, <1>2, <2>1, <2>8 DEF Types
    <2>10. Calm'
      BY <1>1, <1>4, <2>1, <2>2, <2>8 DEF Calm
    <2>11. Watermark'
      BY <1>1, <2>2, <2>8 DEF Calm, Watermark, Idle
    <2>12. QED
      BY <2>8, <2>9, <2>10, <2>11 DEF Live
  <1>5. QED
    BY <1>3, <1>4

LEMMA BootReadyLive ==
    ASSUME Live, BootReady PROVE Live'
  <1> DEFINE st == Replayed(Store(rows, last, fetch["gap"]))
  <1>1. /\ Types /\ Calm /\ buffer \in Seq(Event) /\ wire \in Seq(Event)
        /\ outbox \in Seq(Event) /\ boot = "presence" /\ boot' = "ready"
        /\ UNCHANGED <<log, outbox, wire, conn, more, open, loadError>>
        /\ buffering' = FALSE /\ buffer' = <<>>
    BY DEF Live, Types, BootReady, Replay, serverVars, pageVars
  <1>2. /\ rows' = st.rows /\ last' = st.last /\ overtaken' = st.overtaken
        /\ fetch' = [fetch EXCEPT !["gap"] = st.gap]
    BY DEF BootReady, Replay, Install
  <1>3. Pipe \in Seq(Event) /\ Pipe' = wire \o outbox /\ wire \o outbox \in Seq(Event)
    <2>1. wire \o outbox \in Seq(Event)
      BY <1>1, ConcatProperties
    <2>2. Pipe' = wire \o outbox
      BY <1>1, <2>1, ConcatEmptySeq DEF Pipe
    <2>3. QED
      BY <1>1, <2>1, <2>2, PipeParts DEF PipeShape
  <1>4. /\ Rest(Pipe', Pipe, Len(buffer)) /\ Len(buffer) \in 0..Len(Pipe)
        /\ \A i \in DOMAIN buffer : Pipe[i] = buffer[i]
    BY <1>1, <1>3, ConcatRest DEF Pipe
  <1>5. Good(st, Pipe, Len(buffer))
    <2>1. Good(Store(rows, last, fetch["gap"]), Pipe, 0)
      BY <1>1, StoreGood
    <2>2. Len(buffer) <= Len(Pipe)
      BY <1>4
    <2>3. QED
      BY <1>1, <1>3, <1>4, <2>1, <2>2, ReplayGood DEF Live
  <1> HIDE DEF st
  <1>6. /\ rows' \in Caches /\ last' \in Nat /\ overtaken' \in SUBSET Nat /\ fetch' = fetch
        /\ Tells(Pipe)' /\ Snapshots' /\ Chain(Pipe, 0, last)'
    BY <1>1, <1>2, <1>3, <1>4, <1>5, InstalledLive
  <1>7. Types'
    <2>1. buffer' \in Seq(Event) /\ wire' \in Seq(Event) /\ outbox' \in Seq(Event)
      BY <1>1
    <2>2. QED
      BY <1>1, <1>6, <2>1 DEF Types
  <1>8. Calm'
    BY <1>1, <1>6 DEF Calm
  <1>9. Watermark'
    BY <1>1, <1>6 DEF Calm, Watermark, Idle
  <1>10. QED
    BY <1>6, <1>7, <1>8, <1>9 DEF Live

-----------------------------------------------------------------------------
(* The bootstrap and pages of history.                                     *)
LEMMA IdleTyped == Idle \in CallRecord /\ Idle.rows = <<>> /\ DOMAIN Idle.rows = {}
  <1>1. <<>> \in Caches
    <2>1. <<>> \in [{} -> Row]
      OBVIOUS
    <2>2. QED
      BY <2>1 DEF Caches
  <1>2. Idle \in CallRecord
    BY <1>1 DEF Idle, CallRecord, Phases
  <1>3. Idle.rows = <<>>
    BY DEF Idle
  <1>4. DOMAIN <<>> = {}
    OBVIOUS
  <1>5. QED
    BY <1>2, <1>3, <1>4

LEMMA AskTyped ==
    ASSUME NEW n \in Nat
    PROVE  Ask(n) \in CallRecord /\ DOMAIN Ask(n).rows = {}
  <1>1. Ask(n) = [Idle EXCEPT !.phase = "asked", !.mark = n]
    BY DEF Ask
  <1>2. Ask(n).rows = Idle.rows
    BY <1>1 DEF Idle
  <1>3. Ask(n) \in CallRecord
    <2>1. Ask(n) = [phase |-> "asked", mark |-> n, last |-> 0, rows |-> Idle.rows,
                    more |-> FALSE, active |-> FALSE]
      BY <1>1 DEF Idle
    <2>2. Idle.rows \in Caches
      BY IdleTyped DEF CallRecord
    <2>3. QED
      BY <2>1, <2>2 DEF CallRecord, Phases
  <1>4. QED
    BY <1>2, <1>3, IdleTyped

(* The queue, the log and the store stay, and the calls still have what    *)
(* they had or nothing.                                                    *)
LEMMA CallsLive ==
    ASSUME Live, UNCHANGED <<log, outbox, wire, buffer, rows, overtaken>>, Types',
           \A k \in {"page", "older"} :
              DOMAIN fetch'[k].rows = {} \/ fetch'[k].rows = fetch[k].rows
    PROVE  Tells(Pipe)' /\ Snapshots'
  <1>1. Pipe' = Pipe
    BY DEF Pipe
  <1>2. Tells(Pipe)'
    BY <1>1 DEF Live, Tells, LastOn
  <1>3. Snapshots'
    <2>1. Possible(rows)' /\ \A k \in {"page", "older"} : Possible(fetch[k].rows)'
      BY DEF Live, Snapshots, Possible
    <2>2. \A s \in DOMAIN rows' \ overtaken' : Covered(Pipe, 0, rows[s], s)'
      BY <1>1 DEF Live, Snapshots, Covered
    <2>3. ASSUME NEW k \in {"page", "older"},
                 NEW s \in DOMAIN fetch'[k].rows \ (DOMAIN rows' \cup overtaken')
          PROVE  Covered(Pipe, 0, fetch[k].rows[s], s)'
      BY <1>1 DEF Live, Snapshots, Covered
    <2>4. QED
      BY <2>1, <2>2, <2>3 DEF Snapshots
  <1>4. QED
    BY <1>2, <1>3

LEMMA ConnectLive ==
    ASSUME Live, Connect PROVE Live'
  <1>1. /\ Types /\ Calm /\ boot = "connecting" /\ conn' = "connected" /\ boot' = "loading"
        /\ fetch' = [fetch EXCEPT !["boot"].phase = "list"]
        /\ UNCHANGED <<log, outbox, wire, buffering, buffer, rows, last, more, open,
                       loadError, overtaken>>
    BY DEF Live, Connect, serverVars, storeVars, pageVars
  <1>2. /\ fetch' \in [Slots -> CallRecord] /\ fetch'["boot"].phase = "list"
        /\ \A k \in Slots \ {"boot"} : fetch'[k] = fetch[k]
    <2>1. "boot" \in Slots /\ fetch \in [Slots -> CallRecord] /\ fetch["boot"] \in CallRecord
      BY <1>1 DEF Types, Slots
    <2>2. [fetch["boot"] EXCEPT !.phase = "list"] \in CallRecord
      BY <2>1 DEF CallRecord, Phases
    <2>3. fetch' = [fetch EXCEPT !["boot"] = [fetch["boot"] EXCEPT !.phase = "list"]]
      BY <1>1
    <2>4. fetch'["boot"] = [fetch["boot"] EXCEPT !.phase = "list"]
      BY <2>1, <2>3
    <2>5. fetch'["boot"].phase = "list"
      BY <2>1, <2>4 DEF CallRecord
    <2>6. QED
      BY <2>1, <2>2, <2>3, <2>5
  <1>3. Types'
    BY <1>1, <1>2 DEF Types
  <1>4. Calm'
    BY <1>1, <1>2, WebTimelineAssumption DEF Calm, Slots
  <1>5. Tells(Pipe)' /\ Snapshots'
    BY <1>1, <1>2, <1>3, CallsLive DEF Slots
  <1>6. Watermark'
    BY <1>1, <1>2 DEF Watermark
  <1>7. QED
    BY <1>3, <1>4, <1>5, <1>6 DEF Live

LEMMA BootListedLive ==
    ASSUME Live, BootListed PROVE Live'
  <1>1. /\ Types /\ Calm /\ fetch["boot"].phase = "listed" /\ boot' = "presence"
        /\ last' = fetch["boot"].last /\ fetch' = [fetch EXCEPT !["boot"] = Idle]
        /\ UNCHANGED <<log, outbox, wire, conn, buffering, buffer, rows, more, open,
                       loadError, overtaken>>
    BY DEF Live, BootListed, serverVars, pageVars
  <1>2. boot = "loading" /\ last' \in Nat
    BY <1>1 DEF Calm, Idle, Types, CallRecord, Slots
  <1>3. /\ fetch' \in [Slots -> CallRecord] /\ fetch'["boot"] = Idle
        /\ \A k \in Slots \ {"boot"} : fetch'[k] = fetch[k]
    BY <1>1, IdleTyped DEF Types, Slots
  <1>4. Types'
    BY <1>1, <1>2, <1>3 DEF Types
  <1>5. Calm'
    BY <1>1, <1>2, <1>3, WebTimelineAssumption DEF Calm, Slots, Idle
  <1>6. Tells(Pipe)' /\ Snapshots'
    BY <1>1, <1>3, <1>4, CallsLive DEF Slots
  <1>7. Watermark'
    <2>1. Chain(Pipe, 0, fetch["boot"].last) /\ Pipe' = Pipe
      BY <1>1 DEF Live, Watermark, Pipe
    <2>2. QED
      BY <1>1, <1>3, <2>1 DEF Watermark, Chain, Creates, Idle
  <1>8. QED
    BY <1>4, <1>5, <1>6, <1>7 DEF Live

(* Open, Close and LoadOlder.                                              *)
LEMMA PagesLive ==
    ASSUME Live, Open \/ Close \/ LoadOlder PROVE Live'
  <1>1. /\ Types /\ Calm
        /\ UNCHANGED <<log, outbox, wire, conn, boot, buffering, buffer, rows, last, more,
                       overtaken>>
        /\ loadError' = FALSE
    BY DEF Live, Calm, Open, Close, LoadOlder, serverVars, storeVars, pageVars
  <1>2. boot \in {"presence", "ready"} /\ open' \in BOOLEAN
    BY <1>1 DEF Calm, Open, Close, LoadOlder, pageVars, Types
  <1>3. PICK k \in {"page", "older"}, c \in CallRecord :
           fetch' = [fetch EXCEPT ![k] = c] /\ DOMAIN c.rows = {}
    <2>1. CASE Open
      BY <2>1, AskTyped DEF Open
    <2>2. CASE Close
      BY <2>2, IdleTyped DEF Close
    <2>3. CASE LoadOlder
      <3>1. rows \in Caches /\ rows # <<>>
        BY <1>1, <2>3 DEF LoadOlder, Types
      <3>2. DOMAIN rows \subseteq Nat /\ DOMAIN rows # {}
        BY <3>1, CachesDef
      <3>3. Min(DOMAIN rows) \in Nat
        BY <3>2, MinOfNaturals
      <3>4. QED
        BY <2>3, <3>3, AskTyped DEF LoadOlder
    <2>4. QED
      BY <2>1, <2>2, <2>3
  <1>4. /\ fetch' \in [Slots -> CallRecord]
        /\ DOMAIN fetch'[k].rows = {} /\ \A j \in Slots \ {k} : fetch'[j] = fetch[j]
    BY <1>1, <1>3 DEF Types, Slots
  <1>5. Types'
    BY <1>1, <1>2, <1>4 DEF Types
  <1>6. Calm'
    BY <1>1, <1>2, <1>4, WebTimelineAssumption DEF Calm, Slots
  <1>7. Tells(Pipe)' /\ Snapshots'
    BY <1>1, <1>4, <1>5, CallsLive DEF Slots
  <1>8. Watermark'
    <2>1. Pipe' = Pipe /\ fetch'["boot"] = fetch["boot"]
      BY <1>1, <1>4 DEF Pipe, Slots
    <2>2. QED
      BY <1>1, <2>1 DEF Live, Watermark, Chain, Creates
  <1>9. QED
    BY <1>5, <1>6, <1>7, <1>8 DEF Live

(* PageLoaded and OlderLoaded: the answer goes below what is shown.        *)
LEMMA LoadedLive ==
    ASSUME Live, PageLoaded \/ OlderLoaded PROVE Live'
  <1>1. PICK k \in {"page", "older"} :
           /\ fetch[k].phase = "answered"
           /\ rows' = Merged(fetch[k].rows, rows) /\ more' = fetch[k].more
           /\ fetch' = [fetch EXCEPT ![k] = Idle]
           /\ UNCHANGED <<log, outbox, wire, conn, boot, buffering, buffer, last, open,
                          loadError, overtaken>>
    BY DEF PageLoaded, OlderLoaded, serverVars, pageVars
  <1>2. /\ Types /\ Calm /\ k \in Slots /\ fetch \in [Slots -> CallRecord]
        /\ fetch[k] \in CallRecord /\ rows \in Caches
    BY DEF Live, Types, Slots
  <1>3. fetch[k].rows \in Caches /\ fetch[k].more \in BOOLEAN
    BY <1>2 DEF CallRecord
  <1>4. boot \in {"presence", "ready"}
    BY <1>1, <1>2 DEF Calm, Idle
  <1>5. /\ fetch' \in [Slots -> CallRecord] /\ fetch'[k] = Idle
        /\ \A j \in Slots \ {k} : fetch'[j] = fetch[j]
    BY <1>1, <1>2, IdleTyped
  <1>6. /\ DOMAIN rows' = DOMAIN rows \cup DOMAIN fetch[k].rows
        /\ rows' = [s \in DOMAIN rows' |-> rows'[s]]
        /\ \A s \in DOMAIN rows : rows'[s] = rows[s]
        /\ \A s \in DOMAIN fetch[k].rows \ DOMAIN rows : rows'[s] = fetch[k].rows[s]
    BY <1>1 DEF Merged, Upserted
  <1>7. rows' \in Caches
    <2>1. /\ DOMAIN rows \subseteq Nat /\ DOMAIN fetch[k].rows \subseteq Nat
          /\ \A s \in DOMAIN rows : rows[s] \in Row
          /\ \A s \in DOMAIN fetch[k].rows : fetch[k].rows[s] \in Row
      BY <1>2, <1>3, CachesDef
    <2>2. DOMAIN rows' \subseteq Nat /\ \A s \in DOMAIN rows' : rows'[s] \in Row
      BY <1>6, <2>1
    <2>3. QED
      BY <1>6, <2>2, CachesDef
  <1>8. Types'
    BY <1>1, <1>2, <1>3, <1>5, <1>7 DEF Types
  <1>9. Calm'
    BY <1>1, <1>2, <1>4, <1>5, WebTimelineAssumption DEF Calm, Slots
  <1>10. Pipe' = Pipe
    BY <1>1 DEF Pipe
  <1>11. Tells(Pipe)'
    BY <1>1, <1>10 DEF Live, Tells, LastOn
  <1>12. Watermark'
    BY <1>1, <1>5, <1>10 DEF Live, Watermark, Chain, Creates, Slots
  <1>13. Snapshots'
    <2>1. Possible(rows)'
      BY <1>1, <1>6 DEF Live, Snapshots, Possible
    <2>2. \A j \in {"page", "older"} : Possible(fetch[j].rows)'
      BY <1>1, <1>5, IdleTyped DEF Live, Snapshots, Possible, Slots
    <2>3. ASSUME NEW s \in DOMAIN rows' \ overtaken' PROVE Covered(Pipe, 0, rows[s], s)'
      <3>1. CASE s \in DOMAIN rows
        BY <1>1, <1>6, <1>10, <3>1 DEF Live, Snapshots, Covered
      <3>2. CASE s \notin DOMAIN rows
        <4>1. /\ s \in DOMAIN fetch[k].rows \ (DOMAIN rows \cup overtaken)
              /\ rows'[s] = fetch[k].rows[s]
          BY <1>1, <1>6, <3>2
        <4>2. Covered(Pipe, 0, fetch[k].rows[s], s)
          BY <4>1 DEF Live, Snapshots
        <4>3. QED
          BY <1>1, <1>10, <4>1, <4>2 DEF Covered
      <3>3. QED
        BY <3>1, <3>2
    <2>4. ASSUME NEW j \in {"page", "older"},
                 NEW s \in DOMAIN fetch'[j].rows \ (DOMAIN rows' \cup overtaken')
          PROVE  Covered(Pipe, 0, fetch[j].rows[s], s)'
      <3>1. j # k /\ fetch'[j] = fetch[j]
        BY <1>5, IdleTyped DEF Slots
      <3>2. s \in DOMAIN fetch[j].rows \ (DOMAIN rows \cup overtaken)
        BY <1>1, <1>6, <3>1
      <3>3. Covered(Pipe, 0, fetch[j].rows[s], s)
        BY <3>2 DEF Live, Snapshots
      <3>4. QED
        BY <1>1, <1>10, <3>1, <3>3 DEF Covered
    <2>5. QED
      BY <2>1, <2>2, <2>3, <2>4 DEF Snapshots
  <1>14. QED
    BY <1>8, <1>9, <1>11, <1>12, <1>13 DEF Live

(* The API answers: with the length of the log, or with rows of it.        *)
LEMMA AnswerLive ==
    ASSUME Live, NEW k \in Slots, Answer(k) PROVE Live'
  <1>1. /\ Types /\ Calm /\ fetch \in [Slots -> CallRecord] /\ fetch[k] \in CallRecord
        /\ log \in Seq(Row) /\ Len(log) \in Nat /\ DOMAIN log = 1..Len(log)
        /\ UNCHANGED <<log, outbox, wire, conn, boot, buffering, buffer, rows, last, more,
                       open, loadError, overtaken>>
    BY LenProperties DEF Live, Types, Answer, serverVars, storeVars, pageVars
  <1>2. Pipe' = Pipe
    BY <1>1 DEF Pipe
  <1>3. Tells(Pipe)'
    BY <1>1, <1>2 DEF Live, Tells, LastOn
  <1>4. fetch[k].phase # "idle"
    BY DEF Answer
  <1>5. k \in {"boot", "page", "older"}
    BY <1>1, <1>4 DEF Calm, Slots, Idle
  <1>6. CASE fetch[k].phase = "list"
    <2> DEFINE c == [fetch[k] EXCEPT !.phase = "listed", !.last = Len(log)]
    <2>1. fetch' = [fetch EXCEPT ![k] = c]
      BY <1>6 DEF Answer
    <2>2. /\ c \in CallRecord /\ c.rows = fetch[k].rows /\ c.phase = "listed"
          /\ c.last = Len(log)
      BY <1>1 DEF CallRecord, Phases
    <2> HIDE DEF c
    <2>3. /\ fetch' \in [Slots -> CallRecord] /\ fetch'[k] = c
          /\ \A j \in Slots \ {k} : fetch'[j] = fetch[j]
      BY <1>1, <2>1, <2>2
    <2>4. Types'
      BY <1>1, <2>3 DEF Types
    <2>5. Tells(Pipe)' /\ Snapshots'
      BY <1>1, <2>2, <2>3, <2>4, CallsLive DEF Slots
    <2>6. Calm'
      <3>1. ~(k \in Recoveries \cup {"retry", "gap"})
        BY <1>5, WebTimelineAssumption
      <3>2. k = "boot" => boot = "loading"
        BY <1>1, <1>4 DEF Calm, Idle
      <3>3. k # "boot" => boot \in {"presence", "ready"}
        BY <1>1, <1>4, <1>5 DEF Calm, Idle
      <3>4. fetch'["boot"].phase \in {"idle", "list", "listed"}
        BY <1>1, <2>2, <2>3 DEF Calm, Slots
      <3>5. \A j \in Recoveries \cup {"retry", "gap"} : fetch'[j] = Idle
        BY <1>1, <2>3, <3>1 DEF Calm, Slots
      <3>6. boot # "loading" => fetch'["boot"] = Idle
        BY <1>1, <2>3, <3>2 DEF Calm, Slots
      <3>7. boot \notin {"presence", "ready"} => fetch'["page"] = Idle /\ fetch'["older"] = Idle
        BY <1>1, <1>5, <2>3, <3>3 DEF Calm, Slots
      <3>8. QED
        BY <1>1, <3>4, <3>5, <3>6, <3>7 DEF Calm
    <2>7. Watermark'
      <3>1. CASE k = "boot"
        <4>1. ASSUME NEW n \in Nat, n = Len(log) PROVE Chain(Pipe, 0, n)
          <5>1. \A j \in DOMAIN Pipe : Pipe[j].seq \in DOMAIN log
            BY DEF Live, Tells
          <5>2. QED
            BY <1>1, <4>1, <5>1 DEF Chain
        <4>2. boot = "loading"
          BY <1>1, <1>4, <3>1 DEF Calm, Idle
        <4>3. QED
          BY <1>1, <1>2, <2>2, <2>3, <3>1, <4>1, <4>2 DEF Watermark, Chain, Creates
      <3>2. CASE k # "boot"
        BY <1>1, <1>2, <2>3, <3>2 DEF Live, Watermark, Chain, Creates, Slots
      <3>3. QED
        BY <3>1, <3>2
    <2>8. QED
      BY <2>4, <2>5, <2>6, <2>7 DEF Live
  <1>7. CASE fetch[k].phase = "asked"
    <2> DEFINE r == [s \in Selected(k) |-> log[s]]
               c == [fetch[k] EXCEPT !.phase = "answered", !.rows = r,
                        !.more = (Cardinality(Selected(k)) = Limit(k))]
    <2>1. k \in {"page", "older"}
      BY <1>1, <1>5, <1>7 DEF Calm
    <2>2. Selected(k) \subseteq DOMAIN log
      <3>1. CASE k = "older"
        <4>1. Selected(k) = Newest({s \in DOMAIN log : s < fetch[k].mark}, PageSize)
          BY <3>1, WebTimelineAssumption DEF Selected
        <4>2. QED
          BY <4>1 DEF Newest
      <3>2. CASE k = "page"
        <4>1. Selected(k) = Newest(DOMAIN log, PageSize)
          BY <3>2, WebTimelineAssumption DEF Selected
        <4>2. QED
          BY <4>1 DEF Newest
      <3>3. QED
        BY <2>1, <3>1, <3>2
    <2>3. r \in Caches /\ DOMAIN r = Selected(k) /\ \A s \in Selected(k) : r[s] = log[s]
      <3>1. r \in [Selected(k) -> Row]
        BY <1>1, <2>2
      <3>2. Selected(k) \in SUBSET Nat
        BY <1>1, <2>2
      <3>3. QED
        BY <3>1, <3>2 DEF Caches
    <2>4. fetch' = [fetch EXCEPT ![k] = c]
      BY <1>7 DEF Answer
    <2> HIDE DEF r
    <2>5. c \in CallRecord /\ c.rows = r /\ c.phase = "answered"
      BY <1>1, <2>3 DEF CallRecord, Phases
    <2> HIDE DEF c
    <2>6. /\ fetch' \in [Slots -> CallRecord] /\ fetch'[k] = c
          /\ \A j \in Slots \ {k} : fetch'[j] = fetch[j]
      BY <1>1, <2>4, <2>5
    <2>7. Types'
      BY <1>1, <2>6 DEF Types
    <2>8. Calm'
      <3>1. ~(k \in Recoveries \cup {"retry", "gap", "boot"})
        BY <2>1, WebTimelineAssumption
      <3>2. boot \in {"presence", "ready"}
        BY <1>1, <1>4, <2>1 DEF Calm, Idle
      <3>3. fetch'["boot"] = fetch["boot"]
        BY <2>6, <3>1 DEF Slots
      <3>4. \A j \in Recoveries \cup {"retry", "gap"} : fetch'[j] = Idle
        BY <1>1, <2>6, <3>1 DEF Calm, Slots
      <3>5. QED
        BY <1>1, <3>2, <3>3, <3>4 DEF Calm
    <2>9. Watermark'
      BY <1>1, <1>2, <2>1, <2>6 DEF Live, Watermark, Chain, Creates, Slots
    <2>10. Snapshots'
      <3>1. Possible(rows)'
        BY <1>1 DEF Live, Snapshots, Possible
      <3>2. ASSUME NEW j \in {"page", "older"} PROVE Possible(fetch[j].rows)'
        <4>1. CASE j = k
          BY <1>1, <2>2, <2>3, <2>5, <2>6, <4>1 DEF Possible
        <4>2. CASE j # k
          BY <1>1, <2>6, <4>2 DEF Live, Snapshots, Possible, Slots
        <4>3. QED
          BY <4>1, <4>2
      <3>3. \A s \in DOMAIN rows' \ overtaken' : Covered(Pipe, 0, rows[s], s)'
        BY <1>1, <1>2 DEF Live, Snapshots, Covered
      <3>4. ASSUME NEW j \in {"page", "older"},
                   NEW s \in DOMAIN fetch'[j].rows \ (DOMAIN rows' \cup overtaken')
            PROVE  Covered(Pipe, 0, fetch[j].rows[s], s)'
        <4>1. CASE j = k
          BY <1>1, <2>3, <2>5, <2>6, <4>1 DEF Covered
        <4>2. CASE j # k
          BY <1>1, <1>2, <2>6, <4>2 DEF Live, Snapshots, Covered, Slots
        <4>3. QED
          BY <4>1, <4>2
      <3>5. QED
        BY <3>1, <3>2, <3>3, <3>4 DEF Snapshots
    <2>11. QED
      BY <1>3, <2>7, <2>8, <2>9, <2>10 DEF Live
  <1>8. QED
    BY <1>6, <1>7 DEF Answer

-----------------------------------------------------------------------------
LEMMA InitLive == Init => LiveInv
  <1> SUFFICES ASSUME Init PROVE LiveInv
    OBVIOUS
  <1> USE WebTimelineAssumption
  <1>1. /\ log = [s \in 1..InitMessages |-> Fresh] /\ InitMessages \in Nat
        /\ outbox = <<>> /\ wire = <<>> /\ buffer = <<>>
        /\ conn = "connecting" /\ boot = "connecting" /\ buffering = TRUE
        /\ rows = <<>> /\ last = 0 /\ more = FALSE /\ open = FALSE /\ loadError = FALSE
        /\ fetch = [k \in Slots |-> Idle] /\ overtaken = {} /\ faults = 0
    BY DEF Init
  <1>2. Types
    <2>1. Fresh \in Row
      BY DEF Fresh, Row
    <2>2. log \in Seq(Row)
      BY <1>1, <2>1, IsASeq
    <2>3. rows \in Caches /\ fetch \in [Slots -> CallRecord]
      BY <1>1, IdleTyped DEF CallRecord
    <2>4. outbox \in Seq(Event) /\ wire \in Seq(Event) /\ buffer \in Seq(Event)
      BY <1>1
    <2>5. QED
      BY <1>1, <2>2, <2>3, <2>4 DEF Types
  <1>3. Calm
    BY <1>1 DEF Calm, Slots, Idle
  <1>4. Tells(Pipe)
    <2>1. DOMAIN Pipe = {}
      BY <1>1, <1>2, PipeParts, LenProperties DEF PipeShape
    <2>2. QED
      BY <2>1 DEF Tells
  <1>5. Watermark
    BY <1>1 DEF Watermark, Idle, Slots
  <1>6. Snapshots
    BY <1>1 DEF Snapshots, Possible, Idle, Slots
  <1>7. QED
    BY <1>1, <1>2, <1>3, <1>4, <1>5, <1>6 DEF Live, LiveInv

LEMMA LiveSame == ASSUME Live, UNCHANGED vars PROVE Live'
  <1>1. UNCHANGED <<log, outbox, wire, conn, boot, buffering, buffer, rows, last, more,
                    open, loadError, fetch, overtaken>>
    BY DEF vars, serverVars, storeVars, pageVars
  <1>2. Pipe' = Pipe
    BY <1>1 DEF Pipe
  <1>3. QED
    BY <1>1, <1>2 DEF Live, Types, Calm, Tells, LastOn, Watermark, Snapshots, Chain,
       Creates, Covered, Possible

(* A step counts a fault or none.                                          *)
LEMMA FaultsCounted ==
    ASSUME faults \in Nat, [Next]_vars
    PROVE  faults' = faults \/ faults' = faults + 1
  <1> USE DEF boundVars, Fault
  <1>1. CASE Server
    BY <1>1 DEF Server, Create, Change, Relay
  <1>2. CASE Connection
    BY <1>2 DEF Connection, Deliver, Connect, ConnectFails, Drop, Reconnecting, Reconnect
  <1>3. CASE Boot
    BY <1>3 DEF Boot, BootListed, BootReady, BootFails
  <1>4. CASE History
    BY <1>4 DEF History, Open, Close, PageLoaded, TryAgain, RetryLoaded, LoadOlder,
       OlderLoaded, HistoryFails
  <1>5. CASE Recovery
    BY <1>5 DEF Recovery, GapFilled, GapFails, RecoveryListed, NothingOpen, Recovered,
       RecoveryFails
  <1>6. CASE \E k \in Slots : Answer(k)
    BY <1>6 DEF Answer
  <1>7. CASE UNCHANGED vars
    BY <1>7 DEF vars
  <1>8. QED
    BY <1>1, <1>2, <1>3, <1>4, <1>5, <1>6, <1>7 DEF Next

LEMMA LiveStep == LiveInv /\ [Next]_vars => LiveInv'
  <1> SUFFICES ASSUME LiveInv, [Next]_vars PROVE LiveInv'
    OBVIOUS
  <1>1. faults \in Nat /\ faults' \in Nat /\ (faults' = 0 => faults = 0)
    BY FaultsCounted DEF LiveInv
  <1>2. SUFFICES ASSUME faults' = 0 PROVE Live'
    BY <1>1 DEF LiveInv
  <1>3. Live /\ faults = 0 /\ Calm
    BY <1>1, <1>2 DEF LiveInv, Live
  <1>4. \A kind : ~Fault(kind)
    BY <1>2, <1>3 DEF Fault
  <1>5. CASE Server
    BY <1>2, <1>3, <1>5, CreateLive, ChangeLive, RelayLive DEF Server
  <1>6. CASE Connection
    BY <1>3, <1>4, <1>6, DeliverLive, ConnectLive
       DEF Connection, ConnectFails, Drop, Reconnecting, Reconnect, Calm
  <1>7. CASE Boot
    BY <1>3, <1>4, <1>7, BootListedLive, BootReadyLive DEF Boot, BootFails
  <1>8. CASE History
    <2>1. ~TryAgain /\ ~RetryLoaded /\ \A k \in Slots : ~HistoryFails(k)
      BY <1>3, <1>4 DEF TryAgain, RetryLoaded, HistoryFails, Calm, Idle
    <2>2. QED
      BY <1>3, <1>8, <2>1, PagesLive, LoadedLive DEF History
  <1>9. CASE Recovery
    <2>1. ~GapFilled /\ ~GapFails
      BY <1>3, <1>4 DEF GapFilled, GapFails, Calm, Idle
    <2>2. ASSUME NEW r \in Recoveries
          PROVE  ~RecoveryListed(r) /\ ~NothingOpen(r) /\ ~Recovered(r) /\ ~RecoveryFails(r)
      BY <1>3, <1>4 DEF RecoveryListed, NothingOpen, Recovered, RecoveryFails, Calm, Idle
    <2>3. QED
      BY <1>9, <2>1, <2>2 DEF Recovery
  <1>10. CASE \E k \in Slots : Answer(k)
    BY <1>3, <1>10, AnswerLive
  <1>11. CASE UNCHANGED vars
    BY <1>3, <1>11, LiveSame
  <1>12. QED
    BY <1>5, <1>6, <1>7, <1>8, <1>9, <1>10, <1>11 DEF Next

(* "history can never erase a live create/edit/delete"                     *)
(* (MessageList.tsx:119-121): without faults every row on the screen is    *)
(* the server's or has an event still to come, except where the change was *)
(* handled before the page with the old row arrived; for conversations,    *)
(* pages and loads of any size.                                            *)
THEOREM HistoryErasesNothing == Spec => []LiveRowsCurrent
  <1>1. LiveInv => LiveRowsCurrent
    <2> SUFFICES ASSUME Live, NEW s \in DOMAIN rows \ overtaken
                 PROVE  \/ rows[s] = log[s]
                        \/ \E e \in ToSet(outbox \o wire \o buffer) : e.seq = s
      BY DEF LiveInv, LiveRowsCurrent
    <2>1. Types /\ PipeShape /\ Covered(Pipe, 0, rows[s], s)
      BY PipeParts DEF Live, Snapshots
    <2>2. ASSUME NEW j \in DOMAIN Pipe, Pipe[j].seq = s
          PROVE  \E e \in ToSet(outbox \o wire \o buffer) : e.seq = s
      <3>1. Pipe[j] \in ToSet(outbox \o wire \o buffer)
        <4> DEFINE all == outbox \o wire \o buffer
                   o == Len(outbox)
                   w == Len(wire)
        <4>1. outbox \in Seq(Event) /\ wire \in Seq(Event) /\ buffer \in Seq(Event)
          BY <2>1 DEF Types
        <4>2. /\ all \in Seq(Event)
              /\ \A i \in DOMAIN outbox : i \in DOMAIN all /\ all[i] = outbox[i]
              /\ \A i \in DOMAIN wire : o + i \in DOMAIN all /\ all[o + i] = wire[i]
              /\ \A i \in DOMAIN buffer : o + w + i \in DOMAIN all /\ all[o + w + i] = buffer[i]
          BY <4>1, LenProperties
        <4>3. \/ \E i \in DOMAIN buffer : Pipe[j] = buffer[i]
              \/ \E i \in DOMAIN wire : Pipe[j] = wire[i]
              \/ \E i \in DOMAIN outbox : Pipe[j] = outbox[i]
          <5>1. /\ j \in 1..Len(Pipe) /\ Len(Pipe) = Len(buffer) + w + o
                /\ Len(buffer) \in Nat /\ w \in Nat /\ o \in Nat
                /\ DOMAIN buffer = 1..Len(buffer) /\ DOMAIN wire = 1..w /\ DOMAIN outbox = 1..o
            BY <2>1, <4>1, LenProperties DEF PipeShape
          <5>2. Pipe[j] = IF j <= Len(buffer) THEN buffer[j]
                          ELSE IF j <= Len(buffer) + w THEN wire[j - Len(buffer)]
                          ELSE outbox[j - Len(buffer) - w]
            BY <2>1, <5>1 DEF PipeShape
          <5> HIDE DEF o, w
          <5>3. CASE j <= Len(buffer)
            BY <5>1, <5>2, <5>3
          <5>4. CASE ~(j <= Len(buffer)) /\ j <= Len(buffer) + w
            <6>1. j - Len(buffer) \in DOMAIN wire
              BY <5>1, <5>4
            <6>2. QED
              BY <5>2, <5>4, <6>1
          <5>5. CASE ~(j <= Len(buffer)) /\ ~(j <= Len(buffer) + w)
            <6>1. j - Len(buffer) - w \in DOMAIN outbox
              BY <5>1, <5>5
            <6>2. QED
              BY <5>2, <5>5, <6>1
          <5>6. QED
            BY <5>3, <5>4, <5>5
        <4> HIDE DEF all
        <4>4. \E i \in DOMAIN all : all[i] = Pipe[j]
          BY <4>2, <4>3
        <4>5. QED
          BY <4>4 DEF ToSet, all
      <3>2. QED
        BY <2>2, <3>1
    <2>3. QED
      BY <2>1, <2>2 DEF Covered
  <1>2. QED
    BY <1>1, InitLive, LiveStep, PTL DEF Spec

-----------------------------------------------------------------------------
(* No hole *)

(* The messages whose creation is still to come, and all that are shown or *)
(* will be; a set of messages without a gap up to the end of the log.      *)
IsCreation(e) == e.type = "message.created"
Handled(q, i) == {q[j].seq : j \in {h \in DOMAIN q : h <= i /\ IsCreation(q[h])}}
Coming(q) == {q[j].seq : j \in {h \in DOMAIN q : IsCreation(q[h])}}
Ordered(q) == \A i, j \in DOMAIN q :
    i < j /\ IsCreation(q[i]) /\ IsCreation(q[j]) => q[i].seq < q[j].seq
Arriving == DOMAIN rows \cup Coming(Pipe)
Upper(S) == \A s \in S, t \in DOMAIN log : t > s => t \in S

(* What has an answer says whether there is more below it.                 *)
Complete(k) ==
    fetch[k].phase = "answered" =>
        \/ fetch[k].more /\ DOMAIN fetch[k].rows # {}
        \/ ~fetch[k].more /\ DOMAIN log \subseteq Arriving \cup DOMAIN fetch[k].rows

(* With Live the inductive invariant of NoSilentHole without faults.       *)
Whole ==
    /\ Ordered(Pipe)
    /\ Upper(Arriving)
    /\ \A k \in {"page", "older"} : Upper(Arriving \cup DOMAIN fetch[k].rows) /\ Complete(k)
    /\ fetch["older"].phase # "idle" => fetch["older"].mark \in DOMAIN rows
    /\ more => DOMAIN rows # {}
    /\ open /\ fetch["page"].phase = "idle" => more \/ DOMAIN log \subseteq Arriving
WholeInv == LiveInv /\ (faults = 0 => Whole)

-----------------------------------------------------------------------------
(* What a query selects from the newest on has no gap ...                  *)
LEMMA NewestUpper ==
    ASSUME NEW n \in Nat, NEW S \in SUBSET (1..n), NEW size \in Nat,
           NEW s \in Newest(S, size), NEW t \in S, t > s
    PROVE  t \in Newest(S, size)
  <1> DEFINE above(x) == {u \in S : u > x}
  <1>1. s \in S /\ Cardinality(above(s)) < size
    BY DEF Newest
  <1>2. above(t) \subseteq above(s) /\ above(s) \subseteq S
    <2>1. S \subseteq Nat
      OBVIOUS
    <2>2. \A u \in S : u > t => u > s
      BY <1>1, <2>1
    <2>3. QED
      BY <2>2
  <1>3. IsFiniteSet(above(s))
    <2>1. S \subseteq 1..n /\ IsFiniteSet(1..n)
      BY FS_Interval
    <2>2. QED
      BY <1>2, <2>1, FS_Subset
  <1>4. /\ Cardinality(above(t)) <= Cardinality(above(s))
        /\ Cardinality(above(t)) \in Nat /\ Cardinality(above(s)) \in Nat
    BY <1>2, <1>3, FS_Subset, FS_CardinalityType
  <1>5. Cardinality(above(t)) < size
    BY <1>1, <1>4
  <1>6. QED
    BY <1>5 DEF Newest

(* ... and is everything, unless there are as many as the page holds.      *)
LEMMA NewestAll ==
    ASSUME NEW n \in Nat, NEW S \in SUBSET (1..n), NEW size \in Nat \ {0},
           Cardinality(Newest(S, size)) # size
    PROVE  Newest(S, size) = S
  <1> DEFINE above(x) == {u \in S : u > x}
             left == S \ Newest(S, size)
  <1>1. SUFFICES ASSUME left # {} PROVE FALSE
    BY DEF Newest
  <1>2. PICK m \in left : \A x \in left : m >= x
    <2>1. left \subseteq Nat /\ \A x \in left : x <= n
      <3>1. S \subseteq Nat /\ \A x \in S : x <= n
        OBVIOUS
      <3>2. QED
        BY <3>1
    <2>2. Max(left) \in left /\ \A x \in left : Max(left) >= x
      BY <1>1, <2>1, MaxOfBounded
    <2>3. QED
      BY <2>2
  <1>3. m \in S /\ ~(Cardinality(above(m)) < size)
    BY DEF Newest
  <1>4. Newest(S, size) = above(m)
    <2>1. ASSUME NEW x \in Newest(S, size) PROVE x > m
      <3>1. x \in S /\ x # m
        BY <1>2 DEF Newest
      <3>2. ~(m > x)
        <4>1. SUFFICES ASSUME m > x PROVE FALSE
          OBVIOUS
        <4>2. m \in Newest(S, size)
          BY <1>3, <2>1, <4>1, NewestUpper
        <4>3. QED
          BY <1>2, <4>2
      <3>3. QED
        BY <1>3, <3>1, <3>2
    <2>2. ASSUME NEW x \in S, x > m PROVE x \in Newest(S, size)
      BY <1>2, <1>3, <2>2
    <2>3. Newest(S, size) \subseteq S
      BY DEF Newest
    <2>4. QED
      BY <2>1, <2>2, <2>3
  <1>5. IsFiniteSet(above(m)) /\ Cardinality(above(m)) \in Nat
    <2>1. S \subseteq 1..n /\ IsFiniteSet(1..n)
      BY FS_Interval
    <2>2. above(m) \subseteq 1..n
      BY <2>1
    <2>3. IsFiniteSet(above(m))
      BY <2>1, <2>2, FS_Subset
    <2>4. QED
      BY <2>3, FS_CardinalityType
  <1>6. Cardinality(above(m)) > size
    BY <1>3, <1>4, <1>5
  <1>7. above(m) # {}
    BY <1>6, FS_EmptySet
  <1>8. PICK x \in above(m) : \A y \in above(m) : x <= y
    <2>1. above(m) \subseteq Nat
      <3>1. S \subseteq Nat
        OBVIOUS
      <3>2. QED
        BY <3>1
    <2>2. QED
      BY <1>7, <2>1, LeastNatural
  <1>9. above(x) = above(m) \ {x}
    <2>1. x \in S /\ x > m
      BY <1>8
    <2>2. ASSUME NEW u \in S PROVE u > x <=> u > m /\ u # x
      <3>1. u > m => x <= u
        BY <1>8
      <3>2. QED
        BY <1>3, <2>1, <3>1
    <2>3. QED
      BY <2>2
  <1>10. Cardinality(above(x)) = Cardinality(above(m)) - 1
    BY <1>5, <1>8, <1>9, FS_RemoveElement
  <1>11. Cardinality(above(x)) < size
    BY <1>4, <1>8 DEF Newest
  <1>12. QED
    BY <1>5, <1>6, <1>10, <1>11

(* One creation after the other is handled: the rows and what is to come.  *)
LEMMA RestComing ==
    ASSUME NEW p \in Seq(Event), NEW q \in Seq(Event), NEW i \in 0..Len(q), Rest(p, q, i)
    PROVE  /\ Coming(q) = Handled(q, i) \cup Coming(p)
           /\ Ordered(q) => Ordered(p)
           /\ Ordered(q) => \A s \in Handled(q, i), t \in Coming(p) : s < t
  <1>1. \A j \in DOMAIN p : i + j \in DOMAIN q /\ i + j > i /\ p[j] = q[i + j]
    BY LenProperties DEF Rest
  <1>2. \A h \in DOMAIN q : h > i => h - i \in DOMAIN p /\ p[h - i] = q[h]
    BY LenProperties DEF Rest
  <1>3. DOMAIN q \subseteq Nat /\ DOMAIN p \subseteq Nat /\ i \in Nat
    BY LenProperties
  <1>4. ASSUME NEW s \in Coming(q) PROVE s \in Handled(q, i) \cup Coming(p)
    <2>1. PICK h \in DOMAIN q : IsCreation(q[h]) /\ s = q[h].seq
      BY DEF Coming
    <2>2. CASE h <= i
      BY <2>1, <2>2 DEF Handled
    <2>3. CASE h > i
      BY <1>2, <2>1, <2>3 DEF Coming
    <2>4. QED
      BY <1>3, <2>2, <2>3
  <1>5. Handled(q, i) \subseteq Coming(q)
    BY DEF Handled, Coming
  <1>6. ASSUME NEW s \in Coming(p) PROVE s \in Coming(q)
    BY <1>1 DEF Coming
  <1>7. ASSUME Ordered(q) PROVE Ordered(p)
    <2>1. ASSUME NEW g \in DOMAIN p, NEW h \in DOMAIN p, g < h,
                 IsCreation(p[g]), IsCreation(p[h])
          PROVE  p[g].seq < p[h].seq
      <3>1. i + g < i + h
        BY <1>3, <2>1
      <3>2. QED
        BY <1>1, <1>7, <2>1, <3>1 DEF Ordered
    <2>2. QED
      BY <2>1 DEF Ordered
  <1>8. ASSUME Ordered(q), NEW s \in Handled(q, i), NEW t \in Coming(p) PROVE s < t
    <2>1. PICK g \in DOMAIN q : g <= i /\ IsCreation(q[g]) /\ s = q[g].seq
      BY DEF Handled
    <2>2. PICK h \in DOMAIN p : IsCreation(p[h]) /\ t = p[h].seq
      BY DEF Coming
    <2>3. i + h \in DOMAIN q /\ g < i + h /\ q[i + h] = p[h]
      BY <1>1, <1>3, <2>1, <2>2
    <2>4. QED
      BY <1>8, <2>1, <2>2, <2>3 DEF Ordered
  <1>9. QED
    BY <1>4, <1>5, <1>6, <1>7, <1>8

LEMMA HandledRows ==
    ASSUME NEW st \in StoreRecord, NEW e
    PROVE  DOMAIN HandleEvent(st, e).rows =
              DOMAIN st.rows \cup (IF IsCreation(e) THEN {e.seq} ELSE {})
  <1>1. CASE IsCreation(e)
    <2>1. HandleEvent(st, e).rows = Upserted([x \in {e.seq} |-> Fresh], st.rows)
      BY <1>1 DEF HandleEvent, Created, IsCreation, StoreRecord
    <2>2. QED
      BY <1>1, <2>1 DEF Upserted
  <1>2. CASE ~IsCreation(e)
    <2>1. HandleEvent(st, e).rows = [s \in DOMAIN st.rows |->
                IF s = e.seq THEN Patch(st.rows[s], e.type) ELSE st.rows[s]]
      BY <1>2 DEF HandleEvent, IsCreation, StoreRecord
    <2>2. QED
      BY <1>2, <2>1
  <1>3. QED
    BY <1>1, <1>2

LEMMA HandledNext ==
    ASSUME NEW q \in Seq(Event), NEW i \in DOMAIN q
    PROVE  Handled(q, i) = Handled(q, i - 1) \cup (IF IsCreation(q[i]) THEN {q[i].seq} ELSE {})
  <1>1. \A h \in DOMAIN q : h <= i <=> h <= i - 1 \/ h = i
    BY LenProperties
  <1>2. QED
    BY <1>1 DEF Handled

LEMMA ReplayedRows ==
    ASSUME Types, NEW q \in Seq(Event), Tells(q), Len(buffer) <= Len(q),
           \A i \in DOMAIN buffer : q[i] = buffer[i],
           NEW st, Good(st, q, 0)
    PROVE  DOMAIN Replayed(st).rows = DOMAIN st.rows \cup Handled(q, Len(buffer))
  <1>0. buffer \in Seq(Event) /\ Len(buffer) \in Nat /\ DOMAIN buffer = 1..Len(buffer)
    BY LenProperties DEF Types
  <1>1. PICK f : Stores(st, f, Len(buffer)) /\ Replayed(st) = f[Len(buffer)]
    BY <1>0, ReplayedStores
  <1> DEFINE Right(i) == /\ Good(f[i], q, i)
                         /\ DOMAIN f[i].rows = DOMAIN st.rows \cup Handled(q, i)
             Bad == {i \in 0..Len(buffer) : ~Right(i)}
  <1>2. SUFFICES ASSUME Bad # {} PROVE FALSE
    BY <1>0, <1>1
  <1>3. PICK i \in Bad : \A m \in Bad : i <= m
    <2>1. Bad \subseteq Nat
      BY <1>0
    <2>2. QED
      BY <1>2, <2>1, LeastNatural
  <1>4. i # 0
    <2>1. SUFFICES ASSUME i = 0 PROVE FALSE
      OBVIOUS
    <2>2. f[0] = st
      BY <1>0, <1>1 DEF Stores
    <2>3. Handled(q, 0) = {}
      BY LenProperties DEF Handled
    <2>4. QED
      BY <1>3, <2>1, <2>2, <2>3
  <1>5. i \in DOMAIN buffer /\ i - 1 \in 0..Len(buffer) /\ i \in DOMAIN q
    BY <1>0, <1>3, <1>4, LenProperties
  <1>6. Right(i - 1)
    BY <1>0, <1>3, <1>4, <1>5
  <1>7. f[i] = HandleEvent(f[i - 1], q[i])
    BY <1>0, <1>1, <1>4, <1>5 DEF Stores
  <1>8. Good(f[i], q, i)
    BY <1>5, <1>6, <1>7, HandleGood
  <1>9. DOMAIN f[i].rows = DOMAIN st.rows \cup Handled(q, i)
    <2>1. f[i - 1] \in StoreRecord
      BY <1>6 DEF Good
    <2>2. QED
      BY <1>5, <1>6, <1>7, <2>1, HandledRows, HandledNext
  <1>10. QED
    BY <1>3, <1>8, <1>9

-----------------------------------------------------------------------------
(* Nothing arrives or is forgotten: the borders of the queue move, or      *)
(* events are handled.                                                     *)
LEMMA WholeStill ==
    ASSUME Whole, DOMAIN log' = DOMAIN log, Ordered(Pipe)', Arriving' = Arriving,
           DOMAIN rows \subseteq DOMAIN rows',
           fetch'["page"] = fetch["page"], fetch'["older"] = fetch["older"],
           UNCHANGED <<more, open>>
    PROVE  Whole'
  <1>1. \A k \in {"page", "older"} : fetch'[k] = fetch[k]
    OBVIOUS
  <1>2. Upper(Arriving)'
    BY DEF Whole, Upper
  <1>3. ASSUME NEW k \in {"page", "older"}
        PROVE  Upper(Arriving \cup DOMAIN fetch[k].rows)' /\ Complete(k)'
    BY <1>1 DEF Whole, Upper, Complete
  <1>4. fetch'["older"].phase # "idle" => fetch'["older"].mark \in DOMAIN rows'
    BY DEF Whole
  <1>5. more' => DOMAIN rows' # {}
    BY DEF Whole
  <1>6. open' /\ fetch'["page"].phase = "idle" => more' \/ DOMAIN log' \subseteq Arriving'
    BY DEF Whole
  <1>7. QED
    BY <1>2, <1>3, <1>4, <1>5, <1>6 DEF Whole

(* The events that are handled become rows.                                *)
LEMMA HandledWhole ==
    ASSUME Live, Whole, NEW i \in 0..Len(Pipe), Pipe' \in Seq(Event), Rest(Pipe', Pipe, i),
           DOMAIN rows' = DOMAIN rows \cup Handled(Pipe, i),
           fetch'["page"] = fetch["page"], fetch'["older"] = fetch["older"],
           UNCHANGED <<log, more, open>>
    PROVE  Whole'
  <1>1. Pipe \in Seq(Event) /\ Ordered(Pipe)
    BY PipeParts DEF Live, PipeShape, Whole
  <1>2. PICK p : p = Pipe'
    OBVIOUS
  <1>3. Coming(Pipe) = Handled(Pipe, i) \cup Coming(p) /\ Ordered(p)
    BY <1>1, <1>2, RestComing
  <1>4. Ordered(Pipe)' /\ Coming(Pipe)' = Coming(p)
    BY <1>2, <1>3 DEF Ordered, Coming
  <1>5. Arriving' = Arriving
    BY <1>3, <1>4 DEF Arriving
  <1>6. QED
    BY <1>4, <1>5, WholeStill

LEMMA PipeSame ==
    ASSUME Whole, Pipe' = Pipe
    PROVE  Ordered(Pipe)' /\ Coming(Pipe)' = Coming(Pipe)
  BY DEF Whole, Ordered, Coming

(* A committed event enters the queue: what it creates is above all.       *)
LEMMA AnnouncedComing ==
    ASSUME Live, Live', Whole, NEW e \in Event, outbox' = Append(outbox, e),
           UNCHANGED <<wire, buffer>>, IsCreation(e) => \A s \in DOMAIN log : s < e.seq
    PROVE  /\ Ordered(Pipe)'
           /\ Coming(Pipe)' = Coming(Pipe) \cup (IF IsCreation(e) THEN {e.seq} ELSE {})
  <1>1. /\ Len(Pipe') = Len(Pipe) + 1 /\ Pipe'[Len(Pipe) + 1] = e
        /\ \A i \in 1..Len(Pipe) : Pipe'[i] = Pipe[i]
        /\ Pipe' \in Seq(Event) /\ Pipe \in Seq(Event)
    BY PipeAppend, PipeParts DEF Live, PipeShape
  <1>2. PICK p : p = Pipe'
    OBVIOUS
  <1>3. PICK n : n = Len(Pipe)
    OBVIOUS
  <1>4. /\ n \in Nat /\ DOMAIN Pipe = 1..n /\ DOMAIN p = 1..(n + 1) /\ p[n + 1] = e
        /\ \A i \in 1..n : p[i] = Pipe[i]
    BY <1>1, <1>2, <1>3, LenProperties
  <1>5. Ordered(p)
    <2>1. ASSUME NEW i \in DOMAIN p, NEW j \in DOMAIN p, i < j,
                 IsCreation(p[i]), IsCreation(p[j])
          PROVE  p[i].seq < p[j].seq
      <3>1. i \in DOMAIN Pipe /\ p[i] = Pipe[i]
        BY <1>4, <2>1
      <3>2. CASE j = n + 1
        <4>1. Pipe[i].seq \in DOMAIN log
          BY <3>1 DEF Live, Tells
        <4>2. QED
          BY <1>4, <2>1, <3>1, <3>2, <4>1
      <3>3. CASE j # n + 1
        <4>1. j \in DOMAIN Pipe /\ p[j] = Pipe[j]
          BY <1>4, <3>3
        <4>2. QED
          BY <2>1, <3>1, <4>1 DEF Whole, Ordered
      <3>4. QED
        BY <3>2, <3>3
    <2>2. QED
      BY <2>1 DEF Ordered
  <1>6. Coming(p) = Coming(Pipe) \cup (IF IsCreation(e) THEN {e.seq} ELSE {})
    <2>1. ASSUME NEW s \in Coming(p)
          PROVE  s \in Coming(Pipe) \/ (IsCreation(e) /\ s = e.seq)
      <3>1. PICK j \in DOMAIN p : IsCreation(p[j]) /\ s = p[j].seq
        BY DEF Coming
      <3>2. CASE j = n + 1
        BY <1>4, <3>1, <3>2
      <3>3. CASE j # n + 1
        <4>1. j \in DOMAIN Pipe /\ p[j] = Pipe[j]
          BY <1>4, <3>3
        <4>2. QED
          BY <3>1, <4>1 DEF Coming
      <3>4. QED
        BY <3>2, <3>3
    <2>2. ASSUME NEW s \in Coming(Pipe) PROVE s \in Coming(p)
      <3>1. PICK j \in DOMAIN Pipe : IsCreation(Pipe[j]) /\ s = Pipe[j].seq
        BY DEF Coming
      <3>2. j \in DOMAIN p /\ p[j] = Pipe[j]
        BY <1>4
      <3>3. QED
        BY <3>1, <3>2 DEF Coming
    <2>3. IsCreation(e) => e.seq \in Coming(p)
      <3>1. n + 1 \in DOMAIN p
        BY <1>4
      <3>2. QED
        BY <1>4, <3>1 DEF Coming
    <2>4. QED
      BY <2>1, <2>2, <2>3
  <1>7. QED
    BY <1>2, <1>5, <1>6 DEF Ordered, Coming

LEMMA CreateWhole ==
    ASSUME Live, Live', Whole, Create PROVE Whole'
  <1> DEFINE e == [type |-> "message.created", seq |-> Len(log) + 1]
  <1>1. /\ log \in Seq(Row) /\ Len(log) \in Nat /\ DOMAIN log = 1..Len(log)
        /\ log' = Append(log, Fresh) /\ Fresh \in Row
        /\ outbox' = Append(outbox, e)
        /\ UNCHANGED <<wire, buffer, rows, more, open, fetch>>
    BY LenProperties DEF Live, Types, Create, clientVars, storeVars, pageVars, Fresh, Row
  <1>2. DOMAIN log' = DOMAIN log \cup {Len(log) + 1}
    <2>1. DOMAIN log' = 1..(Len(log) + 1)
      BY <1>1, AppendProperties, LenProperties
    <2>2. QED
      BY <1>1, <2>1
  <1>3. /\ e \in Event /\ IsCreation(e) /\ e.seq = Len(log) + 1
        /\ \A s \in DOMAIN log : s < e.seq
    BY <1>1 DEF Event, IsCreation
  <1> HIDE DEF e
  <1>4. Ordered(Pipe)' /\ Coming(Pipe)' = Coming(Pipe) \cup {Len(log) + 1}
    BY <1>1, <1>3, AnnouncedComing
  <1>5. Arriving' = Arriving \cup {Len(log) + 1}
    BY <1>1, <1>4 DEF Arriving
  <1>6. ASSUME NEW S, Upper(S \cup Arriving)
        PROVE  \A s \in S \cup Arriving', t \in DOMAIN log' : t > s => t \in S \cup Arriving'
    <2>1. ASSUME NEW s \in S \cup Arriving', NEW t \in DOMAIN log', t > s
          PROVE  t \in S \cup Arriving'
      <3>1. CASE t = Len(log) + 1
        BY <1>5, <3>1
      <3>2. CASE t # Len(log) + 1
        <4>1. t \in DOMAIN log /\ s # Len(log) + 1
          BY <1>1, <1>2, <2>1, <3>2
        <4>2. QED
          BY <1>5, <1>6, <2>1, <4>1 DEF Upper
      <3>3. QED
        BY <3>1, <3>2
    <2>2. QED
      BY <2>1
  <1>7. Upper(Arriving)'
    <2>1. PICK S : S = {}
      OBVIOUS
    <2>2. Upper(S \cup Arriving)
      BY <2>1 DEF Whole, Upper
    <2>3. \A s \in S \cup Arriving', t \in DOMAIN log' : t > s => t \in S \cup Arriving'
      BY <1>6, <2>2
    <2>4. QED
      BY <2>1, <2>3 DEF Upper
  <1>8. ASSUME NEW k \in {"page", "older"}
        PROVE  Upper(Arriving \cup DOMAIN fetch[k].rows)' /\ Complete(k)'
    <2>1. PICK S : S = DOMAIN fetch[k].rows
      OBVIOUS
    <2>2. Upper(S \cup Arriving)
      BY <2>1 DEF Whole, Upper
    <2>3. \A s \in S \cup Arriving', t \in DOMAIN log' : t > s => t \in S \cup Arriving'
      BY <1>6, <2>2
    <2>4. Upper(Arriving \cup DOMAIN fetch[k].rows)'
      BY <1>1, <2>1, <2>3 DEF Upper
    <2>5. Complete(k)'
      BY <1>1, <1>2, <1>5 DEF Whole, Complete
    <2>6. QED
      BY <2>4, <2>5
  <1>9. open' /\ fetch'["page"].phase = "idle" => more' \/ DOMAIN log' \subseteq Arriving'
    BY <1>1, <1>2, <1>5 DEF Whole
  <1>10. QED
    BY <1>1, <1>4, <1>7, <1>8, <1>9 DEF Whole

LEMMA ChangeWhole ==
    ASSUME Live, Live', Whole, NEW s \in DOMAIN log, NEW type \in ChangeTypes, Change(s, type)
    PROVE  Whole'
  <1> DEFINE e == [type |-> type, seq |-> s]
  <1>1. /\ log \in Seq(Row) /\ DOMAIN log = 1..Len(log)
        /\ DOMAIN log' = DOMAIN log /\ outbox' = Append(outbox, e)
        /\ UNCHANGED <<wire, buffer, rows, more, open, fetch>>
    BY LenProperties DEF Live, Types, Change, clientVars, storeVars, pageVars
  <1>2. e \in Event /\ ~IsCreation(e)
    BY <1>1, LenProperties DEF Event, IsCreation, ChangeTypes
  <1> HIDE DEF e
  <1>3. Ordered(Pipe)' /\ Coming(Pipe)' = Coming(Pipe)
    BY <1>1, <1>2, AnnouncedComing
  <1>4. Arriving' = Arriving
    BY <1>1, <1>3 DEF Arriving
  <1>5. QED
    BY <1>1, <1>3, <1>4, WholeStill

LEMMA RelayWhole ==
    ASSUME Live, Whole, NEW i \in DOMAIN outbox, NEW marked \in BOOLEAN, Relay(i, marked),
           faults = 0, faults' = 0
    PROVE  Whole'
  <1>1. /\ Types /\ outbox \in Seq(Event) /\ wire \in Seq(Event) /\ buffer \in Seq(Event)
        /\ outbox # <<>> /\ Calm
    BY DEF Live, Types
  <1>2. /\ i = 1 /\ marked
        /\ UNCHANGED <<log, conn, boot, buffer, rows, more, open, fetch>>
    BY DEF Relay, Fault, storeVars, pageVars
  <1>3. outbox' = Tail(outbox)
    <2>1. outbox' = SubSeq(outbox, 1, 0) \o SubSeq(outbox, 2, Len(outbox))
      BY <1>2 DEF Relay, RemoveAt
    <2>2. QED
      BY <1>1, <2>1
  <1>4. wire' = IF conn = "connected" THEN Append(wire, Head(outbox)) ELSE wire
    BY <1>2 DEF Relay
  <1>5. CASE conn = "connected"
    <2>1. wire' \o outbox' = wire \o outbox
      BY <1>1, <1>3, <1>4, <1>5, MoveHead
    <2>2. Pipe' = Pipe
      BY <1>2, <2>1 DEF Pipe
    <2>3. Ordered(Pipe)' /\ Arriving' = Arriving
      BY <1>2, <2>2, PipeSame DEF Arriving
    <2>4. QED
      BY <1>2, <2>3, WholeStill
  <1>6. CASE conn = "connecting"
    <2>1. /\ buffer = <<>> /\ wire = <<>> /\ wire' = wire /\ ~open
          /\ rows = <<>> /\ fetch["page"] = Idle /\ fetch["older"] = Idle
      BY <1>1, <1>4, <1>6 DEF Calm
    <2>2. Pipe = outbox /\ Pipe' = Tail(outbox)
      BY <1>1, <1>2, <1>3, <2>1, ConcatEmptySeq DEF Pipe
    <2>3. Rest(Pipe', Pipe, 1) /\ 1 \in 0..Len(Pipe) /\ Pipe \in Seq(Event) /\ Pipe' \in Seq(Event)
      BY <1>1, <2>2, TailRest
    <2>4. PICK p : p = Pipe'
      OBVIOUS
    <2>5. /\ Coming(Pipe) = Handled(Pipe, 1) \cup Coming(p) /\ Ordered(p)
          /\ \A s \in Handled(Pipe, 1), t \in Coming(p) : s < t
      BY <2>3, <2>4, RestComing DEF Whole
    <2>6. Ordered(Pipe)' /\ Coming(Pipe)' = Coming(p)
      BY <2>4, <2>5 DEF Ordered, Coming
    <2>7. DOMAIN rows = {} /\ DOMAIN rows' = {}
      BY <1>2, <2>1
    <2>8. Arriving = Coming(Pipe) /\ Arriving' = Coming(p)
      BY <2>6, <2>7 DEF Arriving
    <2>9. Upper(Arriving)'
      <3>1. ASSUME NEW s \in Coming(p), NEW t \in DOMAIN log, t > s PROVE t \in Coming(p)
        <4>1. t \in Coming(Pipe)
          BY <2>5, <2>8, <3>1 DEF Whole, Upper
        <4>2. s \in DOMAIN log
          <5>1. s \in Coming(Pipe)
            BY <2>5
          <5>2. QED
            BY <5>1 DEF Coming, Live, Tells
        <4>3. t \notin Handled(Pipe, 1)
          <5>1. ASSUME t \in Handled(Pipe, 1) PROVE FALSE
            <6>1. t < s
              BY <2>5, <5>1
            <6>2. s \in Nat /\ t \in Nat
              BY <4>2, LenProperties DEF Live, Types
            <6>3. QED
              BY <3>1, <6>1, <6>2
          <5>2. QED
            BY <5>1
        <4>4. QED
          BY <2>5, <4>1, <4>3
      <3>2. QED
        BY <1>2, <2>8, <3>1 DEF Upper
    <2>10. ASSUME NEW k \in {"page", "older"}
           PROVE  Upper(Arriving \cup DOMAIN fetch[k].rows)' /\ Complete(k)'
      <3>1. fetch'[k] = Idle /\ DOMAIN fetch'[k].rows = {} /\ fetch'[k].phase = "idle"
        <4>1. fetch'[k] = Idle
          BY <1>2, <2>1
        <4>2. Idle.phase = "idle"
          BY DEF Idle
        <4>3. QED
          BY <4>1, <4>2, IdleTyped
      <3>2. Upper(Arriving \cup DOMAIN fetch[k].rows)'
        BY <2>9, <3>1 DEF Upper
      <3>3. Complete(k)'
        BY <3>1 DEF Complete
      <3>4. QED
        BY <3>2, <3>3
    <2>11. QED
      BY <1>2, <2>1, <2>6, <2>9, <2>10 DEF Whole, Idle
  <1>7. QED
    BY <1>1, <1>5, <1>6 DEF Calm

LEMMA DeliverWhole ==
    ASSUME Live, Whole, Deliver PROVE Whole'
  <1>1. /\ Types /\ Calm /\ buffer \in Seq(Event) /\ wire \in Seq(Event)
        /\ outbox \in Seq(Event) /\ wire # <<>> /\ wire' = Tail(wire)
        /\ UNCHANGED <<log, outbox, more, open>>
    BY DEF Live, Types, Deliver, serverVars, pageVars
  <1>2. wire' \in Seq(Event)
    BY <1>1, HeadTailProperties
  <1>3. CASE buffering
    <2>1. buffer' = Append(buffer, Head(wire)) /\ UNCHANGED <<rows, fetch>>
      BY <1>3 DEF Deliver
    <2>2. Pipe' = Pipe
      <3>1. /\ wire \o outbox \in Seq(Event) /\ wire \o outbox # <<>>
            /\ Head(wire \o outbox) = Head(wire)
            /\ Tail(wire \o outbox) = wire' \o outbox'
        BY <1>1, TailConcat
      <3>2. Append(buffer, Head(wire \o outbox)) \o Tail(wire \o outbox)
               = buffer \o (wire \o outbox)
        BY <1>1, <3>1, MoveHead
      <3>3. QED
        BY <2>1, <3>1, <3>2 DEF Pipe
    <2>3. Ordered(Pipe)' /\ Arriving' = Arriving
      BY <2>1, <2>2, PipeSame DEF Arriving
    <2>4. QED
      BY <1>1, <2>1, <2>3, WholeStill
  <1>4. CASE ~buffering
    <2> DEFINE old == Store(rows, last, fetch["gap"])
               st == HandleEvent(old, Head(wire))
    <2>1. /\ rows' = st.rows /\ fetch' = [fetch EXCEPT !["gap"] = st.gap] /\ UNCHANGED buffer
      BY <1>4 DEF Deliver, Install
    <2>2. boot = "ready" /\ buffer = <<>>
      BY <1>1, <1>4 DEF Calm
    <2>3. Pipe = wire \o outbox /\ Pipe' = wire' \o outbox'
      <3>1. wire \o outbox \in Seq(Event) /\ wire' \o outbox' \in Seq(Event)
        BY <1>1, <1>2, ConcatProperties
      <3>2. QED
        BY <2>1, <2>2, <3>1, ConcatEmptySeq DEF Pipe
    <2>4. /\ Pipe \in Seq(Event) /\ Pipe # <<>> /\ Head(Pipe) = Head(wire)
          /\ Pipe' = Tail(Pipe)
      BY <1>1, <2>3, TailConcat
    <2>5. /\ Rest(Pipe', Pipe, 1) /\ 1 \in 0..Len(Pipe) /\ 1 \in DOMAIN Pipe
          /\ Pipe' \in Seq(Event) /\ Pipe[1] = Head(wire)
      BY <2>4, TailRest
    <2>6. old \in StoreRecord /\ old.rows = rows
      BY <2>2, StoreGood DEF Good, Store
    <2>7. DOMAIN st.rows = DOMAIN rows \cup (IF IsCreation(Pipe[1]) THEN {Pipe[1].seq} ELSE {})
      BY <2>5, <2>6, HandledRows
    <2>8. fetch'["page"] = fetch["page"] /\ fetch'["older"] = fetch["older"]
      BY <1>1, <2>1 DEF Types, Slots
    <2>9. Handled(Pipe, 1) = IF IsCreation(Pipe[1]) THEN {Pipe[1].seq} ELSE {}
      <3>1. Handled(Pipe, 0) = {}
        BY <2>4, LenProperties DEF Handled
      <3>2. Handled(Pipe, 1) = Handled(Pipe, 1 - 1) \cup
                                  (IF IsCreation(Pipe[1]) THEN {Pipe[1].seq} ELSE {})
        BY <2>4, <2>5, HandledNext
      <3>3. QED
        BY <3>1, <3>2
    <2> HIDE DEF st, old
    <2>10. QED
      BY <1>1, <2>1, <2>5, <2>7, <2>8, <2>9, HandledWhole
  <1>5. QED
    BY <1>3, <1>4

LEMMA BootReadyWhole ==
    ASSUME Live, Whole, BootReady PROVE Whole'
  <1> DEFINE old == Store(rows, last, fetch["gap"])
             st == Replayed(old)
  <1>1. /\ Types /\ buffer \in Seq(Event) /\ wire \in Seq(Event)
        /\ outbox \in Seq(Event) /\ boot = "presence"
        /\ UNCHANGED <<log, outbox, wire, more, open>> /\ buffer' = <<>>
        /\ rows' = st.rows /\ fetch' = [fetch EXCEPT !["gap"] = st.gap]
    BY DEF Live, Types, BootReady, Replay, Install, serverVars, pageVars
  <1>2. Pipe \in Seq(Event) /\ Pipe' = wire \o outbox /\ wire \o outbox \in Seq(Event)
    <2>1. wire \o outbox \in Seq(Event)
      BY <1>1, ConcatProperties
    <2>2. Pipe' = wire \o outbox
      BY <1>1, <2>1, ConcatEmptySeq DEF Pipe
    <2>3. QED
      BY <1>1, <2>1, <2>2, PipeParts DEF PipeShape
  <1>3. /\ Rest(Pipe', Pipe, Len(buffer)) /\ Len(buffer) \in 0..Len(Pipe)
        /\ \A i \in DOMAIN buffer : Pipe[i] = buffer[i]
    BY <1>1, <1>2, ConcatRest DEF Pipe
  <1>4. Good(old, Pipe, 0) /\ old.rows = rows
    BY <1>1, StoreGood DEF Store
  <1>5. fetch'["page"] = fetch["page"] /\ fetch'["older"] = fetch["older"]
    BY <1>1 DEF Types, Slots
  <1>6. DOMAIN st.rows = DOMAIN rows \cup Handled(Pipe, Len(buffer))
    <2>1. Len(buffer) <= Len(Pipe) /\ Tells(Pipe)
      BY <1>3 DEF Live
    <2> HIDE DEF old
    <2>2. QED
      BY <1>1, <1>2, <1>3, <1>4, <2>1, ReplayedRows
  <1> HIDE DEF st
  <1>7. QED
    BY <1>1, <1>2, <1>3, <1>5, <1>6, HandledWhole

(* Connect and BootListed: only the bootstrap's call is touched.           *)
LEMMA BootWhole ==
    ASSUME Live, Whole, Connect \/ BootListed PROVE Whole'
  <1>1. UNCHANGED <<log, outbox, wire, buffer, rows, more, open>>
    BY DEF Connect, BootListed, serverVars, storeVars, pageVars
  <1>2. fetch'["page"] = fetch["page"] /\ fetch'["older"] = fetch["older"]
    BY DEF Connect, BootListed, Live, Types, Slots
  <1>3. Pipe' = Pipe
    BY <1>1 DEF Pipe
  <1>4. Ordered(Pipe)' /\ Arriving' = Arriving
    BY <1>1, <1>3, PipeSame DEF Arriving
  <1>5. QED
    BY <1>1, <1>2, <1>4, WholeStill

(* The part of the invariant about calls, when one of them starts anew.    *)
LEMMA CallWhole ==
    ASSUME Live, Whole, UNCHANGED <<log, outbox, wire, buffer, rows, more>>,
           NEW k \in {"page", "older"}, NEW c, DOMAIN c.rows = {}, c.phase # "answered",
           fetch' = [fetch EXCEPT ![k] = c],
           k = "older" /\ c.phase # "idle" => c.mark \in DOMAIN rows,
           k = "page" => ~open' \/ c.phase # "idle", k = "older" => open' = open
    PROVE  Whole'
  <1>1. fetch'[k] = c /\ \A j \in {"page", "older"} \ {k} : fetch'[j] = fetch[j]
    BY DEF Live, Types, Slots
  <1>2. Pipe' = Pipe
    BY DEF Pipe
  <1>3. Ordered(Pipe)' /\ Arriving' = Arriving
    BY <1>2, PipeSame DEF Arriving
  <1>4. Upper(Arriving)'
    BY <1>3 DEF Whole, Upper
  <1>5. ASSUME NEW j \in {"page", "older"}
        PROVE  Upper(Arriving \cup DOMAIN fetch[j].rows)' /\ Complete(j)'
    <2>1. CASE j = k
      BY <1>1, <1>4, <2>1 DEF Upper, Complete
    <2>2. CASE j # k
      BY <1>1, <1>3, <2>2 DEF Whole, Upper, Complete
    <2>3. QED
      BY <2>1, <2>2
  <1>6. fetch'["older"].phase # "idle" => fetch'["older"].mark \in DOMAIN rows'
    BY <1>1 DEF Whole
  <1>7. open' /\ fetch'["page"].phase = "idle" => more' \/ DOMAIN log' \subseteq Arriving'
    BY <1>1, <1>3 DEF Whole
  <1>8. QED
    BY <1>3, <1>4, <1>5, <1>6, <1>7 DEF Whole

LEMMA PagesWhole ==
    ASSUME Live, Whole, Open \/ Close \/ LoadOlder PROVE Whole'
  <1>1. UNCHANGED <<log, outbox, wire, buffer, rows, more>>
    BY DEF Open, Close, LoadOlder, serverVars, storeVars
  <1>2. ASSUME NEW n \in Nat PROVE Ask(n).phase = "asked" /\ Ask(n).mark = n
    BY DEF Ask, Idle
  <1>3. CASE Open
    <2>1. DOMAIN Ask(0).rows = {} /\ Ask(0).phase = "asked"
      BY <1>2, AskTyped
    <2>2. fetch' = [fetch EXCEPT !["page"] = Ask(0)]
      BY <1>3 DEF Open
    <2>3. PICK c : c = Ask(0)
      OBVIOUS
    <2>4. /\ DOMAIN c.rows = {} /\ c.phase # "answered" /\ c.phase # "idle"
          /\ fetch' = [fetch EXCEPT !["page"] = c]
      BY <2>1, <2>2, <2>3
    <2>5. QED
      BY <1>1, <2>4, CallWhole
  <1>4. CASE Close
    <2>1. DOMAIN Idle.rows = {} /\ Idle.phase = "idle"
      BY IdleTyped DEF Idle
    <2>2. fetch' = [fetch EXCEPT !["page"] = Idle] /\ ~open'
      BY <1>4 DEF Close
    <2>3. QED
      BY <1>1, <2>1, <2>2, CallWhole
  <1>5. CASE LoadOlder
    <2> DEFINE m == Min(DOMAIN rows)
    <2>1. /\ rows \in Caches /\ rows # <<>> /\ open /\ open' = open
          /\ fetch' = [fetch EXCEPT !["older"] = Ask(m)]
      BY <1>5 DEF LoadOlder, Live, Types, pageVars
    <2>2. DOMAIN rows \subseteq Nat /\ DOMAIN rows # {}
      BY <2>1, CachesDef
    <2>3. m \in DOMAIN rows /\ m \in Nat
      BY <2>2, MinOfNaturals
    <2> HIDE DEF m
    <2>4. DOMAIN Ask(m).rows = {} /\ Ask(m).phase = "asked" /\ Ask(m).mark = m
      BY <1>2, <2>3, AskTyped
    <2>5. QED
      BY <1>1, <2>1, <2>3, <2>4, CallWhole
  <1>6. QED
    BY <1>3, <1>4, <1>5

(* PageLoaded and OlderLoaded: what the answer has joins what is shown.    *)
LEMMA LoadedWhole ==
    ASSUME Live, Whole, PageLoaded \/ OlderLoaded PROVE Whole'
  <1>1. PICK k \in {"page", "older"} :
           /\ fetch[k].phase = "answered"
           /\ rows' = Merged(fetch[k].rows, rows) /\ more' = fetch[k].more
           /\ fetch' = [fetch EXCEPT ![k] = Idle]
           /\ UNCHANGED <<log, outbox, wire, buffer, open>>
    BY DEF PageLoaded, OlderLoaded, serverVars, pageVars
  <1>2. fetch'[k] = Idle /\ \A j \in {"page", "older"} \ {k} : fetch'[j] = fetch[j]
    BY <1>1 DEF Live, Types, Slots
  <1>3. Idle.phase = "idle" /\ DOMAIN Idle.rows = {}
    BY IdleTyped DEF Idle
  <1>4. DOMAIN rows' = DOMAIN rows \cup DOMAIN fetch[k].rows
    BY <1>1 DEF Merged, Upserted
  <1>5. Pipe' = Pipe
    BY <1>1 DEF Pipe
  <1>6. Ordered(Pipe)' /\ Arriving' = Arriving \cup DOMAIN fetch[k].rows
    BY <1>4, <1>5, PipeSame DEF Arriving
  <1>7. Upper(Arriving)'
    BY <1>1, <1>6 DEF Whole, Upper
  <1>8. ASSUME NEW j \in {"page", "older"}
        PROVE  Upper(Arriving \cup DOMAIN fetch[j].rows)' /\ Complete(j)'
    <2>1. CASE j = k
      BY <1>2, <1>3, <1>7, <2>1 DEF Upper, Complete
    <2>2. CASE j # k
      <3>1. fetch'[j] = fetch[j]
        BY <1>2, <2>2
      <3>2. Upper(Arriving \cup DOMAIN fetch[j].rows) /\ Upper(Arriving \cup DOMAIN fetch[k].rows)
        BY DEF Whole
      <3>3. Upper(Arriving \cup DOMAIN fetch[j].rows)'
        BY <1>1, <1>6, <3>1, <3>2 DEF Upper
      <3>4. Complete(j)'
        BY <1>1, <1>6, <3>1 DEF Whole, Complete
      <3>5. QED
        BY <3>3, <3>4
    <2>3. QED
      BY <2>1, <2>2
  <1>9. fetch'["older"].phase # "idle" => fetch'["older"].mark \in DOMAIN rows'
    BY <1>2, <1>3, <1>4 DEF Whole
  <1>10. more' => DOMAIN rows' # {}
    BY <1>1, <1>4 DEF Whole, Complete
  <1>11. open' /\ fetch'["page"].phase = "idle" => more' \/ DOMAIN log' \subseteq Arriving'
    BY <1>1, <1>6 DEF Whole, Complete
  <1>12. QED
    BY <1>6, <1>7, <1>8, <1>9, <1>10, <1>11 DEF Whole

(* The answer to a page is the newest messages, or the newest below one    *)
(* that is shown, and full or all of them.                                 *)
LEMMA SelectedWhole ==
    ASSUME Live, Whole, NEW k \in {"page", "older"}, fetch[k].phase = "asked"
    PROVE  /\ Upper(Arriving \cup Selected(k))
           /\ \/ Cardinality(Selected(k)) = Limit(k) /\ Selected(k) # {}
              \/ /\ Cardinality(Selected(k)) # Limit(k)
                 /\ DOMAIN log \subseteq Arriving \cup Selected(k)
  <1>1. /\ log \in Seq(Row) /\ Len(log) \in Nat /\ DOMAIN log = 1..Len(log)
        /\ Types /\ k \in Slots /\ fetch[k] \in CallRecord /\ Upper(Arriving)
    BY LenProperties DEF Live, Types, Slots, Whole
  <1> DEFINE S == IF k = "older" THEN {s \in DOMAIN log : s < fetch[k].mark} ELSE DOMAIN log
  <1>2. /\ S \in SUBSET (1..Len(log)) /\ PageSize \in Nat \ {0}
        /\ Selected(k) = Newest(S, PageSize) /\ Limit(k) = PageSize
    BY <1>1, WebTimelineAssumption DEF Selected, Limit
  <1>3. k = "older" => fetch[k].mark \in Arriving
    BY DEF Whole, Arriving
  <1>4. DOMAIN log \ S \subseteq Arriving
    <2>1. ASSUME NEW t \in DOMAIN log, t \notin S PROVE t \in Arriving
      <3>1. k = "older" /\ ~(t < fetch[k].mark) /\ fetch[k].mark \in Nat /\ t \in Nat
        BY <1>1, <2>1 DEF CallRecord
      <3>2. t > fetch[k].mark \/ t = fetch[k].mark
        BY <3>1
      <3>3. QED
        BY <1>1, <1>3, <3>1, <3>2 DEF Upper
    <2>2. QED
      BY <2>1
  <1> HIDE DEF S
  <1>5. Upper(Arriving \cup Selected(k))
    <2>1. ASSUME NEW s \in Selected(k), NEW t \in DOMAIN log, t > s
          PROVE  t \in Arriving \cup Selected(k)
      <3>1. CASE t \in S
        BY <1>1, <1>2, <2>1, <3>1, NewestUpper
      <3>2. CASE t \notin S
        BY <1>4, <3>2
      <3>3. QED
        BY <3>1, <3>2
    <2>2. QED
      BY <1>1, <2>1 DEF Upper
  <1>6. Cardinality(Selected(k)) = Limit(k) => Selected(k) # {}
    BY <1>2, FS_EmptySet
  <1>7. Cardinality(Selected(k)) # Limit(k) => Selected(k) = S
    BY <1>1, <1>2, NewestAll
  <1>8. QED
    BY <1>4, <1>5, <1>6, <1>7

LEMMA AnswerWhole ==
    ASSUME Live, Whole, NEW k \in Slots, Answer(k) PROVE Whole'
  <1>1. /\ Types /\ Calm /\ fetch \in [Slots -> CallRecord] /\ fetch[k] \in CallRecord
        /\ UNCHANGED <<log, outbox, wire, buffer, rows, more, open>>
    BY DEF Live, Types, Answer, serverVars, storeVars, pageVars
  <1>2. Pipe' = Pipe
    BY <1>1 DEF Pipe
  <1>3. Ordered(Pipe)' /\ Arriving' = Arriving
    BY <1>1, <1>2, PipeSame DEF Arriving
  <1>4. Upper(Arriving)'
    BY <1>1, <1>3 DEF Whole, Upper
  <1>5. fetch[k].phase # "idle"
    BY DEF Answer
  <1>6. PICK c : /\ fetch' = [fetch EXCEPT ![k] = c] /\ c.phase \in {"listed", "answered"}
                 /\ c.mark = fetch[k].mark
                 /\ \/ c.phase = "listed" /\ c.rows = fetch[k].rows
                    \/ /\ fetch[k].phase = "asked" /\ DOMAIN c.rows = Selected(k)
                       /\ c.more = (Cardinality(Selected(k)) = Limit(k))
    <2>1. CASE fetch[k].phase = "list"
      <3> DEFINE d == [fetch[k] EXCEPT !.phase = "listed", !.last = Len(log)]
      <3>1. fetch' = [fetch EXCEPT ![k] = d]
        BY <2>1 DEF Answer
      <3>2. d.phase = "listed" /\ d.rows = fetch[k].rows /\ d.mark = fetch[k].mark
        BY <1>1 DEF CallRecord
      <3> HIDE DEF d
      <3>3. QED
        BY <3>1, <3>2
    <2>2. CASE fetch[k].phase = "asked"
      <3> DEFINE r == [s \in Selected(k) |-> log[s]]
                 b == (Cardinality(Selected(k)) = Limit(k))
                 d == [fetch[k] EXCEPT !.phase = "answered", !.rows = r, !.more = b]
      <3>1. fetch' = [fetch EXCEPT ![k] = d]
        BY <2>2 DEF Answer
      <3>2. DOMAIN r = Selected(k)
        OBVIOUS
      <3> HIDE DEF r, b
      <3>3. d.phase = "answered" /\ d.rows = r /\ d.mark = fetch[k].mark /\ d.more = b
        BY <1>1 DEF CallRecord
      <3> HIDE DEF d
      <3>4. QED
        BY <2>2, <3>1, <3>2, <3>3 DEF b
    <2>3. QED
      BY <2>1, <2>2 DEF Answer
  <1>7. fetch'[k] = c /\ \A j \in Slots \ {k} : fetch'[j] = fetch[j]
    BY <1>1, <1>6
  <1>8. {"page", "older"} \subseteq Slots
    BY DEF Slots
  <1>9. ASSUME NEW j \in {"page", "older"}
        PROVE  Upper(Arriving \cup DOMAIN fetch[j].rows)' /\ Complete(j)'
    <2>1. CASE j # k
      BY <1>1, <1>3, <1>7, <1>8, <2>1 DEF Whole, Upper, Complete
    <2>2. CASE j = k /\ c.phase = "listed" /\ c.rows = fetch[k].rows
      BY <1>1, <1>3, <1>7, <2>2 DEF Whole, Upper, Complete
    <2>3. CASE /\ j = k /\ fetch[k].phase = "asked" /\ DOMAIN c.rows = Selected(k)
               /\ c.more = (Cardinality(Selected(k)) = Limit(k))
      <3>1. /\ Upper(Arriving \cup Selected(k))
            /\ \/ Cardinality(Selected(k)) = Limit(k) /\ Selected(k) # {}
               \/ /\ Cardinality(Selected(k)) # Limit(k)
                  /\ DOMAIN log \subseteq Arriving \cup Selected(k)
        BY <2>3, SelectedWhole
      <3>2. \/ c.more /\ DOMAIN c.rows # {}
            \/ ~c.more /\ DOMAIN log \subseteq Arriving \cup DOMAIN c.rows
        BY <2>3, <3>1
      <3>3. Complete(j)'
        BY <1>1, <1>3, <1>7, <2>3, <3>2 DEF Complete
      <3>4. Upper(Arriving \cup DOMAIN fetch[j].rows)'
        BY <1>1, <1>3, <1>7, <2>3, <3>1 DEF Upper
      <3>5. QED
        BY <3>3, <3>4
    <2>4. QED
      BY <1>6, <2>1, <2>2, <2>3
  <1>10. fetch'["older"].phase # "idle" => fetch'["older"].mark \in DOMAIN rows'
    BY <1>1, <1>5, <1>6, <1>7, <1>8 DEF Whole
  <1>11. open' /\ fetch'["page"].phase = "idle" => more' \/ DOMAIN log' \subseteq Arriving'
    BY <1>1, <1>3, <1>6, <1>7, <1>8 DEF Whole
  <1>12. QED
    BY <1>1, <1>3, <1>4, <1>9, <1>10, <1>11 DEF Whole

-----------------------------------------------------------------------------
LEMMA InitWhole == Init => WholeInv
  <1> SUFFICES ASSUME Init PROVE WholeInv
    OBVIOUS
  <1>1. /\ LiveInv /\ faults = 0 /\ Types /\ outbox = <<>> /\ wire = <<>> /\ buffer = <<>>
        /\ rows = <<>> /\ more = FALSE /\ open = FALSE /\ fetch = [k \in Slots |-> Idle]
    BY InitLive DEF Init, LiveInv, Live
  <1>2. DOMAIN Pipe = {}
    BY <1>1, PipeParts, LenProperties DEF PipeShape
  <1>3. Ordered(Pipe) /\ Arriving = {}
    BY <1>1, <1>2 DEF Ordered, Arriving, Coming
  <1>4. \A k \in {"page", "older"} : fetch[k] = Idle
    BY <1>1 DEF Slots
  <1>5. Idle.phase = "idle" /\ DOMAIN Idle.rows = {}
    BY IdleTyped DEF Idle
  <1>6. Whole
    BY <1>1, <1>3, <1>4, <1>5 DEF Whole, Upper, Complete
  <1>7. QED
    BY <1>1, <1>6 DEF WholeInv

LEMMA WholeStep == WholeInv /\ [Next]_vars => WholeInv'
  <1> SUFFICES ASSUME WholeInv, [Next]_vars PROVE WholeInv'
    OBVIOUS
  <1>1. LiveInv /\ LiveInv'
    BY LiveStep DEF WholeInv
  <1>2. faults \in Nat /\ (faults' = 0 => faults = 0)
    BY <1>1, FaultsCounted DEF LiveInv
  <1>3. SUFFICES ASSUME faults' = 0 PROVE Whole'
    BY <1>1 DEF WholeInv
  <1>4. Live /\ Live' /\ Whole /\ faults = 0 /\ Calm
    BY <1>1, <1>2, <1>3 DEF WholeInv, LiveInv, Live
  <1>5. \A kind : ~Fault(kind)
    BY <1>3, <1>4 DEF Fault
  <1>6. CASE Server
    BY <1>3, <1>4, <1>6, CreateWhole, ChangeWhole, RelayWhole DEF Server
  <1>7. CASE Connection
    BY <1>4, <1>5, <1>7, DeliverWhole, BootWhole
       DEF Connection, ConnectFails, Drop, Reconnecting, Reconnect, Calm
  <1>8. CASE Boot
    BY <1>4, <1>5, <1>8, BootWhole, BootReadyWhole DEF Boot, BootFails
  <1>9. CASE History
    <2>1. ~TryAgain /\ ~RetryLoaded /\ \A k \in Slots : ~HistoryFails(k)
      BY <1>4, <1>5 DEF TryAgain, RetryLoaded, HistoryFails, Calm, Idle
    <2>2. QED
      BY <1>4, <1>9, <2>1, PagesWhole, LoadedWhole DEF History
  <1>10. CASE Recovery
    <2>1. ~GapFilled /\ ~GapFails
      BY <1>4, <1>5 DEF GapFilled, GapFails, Calm, Idle
    <2>2. ASSUME NEW r \in Recoveries
          PROVE  ~RecoveryListed(r) /\ ~NothingOpen(r) /\ ~Recovered(r) /\ ~RecoveryFails(r)
      BY <1>4, <1>5 DEF RecoveryListed, NothingOpen, Recovered, RecoveryFails, Calm, Idle
    <2>3. QED
      BY <1>10, <2>1, <2>2 DEF Recovery
  <1>11. CASE \E k \in Slots : Answer(k)
    BY <1>4, <1>11, AnswerWhole
  <1>12. CASE UNCHANGED vars
    <2>1. UNCHANGED <<log, outbox, wire, buffer, rows, more, open, fetch>>
      BY <1>12 DEF vars, serverVars, storeVars, pageVars
    <2>2. Pipe' = Pipe
      BY <2>1 DEF Pipe
    <2>3. Ordered(Pipe)' /\ Arriving' = Arriving
      BY <1>4, <2>1, <2>2, PipeSame DEF Arriving
    <2>4. QED
      BY <1>4, <2>1, <2>3, WholeStill
  <1>13. QED
    BY <1>6, <1>7, <1>8, <1>9, <1>10, <1>11, <1>12 DEF Next

(* "this closes both bootstrap races" (page.tsx:43-45): without faults,    *)
(* once nothing is on its way, the conversation on the screen has no hole. *)
(* Subscribing, buffering, the snapshot, the replay and pages of history   *)
(* that arrive in any order lose no message, for conversations, pages and  *)
(* loads of any size.                                                      *)
THEOREM NothingMissing == Spec => [](faults = 0 => NoSilentHole)
  <1>1. WholeInv => (faults = 0 => NoSilentHole)
    <2> SUFFICES ASSUME Live, Whole, Settled, NEW s \in DOMAIN log, s \notin DOMAIN rows
                 PROVE  more /\ rows # <<>> /\ s < Min(DOMAIN rows)
      BY DEF WholeInv, LiveInv, NoSilentHole
    <2>1. /\ Types /\ outbox = <<>> /\ wire = <<>> /\ buffer = <<>> /\ open
          /\ fetch["page"].phase = "idle"
      BY DEF Live, Settled, Slots
    <2>2. DOMAIN Pipe = {}
      BY <2>1, PipeParts, LenProperties DEF PipeShape
    <2>3. Arriving = DOMAIN rows
      BY <2>2 DEF Arriving, Coming
    <2>4. more
      BY <2>1, <2>3 DEF Whole
    <2>5. DOMAIN rows # {} /\ DOMAIN rows \subseteq Nat /\ s \in Nat
      BY <2>1, <2>4, CachesDef, LenProperties DEF Whole, Types
    <2>6. Min(DOMAIN rows) \in DOMAIN rows
      BY <2>5, MinOfNaturals
    <2>7. ~(s > Min(DOMAIN rows)) /\ s # Min(DOMAIN rows)
      BY <2>3, <2>6 DEF Whole, Upper
    <2>8. rows # <<>>
      BY <2>5
    <2>9. s < Min(DOMAIN rows)
      BY <2>5, <2>6, <2>7
    <2>10. QED
      BY <2>4, <2>8, <2>9
  <1>2. QED
    BY <1>1, InitWhole, WholeStep, PTL DEF Spec
================================================================================
