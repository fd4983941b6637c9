-------------------------------- MODULE ChatRows --------------------------------
(***************************************************************************)
(* buildChatRows of the mobile and the web client: the messages of a       *)
(* transcript, oldest first, become rows, newest first, with day labels,   *)
(* runs of one sender, reaction chips, quotes and read ticks.  The mobile  *)
(* list is drawn upside down, the web turns the rows round.                *)
(***************************************************************************)
EXTENDS Integers, FiniteSets, SequencesExt

CONSTANTS
    Senders, Self,
    IsGroup,        \* the conversation is a group
    GroupGap,       \* GROUP_GAP_MS, in units of time
    DayLength,      \* a day, in the same units
    Times,          \* bound: createdAt of the inputs
    MaxMessages,    \* bound: length of the inputs
    Reactions,      \* bound: sets of <<emoji, user>>, emojis are numbers
    MaxPending      \* bound: optimistic entries below the transcript

VARIABLES
    messages,       \* ascending: sender, at, reply (a position or 0), reactions
    pending,        \* number of pending entries, in the order they were sent
    readWatermark   \* the highest lastReadSequence of the other members
vars == <<messages, pending, readWatermark>>

Init == messages = <<>> /\ pending = 0 /\ readWatermark = 0

Extend ==
    \E who \in Senders, t \in Times, r \in 0..Len(messages), set \in Reactions :
        /\ Len(messages) < MaxMessages
        /\ IF messages = <<>> THEN TRUE ELSE t >= Last(messages).at
        /\ messages' = Append(messages, [sender |-> who, at |-> t, reply |-> r, reactions |-> set])
        /\ UNCHANGED <<pending, readWatermark>>
Send == pending < MaxPending /\ pending' = pending + 1 /\ UNCHANGED <<messages, readWatermark>>
ReadBy == /\ readWatermark < Len(messages)
          /\ readWatermark' = readWatermark + 1
          /\ UNCHANGED <<messages, pending>>
Next == Extend \/ Send \/ ReadBy
Spec == Init /\ [][Next]_vars
-----------------------------------------------------------------------------
SameDay(s, t) == s \div DayLength = t \div DayLength

(* aggregateChips: one per emoji, the most frequent first.                 *)
AggregateChips(set) ==
    LET Of(e) == {r \in set : r[1] = e}
        chips == {[emoji |-> r[1], count |-> Cardinality(Of(r[1])), mine |-> <<r[1], Self>> \in set] :
                  r \in set}
    IN SetToSortSeq(chips, LAMBDA a, b : \/ a.count > b.count
                                         \/ a.count = b.count /\ a.emoji < b.emoji)

GroupsWithPrev(ms, i) == /\ i > 1
                         /\ ms[i - 1].sender = ms[i].sender
                         /\ ms[i].at - ms[i - 1].at < GroupGap

(* What the first pass pushes for message i.                               *)
Pushed(ms, i, watermark) ==
    (IF i = 1 \/ ~SameDay(ms[i].at, ms[i - 1].at) THEN <<[kind |-> "date", of |-> i]>> ELSE <<>>)
    \o <<[kind |-> "message", of |-> i, mine |-> ms[i].sender = Self,
          starts |-> ~GroupsWithPrev(ms, i),
          sender |-> IsGroup /\ ms[i].sender # Self /\ ~GroupsWithPrev(ms, i),
          quote |-> ms[i].reply, chips |-> AggregateChips(ms[i].reactions),
          read |-> i <= watermark]>>

FirstPass(ms, watermark) ==
    FlattenSeq([k \in 1..Len(ms) |-> Pushed(ms, Len(ms) + 1 - k, watermark)])

MutantStopsAtDate(rows, i) == i > 1 /\ rows[i - 1].kind = "message" /\ ~rows[i - 1].starts
(* The nearest message row before row i, date rows skipped, goes on with   *)
(* the run of row i.                                                       *)
Continues(rows, i) ==
    LET before == {j \in 1..(i - 1) : rows[j].kind = "message"}
    IN before # {} /\ ~rows[Max(before)].starts

SecondPass(rows) ==
    [i \in DOMAIN rows |-> IF rows[i].kind = "date" THEN rows[i]
                           ELSE rows[i] @@ [ends |-> ~Continues(rows, i)]]

(* Mobile: pending entries come first, the last one sent at the front.     *)
BuildChatRows ==
    Reverse([k \in 1..pending |-> [kind |-> "pending", of |-> k]])
    \o SecondPass(FirstPass(messages, readWatermark))

(* Web: turned round for a list that is drawn from the top.                *)
WebRows == Reverse(SecondPass(FirstPass(messages, readWatermark)))
-----------------------------------------------------------------------------
(* The reference, without rows: who starts and ends a run of one sender.   *)
Opening(k) == k = 1 \/ messages[k].sender # messages[k - 1].sender
                   \/ messages[k].at - messages[k - 1].at >= GroupGap
Ends(k) == k = Len(messages) \/ Opening(k + 1)

(* However days, runs and pending entries mix, every message has one row,  *)
(* newest first, the runs are those of the messages, a sender's name is    *)
(* shown exactly once per run of somebody else, a message with ticks has   *)
(* no unread one before it, each day has one label, next to its first      *)
(* message, and on the web a run starts where the one above it ends        *)
(* (message-rows.ts:194-208).                                              *)
RowsMatch ==
    LET rows == BuildChatRows
        shown == SelectSeq(rows, LAMBDA r : r.kind = "message")
        dates == {i \in DOMAIN rows : rows[i].kind = "date"}
    IN /\ [i \in DOMAIN shown |-> shown[i].of] = [i \in DOMAIN messages |-> Len(messages) + 1 - i]
       /\ \A r \in ToSet(shown) :
             /\ r.starts = Opening(r.of) /\ r.ends = Ends(r.of)
             /\ r.sender => r.starts /\ ~r.mine
             /\ r.read => \A q \in ToSet(shown) : q.of < r.of => q.read
             /\ \A c \in ToSet(r.chips) : c.mine => <<c.emoji, Self>> \in messages[r.of].reactions
       /\ {rows[i].of : i \in dates} =
             {k \in DOMAIN messages : k = 1 \/ ~SameDay(messages[k].at, messages[k - 1].at)}
       /\ \A i \in dates : rows[i + 1].kind = "message" /\ rows[i + 1].of = rows[i].of
       /\ LET web == SelectSeq(WebRows, LAMBDA r : r.kind = "message")
          IN \A i \in DOMAIN web : web[i].of = i /\ web[i].starts = (i = 1 \/ web[i - 1].ends)
================================================================================
