------------------------------- MODULE MCTimers -------------------------------
(***************************************************************************)
(* Small instances of what timers bring to an end: the jobs of Scheduler,  *)
(* the caches of BotAdmin, the indicators of Typing.  A behaviour is one   *)
(* of one part, the others stay as they start.                             *)
(***************************************************************************)
EXTENDS Scheduler

CONSTANTS p1, once, daily

VARIABLES part,
          db, rules, settings, reading, refreshes, page, polls, edits,
          kind, watcher, timers, throttled, told, member, commands, keys, events, seen,
          shown, strokes

adminVars  == <<db, rules, settings, reading, refreshes, page, polls, edits>>
typingVars == <<kind, watcher, timers, throttled, told, member, commands, keys, events,
                seen, shown, strokes>>
allVars    == <<part, vars, adminVars, typingVars>>

Rooms == {"c1", "c2"}
A == INSTANCE BotAdmin WITH Rules <- {"r1"}, MaxEdits <- 2, MaxPending <- 2, shown <- page
T == INSTANCE Typing WITH Conversations <- Rooms, MaxKeystrokes <- 2

MCInit ==
    /\ part \in {"jobs", "admin", "typing"}
    /\ Init /\ A!Init /\ T!Init
    /\ kind # watcher /\ (part = "typing" \/ kind = "web")

InJobs(S)   == part = "jobs" /\ S /\ UNCHANGED <<part, adminVars, typingVars>>
InAdmin(S)  == part = "admin" /\ S /\ UNCHANGED <<part, vars, typingVars>>
InTyping(S) == part = "typing" /\ S /\ UNCHANGED <<part, vars, adminVars>>

JobsNext ==
    \/ \E j \in Jobs : InJobs(BecomeDue(j))
    \/ \E p \in Replicas :
          \/ InJobs(Select(p)) \/ InJobs(Claim(p)) \/ InJobs(Execute(p))
          \/ InJobs(ExecuteFails(p)) \/ InJobs(Finish(p)) \/ InJobs(RecordError(p))
          \/ InJobs(FinishFails(p)) \/ InJobs(RecordErrorFails(p)) \/ InJobs(Abandon(p))

AdminNext ==
    \/ \E allow \in BOOLEAN : InAdmin(A!UpdateBot(allow))
    \/ InAdmin(A!ToggleBot) \/ InAdmin(A!ToggleRule("r1"))
    \/ InAdmin(A!CreateRule("r1")) \/ InAdmin(A!DeleteRule("r1"))
    \/ InAdmin(A!Poll) \/ InAdmin(A!Refresh) \/ InAdmin(A!GetSettings)
    \/ \E p \in polls : InAdmin(A!BotsShown(p))
    \/ \E p \in polls : InAdmin(A!RulesShown(p))
    \/ \E p \in polls : InAdmin(A!PollFails(p))
    \/ \E r \in refreshes : InAdmin(A!Refreshed(r))
    \/ \E r \in refreshes : InAdmin(A!RefreshFails(r))
    \/ \E b \in reading : InAdmin(A!GotSettings(b))

TypingNext ==
    \/ \E c \in Rooms :
          \/ InTyping(T!WebType(c)) \/ InTyping(T!MobileType(c))
          \/ InTyping(T!ThrottleOver(c)) \/ InTyping(T!AutoStop(c))
          \/ InTyping(T!WebSubmit(c)) \/ InTyping(T!MobileSubmit(c))
          \/ InTyping(T!KeyExpires(c)) \/ InTyping(T!Removed(c)) \/ InTyping(T!Age(c))
    \/ \E d \in commands : InTyping(T!HandleTypingSet(d))
    \/ \E d \in commands : InTyping(T!LoseCommand(d))
    \/ \E d \in events : InTyping(T!Receive(d))
    \/ \E d \in events : InTyping(T!LoseEvent(d))
    \/ InTyping(T!WebSweep) \/ InTyping(T!MobileSweep)

MCNext == JobsNext \/ AdminNext \/ TypingNext

(* The fairness of the three modules, each for its own behaviours.         *)
JobsFair == /\ \A j \in Jobs : WF_allVars(InJobs(BecomeDue(j)))
            /\ \A p \in Replicas : WF_allVars(InJobs(Work(p)))
AdminFair ==
    /\ WF_allVars(InAdmin(A!Poll)) /\ WF_allVars(InAdmin(A!Refresh))
    /\ WF_allVars(InAdmin(\E b \in reading : A!GotSettings(b)))
    /\ SF_allVars(InAdmin(\E p \in polls : A!BotsShown(p)))
    /\ SF_allVars(InAdmin(\E p \in polls : A!RulesShown(p)))
    /\ SF_allVars(InAdmin(\E r \in refreshes : A!Refreshed(r)))
TypingFair ==
    /\ \A c \in Rooms : /\ WF_allVars(InTyping(T!AutoStop(c)))
                        /\ WF_allVars(InTyping(T!KeyExpires(c)))
                        /\ WF_allVars(InTyping(T!Age(c)))
    /\ WF_allVars(InTyping(\E d \in commands : T!HandleTypingSet(d) \/ T!LoseCommand(d)))
    /\ WF_allVars(InTyping(\E d \in events : T!Receive(d) \/ T!LoseEvent(d)))
    /\ WF_allVars(InTyping(T!WebSweep \/ T!MobileSweep))
MCSpec == MCInit /\ [][MCNext]_allVars /\ JobsFair /\ AdminFair /\ TypingFair

(* BotAdmin: an edit is in force in the end, in the worker and on the page.*)
EditsTakeEffect == A!EditsTakeEffect
(* Typing: no indicator stays on after the last keystroke.                 *)
IndicatorClears == T!IndicatorClears
===============================================================================
