-------------------------------- MODULE BotAdmin --------------------------------
(***************************************************************************)
(* Bots, their settings and rules: the tables, the endpoints that change   *)
(* them, the admin page that shows and toggles them, and the two caches of *)
(* a bot-worker, refreshed every five seconds while events are handled.    *)
(***************************************************************************)
EXTENDS Integers, FiniteSets, TLC

CONSTANTS
    Rules,          \* ids of the rules of the one bot
    MaxEdits,       \* bound: edits
    MaxPending      \* bound: refreshes and polls under way at once

VARIABLES
    db,             \* enabled, allow (settings.allowBotMessages), rules (id -> enabled)
    rules,          \* RuleEngine.rules: what is loaded, {} for a disabled bot
    settings,       \* botSettingsCache: {} or the cached allowBotMessages
    reading,        \* getBotSettings calls waiting for findUnique: the rows they will get
    refreshes,      \* refresh() calls waiting for findMany: the rows they will get
    shown,          \* the admin page: bots[0].enabled ({} before any answer) and its rules
    polls,          \* refresh() of the page: the bots, then also the rules
    edits
vars == <<db, rules, settings, reading, refreshes, shown, polls, edits>>

Nothing == [r \in {} |-> TRUE]
(* What refresh() loads: the enabled rules of an enabled bot.              *)
Loadable == IF db.enabled THEN {r \in DOMAIN db.rules : db.rules[r]} ELSE {}

Init == /\ db = [enabled |-> TRUE, allow |-> FALSE,
                 rules |-> [r \in Rules |-> TRUE]]
        /\ rules = {} /\ settings = {} /\ reading = {} /\ refreshes = {}
        /\ shown = [enabled |-> {}, rules |-> Nothing] /\ polls = {}
        /\ edits = 0

Worker == <<rules, settings, reading, refreshes>>
Page == <<shown, polls>>
-----------------------------------------------------------------------------
Edit(new) == edits < MaxEdits /\ edits' = edits + 1 /\ db' = new /\ UNCHANGED <<Worker, Page>>

(* PATCH /bots/:id with settings.                                          *)
UpdateBot(allow) == Edit([db EXCEPT !.allow = allow])
(* The checkboxes of the page: each writes the opposite of what it shows;  *)
(* the update of a rule that is gone throws.                               *)
ToggleBot == shown.enabled # {} /\ Edit([db EXCEPT !.enabled = TRUE \notin shown.enabled])
ToggleRule(r) == /\ r \in DOMAIN shown.rules \cap DOMAIN db.rules
                 /\ Edit([db EXCEPT !.rules[r] = ~shown.rules[r]])
CreateRule(r) == r \notin DOMAIN db.rules /\ Edit([db EXCEPT !.rules = @ @@ (r :> TRUE)])
DeleteRule(r) == /\ r \in DOMAIN db.rules
                 /\ Edit([db EXCEPT !.rules = [q \in DOMAIN @ \ {r} |-> @[q]]])
-----------------------------------------------------------------------------
(* The page asks every five seconds and after a toggle: the bots, then the *)
(* rules of the first.                                                     *)
Poll == /\ Cardinality(polls) < MaxPending
        /\ polls' = polls \cup {[enabled |-> db.enabled, rules |-> {}]}
        /\ UNCHANGED <<db, Worker, shown, edits>>
BotsShown(p) == /\ p.rules = {}
                /\ shown' = [shown EXCEPT !.enabled = {p.enabled}]
                /\ polls' = (polls \ {p}) \cup {[p EXCEPT !.rules = {db.rules}]}
                /\ UNCHANGED <<db, Worker, edits>>
RulesShown(p) == /\ p.rules # {}
                 /\ shown' = [shown EXCEPT !.rules = CHOOSE r \in p.rules : TRUE]
                 /\ polls' = polls \ {p}
                 /\ UNCHANGED <<db, Worker, edits>>
PollFails(p) == polls' = polls \ {p} /\ UNCHANGED <<db, Worker, shown, edits>>
-----------------------------------------------------------------------------
(* The timer of the rule engine does not wait for the last refresh.        *)
Refresh == /\ Cardinality(refreshes) < MaxPending
           /\ refreshes' = refreshes \cup {Loadable}
           /\ UNCHANGED <<db, rules, settings, reading, Page, edits>>
MutantKeepsSettings(r) == /\ rules' = r /\ refreshes' = refreshes \ {r}
                          /\ UNCHANGED <<db, settings, reading, Page, edits>>
Refreshed(r) == /\ rules' = r /\ settings' = {} /\ refreshes' = refreshes \ {r}
                /\ UNCHANGED <<db, reading, Page, edits>>
RefreshFails(r) == refreshes' = refreshes \ {r} /\ UNCHANGED <<db, rules, settings, reading, Page, edits>>

(* An event is handled and the settings are not cached: the row is read,   *)
(* and kept when the answer comes, whatever happened to the cache since.   *)
GetSettings == /\ rules # {} /\ settings = {} /\ Cardinality(reading) < MaxPending
               /\ reading' = reading \cup {[enabled |-> db.enabled, allow |-> db.allow]}
               /\ UNCHANGED <<db, rules, settings, refreshes, Page, edits>>
GotSettings(b) == /\ reading' = reading \ {b}
                  /\ settings' = IF b.enabled THEN {b.allow} ELSE settings
                  /\ UNCHANGED <<db, rules, refreshes, Page, edits>>

Next == \/ \E allow \in BOOLEAN : UpdateBot(allow)
        \/ ToggleBot
        \/ \E r \in Rules : ToggleRule(r) \/ CreateRule(r) \/ DeleteRule(r)
        \/ Poll \/ Refresh \/ GetSettings
        \/ \E p \in polls : BotsShown(p) \/ RulesShown(p) \/ PollFails(p)
        \/ \E r \in refreshes : Refreshed(r) \/ RefreshFails(r)
        \/ \E b \in reading : GotSettings(b)

(* The timers fire, calls end, and not every one of them fails.            *)
Fairness == /\ WF_vars(Poll) /\ WF_vars(Refresh)
            /\ WF_vars(\E b \in reading : GotSettings(b))
            /\ SF_vars(\E p \in polls : BotsShown(p)) /\ SF_vars(\E p \in polls : RulesShown(p))
            /\ SF_vars(\E r \in refreshes : Refreshed(r))
Spec == Init /\ [][Next]_vars /\ Fairness
-----------------------------------------------------------------------------
(* What an administrator changed is in force in the worker, and on the     *)
(* page, in the end and for good, in spite of overlapping refreshes and    *)
(* reads that bring older rows (rule-engine.ts:64-66).                     *)
InForce == /\ rules = Loadable
           /\ settings \subseteq {db.allow}
           /\ shown = [enabled |-> {db.enabled}, rules |-> db.rules]
EditsTakeEffect == edits > 0 ~> []InForce
================================================================================
