------------------------------- MODULE Inbox -------------------------------
(***************************************************************************)
(* What one run can send to the review inbox, and how: the hook bus        *)
(* (hooks/bus.server.ts, skill-hook-runner.server.ts) that dispatches an   *)
(* event with a timeout and reports failures, the budget guard of the      *)
(* stream route (costs/budget.server.ts, enforceBudgetGuard) that records  *)
(* alerts and refuses requests, and the inbox itself                       *)
(* (observability/review.server.ts), whose openReviewItem looks for an     *)
(* outstanding row and then inserts.  No unique key stands behind the two  *)
(* look-then-insert pairs.                                                 *)
(***************************************************************************)
EXTENDS Naturals, FiniteSets

CONSTANTS
    Emits,       \* emitHook calls for one event of one run
    Hooks,       \* handlers registered for the event
    OptIn,       \* those registered with optInOnly
    Bound,       \* names the agent's config.hooks binds to the event
    Requests,    \* chat requests of the user
    Warn, Limit, \* thresholds of the user's one budget limit, a request costing 1
    MaxPeriods,  \* bound: budget periods
    MaxResolved, \* bound: items the operator closes
    MaxDbErrors  \* bound: database calls that throw

ASSUME InboxAssumption ==
    /\ OptIn \subseteq Hooks
    /\ Warn \in Nat /\ Limit \in Nat
    /\ MaxPeriods \in Nat /\ MaxResolved \in Nat /\ MaxDbErrors \in Nat

VARIABLES
    dispatch,   \* where each dispatch of a handler is
    handler,    \* what the handler itself is doing
    opening,    \* where each openReviewItem call is
    looked,     \* when it looked for an outstanding item
    items,      \* review_items
    request,    \* where each request is
    seen,       \* the spend its check added up, and in which period
    alerting,   \* what its recordBudgetAlert call is doing
    lookedAlert,\* when that call looked
    alerts,     \* budget_alerts
    spend,      \* the ledger's total in the current period
    period,
    overlap,    \* history: two requests were between check and usage row
    clock, failed, resolved

hookVars == <<dispatch, handler>>
itemVars == <<opening, looked, items, resolved>>
budgetVars == <<request, seen, alerting, lookedAlert, alerts, spend, period, overlap>>
vars == <<hookVars, itemVars, budgetVars, clock, failed>>

Skills == Bound \ Hooks
Dispatches == Emits \X (Hooks \cup Skills) \X {"builtin", "agent", "skill"}
Openers == Dispatches \cup Requests

\* A request is no dispatch of a hook.
ASSUME CallsAreApart == Requests \cap Dispatches = {}

\* dedupeKey: hook:<run>:<hook>:<event>, or budget:<limit>:<user>.
Key(o) == IF o \in Requests THEN "budget" ELSE o[2]

Items  == [by : Openers, at : Nat, closed : Nat]
Alerts == [by : Requests, trigger : {"warn", "block"}, at : Nat, period : Nat]

TypeOK ==
    /\ dispatch \in [Dispatches -> {"none", "running", "succeeded", "failed", "reported"}]
    /\ handler \in [Dispatches -> {"none", "running", "returned", "threw"}]
    /\ opening \in [Openers -> {"no", "select", "insert", "done"}]
    /\ looked \in [Openers -> Nat] /\ items \subseteq Items
    /\ request \in [Requests -> {"idle", "warn", "block", "refused", "running", "done"}]
    /\ seen \in [Requests -> [spend : Nat, period : 1..MaxPeriods]]
    /\ alerting \in [Requests -> {"no", "select", "insert"}] /\ lookedAlert \in [Requests -> Nat]
    /\ alerts \subseteq Alerts
    /\ spend \in Nat /\ period \in 1..MaxPeriods /\ overlap \in BOOLEAN
    /\ clock \in Nat /\ failed \subseteq Openers /\ resolved \in Nat

Init ==
    /\ dispatch = [d \in Dispatches |-> "none"] /\ handler = [d \in Dispatches |-> "none"]
    /\ opening = [o \in Openers |-> "no"] /\ looked = [o \in Openers |-> 0] /\ items = {}
    /\ request = [q \in Requests |-> "idle"] /\ seen = [q \in Requests |-> [spend |-> 0, period |-> 1]]
    /\ alerting = [q \in Requests |-> "no"] /\ lookedAlert = [q \in Requests |-> 0]
    /\ alerts = {} /\ spend = 0 /\ period = 1 /\ overlap = FALSE
    /\ clock = 1 /\ failed = {} /\ resolved = 0

DbError(o) == Cardinality(failed) < MaxDbErrors /\ failed' = failed \cup {o}

-----------------------------------------------------------------------------
(* The hook bus. *)

\* emitHook: every registered handler, then the opt-in ones the agent binds, then
\* the names that are no handler, as skills.
Dispatched(e) ==
    {<<e, h, "builtin">> : h \in Hooks} \cup {<<e, h, "agent">> : h \in OptIn \cap Bound}
        \cup {<<e, s, "skill">> : s \in Skills}

Emit(e) ==
    /\ \A d \in Dispatched(e) : dispatch[d] = "none"
    /\ dispatch' = [d \in Dispatches |-> IF d \in Dispatched(e) THEN "running" ELSE dispatch[d]]
    /\ handler' = [d \in Dispatches |-> IF d \in Dispatched(e) THEN "running" ELSE handler[d]]
    /\ UNCHANGED <<itemVars, budgetVars, clock, failed>>

\* A handler owes nothing: it may also run for ever.
HandlerSettles(d, outcome) ==
    /\ handler[d] = "running" /\ handler' = [handler EXCEPT ![d] = outcome]
    /\ UNCHANGED <<dispatch, itemVars, budgetVars, clock, failed>>

Outcome(d) == IF handler[d] = "returned" THEN "succeeded" ELSE "failed"

\* Promise.race of the handler and the timer: a handler that is still running has
\* failed, and goes on.
RaceEnds(d) ==
    /\ dispatch[d] = "running"
    /\ dispatch' = [dispatch EXCEPT ![d] = Outcome(d)]
    /\ UNCHANGED <<handler, itemVars, budgetVars, clock, failed>>

\* The invocation row, whose insert may fail unnoticed; then a builtin's failure
\* is reported.
LogInvocation(d) ==
    /\ dispatch[d] \in {"succeeded", "failed"}
    /\ dispatch' = [dispatch EXCEPT ![d] = "reported"]
    /\ opening' = IF dispatch[d] = "failed" /\ d[3] # "skill"
                  THEN [opening EXCEPT ![d] = "select"] ELSE opening
    /\ UNCHANGED <<handler, looked, items, resolved, budgetVars, clock, failed>>

-----------------------------------------------------------------------------
(* The inbox. *)

\* Variant: items that were closed count as outstanding.
EverOpened(k) == {i \in items : Key(i.by) = k}

Outstanding(k) == {i \in items : Key(i.by) = k /\ i.closed = 0}

\* Variant: one item per opener, without looking.
InsertAtOnce(o) ==
    /\ opening[o] = "select"
    /\ opening' = [opening EXCEPT ![o] = "insert"]
    /\ looked' = [looked EXCEPT ![o] = clock] /\ clock' = clock + 1
    /\ UNCHANGED <<items, resolved, hookVars, budgetVars, failed>>

LookForItem(o) ==
    /\ opening[o] = "select"
    /\ looked' = [looked EXCEPT ![o] = clock] /\ clock' = clock + 1
    /\ opening' = [opening EXCEPT ![o] = IF Outstanding(Key(o)) = {} THEN "insert" ELSE "done"]
    /\ UNCHANGED <<items, resolved, hookVars, budgetVars, failed>>

InsertItem(o) ==
    /\ opening[o] = "insert"
    /\ opening' = [opening EXCEPT ![o] = "done"]
    /\ items' = items \cup {[by |-> o, at |-> clock, closed |-> 0]} /\ clock' = clock + 1
    /\ UNCHANGED <<looked, resolved, hookVars, budgetVars, failed>>

\* openReviewItem swallows its errors.
OpenItemFails(o) ==
    /\ opening[o] \in {"select", "insert"}
    /\ opening' = [opening EXCEPT ![o] = "done"]
    /\ DbError(o)
    /\ UNCHANGED <<looked, items, resolved, hookVars, budgetVars, clock>>

\* resolveReviewItem: an UPDATE by id, resolved or dismissed.
Resolve(i) ==
    /\ i.closed = 0 /\ resolved < MaxResolved /\ resolved' = resolved + 1
    /\ items' = (items \ {i}) \cup {[i EXCEPT !.closed = clock]} /\ clock' = clock + 1
    /\ UNCHANGED <<opening, looked, hookVars, budgetVars, failed>>

-----------------------------------------------------------------------------
(* The budget guard. *)

InFlight == {q \in Requests : request[q] \in {"warn", "block", "running"}}

OverLimit(s) == s > Limit

\* Where a request goes once its warnings are recorded.
Verdict(s) == IF OverLimit(s) THEN "block" ELSE "running"

\* checkBudgetLimits: the spend so far; an error lets the request through.
CheckBudget(q) ==
    /\ request[q] = "idle"
    /\ overlap' = (overlap \/ InFlight # {})
    /\ \/ /\ seen' = [seen EXCEPT ![q] = [spend |-> spend, period |-> period]]
          /\ request' = [request EXCEPT ![q] = IF spend >= Warn THEN "warn" ELSE Verdict(spend)]
          /\ alerting' = [alerting EXCEPT ![q] = IF request'[q] = "running" THEN "no" ELSE "select"]
          /\ UNCHANGED failed
       \/ /\ DbError(q) /\ request' = [request EXCEPT ![q] = "running"]
          /\ UNCHANGED <<seen, alerting>>
    /\ UNCHANGED <<lookedAlert, alerts, spend, period, hookVars, itemVars, clock>>

\* The refusal: the review item is opened in the background.
AfterAlert(q) ==
    LET next == IF request[q] = "warn" THEN Verdict(seen[q].spend) ELSE "refused" IN
    /\ request' = [request EXCEPT ![q] = next]
    /\ alerting' = [alerting EXCEPT ![q] = IF next = "block" THEN "select" ELSE "no"]
    /\ opening' = IF next = "refused" THEN [opening EXCEPT ![q] = "select"] ELSE opening

\* Variant: an alert of the other trigger counts as well.
LookForAnyAlert(q) ==
    /\ alerting[q] = "select"
    /\ lookedAlert' = [lookedAlert EXCEPT ![q] = clock] /\ clock' = clock + 1
    /\ IF \E a \in alerts : a.period = period
       THEN AfterAlert(q)
       ELSE alerting' = [alerting EXCEPT ![q] = "insert"] /\ UNCHANGED <<request, opening>>
    /\ UNCHANGED <<seen, alerts, spend, period, overlap, looked, items, resolved, hookVars, failed>>

\* recordBudgetAlert: look for an alert of this period and trigger, then insert.
LookForAlert(q) ==
    /\ alerting[q] = "select"
    /\ lookedAlert' = [lookedAlert EXCEPT ![q] = clock] /\ clock' = clock + 1
    /\ IF \E a \in alerts : a.trigger = request[q] /\ a.period = period
       THEN AfterAlert(q)
       ELSE alerting' = [alerting EXCEPT ![q] = "insert"] /\ UNCHANGED <<request, opening>>
    /\ UNCHANGED <<seen, alerts, spend, period, overlap, looked, items, resolved, hookVars, failed>>

InsertAlert(q) ==
    /\ alerting[q] = "insert"
    /\ alerts' = alerts \cup {[by |-> q, trigger |-> request[q], at |-> clock, period |-> period]}
    /\ clock' = clock + 1
    /\ AfterAlert(q)
    /\ UNCHANGED <<seen, lookedAlert, spend, period, overlap, looked, items, resolved, hookVars, failed>>

AlertFails(q) ==
    /\ alerting[q] # "no" /\ DbError(q)
    /\ AfterAlert(q)
    /\ UNCHANGED <<seen, lookedAlert, alerts, spend, period, overlap, looked, items, resolved, hookVars, clock>>

\* The run ends and logLlmUsage adds its cost.
Spend(q) ==
    /\ request[q] = "running"
    /\ request' = [request EXCEPT ![q] = "done"]
    /\ spend' = spend + 1
    /\ UNCHANGED <<seen, alerting, lookedAlert, alerts, period, overlap, itemVars, hookVars, clock, failed>>

PeriodEnds ==
    /\ period < MaxPeriods /\ period' = period + 1 /\ spend' = 0
    /\ UNCHANGED <<request, seen, alerting, lookedAlert, alerts, overlap, itemVars, hookVars, clock, failed>>

-----------------------------------------------------------------------------
BusStep(d) == RaceEnds(d) \/ LogInvocation(d)
OpenStep(o) == LookForItem(o) \/ InsertItem(o)
GuardStep(q) == LookForAlert(q) \/ InsertAlert(q)

Next ==
    \/ \E e \in Emits : Emit(e)
    \/ \E d \in Dispatches : BusStep(d) \/ \E outcome \in {"returned", "threw"} : HandlerSettles(d, outcome)
    \/ \E o \in Openers : OpenStep(o) \/ OpenItemFails(o)
    \/ \E i \in items : Resolve(i)
    \/ \E q \in Requests : CheckBudget(q) \/ GuardStep(q) \/ AlertFails(q) \/ Spend(q)
    \/ PeriodEnds

Spec == Init /\ [][Next]_vars

-----------------------------------------------------------------------------
(* What must hold. *)

Reported(o) == opening[o] = "done" /\ o \notin failed

\* A failure or refusal that was reported is in front of the operator: its key has
\* an item that was still open when, or opened after, the report looked for one.
\* An item the operator has closed does not swallow the next report.
ReportReachesOperator ==
    \A o \in Openers : Reported(o) =>
        \E i \in items : Key(i.by) = Key(o) /\ (i.closed = 0 \/ i.closed > looked[o])

\* Two outstanding items for one key come only from two reports that looked
\* before either had inserted: repeated failures collapse into one item.
OneItemUnlessRaced ==
    \A i, j \in items :
        Key(i.by) = Key(j.by) /\ i.closed = 0 /\ i.at < j.at => looked[j.by] < i.at

\* A caller that is refused finds a block alert of the period it was checked in,
\* or of a later one that began meanwhile; another request may have written it.
RefusalIsOnRecord ==
    \A q \in Requests \ failed : request[q] = "refused" =>
        \E a \in alerts : a.trigger = "block" /\ a.period >= seen[q].period

\* Requests that do not overlap exceed the cap by one request at most, and by one
\* more for each whose check threw.
CapHoldsForSequentialRequests ==
    ~overlap => spend <= Limit + 1 + Cardinality(failed \cap Requests)

\* The budget limit is kept, and kept visibly.
LimitIsKept == RefusalIsOnRecord /\ CapHoldsForSequentialRequests

=============================================================================
