----------------------------- MODULE SyncRules -----------------------------
(***************************************************************************)
(* Rules that copy a directory of a container to its owner's storage on a  *)
(* schedule: the table container_sync_rules and the loop that reads it.    *)
(*                                                                         *)
(* The loop sleeps a minute between rounds; a round reads the rules once   *)
(* and can take minutes, for each rule may wait for a key.  A tick of the  *)
(* clock is longer than a round.  A round is one transaction, except that  *)
(* enqueuing a sync to another node commits what came before it.           *)
(***************************************************************************)
EXTENDS Naturals, Sequences, FiniteSets

CONSTANTS
  Rule,      \* ids of rules
  Limit,     \* how many rules a round reads: 20
  Day,       \* ticks of a day
  Days,      \* bound on the clock
  Interval,  \* ticks between two runs of a weekly or monthly rule
  MaxAsked,  \* bound on what users create, change, run and delete
  MaxFaults  \* bound on syncs that cannot be enqueued and on restarts

Parameters ==
  /\ Rule \subseteq Nat /\ IsFiniteSet(Rule)
  /\ Limit \in Nat /\ Day \in Nat \ {0} /\ Days \in Nat \ {0} /\ Interval \in Nat \ {0}
  /\ MaxAsked \in Nat /\ MaxFaults \in Nat

VARIABLES
  now,       \* the clock; before Day there was no rule
  rule,      \* the row of a rule
  begun,     \* when the last round began
  round,     \* whether it is under way, and the rules that can count on it
  todo,      \* the rows it has read and not looked at
  undo,      \* what last_run_at was, for the rules of the open transaction
  asked,     \* how much of MaxAsked is used
  faults,    \* how much of MaxFaults is used
  runs,      \* history: a rule, the round that ran it, and its kind
  byHand,    \* history: rules and the days a user ran them on
  chances    \* history: rules and the days they could count on a run

vars == <<now, rule, begun, round, todo, undo, asked, faults, runs, byHand, chances>>

DayOf(t) == t \div Day
End == (Days + 1) * Day
Kind == {"daily", "long"}
NoRow == [is |-> "new", on |-> FALSE, kind |-> "daily", at |-> 0, last |-> 0]
NoRound == [busy |-> FALSE, sure |-> {}]
Nothing == [r \in {} |-> 0]

Init ==
  /\ now = Day
  /\ rule = [r \in Rule |-> NoRow]
  /\ begun = 0 /\ round = NoRound /\ todo = <<>> /\ undo = Nothing
  /\ asked = 0 /\ faults = 0
  /\ runs = {} /\ byHand = {} /\ chances = {}

Fault == faults < MaxFaults /\ faults' = faults + 1
Ask == asked < MaxAsked /\ asked' = asked + 1

-----------------------------------------------------------------------------
(* The loop *)

Is(r) == rule[r].is = "row"
Earlier(r, q) == \/ rule[r].last < rule[q].last
                 \/ rule[r].last = rule[q].last /\ r < q

(* Rules that are on, in a container that is running or stopped.           *)
Eligible == {r \in Rule : Is(r) /\ rule[r].on}

(* ORDER BY last_run_at, id LIMIT Limit                                    *)
Window ==
  LET place(r) == Cardinality({q \in Eligible : Earlier(q, r)}) + 1
      rows == {r \in Eligible : place(r) <= Limit}
  IN [i \in 1..Cardinality(rows) |->
        LET r == CHOOSE q \in rows : place(q) = i IN [of |-> r, row |-> rule[r]]]

(* Mutant: a rule is due on the day of its last run. *)
DueAgain(row, ts) ==
  /\ ts % Day >= row.at
  /\ row.last > 0 => IF row.kind = "daily" THEN DayOf(ts) >= DayOf(row.last)
                                           ELSE ts >= row.last + Interval
(* schedule_rule_due: at its time of day, and on a new day or after its    *)
(* interval.                                                               *)
Due(row, ts) ==
  /\ ts % Day >= row.at
  /\ row.last > 0 => IF row.kind = "daily" THEN DayOf(ts) > DayOf(row.last)
                                           ELSE ts >= row.last + Interval

StartRound ==
  /\ ~round.busy /\ begun < now
  /\ begun' = now
  /\ todo' = Window
  /\ round' = [busy |-> TRUE,
               sure |-> IF Cardinality(Eligible) > Limit THEN {}
                        ELSE {r \in Eligible : rule[r].kind = "daily"
                                               /\ rule[r].at <= now % Day}]
  /\ UNCHANGED <<now, rule, undo, asked, faults, runs, byHand, chances>>

Looked == round.busy /\ todo # <<>> /\ todo' = Tail(todo)
IsDue == todo # <<>> /\ Due(Head(todo).row, begun)

Skip ==
  /\ Looked /\ ~IsDue
  /\ UNCHANGED <<now, rule, begun, round, undo, asked, faults, runs, byHand, chances>>

(* The sync is enqueued by what the round read of the rule, which a user   *)
(* may have changed or deleted since; if the storage is on another node,   *)
(* what came before is committed.                                          *)
Run ==
  /\ Looked /\ IsDue
  /\ LET r == Head(todo).of
         old == IF Is(r) THEN [q \in {r} |-> rule[r].last] ELSE Nothing
     IN /\ rule' = IF Is(r) THEN [rule EXCEPT ![r].last = begun] ELSE rule
        /\ \E before \in {undo, Nothing} :
             undo' = [q \in DOMAIN before \cup DOMAIN old |->
                        IF q \in DOMAIN before THEN before[q] ELSE old[q]]
        /\ runs' = runs \cup {[of |-> r, at |-> begun, kind |-> Head(todo).row.kind]}
  /\ UNCHANGED <<now, begun, round, asked, faults, byHand, chances>>

(* No storage node, a wrong path, or a key that was not installed: then    *)
(* what came before is committed.  The rule keeps its last_run_at.         *)
EnqueueFails ==
  /\ Looked /\ IsDue
  /\ Fault
  /\ round' = [round EXCEPT !.sure = @ \ {Head(todo).of}]
  /\ undo' \in {undo, Nothing}
  /\ UNCHANGED <<now, rule, begun, asked, runs, byHand, chances>>

(* Syncs that were not committed are none.                                *)
Kept == {x \in runs : ~(x.of \in DOMAIN undo /\ x.at = begun)}

(* Mutant: last_run_at survives the transaction that set it. *)
UndoneButLast ==
  /\ runs' = Kept
  /\ round' = NoRound /\ todo' = <<>> /\ undo' = Nothing
  /\ UNCHANGED rule

(* What was not committed is undone, and the rest of the round left out.   *)
Undone ==
  /\ rule' = [r \in Rule |-> IF r \in DOMAIN undo THEN [rule[r] EXCEPT !.last = undo[r]]
                                                  ELSE rule[r]]
  /\ runs' = Kept
  /\ round' = NoRound /\ todo' = <<>> /\ undo' = Nothing

(* The container is gone since the round began, so that its sync cannot be *)
(* inserted, and the transaction is aborted.                               *)
Refused ==
  /\ round.busy /\ IsDue /\ ~Is(Head(todo).of)
  /\ Undone
  /\ UNCHANGED <<now, begun, asked, faults, byHand, chances>>

EndRound ==
  /\ round.busy /\ todo = <<>>
  /\ chances' = chances \cup (round.sure \X {DayOf(begun)})
  /\ round' = NoRound /\ undo' = Nothing
  /\ UNCHANGED <<now, rule, begun, todo, asked, faults, runs, byHand>>

(* The backend restarts, and the loop with it.                             *)
Restart ==
  /\ round.busy
  /\ Fault
  /\ Undone
  /\ begun' = 0
  /\ UNCHANGED <<now, asked, byHand, chances>>

Tick ==
  /\ begun = now
  /\ now < End - 1
  /\ now' = now + 1
  /\ UNCHANGED <<rule, begun, round, todo, undo, asked, faults, runs, byHand, chances>>

-----------------------------------------------------------------------------
(* Users; a row in the open transaction is locked until it ends. *)

Writes(r, row) ==
  /\ Ask
  /\ r \notin DOMAIN undo
  /\ rule' = [rule EXCEPT ![r] = row]
  /\ UNCHANGED <<now, begun, round, todo, undo, faults, runs, chances>>

CreateRule(r, kind, at) ==
  /\ rule[r].is = "new" /\ \A q \in Rule : q < r => rule[q].is # "new"
  /\ Writes(r, [is |-> "row", on |-> TRUE, kind |-> kind, at |-> at, last |-> 0])
  /\ UNCHANGED byHand

(* Also: its container starts or ceases to be running or stopped.          *)
UpdateRule(r, kind, at, on) ==
  /\ Is(r)
  /\ Writes(r, [rule[r] EXCEPT !.kind = kind, !.at = at, !.on = on])
  /\ UNCHANGED byHand

(* Alone, or with its container.                                           *)
DeleteRule(r) ==
  /\ Is(r)
  /\ Writes(r, [rule[r] EXCEPT !.is = "gone"])
  /\ UNCHANGED byHand

RunRule(r) ==
  /\ Is(r)
  /\ Writes(r, [rule[r] EXCEPT !.last = now])
  /\ byHand' = byHand \cup {<<r, DayOf(now)>>}

-----------------------------------------------------------------------------
Next ==
  \/ StartRound \/ Skip \/ Run \/ EnqueueFails \/ Refused \/ EndRound
  \/ Restart \/ Tick
  \/ \E r \in Rule, kind \in Kind, at \in 0..(Day - 1) :
       CreateRule(r, kind, at) \/ \E on \in BOOLEAN : UpdateRule(r, kind, at, on)
  \/ \E r \in Rule : DeleteRule(r) \/ RunRule(r)

Spec == Init /\ [][Next]_vars

-----------------------------------------------------------------------------
(* Properties *)

TypeOK ==
  /\ now \in Day..(End - 1) /\ begun \in 0..now
  /\ rule \in [Rule -> [is : {"new", "row", "gone"}, on : BOOLEAN, kind : Kind,
                        at : 0..(Day - 1), last : 0..now]]
  /\ round.sure \subseteq Rule /\ DOMAIN undo \subseteq Rule
  /\ Len(todo) <= Limit
  /\ asked \in 0..MaxAsked /\ faults \in 0..MaxFaults

(* A daily rule that a whole round found switched on at or after its time, *)
(* among no more rules than a round reads, is run that day, by the loop or *)
(* by hand: no failure of another rule, no rollback, no run of the day     *)
(* before that ends after midnight makes it miss the day.                  *)
DailyRunsDaily ==
  \A c \in chances :
    c \in byHand \/ \E x \in runs : x.of = c[1] /\ DayOf(x.at) = c[2]

(* The loop runs a rule that is daily at most once for a day, whatever is  *)
(* undone, repeated after a restart, or run by hand while it is at work.   *)
OncePerDay ==
  \A x, y \in runs :
    x.of = y.of /\ DayOf(x.at) = DayOf(y.at) /\ "long" \notin {x.kind, y.kind} => x = y
=============================================================================
