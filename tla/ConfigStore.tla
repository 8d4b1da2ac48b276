---------------------------- MODULE ConfigStore ----------------------------
(***************************************************************************)
(* The table auto_scaling_config (model.py) and the two views that write   *)
(* it, at the grain of the database: a view reads the first row, and later *)
(* commits.  isOn is the table's primary key, so an UPDATE looks its row   *)
(* up by the isOn that was read, a second row with the same isOn is an     *)
(* IntegrityError, and an UPDATE that matches no row is a StaleDataError.  *)
(*                                                                         *)
(* The rows are kept in the order SQLite returns them, which is the order  *)
(* of insertion.  apply assigns the form's strings to float columns, which *)
(* never compare equal to the values loaded, so its UPDATE always writes   *)
(* all four columns.                                                       *)
(***************************************************************************)
EXTENDS ScalingPolicy, Sequences

CONSTANTS
  Thread,               \* the request threads
  None,                 \* no row
  MaxStarts             \* bound on the starts of Flask and Celery processes

ASSUME NoneAssumption == None \notin AutoScalingConfig /\ None \notin Form

ASSUME StartsAssumption == MaxStarts \in Nat

VARIABLES
  rows,                 \* the table
  op,                   \* op[t]: the view t runs
  form,                 \* form[t]: the form t applies
  seen,                 \* seen[t]: the row query.first() returned to t
  alone,                \* history: alone[t], nobody wrote since t read
  starts                \* how many processes have been started

vars == <<rows, op, form, seen, alone, starts>>

first == IF rows = <<>> THEN None ELSE rows[1]

TypeOK ==
  /\ rows \in Seq(AutoScalingConfig)
  /\ op \in [Thread -> {"idle", "apply", "turn_on"}]
  /\ form \in [Thread -> Forms \cup {None}]
  /\ seen \in [Thread -> AutoScalingConfig \cup {None}]
  /\ alone \in [Thread -> BOOLEAN]
  /\ starts \in 0 .. MaxStarts
  /\ \A t \in Thread : op[t] = "apply" <=> form[t] # None

Init ==
  /\ rows = <<>>
  /\ op = [t \in Thread |-> "idle"]
  /\ form = [t \in Thread |-> None]
  /\ seen = [t \in Thread |-> None]
  /\ alone = [t \in Thread |-> FALSE]
  /\ starts = 0

-----------------------------------------------------------------------------
HasKey(b) == \E k \in DOMAIN rows : rows[k].isOn = b

\* UPDATE ... WHERE isOn = key may write isOn = b: a row has the key, and no
\* other row has b.
CanUpdate(key, b) == HasKey(key) /\ (b # key => ~HasKey(b))

\* query.first() at the start of a view.
Read(t, view, f) ==
  /\ op[t] = "idle"
  /\ op' = [op EXCEPT ![t] = view]
  /\ form' = [form EXCEPT ![t] = f]
  /\ seen' = [seen EXCEPT ![t] = first]
  /\ alone' = [alone EXCEPT ![t] = TRUE]
  /\ UNCHANGED <<rows, starts>>

ReadApply(t, f) == Read(t, "apply", f)

ReadTurnOn(t) == Read(t, "turn_on", None)

\* The view of t ends, after a commit or with an exception.
Done(t) ==
  /\ op' = [op EXCEPT ![t] = "idle"]
  /\ form' = [form EXCEPT ![t] = None]
  /\ seen' = [seen EXCEPT ![t] = None]
  /\ alone' = [u \in Thread |-> alone[u] /\ u # t /\ rows' = rows]
  /\ UNCHANGED starts

\* Mutant: no primary key, so an INSERT always goes through.
ApplyCommits_NoKey(t) == seen[t] = None \/ CanUpdate(seen[t].isOn, TRUE)

\* The commit of t's apply will go through.
ApplyCommits(t) ==
  IF seen[t] = None THEN ~HasKey(TRUE) ELSE CanUpdate(seen[t].isOn, TRUE)

\* Mutant: the update branch does not switch the policy on.
CommitApply_StaysOff(t) ==
  /\ op[t] = "apply"
  /\ rows' = IF ~ApplyCommits(t) THEN rows
             ELSE IF seen[t] = None THEN Append(rows, Applied(form[t]))
             ELSE [k \in DOMAIN rows |->
                     IF rows[k].isOn = seen[t].isOn
                     THEN [Applied(form[t]) EXCEPT !.isOn = rows[k].isOn]
                     ELSE rows[k]]
  /\ Done(t)

\* apply: INSERT if no row was read, UPDATE of the row read otherwise.
CommitApply(t) ==
  /\ op[t] = "apply"
  /\ rows' = IF ~ApplyCommits(t) THEN rows
             ELSE IF seen[t] = None THEN Append(rows, Applied(form[t]))
             ELSE [k \in DOMAIN rows |-> IF rows[k].isOn = seen[t].isOn
                                        THEN Applied(form[t]) ELSE rows[k]]
  /\ Done(t)

\* Mutant: turn_on writes back the whole row it read.
CommitTurnOn_WholeRow(t) ==
  /\ op[t] = "turn_on"
  /\ rows' = IF seen[t] # None /\ seen[t].isOn /\ CanUpdate(TRUE, FALSE)
             THEN [k \in DOMAIN rows |-> [seen[t] EXCEPT !.isOn = FALSE]]
             ELSE rows
  /\ Done(t)

\* turn_on writes isOn alone, and nothing if the row read was off already;
\* with no row it raises AttributeError.
CommitTurnOn(t) ==
  /\ op[t] = "turn_on"
  /\ rows' = IF seen[t] # None /\ seen[t].isOn /\ CanUpdate(TRUE, FALSE)
             THEN [k \in DOMAIN rows |-> [rows[k] EXCEPT !.isOn = FALSE]]
             ELSE rows
  /\ Done(t)

\* A process imports src: create_app runs drop_all and create_all.  If it is
\* Flask, its threads S are new; if it is Celery, the requests go on.
StartProcess(S) ==
  /\ starts < MaxStarts
  /\ starts' = starts + 1
  /\ rows' = <<>>
  /\ op' = [t \in Thread |-> IF t \in S THEN "idle" ELSE op[t]]
  /\ form' = [t \in Thread |-> IF t \in S THEN None ELSE form[t]]
  /\ seen' = [t \in Thread |-> IF t \in S THEN None ELSE seen[t]]
  /\ alone' = [t \in Thread |-> FALSE]

Next ==
  \/ \E t \in Thread, f \in Forms : ReadApply(t, f)
  \/ \E t \in Thread : ReadTurnOn(t) \/ CommitApply(t) \/ CommitTurnOn(t)
  \/ \E S \in {Thread, {}} : StartProcess(S)

Spec == Init /\ [][Next]_vars

-----------------------------------------------------------------------------
\* The primary key keeps the table from filling up, but it does not keep it to
\* one row: a second row can only be a switched-on one, behind a first row
\* that is off.  model.py declares isOn the primary key.
RowsShape ==
  /\ Len(rows) <= 2
  /\ Len(rows) = 2 => ~rows[1].isOn /\ rows[2].isOn

\* Seen through query.first(), which is all that any reader uses, the table is
\* a single register, whatever the interleaving of the views.
Register == INSTANCE PolicyRegister WITH config <- first

RegisterSpec == Register!Spec

\* An apply during which nobody else wrote, on a table of at most one row,
\* takes effect: the auto scaler's next query.first() returns its policy.
CleanApplyTakesEffect ==
  [][\A t \in Thread :
       CommitApply(t) /\ alone[t] /\ Len(rows) <= 1
         => first' = Applied(form[t])]_vars

\* autoscaling/view.py: 'new auto scaling policy applied'.  When an apply
\* reports success, its policy is the one in force.
AppliedMeansInForce ==
  [][\A t \in Thread :
       CommitApply(t) /\ ApplyCommits(t) => first' = Applied(form[t])]_vars

=============================================================================
