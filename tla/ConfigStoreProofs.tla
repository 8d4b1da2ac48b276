------------------------- MODULE ConfigStoreProofs -------------------------
(***************************************************************************)
(* The table of the auto-scaling policy, for any number of request threads *)
(* and any forms: the shape the primary key gives the table, that readers  *)
(* see a single register, and that an apply nobody disturbs takes effect.  *)
(***************************************************************************)
EXTENDS ConfigStore, SequenceTheorems, TLAPS

\* A thread that nobody has overtaken still holds the first row.
Fresh == \A t \in Thread : alone[t] => seen[t] = first

StoreInv == TypeOK /\ RowsShape /\ Fresh

LEMMA AppliedIsRow ==
  ASSUME NEW f \in Forms
  PROVE  Applied(f) \in AutoScalingConfig /\ Applied(f).isOn = TRUE
<1>1. f \in Form BY FormsAssumption
<1> QED BY <1>1 DEF Form, Applied, AutoScalingConfig

\* The rows by their number: none, one, or an off row before an on row.
LEMMA ShapeCases ==
  ASSUME TypeOK, RowsShape
  PROVE  \/ rows = <<>> /\ first = None
         \/ Len(rows) = 1 /\ first = rows[1] /\ first \in AutoScalingConfig
         \/ /\ Len(rows) = 2 /\ first = rows[1] /\ first \in AutoScalingConfig
            /\ rows[2] \in AutoScalingConfig /\ ~rows[1].isOn /\ rows[2].isOn
<1>1. rows \in Seq(AutoScalingConfig) BY DEF TypeOK
<1>2. Len(rows) \in Nat /\ (Len(rows) = 0 => rows = <<>>) BY <1>1
<1>3. Len(rows) \in {0, 1, 2}
  <2>1. Len(rows) <= 2 BY DEF RowsShape
  <2>2. \A n \in Nat : n <= 2 => n \in {0, 1, 2} OBVIOUS
  <2>3. Len(rows) \in Nat BY <1>2
  <2> QED BY <2>1, <2>2, <2>3
<1>4. CASE Len(rows) = 0 BY <1>2, <1>4 DEF first
<1>5. CASE Len(rows) = 1 BY <1>1, <1>5 DEF first
<1>6. CASE Len(rows) = 2 BY <1>1, <1>6 DEF first, RowsShape
<1> QED BY <1>3, <1>4, <1>5, <1>6

\* Which keys the table has.
LEMMA Keys ==
  ASSUME TypeOK, RowsShape, NEW b \in BOOLEAN
  PROVE  HasKey(b) <=> \/ Len(rows) >= 1 /\ rows[1].isOn = b
                       \/ Len(rows) = 2 /\ rows[2].isOn = b
<1>1. rows \in Seq(AutoScalingConfig) /\ Len(rows) \in Nat /\ DOMAIN rows = 1 .. Len(rows)
  BY DEF TypeOK
<1>2. Len(rows) <= 2 BY DEF RowsShape
<1>3. \A k \in DOMAIN rows : k = 1 \/ (k = 2 /\ Len(rows) = 2) BY <1>1, <1>2
<1>4. Len(rows) >= 1 => 1 \in DOMAIN rows BY <1>1
<1>5. Len(rows) = 2 => 2 \in DOMAIN rows BY <1>1
<1> QED BY <1>3, <1>4, <1>5, <1>1 DEF HasKey

\* An UPDATE maps the rows one by one.
LEMMA Mapped ==
  ASSUME TypeOK, NEW new \in [DOMAIN rows -> AutoScalingConfig]
  PROVE  new \in Seq(AutoScalingConfig) /\ Len(new) = Len(rows) /\ DOMAIN new = DOMAIN rows
<1>1. rows \in Seq(AutoScalingConfig) /\ Len(rows) \in Nat /\ DOMAIN rows = 1 .. Len(rows)
  BY DEF TypeOK
<1> QED BY <1>1

\* An INSERT behind one row.
LEMMA Appended ==
  ASSUME NEW S, NEW s \in Seq(S), Len(s) = 1, NEW e \in S
  PROVE  /\ Append(s, e) \in Seq(S) /\ Len(Append(s, e)) = 2
         /\ Append(s, e)[1] = s[1] /\ Append(s, e)[2] = e
<1>1. Append(s, e) \in Seq(S) OBVIOUS
<1>2. Len(Append(s, e)) = 2 OBVIOUS
<1>3. Append(s, e)[1] = s[1] OBVIOUS
<1>4. Append(s, e)[2] = e
  <2>1. Append(s, e)[Len(s) + 1] = e BY AppendProperties
  <2>2. Len(s) + 1 = 2 OBVIOUS
  <2> QED BY <2>1, <2>2
<1> QED BY <1>1, <1>2, <1>3, <1>4

\* What a commit leaves: a table of the same shape, and as the first row the
\* one before, the policy applied, or the row before switched off.
Left(new) ==
  /\ new \in Seq(AutoScalingConfig)
  /\ Len(new) <= 2
  /\ Len(new) = 2 => ~new[1].isOn /\ new[2].isOn

LEMMA ApplyLeaves ==
  ASSUME TypeOK, RowsShape, NEW t \in Thread, CommitApply(t)
  PROVE  /\ Left(rows')
         /\ first' = first \/ (form[t] \in Forms /\ first' = Applied(form[t]))
         /\ seen[t] = first /\ Len(rows) <= 1 => first' = Applied(form[t])
<1> DEFINE a == Applied(form[t])
<1>0. /\ rows \in Seq(AutoScalingConfig) /\ Len(rows) \in Nat /\ DOMAIN rows = 1 .. Len(rows)
      /\ seen[t] \in AutoScalingConfig \cup {None}
  BY DEF TypeOK
<1>1. form[t] \in Forms /\ a \in AutoScalingConfig /\ a.isOn = TRUE
  <2>1. form[t] \in Forms BY DEF TypeOK, CommitApply
  <2> QED BY <2>1, AppliedIsRow
<1> HIDE DEF a
<1>2. CASE ~ApplyCommits(t)
  <2>1. rows' = rows BY <1>2 DEF CommitApply
  <2>2. Left(rows') /\ first' = first BY <2>1, <1>0 DEF Left, RowsShape, first
  <2>3. ASSUME seen[t] = first, Len(rows) <= 1 PROVE FALSE
    <3>1. CASE rows = <<>> /\ first = None
      <4>1. seen[t] = None BY <2>3, <3>1
      <4>2. HasKey(TRUE) BY <1>2, <4>1 DEF ApplyCommits
      <4> QED BY <3>1, <4>2 DEF HasKey
    <3>2. CASE Len(rows) = 1 /\ first = rows[1] /\ first \in AutoScalingConfig
      <4>1. seen[t] # None /\ seen[t] = rows[1] BY <2>3, <3>2, NoneAssumption
      <4>2. seen[t].isOn \in BOOLEAN BY <4>1, <3>2 DEF AutoScalingConfig
      <4>3. HasKey(seen[t].isOn) BY <4>1, <4>2, <3>2, Keys
      <4>4. TRUE # seen[t].isOn => ~HasKey(TRUE) BY <4>1, <3>2, Keys
      <4> QED BY <1>2, <4>1, <4>3, <4>4 DEF ApplyCommits, CanUpdate
    <3> QED BY <2>3, <1>0, <3>1, <3>2, ShapeCases
  <2> QED BY <2>2, <2>3
<1>3. CASE ApplyCommits(t) /\ seen[t] = None
  <2>1. rows' = Append(rows, a) BY <1>3 DEF CommitApply, a
  <2>2. ~HasKey(TRUE) BY <1>3 DEF ApplyCommits
  <2>3. CASE rows = <<>>
    <3>1. rows' = <<a>> BY <2>1, <2>3
    <3>2. Left(rows') BY <3>1, <1>1 DEF Left
    <3>3. first' = a BY <3>1 DEF first
    <3> QED BY <3>2, <3>3, <1>1 DEF a
  <2>4. CASE Len(rows) = 1 /\ first = rows[1] /\ first \in AutoScalingConfig
    <3>1. ~rows[1].isOn
      <4>1. rows[1].isOn \in BOOLEAN BY <2>4 DEF AutoScalingConfig
      <4>2. Len(rows) >= 1 BY <2>4
      <4>3. rows[1].isOn # TRUE BY <2>2, <4>2, Keys
      <4> QED BY <4>1, <4>3
    <3>2. rows' \in Seq(AutoScalingConfig) /\ Len(rows') = 2
      BY <2>1, <2>4, <1>0, <1>1, Appended
    <3>3. rows'[1] = rows[1] /\ rows'[2] = a BY <2>1, <2>4, <1>0, <1>1, Appended
    <3>4. Left(rows') BY <3>1, <3>2, <3>3, <1>1 DEF Left
    <3>5. first' = first
      <4>1. rows' # <<>> BY <3>2
      <4> QED BY <4>1, <3>3, <2>4 DEF first
    <3>6. seen[t] # first BY <1>3, <2>4, NoneAssumption
    <3> QED BY <3>4, <3>5, <3>6
  <2>5. CASE Len(rows) = 2 /\ rows[2].isOn /\ rows[2] \in AutoScalingConfig
    <3>1. rows[2].isOn = TRUE BY <2>5 DEF AutoScalingConfig
    <3>2. HasKey(TRUE) BY <2>5, <3>1, Keys
    <3> QED BY <2>2, <3>2
  <2> QED BY <2>3, <2>4, <2>5, ShapeCases
<1>4. CASE ApplyCommits(t) /\ seen[t] # None
  <2> DEFINE b == seen[t].isOn
             new == [k \in DOMAIN rows |-> IF rows[k].isOn = b THEN a ELSE rows[k]]
  <2>1. rows' = new BY <1>4 DEF CommitApply, a
  <2>2. b \in BOOLEAN /\ HasKey(b) /\ (b # TRUE => ~HasKey(TRUE))
    BY <1>0, <1>4 DEF ApplyCommits, CanUpdate, AutoScalingConfig
  <2>3. new \in [DOMAIN rows -> AutoScalingConfig] BY <1>0, <1>1
  <2>4. /\ new \in Seq(AutoScalingConfig) /\ Len(new) = Len(rows)
        /\ \A k \in DOMAIN rows : new[k] = IF rows[k].isOn = b THEN a ELSE rows[k]
    BY <2>3, Mapped
  <2> HIDE DEF new, b
  <2>5. CASE rows = <<>> BY <2>2, <2>5 DEF HasKey
  <2>6. CASE Len(rows) = 1 /\ first = rows[1] /\ first \in AutoScalingConfig
    <3>1. rows[1].isOn = b BY <2>2, <2>6, Keys
    <3>2. new[1] = a BY <3>1, <2>4, <2>6, <1>0
    <3>3. new # <<>> BY <2>4, <2>6
    <3>4. first' = a BY <2>1, <3>2, <3>3 DEF first
    <3>5. Left(rows') BY <2>1, <2>4, <2>6 DEF Left
    <3> QED BY <3>4, <3>5, <1>1 DEF a
  <2>7. CASE /\ Len(rows) = 2 /\ first = rows[1] /\ first \in AutoScalingConfig
             /\ rows[2] \in AutoScalingConfig /\ ~rows[1].isOn /\ rows[2].isOn
    <3>1. rows[1].isOn = FALSE /\ rows[2].isOn = TRUE BY <2>7 DEF AutoScalingConfig
    <3>2. HasKey(TRUE) BY <2>7, <3>1, Keys
    <3>3. b = TRUE BY <2>2, <3>2
    <3>0. 1 \in DOMAIN rows /\ 2 \in DOMAIN rows
      <4>1. 1 \in 1 .. 2 /\ 2 \in 1 .. 2 OBVIOUS
      <4> QED BY <4>1, <2>7, <1>0
    <3>4. new[1] = rows[1] /\ new[2] = a BY <3>0, <3>1, <3>3, <2>4
    <3>5. new # <<>>
      <4>1. Len(new) = 2 BY <2>4, <2>7
      <4> QED BY <4>1
    <3>6. first' = first BY <2>1, <3>4, <3>5, <2>7 DEF first
    <3>7. Left(rows') BY <2>1, <2>4, <2>7, <3>1, <3>4, <1>1 DEF Left
    <3> QED BY <3>6, <3>7, <2>7
  <2> QED BY <2>5, <2>6, <2>7, ShapeCases
<1> QED BY <1>2, <1>3, <1>4


LEMMA TurnOnLeaves ==
  ASSUME TypeOK, RowsShape, NEW t \in Thread, CommitTurnOn(t)
  PROVE  /\ Left(rows')
         /\ first' = first \/ (first # None /\ first' = [first EXCEPT !.isOn = FALSE])
<1>0. /\ rows \in Seq(AutoScalingConfig) /\ Len(rows) \in Nat /\ DOMAIN rows = 1 .. Len(rows)
  BY DEF TypeOK
<1>1. CASE rows' = rows BY <1>0, <1>1 DEF Left, RowsShape, first
<1>2. CASE /\ CanUpdate(TRUE, FALSE)
           /\ rows' = [k \in DOMAIN rows |-> [rows[k] EXCEPT !.isOn = FALSE]]
  <2> DEFINE new == [k \in DOMAIN rows |-> [rows[k] EXCEPT !.isOn = FALSE]]
  <2>1. HasKey(TRUE) /\ ~HasKey(FALSE) BY <1>2 DEF CanUpdate
  <2>2. new \in [DOMAIN rows -> AutoScalingConfig]
    <3>1. \A c \in AutoScalingConfig : [c EXCEPT !.isOn = FALSE] \in AutoScalingConfig
      BY DEF AutoScalingConfig
    <3> QED BY <3>1, <1>0
  <2>3. /\ new \in Seq(AutoScalingConfig) /\ Len(new) = Len(rows)
        /\ \A k \in DOMAIN rows : new[k] = [rows[k] EXCEPT !.isOn = FALSE]
    BY <2>2, Mapped
  <2>4. rows' = new BY <1>2
  <2> HIDE DEF new
  <2>5. CASE rows = <<>> BY <2>1, <2>5 DEF HasKey
  <2>6. CASE Len(rows) = 1 /\ first = rows[1] /\ first \in AutoScalingConfig
    <3>1. new[1] = [rows[1] EXCEPT !.isOn = FALSE]
      <4>1. 1 \in 1 .. 1 OBVIOUS
      <4> QED BY <4>1, <2>3, <2>6, <1>0
    <3>5. Len(new) = 1 BY <2>3, <2>6
    <3>2. new # <<>> BY <3>5
    <3>3. first' = [first EXCEPT !.isOn = FALSE] BY <2>4, <2>6, <3>1, <3>2 DEF first
    <3>4. Left(new) BY <2>3, <3>5 DEF Left
    <3> QED BY <3>3, <3>4, <2>4, <2>6, NoneAssumption
  <2>7. CASE Len(rows) = 2 /\ rows[1] \in AutoScalingConfig /\ ~rows[1].isOn
    <3>1. rows[1].isOn = FALSE BY <2>7 DEF AutoScalingConfig
    <3>2. Len(rows) >= 1 BY <2>7
    <3>3. HasKey(FALSE) BY <3>1, <3>2, Keys
    <3> QED BY <2>1, <3>3
  <2> QED BY <2>5, <2>6, <2>7, ShapeCases
<1> QED BY <1>1, <1>2 DEF CommitTurnOn

-----------------------------------------------------------------------------
LEMMA StoreInit ==
  ASSUME Init
  PROVE  StoreInv
<1>1. TypeOK BY StartsAssumption DEF Init, TypeOK
<1>2. RowsShape BY DEF Init, RowsShape
<1>3. Fresh BY DEF Init, Fresh
<1> QED BY <1>1, <1>2, <1>3 DEF StoreInv

LEMMA ReadKeeps ==
  ASSUME StoreInv, NEW t \in Thread, NEW view \in {"apply", "turn_on"},
         NEW f \in Forms \cup {None}, view = "apply" <=> f # None, Read(t, view, f)
  PROVE  StoreInv'
<1>1. first \in AutoScalingConfig \cup {None} BY ShapeCases DEF StoreInv
<1>2. first' = first /\ rows' = rows BY DEF Read, first
<1>3. TypeOK'
  <2>1. /\ op' \in [Thread -> {"idle", "apply", "turn_on"}]
        /\ form' \in [Thread -> Forms \cup {None}]
        /\ seen' \in [Thread -> AutoScalingConfig \cup {None}]
        /\ alone' \in [Thread -> BOOLEAN]
    BY <1>1 DEF Read, StoreInv, TypeOK
  <2>2. \A u \in Thread : op'[u] = "apply" <=> form'[u] # None
    BY DEF Read, StoreInv, TypeOK
  <2> QED BY <2>1, <2>2 DEF Read, StoreInv, TypeOK
<1>4. RowsShape' BY <1>2 DEF StoreInv, RowsShape
<1>5. Fresh' BY <1>2 DEF StoreInv, Fresh, Read, TypeOK
<1> QED BY <1>3, <1>4, <1>5 DEF StoreInv

LEMMA DoneKeeps ==
  ASSUME StoreInv, NEW t \in Thread, Left(rows'), Done(t)
  PROVE  StoreInv'
<1>1. TypeOK'
  <2>1. /\ op' \in [Thread -> {"idle", "apply", "turn_on"}]
        /\ form' \in [Thread -> Forms \cup {None}]
        /\ seen' \in [Thread -> AutoScalingConfig \cup {None}]
        /\ alone' \in [Thread -> BOOLEAN]
    BY DEF Done, StoreInv, TypeOK
  <2>2. \A u \in Thread : op'[u] = "apply" <=> form'[u] # None
    BY DEF Done, StoreInv, TypeOK
  <2> QED BY <2>1, <2>2 DEF Done, StoreInv, TypeOK, Left
<1>2. RowsShape' BY DEF Left, RowsShape
<1>3. Fresh'
  <2>1. ASSUME NEW u \in Thread, alone'[u] PROVE seen'[u] = first'
    <3>1. alone[u] /\ u # t /\ rows' = rows BY <2>1 DEF Done
    <3>2. seen'[u] = seen[u] BY <3>1 DEF Done, StoreInv, TypeOK
    <3>3. seen[u] = first BY <3>1 DEF StoreInv, Fresh
    <3>4. first' = first BY <3>1 DEF first
    <3> QED BY <3>2, <3>3, <3>4
  <2> QED BY <2>1 DEF Fresh
<1> QED BY <1>1, <1>2, <1>3 DEF StoreInv

LEMMA StartKeeps ==
  ASSUME StoreInv, NEW S \in {Thread, {}}, StartProcess(S)
  PROVE  StoreInv'
<1>1. TypeOK'
  <2>1. /\ op' \in [Thread -> {"idle", "apply", "turn_on"}]
        /\ form' \in [Thread -> Forms \cup {None}]
        /\ seen' \in [Thread -> AutoScalingConfig \cup {None}]
        /\ alone' \in [Thread -> BOOLEAN]
    BY DEF StartProcess, StoreInv, TypeOK
  <2>2. \A u \in Thread : op'[u] = "apply" <=> form'[u] # None
    BY DEF StartProcess, StoreInv, TypeOK
  <2>3. starts' \in 0 .. MaxStarts BY StartsAssumption DEF StartProcess, StoreInv, TypeOK
  <2>4. rows' \in Seq(AutoScalingConfig) BY DEF StartProcess
  <2> QED BY <2>1, <2>2, <2>3, <2>4 DEF TypeOK
<1>2. RowsShape' BY DEF StartProcess, RowsShape
<1>3. Fresh' BY DEF StartProcess, Fresh
<1> QED BY <1>1, <1>2, <1>3 DEF StoreInv

LEMMA StoreStep ==
  ASSUME StoreInv, [Next]_vars
  PROVE  StoreInv'
<1>1. ASSUME NEW t \in Thread, NEW f \in Forms, ReadApply(t, f) PROVE StoreInv'
  <2>1. f # None BY FormsAssumption, NoneAssumption
  <2> QED BY <1>1, <2>1, ReadKeeps DEF ReadApply
<1>2. ASSUME NEW t \in Thread, ReadTurnOn(t) PROVE StoreInv'
  <2>1. Read(t, "turn_on", None) BY <1>2 DEF ReadTurnOn
  <2>2. "turn_on" = "apply" <=> None # None OBVIOUS
  <2> QED BY <2>1, <2>2, ReadKeeps
<1>3. ASSUME NEW t \in Thread, CommitApply(t) PROVE StoreInv'
  <2>1. Left(rows') BY <1>3, ApplyLeaves DEF StoreInv
  <2> QED BY <1>3, <2>1, DoneKeeps DEF CommitApply
<1>4. ASSUME NEW t \in Thread, CommitTurnOn(t) PROVE StoreInv'
  <2>1. Left(rows') BY <1>4, TurnOnLeaves DEF StoreInv
  <2> QED BY <1>4, <2>1, DoneKeeps DEF CommitTurnOn
<1>5. ASSUME NEW S \in {Thread, {}}, StartProcess(S) PROVE StoreInv'
  BY <1>5, StartKeeps
<1>6. CASE UNCHANGED vars
  <2>1. TypeOK' BY <1>6 DEF vars, StoreInv, TypeOK
  <2>2. RowsShape' /\ Fresh' BY <1>6 DEF vars, StoreInv, RowsShape, Fresh, first
  <2> QED BY <2>1, <2>2 DEF StoreInv
<1> QED BY <1>1, <1>2, <1>3, <1>4, <1>5, <1>6 DEF Next

LEMMA StoreCorrect == Spec => []StoreInv
<1>1. Init => StoreInv BY StoreInit
<1>2. StoreInv /\ [Next]_vars => StoreInv' BY StoreStep
<1> QED BY <1>1, <1>2, PTL DEF Spec

\* The types of the table and of what the views hold of it, for any number of
\* request threads and any forms.
THEOREM StoreTypeCorrect == Spec => []TypeOK
<1>1. StoreInv => TypeOK BY DEF StoreInv
<1> QED BY <1>1, StoreCorrect, PTL

\* The primary key isOn keeps the table to one row, or an off row before an on
\* row, whatever the views do at once (model.py, autoscaling/view.py).
THEOREM RowsShapeCorrect == Spec => []RowsShape
<1>1. StoreInv => RowsShape BY DEF StoreInv
<1> QED BY <1>1, StoreCorrect, PTL

\* The views and the table implement a single register: every step leaves what
\* query.first() returns alone, or is an Apply, a TurnOff or a Clear of it.
THEOREM RegisterCorrect == Spec => RegisterSpec
<1>1. Init => Register!Init BY DEF Init, Register!Init, first
<1>2. ASSUME StoreInv, [Next]_vars PROVE [Register!Next]_first
  <2>0. TypeOK /\ RowsShape BY <1>2 DEF StoreInv
  <2>1. ASSUME NEW t \in Thread, NEW f \in Forms, ReadApply(t, f) PROVE first' = first
    BY <2>1 DEF ReadApply, Read, first
  <2>2. ASSUME NEW t \in Thread, ReadTurnOn(t) PROVE first' = first
    BY <2>2 DEF ReadTurnOn, Read, first
  <2>3. ASSUME NEW t \in Thread, CommitApply(t) PROVE [Register!Next]_first
    <3>1. first' = first \/ (form[t] \in Forms /\ first' = Applied(form[t]))
      BY <2>0, <2>3, ApplyLeaves
    <3> QED BY <3>1 DEF Register!Next, Register!Apply, Register!Applied, Applied
  <2>4. ASSUME NEW t \in Thread, CommitTurnOn(t) PROVE [Register!Next]_first
    <3>1. first' = first \/ (first # None /\ first' = [first EXCEPT !.isOn = FALSE])
      BY <2>0, <2>4, TurnOnLeaves
    <3> QED BY <3>1 DEF Register!Next, Register!TurnOff
  <2>5. ASSUME NEW S \in {Thread, {}}, StartProcess(S) PROVE [Register!Next]_first
    <3>1. first' = None BY <2>5 DEF StartProcess, first
    <3> QED BY <3>1 DEF Register!Next, Register!Clear
  <2>6. CASE UNCHANGED vars BY <2>6 DEF vars, first
  <2> QED BY <1>2, <2>1, <2>2, <2>3, <2>4, <2>5, <2>6 DEF Next
<1> QED BY <1>1, <1>2, StoreCorrect, PTL DEF Spec, RegisterSpec, Register!Spec

\* An apply during which nobody else wrote, on a table of at most one row, is
\* what the auto scaler reads next (autoscaling/view.py).
THEOREM CleanApplyCorrect == Spec => CleanApplyTakesEffect
<1>1. ASSUME StoreInv, NEW t \in Thread, CommitApply(t), alone[t], Len(rows) <= 1
      PROVE  first' = Applied(form[t])
  <2>1. seen[t] = first BY <1>1 DEF StoreInv, Fresh
  <2> QED BY <1>1, <2>1, ApplyLeaves DEF StoreInv
<1>2. StoreInv => \A t \in Thread : CommitApply(t) /\ alone[t] /\ Len(rows) <= 1
                                      => first' = Applied(form[t])
  BY <1>1
<1>3. StoreInv /\ [Next]_vars
        => [\A t \in Thread : CommitApply(t) /\ alone[t] /\ Len(rows) <= 1
                                => first' = Applied(form[t])]_vars
  BY <1>2
<1> QED BY <1>3, StoreCorrect, PTL DEF Spec, CleanApplyTakesEffect

=============================================================================
