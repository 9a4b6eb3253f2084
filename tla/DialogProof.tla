------------------------------ MODULE DialogProof ------------------------------
(***************************************************************************)
(* Theorems about Dialog for any number of panels and any dialogs: the panels  *)
(* exclude each other and tell so, if no listener keeps a panel from hiding,   *)
(* and the dialog leaves the page as it was.                                   *)
(***************************************************************************)
EXTENDS Dialog, WellFoundedInduction, TLAPS

\* A set of panels that is not empty has a first one.
LEMMA FirstIsIn ==
  ASSUME NEW S \in SUBSET Body!Panels, S # {}
  PROVE  Body!First(S) \in S
  <1>1. S \subseteq Nat
        BY PartsAssumption DEF Body!Panels, Body!Assumptions
  <1>2. PICK x \in S : \A y \in S : ~(<<y, x>> \in OpToRel(<, Nat))
        BY <1>1, NatLessThanWellFounded, WFMin
  <1>3. \A y \in S : ~(y < x)
        BY <1>1, <1>2, Zenon DEF OpToRel
  <1>4. \A y \in S : x <= y
        BY <1>1, <1>3
  <1> QED  BY <1>4 DEF Body!First

\* Nothing is panel 0.
LEMMA NoPanelZero == 0 \notin Body!Panels
  BY PartsAssumption DEF Body!Panels, Body!Assumptions

-----------------------------------------------------------------------------
(* The panels                                                                *)

\* A panel with an instance is busy while its callbacks wait; one without may move too, but
\* nobody is called then.  A panel in motion is not open, and either opens or closes.
Panelled(p) ==
  /\ instance[p] # "alone"
  /\ busy[p] => pending[p] # {} /\ instance[p] # "none"
  /\ instance[p] # "none" /\ pending[p] # {} => busy[p]
  /\ pending[p] # {} => ~open[p] /\ support
  /\ pending[p] \in {{}, {"shown"}, {"hidden"}}

Exclusive == \A p, q \in Body!Panels : Body!Opening(p) /\ Body!Opening(q) => p = q

\* The group as long as no panel in motion was passed over.
Orderly == Exclusive /\ \A p \in Body!Panels : Panelled(p)

\* What a trigger announces opens, or is open; and the other way round.
NoneFalse == \A p \in Body!Panels : expanded[p] => Body!Opening(p)
AllTold   == \A p \in Body!Panels : Body!Opening(p) => expanded[p]

BInv ==
  /\ Body!TypeOK /\ NoneFalse
  /\ "unasked" \notin rushed => Orderly
  /\ rushed = {} => AllTold

\* Whoever moves can be asked.
Asked == \A q \in Body!Panels : pending[q] # {} => instance[q] # "none"

LEMMA NotRushed ==
  ASSUME NEW whys \in {Body!Unasked, Body!Unasked \union Body!Rebuilt}, Body!Rush(whys),
         "unasked" \notin rushed'
  PROVE  "unasked" \notin rushed /\ Asked
  <1>1. "unasked" \notin rushed /\ "unasked" \notin Body!Unasked
        BY DEF Body!Rush
  <1>2. ASSUME NEW q \in Body!Panels, pending[q] # {}, instance[q] = "none" PROVE FALSE
        BY <1>1, <1>2 DEF Body!Unasked
  <1> QED  BY <1>1, <1>2 DEF Asked

\* A panel can be opened only if none is being opened, and it rests itself.
LEMMA NoneOpens ==
  ASSUME Orderly, Asked, NEW p \in Body!Panels, Body!MayShow(p),
         ~Body!Blocked(Body!Actives, instance)
  PROVE  /\ pending[p] = {} /\ \A q \in Body!Panels : "shown" \notin pending[q]
         /\ Body!Actives # {} => open[Body!First(Body!Actives)]
  <1> DEFINE first == Body!First(Body!Actives)
  <1>1. pending[p] = {}
        BY DEF Orderly, Panelled, Asked, Body!MayShow
  <1>2. ASSUME Body!Actives # {}
        PROVE  first \in Body!Panels /\ pending[first] = {} /\ open[first]
    <2>1. Body!Actives \in SUBSET Body!Panels
          BY DEF Body!Actives
    <2>2. first \in Body!Actives /\ first \in Body!Panels
          BY <1>2, <2>1, FirstIsIn
    <2>3. instance[first] = "none" \/ ~busy[first]
          BY <1>2 DEF Body!Blocked
    <2>4. pending[first] = {}
          BY <2>2, <2>3 DEF Orderly, Panelled, Asked
    <2> QED  BY <2>2, <2>4 DEF Body!Actives
  <1>3. ASSUME NEW q \in Body!Panels, "shown" \in pending[q] PROVE FALSE
    <2>1. q \in Body!Actives
          BY <1>3 DEF Body!Actives
    <2>2. first \in Body!Panels /\ pending[first] = {} /\ open[first]
          BY <1>2, <2>1
    <2> HIDE DEF first
    <2>3. q = first
          BY <1>3, <2>2 DEF Orderly, Exclusive, Body!Opening
    <2> QED  BY <1>3, <2>2, <2>3
  <1> QED  BY <1>1, <1>2, <1>3

\* Opening a panel for a group: the one that is open, if any, closes.
LEMMA ShowKeeps ==
  ASSUME "hide" \notin Vetoes, Orderly, NoneFalse, Asked, NEW p \in Body!Panels,
         NEW built \in {{}, Body!Panels},
         NEW stored \in {"none", "grouped"}, stored = "none" => instance[p] = "grouped",
         Body!Show(p, "grouped", instance, built, stored)
  PROVE  Orderly' /\ AllTold'
  <1> DEFINE actives == Body!Actives
             dropped == IF actives = {} \/ instance[Body!First(actives)] # "none"
                          THEN {} ELSE actives
             made    == {q \in actives : instance[q] = "none"}
             hiding  == {q \in Body!Panels : open[q]}
  <1>1. /\ Body!MayShow(p) /\ ~Body!Blocked(actives, instance)
        /\ actives \subseteq Body!Panels
        BY DEF Body!Show, Body!Actives
  <1>2. /\ pending[p] = {} /\ \A q \in Body!Panels : "shown" \notin pending[q]
        /\ actives # {} => open[Body!First(actives)]
        BY <1>1, NoneOpens
  <1>3. ~open[p] /\ ~busy[p] /\ p \notin actives
        BY <1>1, <1>2 DEF Body!MayShow, Body!Actives
  <1>4. {q \in actives : Body!MayHide(q)} = hiding
        BY DEF Orderly, Panelled, Body!MayHide, Body!Actives
  \* Who has no instance and gets one for the call loses it again.
  <1>5. made \subseteq dropped
    <2> SUFFICES ASSUME NEW q \in made PROVE q \in dropped
        OBVIOUS
    <2> DEFINE first == Body!First(actives)
    <2>1. q \in actives /\ q \in Body!Panels /\ instance[q] = "none"
          BY <1>1
    <2>2. open[q]
          BY <2>1 DEF Asked, Body!Actives
    <2>3. first \in Body!Panels /\ open[first]
          BY <1>1, <1>2, <2>1, FirstIsIn
    <2>4. first = q
          BY <2>1, <2>2, <2>3 DEF Orderly, Exclusive, Body!Opening
    <2> QED  BY <2>1, <2>4
  <1>6. /\ expanded' = Body!Expanded(p, hiding, built \union made)
        /\ Body!Instances([q \in Body!Panels |->
                             CASE q = p /\ stored # "none" -> stored
                               [] q \in dropped           -> "none"
                               [] q \in made \ dropped    -> "alone"
                               [] OTHER                   -> instance[q]], {p} \union hiding)
        /\ Body!Move(p, hiding)
        BY <1>4 DEF Body!Show, Body!Prevented
  <1>7. \A q \in Body!Panels :
          instance'[q] = IF q = p THEN "grouped" ELSE IF q \in dropped THEN "none"
                                                                     ELSE instance[q]
        BY <1>3, <1>5, <1>6 DEF Body!Instances
  <1>8. /\ support' = support
        /\ \A q \in Body!Panels :
             /\ open'[q] <=> (q = p /\ ~support)
             /\ pending'[q] = IF ~support THEN pending[q]
                              ELSE IF q = p THEN {"shown"}
                              ELSE IF open[q] THEN {"hidden"} ELSE pending[q]
    <2>1. \A q \in Body!Panels : open[q] => pending[q] = {}
          BY DEF Orderly, Panelled
    <2> QED  BY <1>2, <1>3, <1>6, <2>1 DEF Body!Move
  <1>9. expanded'[p]
        BY <1>6 DEF Body!Expanded
  <1>10. \A q \in Body!Panels :
           busy'[q] <=> /\ instance'[q] # "none"
                        /\ busy[q] \/ (support /\ (q = p \/ open[q]))
         BY <1>6 DEF Body!Instances
  <1> HIDE DEF dropped, made, actives
  <1>12. \A q \in Body!Panels : Body!Opening(q)' <=> q = p
         BY <1>2, <1>8 DEF Body!Opening
  <1>13. Exclusive' /\ AllTold'
         BY <1>9, <1>12 DEF Exclusive, AllTold
  <1>14. ASSUME NEW q \in Body!Panels PROVE Panelled(q)'
    <2>1. CASE q = p
          BY <1>2, <1>3, <1>7, <1>8, <1>10, <2>1 DEF Panelled
    <2>2. CASE q # p /\ open[q]
          BY <1>7, <1>8, <1>10, <2>2 DEF Panelled, Orderly
    <2>3. CASE q # p /\ ~open[q]
          BY <1>7, <1>8, <1>10, <2>3 DEF Panelled, Orderly
    <2> QED  BY <2>1, <2>2, <2>3
  <1> QED  BY <1>13, <1>14 DEF Orderly

\* Closing the panel that is open.
LEMMA HideKeeps ==
  ASSUME Orderly, NEW p \in Body!Panels, NEW built \in {{}, Body!Panels},
         NEW insts \in [Body!Panels -> {"none", "grouped"}], insts[p] = "grouped",
         \A q \in Body!Panels : q # p => insts[q] = instance[q],
         Body!Hide(p, insts, built)
  PROVE  Orderly' /\ AllTold'
  <1>1. open[p] /\ ~busy[p] /\ pending[p] = {}
        BY DEF Body!Hide, Body!MayHide, Orderly, Panelled
  <1>2. \A q \in Body!Panels : q # p => ~Body!Opening(q)
        BY <1>1 DEF Orderly, Exclusive, Body!Opening
  <1>3. /\ support' = support
        /\ \A q \in Body!Panels :
             /\ ~open'[q]
             /\ pending'[q] = IF support /\ q = p THEN {"hidden"} ELSE pending[q]
        BY <1>1, <1>2, NoPanelZero DEF Body!Hide, Body!Move, Body!Opening
  <1>5. /\ instance' = insts
        /\ \A q \in Body!Panels : busy'[q] <=> insts[q] # "none" /\ (busy[q] \/ (support /\ q = p))
        BY DEF Body!Hide, Body!Instances
  <1>7. \A q \in Body!Panels : ~Body!Opening(q)'
        BY <1>1, <1>2, <1>3 DEF Body!Opening
  <1>8. Exclusive' /\ AllTold'
        BY <1>7 DEF Exclusive, AllTold
  <1>9. ASSUME NEW q \in Body!Panels PROVE Panelled(q)'
        BY <1>1, <1>3, <1>5 DEF Panelled, Orderly
  <1> QED  BY <1>8, <1>9 DEF Orderly

\* A constructor that leads to no call.
LEMMA BuildKeeps ==
  ASSUME Body!TypeOK, Orderly, Asked, NEW p \in Body!Panels, instance[p] = "none",
         Body!Build(Body!Panels, Body!With(p, "grouped"))
  PROVE  Orderly' /\ (Body!Rebuilt = {} => AllTold')
  <1>1. UNCHANGED <<support, open, pending>>
        BY DEF Body!Build
  <1>2. \A q \in Body!Panels : expanded'[q] <=> open[q]
        BY NoPanelZero DEF Body!Build, Body!Expanded
  <1>3. \A q \in Body!Panels : /\ instance'[q] = IF q = p THEN "grouped" ELSE instance[q]
                               /\ busy'[q] <=> instance'[q] # "none" /\ busy[q]
        BY DEF Body!Build, Body!Instances, Body!With, Body!TypeOK
  <1>4. \A q \in Body!Panels : Body!Opening(q)' <=> Body!Opening(q)
        BY <1>1 DEF Body!Opening
  <1>5. Exclusive'
        BY <1>4 DEF Orderly, Exclusive
  <1>6. ASSUME Body!Rebuilt = {} PROVE AllTold'
    <2>1. \A q \in Body!Panels : "shown" \notin pending[q]
          BY <1>6 DEF Body!Rebuilt
    <2>2. \A q \in Body!Panels : Body!Opening(q)' => open[q]
          BY <1>4, <2>1 DEF Body!Opening
    <2> QED  BY <1>2, <2>2 DEF AllTold
  <1>7. ASSUME NEW q \in Body!Panels PROVE Panelled(q)'
        BY <1>1, <1>3 DEF Panelled, Orderly, Asked
  <1> QED  BY <1>5, <1>6, <1>7 DEF Orderly

\* The end of a motion.
LEMMA EndKeeps ==
  ASSUME Body!TypeOK, NEW p \in Body!Panels, Body!End(p)
  PROVE  /\ Orderly => Orderly'
         /\ NoneFalse => NoneFalse'
         /\ AllTold => AllTold'
  <1>1. /\ UNCHANGED <<support, expanded, instance>>
        /\ \A q \in Body!Panels :
             /\ open'[q] <=> open[q] \/ (q = p /\ "shown" \in pending[p])
             /\ pending'[q] = IF q = p THEN {} ELSE pending[q]
             /\ busy'[q] <=> busy[q] /\ q # p
        BY DEF Body!End, Body!TypeOK
  <1>3. \A q \in Body!Panels : Body!Opening(q)' <=> Body!Opening(q)
        BY <1>1 DEF Body!Opening
  <1>4. /\ Exclusive => Exclusive'
        /\ NoneFalse => NoneFalse'
        /\ AllTold => AllTold'
        BY <1>1, <1>3 DEF Exclusive, NoneFalse, AllTold
  <1>5. ASSUME Orderly, NEW q \in Body!Panels PROVE Panelled(q)'
        BY <1>1, <1>5 DEF Orderly, Panelled
  <1> QED  BY <1>4, <1>5 DEF Orderly

\* What opens is announced and what is announced opens, whatever the group is like.
LEMMA MoveTells ==
  ASSUME Body!TypeOK, NoneFalse, NEW showing, NEW hiding, NEW built,
         expanded' = Body!Expanded(showing, hiding, built), Body!Move(showing, hiding)
  PROVE  NoneFalse'
  <1> SUFFICES ASSUME NEW q \in Body!Panels, expanded'[q] PROVE Body!Opening(q)'
      BY DEF NoneFalse
  <1>1. /\ open'[q] <=> (open[q] /\ q \notin hiding) \/ (q = showing /\ ~support)
        /\ pending[q] \subseteq pending'[q]
        /\ support /\ q = showing => "shown" \in pending'[q]
        BY DEF Body!Move
  <1>2. q = showing \/ (q \notin hiding /\ (open[q] \/ expanded[q]))
        BY DEF Body!Expanded
  <1>3. CASE q = showing
        BY <1>1, <1>3 DEF Body!Opening
  <1>4. CASE q \notin hiding /\ (open[q] \/ expanded[q])
        BY <1>1, <1>4 DEF NoneFalse, Body!Opening
  <1> QED  BY <1>2, <1>3, <1>4

LEMMA MoveTyped ==
  ASSUME Body!TypeOK, NEW showing, NEW hiding, Body!Move(showing, hiding)
  PROVE  /\ support' \in BOOLEAN /\ open' \in [Body!Panels -> BOOLEAN]
         /\ pending' \in [Body!Panels -> SUBSET {"shown", "hidden"}]
  BY DEF Body!Move, Body!TypeOK

LEMMA InstancesTyped ==
  ASSUME NEW insts \in [Body!Panels -> {"none", "alone", "grouped"}], NEW moving,
         Body!Instances(insts, moving)
  PROVE  /\ instance' \in [Body!Panels -> {"none", "alone", "grouped"}]
         /\ busy' \in [Body!Panels -> BOOLEAN]
  BY DEF Body!Instances

\* A call leaves every variable but the history in its type, and every announcement true.
Typed ==
  /\ support' \in BOOLEAN
  /\ open' \in [Body!Panels -> BOOLEAN] /\ expanded' \in [Body!Panels -> BOOLEAN]
  /\ instance' \in [Body!Panels -> {"none", "alone", "grouped"}]
  /\ busy' \in [Body!Panels -> BOOLEAN]
  /\ pending' \in [Body!Panels -> SUBSET {"shown", "hidden"}]

LEMMA ShowTyped ==
  ASSUME Body!TypeOK, NoneFalse, NEW p \in Body!Panels, NEW kind, NEW built,
         NEW stored \in {"none", "grouped"}, Body!Show(p, kind, instance, built, stored)
  PROVE  Typed /\ NoneFalse'
  <1> DEFINE actives == IF kind = "grouped" THEN Body!Actives ELSE {}
             dropped == IF actives = {} \/ instance[Body!First(actives)] # "none"
                          THEN {} ELSE actives
             made    == {q \in actives : instance[q] = "none"}
             insts   == [q \in Body!Panels |->
                           CASE q = p /\ stored # "none" -> stored
                             [] q \in dropped           -> "none"
                             [] q \in made \ dropped    -> "alone"
                             [] OTHER                   -> instance[q]]
  <1>1. PICK hiding : /\ expanded' = Body!Expanded(p, hiding, built \union made)
                      /\ Body!Instances(insts, {p} \union hiding)
                      /\ Body!Move(p, hiding)
        BY Zenon DEF Body!Show
  <1>2. insts \in [Body!Panels -> {"none", "alone", "grouped"}]
        BY DEF Body!TypeOK
  <1> HIDE DEF insts, made, dropped
  <1>3. expanded' \in [Body!Panels -> BOOLEAN]
    <2>1. \A q \in Body!Panels : open[q] \in BOOLEAN /\ expanded[q] \in BOOLEAN
          BY DEF Body!TypeOK
    <2> QED  BY <1>1, <2>1 DEF Body!Expanded
  <1> QED  BY <1>1, <1>2, <1>3, MoveTells, MoveTyped, InstancesTyped DEF Typed

LEMMA HideTyped ==
  ASSUME Body!TypeOK, NoneFalse, NEW p \in Body!Panels, NEW built,
         NEW insts \in [Body!Panels -> {"none", "alone", "grouped"}],
         Body!Hide(p, insts, built)
  PROVE  Typed /\ NoneFalse'
  <1>1. /\ expanded' = Body!Expanded(0, {p}, built)
        /\ Body!Instances(insts, {p}) /\ Body!Move(0, {p})
        BY DEF Body!Hide
  <1>2. expanded' \in [Body!Panels -> BOOLEAN]
        BY <1>1 DEF Body!Expanded, Body!TypeOK
  <1> QED  BY <1>1, <1>2, MoveTells, MoveTyped, InstancesTyped DEF Typed

LEMMA BuildTyped ==
  ASSUME Body!TypeOK, NEW insts \in [Body!Panels -> {"none", "alone", "grouped"}],
         Body!Build(Body!Panels, insts)
  PROVE  Typed /\ NoneFalse'
  <1>1. UNCHANGED <<support, open, pending>>
        BY DEF Body!Build
  <1>2. expanded' \in [Body!Panels -> BOOLEAN]
           /\ \A q \in Body!Panels : expanded'[q] <=> open[q]
        BY NoPanelZero DEF Body!Build, Body!Expanded, Body!TypeOK
  <1>3. /\ instance' \in [Body!Panels -> {"none", "alone", "grouped"}]
        /\ busy' \in [Body!Panels -> BOOLEAN]
        BY InstancesTyped DEF Body!Build
  <1>4. NoneFalse'
        BY <1>1, <1>2 DEF NoneFalse, Body!Opening
  <1> QED  BY <1>1, <1>2, <1>3, <1>4 DEF Typed, Body!TypeOK

\* No other step touches the panels.
LEMMA BodySteps == [Next]_vars => [Body!Next]_(Body!vars)
  <1> SUFFICES ASSUME [Next]_vars PROVE [Body!Next]_(Body!vars)
      OBVIOUS
  <1>1. CASE WindowStep \/ UNCHANGED vars
        BY <1>1 DEF WindowStep, vars, bodyVars, Body!vars
  <1>2. ASSUME NEW p \in Body!Panels, Click(p) \/ Setup(p) \/ PanelEnds(p) PROVE Body!Next
        BY <1>2 DEF Click, Setup, PanelEnds, Body!Next
  <1> QED  BY <1>1, <1>2 DEF Next

\* The parts of the invariant that hold for every page and every click.
LEMMA BodyTyped ==
  ASSUME Body!TypeOK, NoneFalse, [Body!Next]_(Body!vars)
  PROVE  Body!TypeOK' /\ NoneFalse'
  <1>1. \A p \in Body!Panels : Body!With(p, "grouped") \in [Body!Panels -> {"none", "alone", "grouped"}]
        BY DEF Body!With, Body!TypeOK
  <1>2. Typed /\ rushed' \subseteq {"unasked", "rebuilt"} => Body!TypeOK'
        BY DEF Typed, Body!TypeOK
  <1>3. rushed \subseteq {"unasked", "rebuilt"}
           /\ instance \in [Body!Panels -> {"none", "alone", "grouped"}]
        BY DEF Body!TypeOK
  <1>4. ASSUME Body!Rush(Body!Unasked) \/ Body!Rush(Body!Unasked \union Body!Rebuilt) \/ UNCHANGED rushed
        PROVE  rushed' \subseteq {"unasked", "rebuilt"}
        BY <1>3, <1>4 DEF Body!Rush, Body!Unasked, Body!Rebuilt
  <1>5. ASSUME NEW p \in Body!Panels, Body!ClickAgain(p) PROVE Typed /\ NoneFalse'
        BY <1>3, <1>5, ShowTyped, HideTyped DEF Body!ClickAgain
  <1>6. ASSUME NEW p \in Body!Panels, Body!ClickFirst(p) \/ Body!Setup(p)
        PROVE  Typed /\ NoneFalse'
        BY <1>1, <1>6, ShowTyped, HideTyped, BuildTyped DEF Body!ClickFirst, Body!Setup
  <1>7. ASSUME NEW p \in Body!Panels, Body!End(p) PROVE Typed /\ NoneFalse'
    <2>1. open' \in [Body!Panels -> BOOLEAN] /\ busy' \in [Body!Panels -> BOOLEAN]
          BY <1>7 DEF Body!End, Body!TypeOK
    <2>2. pending' \in [Body!Panels -> SUBSET {"shown", "hidden"}]
          BY <1>7 DEF Body!End, Body!TypeOK
    <2>3. UNCHANGED <<support, expanded, instance>>
          BY <1>7 DEF Body!End
    <2> QED  BY <1>7, <2>1, <2>2, <2>3, EndKeeps DEF Typed, Body!TypeOK
  <1>8. ASSUME NEW p \in Body!Panels,
               Body!ClickAgain(p) \/ Body!ClickFirst(p) \/ Body!Setup(p) \/ Body!End(p)
        PROVE  rushed' \subseteq {"unasked", "rebuilt"}
        BY <1>4, <1>8 DEF Body!ClickAgain, Body!ClickFirst, Body!Setup, Body!End
  <1>9. CASE UNCHANGED Body!vars
        BY <1>9 DEF Body!vars, Body!TypeOK, NoneFalse, Body!Opening
  <1> QED  BY <1>2, <1>5, <1>6, <1>7, <1>8, <1>9 DEF Body!Next

\* No call ends the history.
LEMMA RushedGrows ==
  ASSUME [Body!Next]_(Body!vars)
  PROVE  rushed \subseteq rushed'
  BY DEF Body!Next, Body!vars, Body!ClickAgain, Body!ClickFirst, Body!Setup, Body!End, Body!Rush

\* Those that hold until a panel in motion is passed over.
LEMMA BodyOrderly ==
  ASSUME "hide" \notin Vetoes, BInv, [Body!Next]_(Body!vars), "unasked" \notin rushed'
  PROVE  Orderly' /\ (rushed' = {} => AllTold')
  <1>1. Orderly /\ Body!TypeOK /\ NoneFalse /\ (rushed' = {} => AllTold)
        BY RushedGrows DEF BInv
  <1>2. instance \in [Body!Panels -> {"none", "grouped"}]
        BY <1>1 DEF Orderly, Panelled, Body!TypeOK
  <1>3. ASSUME NEW p \in Body!Panels, Body!ClickAgain(p) PROVE Orderly' /\ AllTold'
    <2>1. instance[p] = "grouped"
          BY <1>2, <1>3 DEF Body!ClickAgain
    <2>2. CASE Body!Show(p, "grouped", instance, {}, "none") /\ Body!Rush(Body!Unasked)
      <3>1. Asked
            BY <2>2, NotRushed
      <3> QED  BY <1>1, <2>1, <2>2, <3>1, ShowKeeps
    <2>3. CASE Body!Hide(p, instance, {})
          BY <1>1, <1>2, <2>1, <2>3, HideKeeps
    <2> QED  BY <1>3, <2>1, <2>2, <2>3 DEF Body!ClickAgain
  <1>4. ASSUME NEW p \in Body!Panels, Body!ClickFirst(p) \/ Body!Setup(p)
        PROVE  Orderly' /\ (rushed' = {} => AllTold')
    <2>1. instance[p] = "none" /\ Body!Rush(Body!Unasked \union Body!Rebuilt)
          BY <1>4 DEF Body!ClickFirst, Body!Setup
    <2>2. Asked
          BY <2>1, NotRushed
    <2>3. CASE Body!Show(p, "grouped", instance, Body!Panels, "grouped")
          BY <1>1, <2>2, <2>3, ShowKeeps
    <2>4. CASE Body!Hide(p, Body!With(p, "grouped"), Body!Panels)
      <3> DEFINE insts == Body!With(p, "grouped")
      <3>1. insts \in [Body!Panels -> {"none", "grouped"}] /\ insts[p] = "grouped"
               /\ \A q \in Body!Panels : q # p => insts[q] = instance[q]
            BY <1>2 DEF Body!With
      <3> HIDE DEF insts
      <3> QED  BY <1>1, <2>4, <3>1, HideKeeps DEF insts
    <2>5. CASE Body!Build(Body!Panels, Body!With(p, "grouped"))
      <3>1. rushed' = {} => Body!Rebuilt = {}
            BY <2>1 DEF Body!Rush
      <3> QED  BY <1>1, <2>1, <2>2, <2>5, <3>1, BuildKeeps
    <2> QED  BY <1>4, <2>3, <2>4, <2>5 DEF Body!ClickFirst, Body!Setup
  <1>5. ASSUME NEW p \in Body!Panels, Body!End(p) PROVE Orderly' /\ (rushed' = {} => AllTold')
        BY <1>1, <1>5, EndKeeps
  <1>6. CASE UNCHANGED Body!vars
    <2>1. \A p \in Body!Panels : (Panelled(p)' <=> Panelled(p)) /\ (Body!Opening(p)' <=> Body!Opening(p))
          BY <1>6 DEF Body!vars, Panelled, Body!Opening
    <2> QED  BY <1>1, <1>6, <2>1 DEF Body!vars, Orderly, Exclusive, AllTold
  <1> QED  BY <1>3, <1>4, <1>5, <1>6 DEF Body!Next

LEMMA BodyNext ==
  ASSUME "hide" \notin Vetoes, BInv, [Body!Next]_(Body!vars)
  PROVE  BInv'
  <1>1. Body!TypeOK' /\ NoneFalse'
        BY BodyTyped DEF BInv
  <1> QED  BY <1>1, BodyOrderly DEF BInv

LEMMA InitBInv == Init => BInv
  <1> SUFFICES ASSUME Init PROVE BInv
      OBVIOUS
  <1>1. Body!Init
        BY DEF Init
  <1>2. PICK first \in Body!Panels \union {0} : open = [p \in Body!Panels |-> p = first]
        BY <1>1 DEF Body!Init
  <1>3. Body!TypeOK
        BY <1>1, <1>2 DEF Body!Init, Body!TypeOK
  <1>4. \A p \in Body!Panels : pending[p] = {} /\ ~busy[p] /\ (open[p] <=> p = first)
        BY <1>1, <1>2 DEF Body!Init
  <1>5. Exclusive
        BY <1>4 DEF Exclusive, Body!Opening
  <1>6. ASSUME NEW p \in Body!Panels PROVE Panelled(p)
        BY <1>1, <1>4 DEF Panelled, Body!Init
  <1>7. NoneFalse /\ AllTold
        BY <1>1, <1>4 DEF Body!Init, NoneFalse, AllTold, Body!Opening
  <1> QED  BY <1>3, <1>5, <1>6, <1>7 DEF BInv, Orderly

\* At most one panel of the group is open or opening (Collapse.show), in whatever order the
\* triggers are clicked, the transitions end and the dialog comes and goes, until a panel in
\* motion is passed over; for any number of panels, if no listener keeps a panel from hiding.
THEOREM OnlyOneOpen ==
  ASSUME "hide" \notin Vetoes
  PROVE  Spec => []OneOpen
  <1>1. BInv /\ [Next]_vars => BInv'
        BY BodySteps, BodyNext
  <1>2. BInv => OneOpen
        BY DEF BInv, Orderly, Exclusive, OneOpen, Body!OneOpen
  <1> QED  BY InitBInv, <1>1, <1>2, PTL DEF Spec

\* The triggers announce no panel that is closed or closing, and the one that is open or
\* opening unless a constructor ran while one was opening (getParent and
\* addAriaAndCollapsedClass); under the same assumption.
THEOREM TriggersTruthful ==
  ASSUME "hide" \notin Vetoes
  PROVE  Spec => []AriaTruthful
  <1>1. BInv /\ [Next]_vars => BInv'
        BY BodySteps, BodyNext
  <1>2. BInv => AriaTruthful
        BY DEF BInv, NoneFalse, AllTold, AriaTruthful, Body!AriaTruthful
  <1> QED  BY InitBInv, <1>1, <1>2, PTL DEF Spec

-----------------------------------------------------------------------------
(* A panel as a Disclosure                                                   *)

Panel(p) == INSTANCE Disclosure WITH phase <- Body!Phase(p), Interruptible <- FALSE

PanelGoes(p) == Panel(p)!Next \/ UNCHANGED Body!Phase(p)

\* A panel at rest is open or closed; one in motion opens or closes.
LEMMA PhaseIs ==
  ASSUME NEW p \in Body!Panels
  PROVE  /\ pending[p] = {} => Body!Phase(p) = IF open[p] THEN "open" ELSE "closed"
         /\ pending[p] = {"shown"} => Body!Phase(p) = "opening"
         /\ pending[p] = {"hidden"} => Body!Phase(p) = "closing"
  <1>1. {"shown"} # {"hidden"} /\ "shown" \notin {"hidden"} /\ {} # {"hidden"}
        OBVIOUS
  <1> QED  BY <1>1 DEF Body!Phase

\* Motions begin from rest: one that opens where the panel is closed, one that closes where
\* it is open.
LEMMA MoveGoes ==
  ASSUME Orderly, NEW showing, NEW hiding, Body!Move(showing, hiding),
         showing \in Body!Panels => ~open[showing] /\ pending[showing] = {},
         \A q \in hiding : open[q], NEW p \in Body!Panels
  PROVE  PanelGoes(p)
  <1>1. /\ open'[p] <=> (open[p] /\ p \notin hiding) \/ (p = showing /\ ~support)
        /\ pending'[p] = pending[p] \union (IF support /\ p = showing THEN {"shown"} ELSE {})
                                    \union (IF support /\ p \in hiding THEN {"hidden"} ELSE {})
        BY DEF Body!Move
  <1>2. CASE p = showing
    <2>1. Body!Phase(p) = "closed"
          BY <1>2, PhaseIs
    <2>2. pending'[p] = (IF support THEN {"shown"} ELSE {}) /\ (support \/ open'[p])
          BY <1>1, <1>2
    <2>3. Body!Phase(p)' \in {"opening", "open"}
          BY <2>2 DEF Body!Phase
    <2> QED  BY <2>1, <2>3 DEF PanelGoes, Panel!Next, Panel!Open
  <1>3. CASE p # showing /\ p \in hiding
    <2>1. open[p] /\ pending[p] = {}
          BY <1>3 DEF Orderly, Panelled
    <2>2. Body!Phase(p) = "open"
          BY <2>1, PhaseIs
    <2>3. pending'[p] = (IF support THEN {"hidden"} ELSE {}) /\ ~open'[p]
          BY <1>1, <1>3, <2>1
    <2>4. Body!Phase(p)' \in {"closing", "closed"}
          BY <2>3 DEF Body!Phase
    <2> QED  BY <2>2, <2>4 DEF PanelGoes, Panel!Next, Panel!Close
  <1>4. CASE p # showing /\ p \notin hiding
    <2>1. (open'[p] <=> open[p]) /\ pending'[p] = pending[p]
          BY <1>1, <1>4
    <2> QED  BY <2>1 DEF PanelGoes, Body!Phase
  <1> QED  BY <1>2, <1>3, <1>4

LEMMA EndGoes ==
  ASSUME Body!TypeOK, Orderly, NEW q \in Body!Panels, Body!End(q), NEW p \in Body!Panels
  PROVE  PanelGoes(p)
  <1>1. /\ open'[p] <=> open[p] \/ (p = q /\ "shown" \in pending[q])
        /\ pending'[p] = IF p = q THEN {} ELSE pending[p]
        BY DEF Body!End, Body!TypeOK
  <1>2. CASE p # q
        BY <1>1, <1>2 DEF PanelGoes, Body!Phase
  <1>3. CASE p = q /\ pending[p] = {"shown"}
    <2>1. Body!Phase(p) = "opening" /\ Body!Phase(p)' = "open"
          BY <1>1, <1>3 DEF Body!Phase
    <2> QED  BY <2>1 DEF PanelGoes, Panel!Next, Panel!Settle, Panel!Opened
  <1>4. CASE p = q /\ pending[p] = {"hidden"}
    <2>1. ~open'[p] /\ pending'[p] = {}
          BY <1>1, <1>4 DEF Orderly, Panelled
    <2>2. Body!Phase(p) = "closing" /\ Body!Phase(p)' = "closed"
          BY <1>4, <2>1, PhaseIs DEF Body!Phase
    <2> QED  BY <2>2 DEF PanelGoes, Panel!Next, Panel!Settle, Panel!Closed
  <1>5. pending[q] # {}
        BY DEF Body!End
  <1> QED  BY <1>2, <1>3, <1>4, <1>5 DEF Orderly, Panelled

LEMMA PanelSteps ==
  ASSUME BInv, [Body!Next]_(Body!vars), "unasked" \notin rushed', NEW p \in Body!Panels
  PROVE  PanelGoes(p)
  <1>1. Orderly /\ Body!TypeOK
        BY RushedGrows DEF BInv
  <1>2. ASSUME NEW q \in Body!Panels, NEW built, NEW stored, Asked,
               Body!Show(q, "grouped", instance, built, stored)
        PROVE  PanelGoes(p)
    <2>1. Body!MayShow(q) /\ ~Body!Blocked(Body!Actives, instance)
          BY <1>2 DEF Body!Show
    <2>2. ~open[q] /\ pending[q] = {}
          BY <1>1, <1>2, <2>1, NoneOpens DEF Body!MayShow
    <2>3. \E spared \in Body!Prevented("hide", {r \in Body!Actives : Body!MayHide(r)}) :
            Body!Move(q, {r \in Body!Actives : Body!MayHide(r)} \ spared)
          BY <1>2 DEF Body!Show
    <2>4. PICK hiding : /\ hiding \subseteq {r \in Body!Actives : Body!MayHide(r)}
                        /\ Body!Move(q, hiding)
          BY <2>3
    <2>5. \A r \in hiding : open[r]
          BY <2>4 DEF Body!MayHide
    <2> QED  BY <1>1, <2>2, <2>4, <2>5, MoveGoes
  <1>3. ASSUME NEW q \in Body!Panels, NEW insts, NEW built, Body!Hide(q, insts, built)
        PROVE  PanelGoes(p)
    <2>1. Body!Move(0, {q}) /\ \A r \in {q} : open[r]
          BY <1>3 DEF Body!Hide, Body!MayHide
    <2> QED  BY <1>1, <2>1, NoPanelZero, MoveGoes
  <1>4. ASSUME UNCHANGED <<open, pending>> PROVE PanelGoes(p)
        BY <1>4 DEF PanelGoes, Body!Phase
  <1>5. ASSUME NEW q \in Body!Panels, Body!ClickAgain(q) PROVE PanelGoes(p)
    <2>1. instance[q] = "grouped"
          BY <1>1, <1>5 DEF Body!ClickAgain, Orderly, Body!TypeOK, Panelled
    <2>2. Body!Rush(Body!Unasked) => Asked
          BY NotRushed
    <2> QED  BY <1>2, <1>3, <1>5, <2>1, <2>2 DEF Body!ClickAgain
  <1>6. ASSUME NEW q \in Body!Panels, Body!ClickFirst(q) PROVE PanelGoes(p)
    <2>1. Asked
          BY <1>6, NotRushed DEF Body!ClickFirst
    <2> QED  BY <1>2, <1>3, <1>4, <1>6, <2>1 DEF Body!ClickFirst, Body!Build
  <1>7. ASSUME NEW q \in Body!Panels, Body!Setup(q) PROVE PanelGoes(p)
        BY <1>4, <1>7 DEF Body!Setup, Body!Build
  <1>8. ASSUME NEW q \in Body!Panels, Body!End(q) PROVE PanelGoes(p)
        BY <1>1, <1>8, EndGoes
  <1>9. CASE UNCHANGED Body!vars
        BY <1>4, <1>9 DEF Body!vars
  <1> QED  BY <1>5, <1>6, <1>7, <1>8, <1>9 DEF Body!Next

\* Each panel goes as Disclosure says (show, hide and their callbacks): it is not turned round
\* in a motion until a panel in motion is passed over; for any number of panels.
THEOREM PanelImplementation ==
  ASSUME "hide" \notin Vetoes, NEW p \in Body!Panels
  PROVE  Spec => /\ Panel(p)!Init
                 /\ []["unasked" \in rushed' \/ Panel(p)!Next]_(Body!Phase(p))
  <1>1. BInv /\ [Next]_vars =>
          BInv' /\ ["unasked" \in rushed' \/ Panel(p)!Next]_(Body!Phase(p))
        BY BodySteps, BodyNext, PanelSteps DEF PanelGoes
  <1>2. Init => Panel(p)!Init
    <2>1. ASSUME Init PROVE pending[p] = {}
          BY <2>1 DEF Init, Body!Init
    <2> QED  BY <2>1 DEF Panel!Init, Body!Phase
  <1> QED  BY InitBInv, <1>1, <1>2, PTL DEF Spec

-----------------------------------------------------------------------------
(* The dialog                                                                *)

Waiting(c) == wait[c] # Window!None

\* The backdrop is there, if the dialog has one.
Covered ==
  /\ backdrops = IF Window!HasBackdrop THEN 1 ELSE 0
  /\ current <=> Window!HasBackdrop

Restored == backdrops = 0 /\ ~current /\ ~displayed /\ ~adjusted /\ ~modalOpen /\ padding = 0

\* What each callback that waits knows of the page: above all, "appear" of a dialog that is
\* hidden already runs before "hideModal".
WInv ==
  /\ Window!TypeOK
  /\ savedPad = 0
  /\ Waiting("appear") =>
       /\ options.fade /\ Window!HasBackdrop /\ ~displayed /\ wait["appear"] < 2
       /\ ~isShown => Waiting("hideModal") /\ wait["hideModal"] > wait["appear"]
  /\ isShown => /\ ~Waiting("hideModal") /\ ~Waiting("remove") /\ Covered /\ modalOpen
                /\ ~Waiting("appear") => displayed /\ trapped
  /\ Waiting("hideModal") => ~Waiting("remove") /\ Covered /\ options.fade
  /\ Waiting("remove") => ~displayed /\ Covered
  /\ ~isShown /\ ~Waiting("hideModal") /\ ~Waiting("remove") => Restored
  /\ isShown /\ press = "dialog" => watching

\* The element is displayed: the callback of show() as such.
LEMMA AppearsKeeps ==
  ASSUME NEW w \in [Window!Callbacks -> -1 .. 2], Window!Appears(w), options.fade \in BOOLEAN
  PROVE  /\ wait' \in [Window!Callbacks -> -1 .. 2]
         /\ displayed' = TRUE /\ trapped' = TRUE /\ adjusted' \in BOOLEAN
         /\ \A c \in {"appear", "hideModal", "remove"} : wait'[c] = w[c]
         /\ w["shown"] # -1 => wait'["shown"] # -1
  <1> DEFINE t == IF ~options.fade \/ w["shown"] # -1 THEN w["shown"] ELSE 2
  <1>1. wait' = [w EXCEPT !["shown"] = t]
        BY DEF Window!Appears, Window!TRANSITION_DURATION, Window!None
  <1>2. t \in -1 .. 2 /\ (w["shown"] # -1 => t # -1)
        BY DEF Window!Callbacks
  <1> HIDE DEF t
  <1>3. wait' \in [Window!Callbacks -> -1 .. 2]
        BY <1>1, <1>2
  <1>4. \A c \in {"appear", "hideModal", "remove"} : wait'[c] = w[c]
        BY <1>1 DEF Window!Callbacks
  <1>5. wait'["shown"] = t
        BY <1>1 DEF Window!Callbacks
  <1> QED  BY <1>2, <1>3, <1>4, <1>5 DEF Window!Appears

LEMMA Types ==
  WInv => /\ wait \in [Window!Callbacks -> -1 .. 2] /\ options.fade \in BOOLEAN
          /\ Window!None = -1
  BY PartsAssumption DEF WInv, Window!TypeOK, Window!Assumptions, Window!None,
                         Window!TRANSITION_DURATION

LEMMA ShowDialog == ASSUME WInv, Window!Show PROVE WInv'
  <1>1. /\ ~isShown /\ press = "none" /\ ~Waiting("hideModal") /\ ~Waiting("remove")
        /\ isShown' = TRUE /\ modalOpen' = TRUE /\ UNCHANGED <<options, press, watching, ignoring>>
        BY DEF Window!Show, Window!MayShow, Window!mouseVars, Waiting
  <1>2. Restored /\ ~Waiting("appear")
        BY <1>1 DEF WInv
  <1>3. savedPad' = 0 /\ padding' \in Nat
        BY <1>2 DEF Window!Show, Restored, WInv, Window!TypeOK
  <1>4. /\ IF Window!HasBackdrop THEN backdrops' = backdrops + 1 /\ current' = TRUE
                                ELSE UNCHANGED <<backdrops, current>>
        /\ Window!HasBackdrop' = Window!HasBackdrop
        BY <1>1 DEF Window!Show, Window!HasBackdrop
  <1>5. backdrops = 0 /\ current = FALSE
        BY <1>2 DEF Restored, WInv, Window!TypeOK
  <1>6. backdrops' \in Int /\ current' \in BOOLEAN /\ Covered'
    <2>1. CASE Window!HasBackdrop
      <3>1. backdrops' = 1 /\ current' = TRUE
            BY <1>4, <1>5, <2>1
      <3>2. Covered'
            BY <1>4, <2>1, <3>1, Zenon DEF Covered
      <3>3. backdrops' \in Int
            BY <3>1
      <3> QED  BY <3>1, <3>2, <3>3, Zenon
    <2>2. CASE ~Window!HasBackdrop
      <3>1. backdrops' = 0 /\ current' = FALSE
            BY <1>4, <1>5, <2>2
      <3>2. Covered'
            BY <1>4, <2>2, <3>1, Zenon DEF Covered
      <3>3. backdrops' \in Int
            BY <3>1
      <3> QED  BY <3>1, <3>2, <3>3, Zenon
    <2> QED  BY <2>1, <2>2
  <1>7. CASE Window!HasBackdrop /\ options.fade
    <2>1. wait' = [wait EXCEPT !["appear"] = 1] /\ UNCHANGED <<displayed, adjusted, trapped>>
          BY <1>7 DEF Window!Show, Window!BACKDROP_TRANSITION_DURATION
    <2>2. /\ wait' \in [Window!Callbacks -> -1 .. 2] /\ wait'["appear"] = 1
          /\ wait'["hideModal"] = wait["hideModal"] /\ wait'["remove"] = wait["remove"]
          BY <2>1, Types DEF Window!Callbacks
    <2>3. Window!TypeOK'
          BY <1>1, <1>3, <1>6, <2>1, <2>2 DEF WInv, Window!TypeOK, Window!None,
                                              Window!TRANSITION_DURATION
    <2> QED  BY <1>1, <1>2, <1>3, <1>6, <1>7, <2>1, <2>2, <2>3
             DEF WInv, Waiting, Restored, Window!HasBackdrop, Window!None
  <1>8. CASE ~(Window!HasBackdrop /\ options.fade)
    <2>1. Window!Appears(wait)
          BY <1>8 DEF Window!Show
    <2>2. /\ wait' \in [Window!Callbacks -> -1 .. 2]
          /\ displayed' = TRUE /\ trapped' = TRUE /\ adjusted' \in BOOLEAN
          /\ \A c \in {"appear", "hideModal", "remove"} : wait'[c] = wait[c]
          BY <2>1, Types, AppearsKeeps
    <2>3. Window!TypeOK'
          BY <1>1, <1>3, <1>6, <2>2 DEF WInv, Window!TypeOK, Window!None,
                                        Window!TRANSITION_DURATION
    <2> QED  BY <1>1, <1>2, <1>3, <1>6, <2>2, <2>3 DEF WInv, Waiting, Restored, Window!None
  <1> QED  BY <1>7, <1>8

LEMMA AppearDialog == ASSUME WInv, Window!Appear PROVE WInv'
  <1> DEFINE w == [wait EXCEPT !["appear"] = Window!None]
  <1>1. w \in [Window!Callbacks -> -1 .. 2] /\ w["appear"] = -1
           /\ w["hideModal"] = wait["hideModal"] /\ w["remove"] = wait["remove"]
        BY Types DEF Window!Callbacks
  <1>2. Window!Appears(w)
        BY DEF Window!Appear
  <1> HIDE DEF w
  <1>3. /\ wait' \in [Window!Callbacks -> -1 .. 2]
        /\ displayed' = TRUE /\ trapped' = TRUE /\ adjusted' \in BOOLEAN
        /\ \A c \in {"appear", "hideModal", "remove"} : wait'[c] = w[c]
        BY <1>1, <1>2, Types, AppearsKeeps
  <1>4. /\ UNCHANGED <<options, isShown, modalOpen, padding, savedPad, backdrops, current, press,
                       watching, ignoring>>
        /\ Waiting("appear")
        BY DEF Window!Appear, Window!mouseVars, Waiting, Window!None
  <1>5. Window!TypeOK'
        BY <1>3, <1>4 DEF WInv, Window!TypeOK, Window!None, Window!TRANSITION_DURATION
  <1> QED  BY <1>1, <1>3, <1>4, <1>5, Types DEF WInv, Waiting, Covered, Window!HasBackdrop

\* hideModal: the page is restored at once or when the backdrop has faded.
LEMMA HiddenKeeps ==
  ASSUME WInv, Covered, NEW w \in [Window!Callbacks -> -1 .. 2],
         w["appear"] = -1, w["hideModal"] = -1, w["remove"] = -1,
         Window!Hidden(w), UNCHANGED <<options, savedPad>>, isShown' = FALSE,
         trapped' \in BOOLEAN, press' \in {"none", "dialog", "outside"},
         watching' \in BOOLEAN, ignoring' \in BOOLEAN
  PROVE  WInv'
  <1>1. /\ displayed' = FALSE /\ savedPad' = 0 /\ options' = options
        /\ Window!HasBackdrop' = Window!HasBackdrop
        BY DEF Window!Hidden, WInv, Window!HasBackdrop
  <1>2. CASE current /\ options.fade
    <2>1. /\ wait' = [w EXCEPT !["remove"] = 1]
          /\ UNCHANGED <<adjusted, modalOpen, padding, backdrops, current>>
          BY <1>2 DEF Window!Hidden, Window!BACKDROP_TRANSITION_DURATION
    <2>2. /\ wait' \in [Window!Callbacks -> -1 .. 2] /\ wait'["remove"] = 1
          /\ wait'["appear"] = -1 /\ wait'["hideModal"] = -1
          BY <2>1 DEF Window!Callbacks
    <2>3. Covered'
          BY <1>1, <2>1 DEF Covered
    <2>4. Window!TypeOK'
          BY <1>1, <2>1, <2>2 DEF WInv, Window!TypeOK, Window!None, Window!TRANSITION_DURATION
    <2> QED  BY <1>1, <2>2, <2>3, <2>4 DEF WInv, Waiting, Window!None
  <1>3. CASE ~(current /\ options.fade)
    <2>1. wait' = w /\ Window!Removed
          BY <1>3 DEF Window!Hidden
    <2>2. current' = FALSE /\ modalOpen' = FALSE /\ adjusted' = FALSE /\ padding' = 0
          BY <2>1 DEF Window!Removed, Window!Restored, WInv
    <2>3. backdrops' = 0
          BY <2>1 DEF Window!Removed, Covered
    <2>4. Restored'
          BY <1>1, <2>2, <2>3 DEF Restored
    <2>5. /\ displayed' \in BOOLEAN /\ current' \in BOOLEAN /\ modalOpen' \in BOOLEAN
          /\ adjusted' \in BOOLEAN /\ isShown' \in BOOLEAN
          BY <1>1, <2>2, Zenon
    <2>6. Window!TypeOK'
          BY <1>1, <2>1, <2>2, <2>3, <2>5 DEF WInv, Window!TypeOK, Window!None, Window!TRANSITION_DURATION
    <2> QED  BY <1>1, <2>1, <2>4, <2>6 DEF WInv, Waiting, Window!None
  <1> QED  BY <1>2, <1>3

\* hide() of a dialog that may still be waiting to be displayed.
LEMMA HideDialog ==
  ASSUME WInv, Window!Hide, press' \in {"none", "dialog", "outside"}
  PROVE  WInv'
  <1>1. /\ isShown /\ Covered /\ wait["hideModal"] = -1 /\ wait["remove"] = -1
        /\ isShown' = FALSE /\ trapped' = FALSE /\ watching' = FALSE
        /\ UNCHANGED <<options, savedPad, ignoring>>
        BY DEF WInv, Window!Hide, Waiting, Window!None
  <1>2. ignoring' \in BOOLEAN
        BY <1>1 DEF WInv, Window!TypeOK
  <1>3. CASE options.fade
    <2>1. /\ wait' = [wait EXCEPT !["hideModal"] = 2]
          /\ UNCHANGED <<displayed, adjusted, modalOpen, padding, backdrops, current>>
          BY <1>3 DEF Window!Hide, Window!TRANSITION_DURATION
    <2>2. /\ wait' \in [Window!Callbacks -> -1 .. 2] /\ wait'["hideModal"] = 2
          /\ wait'["appear"] = wait["appear"] /\ wait'["remove"] = -1
          BY <1>1, <2>1, Types DEF Window!Callbacks
    <2>3. Covered' /\ (Window!HasBackdrop' <=> Window!HasBackdrop)
          BY <1>1, <2>1 DEF Covered, Window!HasBackdrop
    <2>4. Window!TypeOK'
          BY <1>1, <1>2, <2>1, <2>2 DEF WInv, Window!TypeOK, Window!None,
                                        Window!TRANSITION_DURATION
    <2>5. Waiting("appear")' => /\ options.fade' /\ Window!HasBackdrop' /\ ~displayed'
                                /\ wait'["appear"] < 2
          BY <1>1, <2>1, <2>2, <2>3 DEF WInv, Waiting, Window!None
    <2> QED  BY <1>1, <1>3, <2>1, <2>2, <2>3, <2>4, <2>5 DEF WInv, Waiting, Window!None
  <1>4. CASE ~options.fade
    <2>1. Window!Hidden(wait)
          BY <1>4 DEF Window!Hide
    <2>2. wait["appear"] = -1
          BY <1>4 DEF WInv, Waiting, Window!None
    <2> QED  BY <1>1, <1>2, <2>1, <2>2, Types, HiddenKeeps
  <1> QED  BY <1>3, <1>4

\* The dialog was displayed, if it ever was to be, before its element's transition ended.
LEMMA HideModalDialog == ASSUME WInv, Window!HideModal PROVE WInv'
  <1> DEFINE w == [wait EXCEPT !["hideModal"] = Window!None]
  <1>1. /\ Waiting("hideModal") /\ ~Waiting("appear") /\ ~Waiting("remove")
        /\ Covered /\ isShown = FALSE
        BY Types DEF WInv, Window!HideModal, Waiting, Window!None, Window!TypeOK,
                     Window!Callbacks
  <1>2. /\ w \in [Window!Callbacks -> -1 .. 2] /\ w["hideModal"] = -1
        /\ w["appear"] = -1 /\ w["remove"] = -1
        BY <1>1, Types DEF Window!Callbacks, Waiting
  <1>3. Window!Hidden(w)
        BY DEF Window!HideModal
  <1> HIDE DEF w
  <1>4. UNCHANGED <<options, isShown, trapped, savedPad, press, watching, ignoring>>
        BY DEF Window!HideModal, Window!mouseVars
  <1> QED  BY <1>1, <1>2, <1>3, <1>4, HiddenKeeps DEF WInv, Window!TypeOK

LEMMA RemoveDialog == ASSUME WInv, Window!Remove PROVE WInv'
  <1>1. /\ ~Waiting("hideModal") /\ ~Waiting("appear") /\ ~displayed /\ Covered /\ ~isShown
        BY DEF WInv, Window!Remove, Waiting, Window!None
  <1>2. /\ wait' \in [Window!Callbacks -> -1 .. 2] /\ wait'["remove"] = -1
        /\ wait'["appear"] = -1 /\ wait'["hideModal"] = -1
        BY <1>1, Types DEF Window!Remove, Window!Callbacks, Waiting
  <1>3. UNCHANGED <<options, isShown, displayed, trapped, savedPad, press, watching, ignoring>>
        BY DEF Window!Remove, Window!mouseVars
  <1>4. current' = FALSE /\ modalOpen' = FALSE /\ adjusted' = FALSE /\ padding' = 0
        BY DEF Window!Remove, Window!Removed, Window!Restored, WInv
  <1>5. backdrops' = 0
        BY <1>1 DEF Window!Remove, Window!Removed, Covered
  <1>6. Restored'
        BY <1>1, <1>3, <1>4, <1>5 DEF Restored
  <1>7. current' \in BOOLEAN /\ modalOpen' \in BOOLEAN /\ adjusted' \in BOOLEAN
        BY <1>4, Zenon
  <1>8. Window!TypeOK'
        BY <1>2, <1>3, <1>4, <1>5, <1>7 DEF WInv, Window!TypeOK, Window!None, Window!TRANSITION_DURATION
  <1> QED  BY <1>1, <1>2, <1>3, <1>6, <1>8 DEF WInv, Waiting, Window!None

\* Nothing inside the dialog ends the transition of its element.
LEMMA EndsInsideDialog ==
  ASSUME WInv, NEW target \in {"panel", "dialog"}, Window!EndsInside(target)
  PROVE  /\ WInv'
         /\ UNCHANGED <<isShown, press>>
         /\ \A c \in {"appear", "hideModal", "remove"} : wait'[c] = wait[c]
         /\ wait'["shown"] = wait["shown"] \/ (target = "dialog" /\ wait'["shown"] = -1)
  <1>1. "hideModal" \notin Window!Heard(target)
        BY DEF Window!Heard, Window!Hears
  <1>2. /\ wait' = [c \in Window!Callbacks |-> IF c \in Window!Heard(target) THEN -1 ELSE wait[c]]
        /\ UNCHANGED <<options, isShown, displayed, adjusted, trapped, modalOpen, padding,
                       savedPad, backdrops, current, press, watching, ignoring>>
        BY <1>1 DEF Window!EndsInside, Window!None, Window!pageVars, Window!mouseVars
  <1>3. wait' \in [Window!Callbacks -> -1 .. 2]
        BY <1>2, Types
  <1>4. \A c \in {"appear", "hideModal", "remove"} : wait'[c] = wait[c]
        BY <1>1, <1>2 DEF Window!Heard, Window!Callbacks
  <1>5. wait'["shown"] = wait["shown"] \/ (target = "dialog" /\ wait'["shown"] = -1)
        BY <1>2 DEF Window!Heard, Window!Hears, Window!Callbacks
  <1>6. Window!TypeOK'
        BY <1>2, <1>3 DEF WInv, Window!TypeOK, Window!None, Window!TRANSITION_DURATION
  <1>7. Window!HasBackdrop' = Window!HasBackdrop /\ Covered' = Covered /\ Restored' = Restored
        BY <1>2 DEF Window!HasBackdrop, Covered, Restored
  <1> QED  BY <1>2, <1>4, <1>5, <1>6, <1>7 DEF WInv, Waiting

\* What leaves the callbacks and the page alone, or only pads a dialog that is shown.
LEMMA QuietSteps ==
  ASSUME WInv, UNCHANGED <<options, isShown, wait, displayed, trapped, modalOpen, padding,
                           savedPad, backdrops, current>>,
         adjusted' \in BOOLEAN, ~isShown => adjusted' = adjusted,
         press' \in {"none", "dialog", "outside"}, watching' \in BOOLEAN, ignoring' \in BOOLEAN,
         isShown /\ press' = "dialog" => watching'
  PROVE  WInv'
  <1>1. Window!TypeOK'
        BY DEF WInv, Window!TypeOK
  <1>2. Window!HasBackdrop' = Window!HasBackdrop /\ Covered' = Covered
        BY DEF Window!HasBackdrop, Covered
  <1>3. ~isShown => Restored' = Restored
        BY DEF Restored
  <1> QED  BY <1>1, <1>2, <1>3 DEF WInv, Waiting

\* A release either hides the dialog or leaves it alone.
LEMMA ReleaseDialog ==
  ASSUME WInv, NEW where \in {"dialog", "outside"}, Window!Release(where)
  PROVE  /\ press' = "none" /\ isShown
         /\ \/ Window!Hide
            \/ /\ UNCHANGED <<options, isShown, wait, Window!pageVars>>
               /\ watching' = FALSE /\ ignoring' \in BOOLEAN
         /\ press = "dialog" => isShown' = isShown
  <1>1. PICK click \in IF press = where THEN {where} ELSE {"outside", "none"} :
          IF click = "outside" /\ ~Window!Ignores(where) /\ options.backdrop = "true"
            THEN Window!Hide
            ELSE /\ ignoring' = (Window!Ignores(where) /\ (click = "none" \/ ~Window!HasBackdrop))
                 /\ watching' = FALSE
                 /\ UNCHANGED <<options, isShown, wait, Window!pageVars>>
        BY DEF Window!Release
  <1>2. press = "dialog" => ~(click = "outside" /\ ~Window!Ignores(where))
        BY DEF WInv, Window!Ignores, Window!Release
  <1>3. CASE click = "outside" /\ ~Window!Ignores(where) /\ options.backdrop = "true"
    <2>1. Window!Hide
          BY <1>1, <1>3, Zenon
    <2>2. press' = "none" /\ isShown
          BY DEF Window!Release
    <2>3. press # "dialog"
          BY <1>2, <1>3
    <2> QED  BY <2>1, <2>2, <2>3
  <1>4. CASE ~(click = "outside" /\ ~Window!Ignores(where) /\ options.backdrop = "true")
        BY <1>1, <1>4 DEF Window!Release
  <1> QED  BY <1>3, <1>4

\* Time passes for all callbacks alike.
LEMMA TickDialog ==
  ASSUME WInv, Window!Tick
  PROVE  /\ WInv' /\ UNCHANGED <<isShown, press>>
         /\ \A c \in Window!Callbacks : wait'[c] = -1 <=> wait[c] = -1
  <1>1. /\ wait' = [c \in Window!Callbacks |-> IF wait[c] > 0 THEN wait[c] - 1 ELSE wait[c]]
        /\ \A c \in Window!Callbacks : wait[c] # 0
        BY Types DEF Window!Tick, Window!Elapse, Window!NothingDue
  <1>2. UNCHANGED <<options, isShown, displayed, adjusted, trapped, modalOpen, padding,
                    savedPad, backdrops, current, press, watching, ignoring>>
        BY DEF Window!Tick, Window!pageVars, Window!mouseVars
  <1>3. \A c \in Window!Callbacks : /\ wait[c] \in -1 .. 2 /\ wait'[c] \in -1 .. 2
                                    /\ wait'[c] = -1 <=> wait[c] = -1
                                    /\ wait[c] # -1 => wait'[c] = wait[c] - 1
        BY <1>1, Types
  <1>4. wait' \in [Window!Callbacks -> -1 .. 2]
        BY <1>1, <1>3
  <1>5. Window!TypeOK'
        BY <1>2, <1>4 DEF WInv, Window!TypeOK, Window!None, Window!TRANSITION_DURATION
  <1>6. Window!HasBackdrop' = Window!HasBackdrop /\ Covered' = Covered /\ Restored' = Restored
        BY <1>2 DEF Window!HasBackdrop, Covered, Restored
  <1>7. \A c \in Window!Callbacks : Waiting(c)' <=> Waiting(c)
        BY <1>3 DEF Waiting, Window!None
  <1>8. Waiting("appear") /\ ~isShown =>
          /\ wait'["appear"] = wait["appear"] - 1 /\ wait'["hideModal"] = wait["hideModal"] - 1
          /\ wait["appear"] \in -1 .. 2 /\ wait["hideModal"] \in -1 .. 2
        BY <1>3 DEF Waiting, Window!Callbacks, WInv, Window!None
  <1>9. Waiting("appear") => wait'["appear"] < 2
        BY <1>3 DEF Waiting, Window!Callbacks, WInv, Window!None
  <1>10. Waiting("appear") /\ ~isShown => wait'["hideModal"] > wait'["appear"]
        BY <1>8 DEF WInv
  <1> QED  BY <1>2, <1>3, <1>5, <1>6, <1>7, <1>9, <1>10 DEF WInv, Window!Callbacks

\* The steps of the dialog in terms of its callbacks.
WindowCases ==
  \/ Window!Show
  \/ Window!Hide /\ press' \in {press, "none"} /\ (press = "dialog" => press' = press)
  \/ Window!Appear \/ Window!HideModal \/ Window!Remove \/ Window!Tick
  \/ Window!Shown \/ Window!EndsInside("panel")
  \/ /\ UNCHANGED <<options, isShown, wait, displayed, trapped, modalOpen, padding, savedPad,
                    backdrops, current>>
     /\ adjusted' \in BOOLEAN /\ (~isShown => adjusted' = adjusted)
     /\ press' \in {"none", "dialog", "outside"} /\ watching' \in BOOLEAN /\ ignoring' \in BOOLEAN
     /\ isShown /\ press' = "dialog" => watching'

LEMMA DialogSteps ==
  ASSUME WInv, [Next]_vars
  PROVE  WindowCases
  <1> USE DEF WindowCases
  <1>1. CASE Window!Show \/ Window!Callback \/ Window!Tick
        BY <1>1 DEF Window!Callback
  <1>2. CASE Window!Dismiss \/ Window!Escape
        BY <1>2 DEF Window!Dismiss, Window!Escape
  <1>3. CASE Window!Resize
        BY <1>3 DEF Window!Resize, Window!mouseVars, WInv, Window!TypeOK
  <1>4. CASE Window!ReleaseUnheard
        BY <1>4 DEF Window!ReleaseUnheard, Window!pageVars, WInv, Window!TypeOK
  <1>5. ASSUME NEW where \in {"dialog", "outside"}, Window!Press(where)
        PROVE  WindowCases
        BY <1>5 DEF Window!Press, Window!pageVars, WInv, Window!TypeOK
  <1>6. ASSUME NEW where \in {"dialog", "outside"}, Window!Release(where)
        PROVE  WindowCases
    <2>1. CASE Window!Hide
      <3>1. isShown /\ ~isShown'
            BY <2>1 DEF Window!Hide
      <3>2. press' = "none" /\ press # "dialog"
            BY <1>6, <3>1, ReleaseDialog
      <3> QED  BY <2>1, <3>2
    <2>2. CASE ~Window!Hide
          BY <1>6, <2>2, ReleaseDialog DEF Window!pageVars, WInv, Window!TypeOK
    <2> QED  BY <2>1, <2>2
  <1>7. CASE UNCHANGED windowVars
        BY <1>7 DEF windowVars, WInv, Window!TypeOK
  <1>8. ASSUME NEW p \in Body!Panels, PanelEnds(p)
        PROVE  WindowCases
        BY <1>8 DEF PanelEnds
  <1> QED  BY <1>1, <1>2, <1>3, <1>4, <1>5, <1>6, <1>7, <1>8
           DEF Next, WindowStep, Window!Next, Window!Mouse, Click, Setup, vars

\* A callback is called when its time has come, or that of the element's transition almost.
Kept ==
  /\ wait["shown"] # -1 /\ wait'["shown"] = -1 => wait["shown"] = 0
  /\ wait["hideModal"] # -1 /\ wait'["hideModal"] = -1 => wait["hideModal"] < 2

\* What a step does, for all the dialog's properties together.
Proper ==
  /\ WInv'
  /\ press = "dialog" /\ press' = "none" => isShown' = isShown
  /\ Kept
  /\ [Promise!Next]_(Window!Phase)

LEMMA ProperShow == ASSUME WInv, Window!Show PROVE Proper
  <1>1. WInv'
        BY ShowDialog
  <1>2. /\ ~isShown /\ wait["hideModal"] = -1 /\ wait["remove"] = -1 /\ wait["appear"] = -1
        /\ press' = press /\ isShown'
        BY DEF WInv, Window!Show, Window!MayShow, Window!mouseVars, Window!None, Waiting
  <1>3. wait["shown"] # -1 => wait'["shown"] # -1
    <2>1. CASE Window!HasBackdrop /\ options.fade
          BY <2>1, Types DEF Window!Show, Window!Callbacks
    <2>2. CASE ~(Window!HasBackdrop /\ options.fade)
          BY <2>2, Types, AppearsKeeps DEF Window!Show
    <2> QED  BY <2>1, <2>2
  <1>4. Window!Phase = "closed" /\ Window!Phase' \in {"opening", "open"}
        BY <1>2 DEF Window!Phase, Window!None
  <1> QED  BY <1>1, <1>2, <1>3, <1>4 DEF Proper, Kept, Promise!Next, Promise!Open

LEMMA ProperHide ==
  ASSUME WInv, Window!Hide, press' \in {press, "none"}, press = "dialog" => press' = press
  PROVE  Proper
  <1>1. WInv'
        BY HideDialog DEF WInv, Window!TypeOK
  <1>2. isShown /\ ~isShown' /\ wait["hideModal"] = -1
        BY DEF WInv, Window!Hide, Window!None, Waiting
  <1>3. wait'["shown"] = wait["shown"]
    <2>1. CASE options.fade
          BY <2>1, Types DEF Window!Hide, Window!Callbacks
    <2>2. CASE ~options.fade
          BY <2>2, Types DEF Window!Hide, Window!Hidden, Window!Callbacks
    <2> QED  BY <2>1, <2>2
  <1>4. Window!Phase \in {"open", "opening"} /\ Window!Phase' \in {"closing", "closed"}
        BY <1>2 DEF Window!Phase
  <1> QED  BY <1>1, <1>2, <1>3, <1>4 DEF Proper, Kept, Promise!Next, Promise!Close

LEMMA ProperAppear == ASSUME WInv, Window!Appear PROVE Proper
  <1> DEFINE w == [wait EXCEPT !["appear"] = Window!None]
  <1>1. WInv'
        BY AppearDialog
  <1>2. /\ w \in [Window!Callbacks -> -1 .. 2] /\ w["shown"] = wait["shown"]
        /\ w["hideModal"] = wait["hideModal"] /\ w["remove"] = wait["remove"]
        BY Types DEF Window!Callbacks
  <1>3. Window!Appears(w)
        BY DEF Window!Appear
  <1> HIDE DEF w
  <1>4. /\ wait["shown"] # -1 => wait'["shown"] # -1
        /\ wait'["hideModal"] = wait["hideModal"] /\ wait'["remove"] = wait["remove"]
        BY <1>2, <1>3, Types, AppearsKeeps
  <1>5. isShown' = isShown /\ press' = press /\ wait["appear"] # -1
        BY DEF Window!Appear, Window!mouseVars
  <1>6. /\ isShown => Window!Phase = "opening" /\ Window!Phase' \in {"opening", "open"}
        /\ ~isShown => Window!Phase' = Window!Phase
        BY <1>4, <1>5 DEF Window!Phase, Window!None
  <1> QED  BY <1>1, <1>4, <1>5, <1>6 DEF Proper, Kept, Promise!Next, Promise!Settle,
                                         Promise!Opened

LEMMA ProperHideModal == ASSUME WInv, Window!HideModal PROVE Proper
  <1>1. WInv'
        BY HideModalDialog
  <1>2. /\ wait["hideModal"] \in {0, 1} /\ ~isShown /\ isShown' = isShown /\ press' = press
        BY DEF Window!HideModal, Window!mouseVars, WInv, Waiting, Window!None
  <1>3. wait'["shown"] = wait["shown"]
        BY Types DEF Window!HideModal, Window!Hidden, Window!Callbacks
  <1>4. Window!Phase = "closing" /\ Window!Phase' \in {"closing", "closed"}
        BY <1>2 DEF Window!Phase, Window!None
  <1> QED  BY <1>1, <1>2, <1>3, <1>4 DEF Proper, Kept, Promise!Next, Promise!Settle,
                                         Promise!Closed

LEMMA ProperRemove == ASSUME WInv, Window!Remove PROVE Proper
  <1>1. WInv'
        BY RemoveDialog
  <1>2. wait["remove"] = 0 /\ ~isShown /\ isShown' = isShown /\ press' = press
        BY DEF Window!Remove, Window!mouseVars, WInv, Waiting, Window!None
  <1>3. wait'["shown"] = wait["shown"] /\ wait'["hideModal"] = wait["hideModal"]
        BY Types DEF Window!Remove, Window!Callbacks
  <1>4. Window!Phase = "closing" /\ Window!Phase' \in {"closing", "closed"}
        BY <1>2 DEF Window!Phase, Window!None
  <1> QED  BY <1>1, <1>2, <1>3, <1>4 DEF Proper, Kept, Promise!Next, Promise!Settle,
                                         Promise!Closed

LEMMA ProperEnd ==
  ASSUME WInv, NEW target \in {"panel", "dialog"}, Window!EndsInside(target),
         target = "dialog" => wait["shown"] = 0
  PROVE  Proper
  <1>1. /\ WInv' /\ isShown' = isShown /\ press' = press
        /\ wait'["appear"] = wait["appear"] /\ wait'["remove"] = wait["remove"]
        /\ wait'["hideModal"] = wait["hideModal"]
        /\ wait'["shown"] = wait["shown"] \/ (target = "dialog" /\ wait'["shown"] = -1)
        BY EndsInsideDialog
  <1>2. \/ Window!Phase' = Window!Phase
        \/ Window!Phase = "opening" /\ Window!Phase' \in {"opening", "open"}
        BY <1>1 DEF Window!Phase, Window!None
  <1> QED  BY <1>1, <1>2 DEF Proper, Kept, Promise!Next, Promise!Settle, Promise!Opened

LEMMA ProperTick == ASSUME WInv, Window!Tick PROVE Proper
  <1>1. /\ WInv' /\ isShown' = isShown /\ press' = press
        /\ \A c \in {"appear", "shown", "hideModal", "remove"} : wait'[c] = -1 <=> wait[c] = -1
        BY TickDialog DEF Window!Callbacks
  <1>2. Window!Phase' = Window!Phase
        BY <1>1 DEF Window!Phase, Window!None
  <1> QED  BY <1>1, <1>2 DEF Proper, Kept

LEMMA ProperSteps == ASSUME WInv, [Next]_vars PROVE Proper
  <1>1. WindowCases
        BY DialogSteps
  <1>2. CASE Window!Shown
        BY <1>2, ProperEnd DEF Window!Shown
  <1>3. CASE Window!EndsInside("panel")
        BY <1>3, ProperEnd
  <1>4. CASE /\ UNCHANGED <<options, isShown, wait, displayed, trapped, modalOpen, padding,
                            savedPad, backdrops, current>>
             /\ adjusted' \in BOOLEAN /\ (~isShown => adjusted' = adjusted)
             /\ press' \in {"none", "dialog", "outside"}
             /\ watching' \in BOOLEAN /\ ignoring' \in BOOLEAN
             /\ isShown /\ press' = "dialog" => watching'
    <2>1. WInv'
          BY <1>4, QuietSteps
    <2>2. Window!Phase' = Window!Phase
          BY <1>4 DEF Window!Phase
    <2> QED  BY <1>4, <2>1, <2>2 DEF Proper, Kept
  <1> QED  BY <1>1, <1>2, <1>3, <1>4, ProperShow, ProperHide, ProperAppear, ProperHideModal,
              ProperRemove, ProperTick DEF WindowCases

LEMMA InitWInv == Init => WInv
  <1> SUFFICES ASSUME Window!Init PROVE WInv
      BY DEF Init
  <1>1. \A c \in Window!Callbacks : wait[c] = -1
        BY DEF Window!Init, Window!None
  <1>2. wait \in [Window!Callbacks -> -1 .. 2]
        BY DEF Window!Init, Window!None
  <1>3. /\ isShown \in BOOLEAN /\ displayed \in BOOLEAN /\ adjusted \in BOOLEAN
        /\ trapped \in BOOLEAN /\ modalOpen \in BOOLEAN /\ current \in BOOLEAN
        /\ watching \in BOOLEAN /\ ignoring \in BOOLEAN
        BY Zenon DEF Window!Init
  <1>4. Window!TypeOK
        BY <1>2, <1>3 DEF Window!Init, Window!TypeOK, Window!None, Window!TRANSITION_DURATION
  <1> QED  BY <1>1, <1>4 DEF Window!Init, Window!Callbacks, WInv, Waiting, Window!None, Restored

LEMMA DialogInv == Spec => []WInv
  <1>1. WInv /\ [Next]_vars => WInv'
        BY ProperSteps DEF Proper
  <1> QED  BY InitWInv, <1>1, PTL DEF Spec

\* The page is as it was when a dialog has been closed (hideModal and what it waits for in
\* bootstrap.js), though it may be hidden in the middle of show().
THEOREM PageIsRestored == Spec => []PageRestored
  <1>1. WInv => PageRestored
        BY DEF WInv, PageRestored, Window!PageRestored, Window!Phase, Restored, Waiting
  <1> QED  BY DialogInv, <1>1, PTL

\* An open dialog is displayed, holds the focus and has its one backdrop (show and backdrop
\* in bootstrap.js).
THEOREM OpenDialogs == Spec => []OpenIsWhole
  <1>1. WInv => OpenIsWhole
        BY DEF WInv, OpenIsWhole, Window!OpenIsWhole, Window!Phase, Covered, Waiting
  <1> QED  BY DialogInv, <1>1, PTL

\* A press that begins on the dialog does not close it (the mousedown.dismiss handler of
\* show).
THEOREM DragsKeep == Spec => DragKeeps
  <1>1. WInv /\ [Next]_vars =>
          [press = "dialog" /\ press' = "none" => isShown' = isShown]_(Window!vars)
        BY ProperSteps DEF Proper
  <1> QED  BY DialogInv, <1>1, PTL DEF Spec, DragKeeps, Window!DragKeeps

\* No end event of a panel or of the dialog inside it ends a transition that is waited for
\* further out (bsTransitionEnd, $.event.special).
THEOREM NothingCutShort == Spec => NotCutShort
  <1>1. WInv /\ [Next]_vars =>
          [/\ wait["shown"] # Window!None /\ wait'["shown"] = Window!None => wait["shown"] = 0
           /\ wait["hideModal"] # Window!None /\ wait'["hideModal"] = Window!None
                 => wait["hideModal"] < 2]_(Window!vars)
        BY ProperSteps DEF Proper, Kept, Window!None
  <1> QED  BY DialogInv, <1>1, PTL DEF Spec, NotCutShort, Window!NotCutShort

\* The dialog implements Disclosure but for its liveness: it is never turned round while it
\* closes (show and hide in bootstrap.js).
THEOREM Implementation == Spec => Promise!Safety
  <1>1. Init => Promise!Init
        BY DEF Init, Window!Init, Promise!Init, Window!Phase, Window!Callbacks, Window!None
  <1>2. WInv /\ [Next]_vars => [Promise!Next]_(Window!Phase)
        BY ProperSteps DEF Proper
  <1> QED  BY DialogInv, <1>1, <1>2, PTL DEF Spec, Promise!Safety

\* What ends in a panel is not heard further out.
LEMMA WindowSteps == WInv /\ [Next]_vars => [Window!Next]_(Window!vars)
  <1> SUFFICES ASSUME WInv, [Next]_vars PROVE [Window!Next]_(Window!vars)
      OBVIOUS
  <1>1. CASE WindowStep
        BY <1>1 DEF WindowStep
  <1>2. CASE UNCHANGED windowVars
        BY <1>2 DEF windowVars, Window!vars, Window!pageVars, Window!mouseVars
  <1>3. ASSUME NEW p \in Body!Panels, PanelEnds(p) PROVE UNCHANGED Window!vars
    <2>1. Window!Heard("panel") = {}
          BY DEF Window!Heard, Window!Hears
    <2>2. wait' = [c \in Window!Callbacks |-> wait[c]]
          BY <1>3, <2>1 DEF PanelEnds, Window!EndsInside
    <2>3. wait' = wait
          BY <2>2, Types
    <2>4. UNCHANGED <<options, isShown, Window!pageVars, Window!mouseVars>>
          BY <1>3, <2>1 DEF PanelEnds, Window!EndsInside
    <2> QED  BY <2>3, <2>4 DEF Window!vars, Window!pageVars, Window!mouseVars
  <1> QED  BY <1>1, <1>2, <1>3 DEF Next, Click, Setup, vars

\* Neither part notices the other, though the panels move inside the dialog and their end
\* events bubble to it: the page is a Modal, and it is an Accordion.
THEOREM PartsImplemented == Spec => Window!Spec /\ Body!Spec
  <1>1. Init => Window!Init /\ Body!Init
        BY DEF Init
  <1> QED  BY <1>1, WindowSteps, BodySteps, DialogInv, PTL DEF Spec, Window!Spec, Body!Spec

\* Every variable keeps its type: no backdrop is counted wrongly, no timer runs over.
THEOREM TypeCorrect == Spec => []TypeOK
  <1>1. Body!TypeOK /\ NoneFalse /\ [Next]_vars => Body!TypeOK' /\ NoneFalse'
        BY BodySteps, BodyTyped
  <1>2. Init => Body!TypeOK /\ NoneFalse
        BY InitBInv DEF BInv
  <1>3. Body!TypeOK /\ WInv => TypeOK
        BY DEF WInv, TypeOK
  <1> QED  BY DialogInv, <1>1, <1>2, <1>3, PTL DEF Spec
=============================================================================
