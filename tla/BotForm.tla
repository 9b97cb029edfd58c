------------------------------ MODULE BotForm ------------------------------
(***************************************************************************)
(* The form that makes a bot (bots/new.vue, RuleBuilder.vue) over the      *)
(* catalogue of strategies and indicators it fetched, and what the server  *)
(* makes of what it sends (BotsService.create).                            *)
(*                                                                         *)
(* The rule builder changes conditions where they are, so a condition is   *)
(* an object with a place in the heap: the first places are those of the   *)
(* catalogue's own default rules, and a group names the places of its      *)
(* conditions.                                                             *)
(***************************************************************************)
EXTENDS StrategyLibrary

CONSTANTS
    Tried,        \* the indicators of the catalogue that are tried
    FirstOffered,   \* the first of the catalogue: RSI
    Templates,      \* the strategies that are tried
    FirstTemplate,  \* the first of the catalogue
    MaxFormEdits    \* bound: edits of the form

ASSUME FormAssumption ==
    /\ FirstOffered \in Tried /\ Tried \subseteq DOMAIN Catalog
    /\ FirstTemplate \in Templates /\ Templates \subseteq DOMAIN Library

VARIABLES
    heap,     \* the conditions of the catalogue's rules, then of the form's
    form,     \* the strategy chosen, its plain settings and its groups of rules
    saving,   \* what the page waits for: its lists, or the creation of the bot
    judged,   \* history: the settings the server judged last
    edited    \* edits so far

botForm == <<heap, form, saving, judged, edited>>

NoForm == [key |-> "", plain |-> <<>>, groups |-> <<>>]
NoBot == [pc |-> "idle", key |-> "", config |-> <<>>]
Opening == [NoBot EXCEPT !.pc = "loading"]

-----------------------------------------------------------------------------
(* The catalogue, as GET strategies answers it.                             *)

RuleNames(key) == {name \in DOMAIN Specs(key) : Specs(key)[name].type = "rules"}
DefaultGroup(name) == CustomSettings[name].default[2]
CatalogueHeap == DefaultGroup("entryRules").conditions \o DefaultGroup("exitRules").conditions
Places(conditions, after) == [i \in DOMAIN conditions |-> after + i]
CatalogueGroups(key, after) ==
    [name \in RuleNames(key) |->
        [logic |-> DefaultGroup(name).logic,
         places |-> Places(DefaultGroup(name).conditions,
                           IF name = "entryRules" THEN after
                           ELSE after + Len(DefaultGroup("entryRules").conditions))]]

PlainDefaults(key) ==
    [name \in DOMAIN Specs(key) \ RuleNames(key) |-> Specs(key)[name].default]

(* The catalogue's conditions as they are now.                              *)
Catalogued == SubSeq(heap, 1, Len(CatalogueHeap))

(* Mutant: the form gets the catalogue's own objects.                       *)
defaultsFor_Shared(key) ==
    /\ heap' = Catalogued
    /\ form' = [key |-> key, plain |-> PlainDefaults(key), groups |-> CatalogueGroups(key, 0)]

(* The form gets a copy of the catalogue's defaults; what it pointed to     *)
(* before is let go.                                                        *)
defaultsFor(key) ==
    /\ heap' = Catalogued \o Catalogued
    /\ form' = [key |-> key, plain |-> PlainDefaults(key),
                groups |-> CatalogueGroups(key, Len(CatalogueHeap))]

(* What is sent: the rules with their conditions written out.               *)
WrittenOut(f, objects) ==
    Spread(f.plain,
           [name \in DOMAIN f.groups |->
               Group(f.groups[name].logic,
                     [i \in DOMAIN f.groups[name].places |-> objects[f.groups[name].places[i]]])])

-----------------------------------------------------------------------------
FormInit ==
    /\ heap = CatalogueHeap
    /\ form = NoForm
    /\ saving = Opening
    /\ judged = NoBot
    /\ edited = 0

Clicked ==
    /\ saving.pc # "created"
    /\ edited < MaxFormEdits /\ edited' = edited + 1
    /\ UNCHANGED <<saving, judged>>

Edited == form # NoForm /\ Clicked

(* onMounted: both lists, of strategies and of accounts, are there, and the *)
(* first strategy is chosen, whatever the user chose and filled in while    *)
(* the accounts were on their way. If a list does not come, this is never   *)
(* done, and nothing can be sent.                                           *)
Mounted ==
    /\ saving = Opening
    /\ defaultsFor(FirstTemplate)
    /\ saving' = NoBot
    /\ UNCHANGED <<judged, edited>>

(* The strategies are on the page as soon as they are there.                *)
selectStrategy(key) == Clicked /\ defaultsFor(key)

(* A number that is typed is any number, or none; a switch is switched.     *)
Typed(spec) ==
    IF spec.type = "boolean" THEN {Flag(~spec.default[2])}
    ELSE {Number(spec.least), Number(Plus(spec.most, One)), Blank}

TypeSetting(name) ==
    /\ Edited
    /\ \E value \in Typed(Specs(form.key)[name]) : form' = [form EXCEPT !.plain[name] = value]
    /\ UNCHANGED heap

-----------------------------------------------------------------------------
(* RuleBuilder: the group is replaced.                                      *)

setLogic(name) ==
    /\ Edited
    /\ \E logic \in {"AND", "OR"} : form' = [form EXCEPT !.groups[name].logic = logic]
    /\ UNCHANGED heap

(* What setIndicator makes of an operand: the indicator's own parameters    *)
(* and its first output.                                                    *)
Fresh(name) ==
    Output(name, [key \in DOMAIN Catalog[name].params |-> Catalog[name].params[key][1]],
           Catalog[name].outputs[1])

defaultOperand(type) ==
    CASE type = "constant" -> Constant(Zero)
      [] type = "price" -> Price("close")
      [] type = "indicator" -> Fresh(FirstOffered)

addCondition(name) ==
    /\ Edited
    /\ heap' = Append(heap, Condition(defaultOperand("indicator"), "lt", Constant(Whole(30))))
    /\ form' = [form EXCEPT !.groups[name].places = Append(@, Len(heap'))]

removeCondition(name, i) ==
    /\ Edited
    /\ form' = [form EXCEPT !.groups[name].places = SubSeq(@, 1, i - 1) \o SubSeq(@, i + 1, Len(@))]
    /\ UNCHANGED heap

-----------------------------------------------------------------------------
(* RuleBuilder: the condition is changed where it is.                       *)

(* Mutant: the operand keeps its parameters and its output.                 *)
setIndicator_Keeps(operand, name) == [operand EXCEPT !.name = name]

setIndicator(operand, name) == Fresh(name)

(* A parameter that is cleared becomes 0.                                   *)
setParam(operand, key, value) ==
    [operand EXCEPT !.params = Spread([changed \in {key} |-> value], @)]

OperandEdits(operand) ==
    {defaultOperand(type) : type \in {"constant", "price", "indicator"}}
    \cup CASE operand.type = "constant" -> {Constant(Whole(50))}
           [] operand.type = "price" -> {Price("open")}
           [] operand.type = "indicator" ->
                  LET outputs == Catalog[operand.name].outputs
                      params == Catalog[operand.name].params
                  IN {setIndicator(operand, name) : name \in Tried}
                     \cup {[operand EXCEPT !.output = outputs[i]] :
                              i \in {i \in DOMAIN outputs : Len(outputs) > 1}}
                     \cup UNION {{setParam(operand, key, value) : value \in {0, params[key][2]}} :
                                    key \in DOMAIN params}

NeedsSecondBound(operator) == operator \in {"between", "outside"}

(* A range gets a second bound, which it keeps when it is a range no more.  *)
setOperator(c, operator) ==
    [c EXCEPT !.operator = operator,
              !.right = IF NeedsSecondBound(operator) /\ Len(@) = 1
                        THEN Append(@, Constant(Zero)) ELSE @]

ConditionEdits(c) ==
    {[c EXCEPT !.left = operand] : operand \in OperandEdits(c.left)}
    \cup {[c EXCEPT !.right[1] = operand] : operand \in OperandEdits(c.right[1])}
    \cup {setOperator(c, operator) : operator \in {"gt", "crossesAbove", "between", "outside"}}
    \cup IF NeedsSecondBound(c.operator) THEN {[c EXCEPT !.right[2] = Constant(Whole(50))]} ELSE {}

EditCondition(place) ==
    /\ Edited
    /\ \E c \in ConditionEdits(heap[place]) : heap' = [heap EXCEPT ![place] = c]
    /\ UNCHANGED form

-----------------------------------------------------------------------------
(* onSubmit: the settings are written out when they are sent, and the form  *)
(* can be edited while it waits.                                            *)
Submit ==
    /\ form # NoForm /\ saving.pc = "idle"
    /\ saving' = [pc |-> "sent", key |-> form.key, config |-> WrittenOut(form, heap)]
    /\ UNCHANGED <<heap, form, judged, edited>>

(* create: the settings are judged once the limit of bots, the account and  *)
(* the pair have been.                                                      *)
CreateBot ==
    /\ saving.pc = "sent"
    /\ judged' = [saving EXCEPT !.pc = IF Accepts(Specs(saving.key), saving.config)
                                       THEN "accepted" ELSE "refused"]
    /\ saving' = IF judged'.pc = "accepted" THEN [NoBot EXCEPT !.pc = "created"] ELSE NoBot
    /\ UNCHANGED <<heap, form, edited>>

(* Refused before that, or not answered: the form shows the error.          *)
NotCreated ==
    /\ saving.pc = "sent"
    /\ saving' = NoBot
    /\ UNCHANGED <<heap, form, judged, edited>>

-----------------------------------------------------------------------------
FormNext ==
    \/ Mounted
    \/ \E key \in Templates : selectStrategy(key)
    \/ \E name \in DOMAIN form.plain : TypeSetting(name)
    \/ \E name \in DOMAIN form.groups :
          \/ setLogic(name) \/ addCondition(name)
          \/ \E i \in DOMAIN form.groups[name].places :
                removeCondition(name, i) \/ EditCondition(form.groups[name].places[i])
    \/ Submit \/ CreateBot \/ NotCreated

FormSpec == FormInit /\ [][FormNext]_botForm

-----------------------------------------------------------------------------
(* The catalogue keeps the defaults of the server, whatever was edited on   *)
(* the form: choosing a strategy gives its own defaults each time           *)
(* (defaultsFor: "sharing one between the catalogue and the form would let  *)
(* edits leak back into the defaults").                                     *)
DefaultsStay ==
    \A key \in Templates :
        WrittenOut([plain |-> PlainDefaults(key), groups |-> CatalogueGroups(key, 0)], heap)
            = Resolved(Specs(key), <<>>)

(* A number of the settings, or of an indicator, is not in its range.       *)
OutOfRange(key, config) ==
    \/ \E name \in DOMAIN config \ RuleNames(key) :
          config[name][1] = "number" /\ ~Suits(Specs(key)[name], config[name])
    \/ \E name \in DOMAIN config \cap RuleNames(key) :
          \E o \in Operands(config[name][2]) :
              o.type = "indicator" /\ \E p \in DOMAIN o.params \cap DOMAIN Catalog[o.name].params :
                  o.params[p] \notin Catalog[o.name].params[p][2] .. Catalog[o.name].params[p][3]

(* No condition of the settings throws, on any market.                      *)
Runs(key, config) ==
    \A name \in RuleNames(key) : \A i \in DOMAIN config[name][2].conditions :
        LET c == config[name][2].conditions[i]
        IN /\ \A j \in DOMAIN c.right : Known(c.right[j])
           /\ Known(c.left)
           /\ NeedsSecondBound(c.operator) => Len(c.right) = 2

(* Whatever is edited on the form and in whatever order, what it sends is   *)
(* accepted, and the bot's rules can be evaluated on every candle: only a   *)
(* number that was typed can be wrong (selectStrategy: "carrying the        *)
(* previous one over would send settings the server rejects"; setIndicator: *)
(* "carrying old params over is invalid"; setOperator: "a range comparison  *)
(* is meaningless without its upper bound").                                *)
BuiltBotsRun ==
    judged # NoBot /\ ~OutOfRange(judged.key, judged.config) =>
        judged.pc = "accepted" /\ Runs(judged.key, judged.config)
=============================================================================
