---------------------------- MODULE SettingsPage ----------------------------
(***************************************************************************)
(* The settings of one user: their row, which the first request makes      *)
(* (SettingsService.get), the request that saves them (update), and the    *)
(* settings page in the tabs of the user's browsers, which edits a copy    *)
(* and sends all of it.  The strategy runner reads the rule of a pair      *)
(* through get too, so that it may be the one that makes the row.          *)
(*                                                                         *)
(* Of the settings the model keeps a loss limit and the price rules; a     *)
(* decimal column and the number the page makes of it are one value.       *)
(***************************************************************************)
EXTENDS Integers, Sequences

Seqs == INSTANCE SequencesExt

CONSTANTS
    Tabs,        \* tabs that show the settings page
    Runner,      \* the strategy runner
    Pairs,       \* trading pairs
    NoPair,      \* the pair of a rule that names none
    MaxPrice,    \* the greatest price the DTO lets through
    Unreadable,       \* a price that is no number, or a number below 0
    Null,        \* no row, no copy, no loss limit
    MaxRules,    \* MAX_SYMBOL_RULES
    MaxLoads,    \* bound: times the page asks for the settings
    MaxSaves,    \* bound: times it saves them
    MaxEdits     \* bound: edits

ASSUME RunnerAssumption == Runner \notin Tabs
ASSUME PricesAssumption == MaxPrice \in Nat \ {0}

VARIABLES
    row,         \* the user's row of user_settings
    page,        \* the page in each tab: the settings it got, and the draft
    task,        \* the requests of the tabs and of the runner
    budget       \* loads, saves and edits left

settings == <<row, page, task, budget>>

Prices == 0..MaxPrice
Field == Prices \cup {Unreadable}
Sides == {"minBuyPrice", "maxBuyPrice", "minSellPrice", "maxSellPrice"}

emptyRule(pair) ==
    [symbol |-> pair, minBuyPrice |-> 0, maxBuyPrice |-> 0,
     minSellPrice |-> 0, maxSellPrice |-> 0, enabled |-> TRUE]

(* The columns' defaults.                                                   *)
Defaults == [limit |-> Null, rules |-> <<>>]

(* Requests: a tab has one that loads and one that saves.                   *)
Tasks == (Tabs \X {"load", "save"}) \cup {Runner}
NoTask == [pc |-> "idle", patch |-> Null, found |-> Null]

(* A user who never opened the page, or one with a rule and a loss limit.   *)
OldRow == [limit |-> 1, rules |-> <<[emptyRule(CHOOSE p \in Pairs : TRUE) EXCEPT !.maxBuyPrice = 1]>>]

SettingsInit ==
    /\ row \in {Null, OldRow}
    /\ page = [t \in Tabs |-> [settings |-> Null, draft |-> Null]]
    /\ task = [k \in Tasks |-> NoTask]
    /\ budget = [loads |-> MaxLoads, saves |-> MaxSaves, edits |-> MaxEdits]

At(k, pc) == task[k].pc = pc
Spend(what) == budget[what] > 0 /\ budget' = [budget EXCEPT ![what] = @ - 1]

-----------------------------------------------------------------------------
(* SettingsService *)

(* What a request does when it has the row.                                 *)
Has(k, found) ==
    IF task[k].patch = Null
    THEN [task EXCEPT ![k].pc = "answered", ![k].found = found]
    ELSE [task EXCEPT ![k].pc = "update", ![k].found = found]

FindRow(k) ==
    /\ At(k, "find")
    /\ task' = IF row # Null THEN Has(k, row) ELSE [task EXCEPT ![k].pc = "create"]
    /\ UNCHANGED <<row, page, budget>>

(* Mutant: the row is put there whether there is one or not.                *)
CreateRow_Upsert(k) ==
    /\ At(k, "create")
    /\ row' = Defaults /\ task' = Has(k, Defaults)
    /\ UNCHANGED <<page, budget>>

(* The unique index lets one of two requests create; the loser reads.       *)
CreateRow(k) ==
    /\ At(k, "create")
    /\ \/ row = Null /\ row' = Defaults /\ task' = Has(k, Defaults)
       \/ row # Null /\ row' = row /\ task' = [task EXCEPT ![k].pc = "reread"]
    /\ UNCHANGED <<page, budget>>

ReadAgain(k) ==
    /\ At(k, "reread")
    /\ task' = Has(k, row)
    /\ UNCHANGED <<row, page, budget>>

(* The body of a save that the DTO lets through: a price, or a limit, is a  *)
(* number in its range.                                                     *)
BodyIsValid(patch) ==
    /\ patch.limit \in Prices \cup {Null}
    /\ \A n \in DOMAIN patch.rules, side \in Sides : patch.rules[n][side] \in Prices

(* Bounds that cross would silently block every order on that pair.         *)
Crossed(lo, hi) == lo > 0 /\ hi > 0 /\ lo > hi

(* Mutant: the bounds of a sale are not compared.                           *)
RulesAreValid_BuyOnly(rules) ==
    /\ Len(rules) <= MaxRules
    /\ \A i, j \in DOMAIN rules : rules[i].symbol = rules[j].symbol => i = j
    /\ \A n \in DOMAIN rules : ~Crossed(rules[n].minBuyPrice, rules[n].maxBuyPrice)

RulesAreValid(rules) ==
    /\ Len(rules) <= MaxRules
    /\ \A i, j \in DOMAIN rules : rules[i].symbol = rules[j].symbol => i = j
    /\ \A n \in DOMAIN rules : /\ ~Crossed(rules[n].minBuyPrice, rules[n].maxBuyPrice)
                               /\ ~Crossed(rules[n].minSellPrice, rules[n].maxSellPrice)

(* A field that the body does not have is left as it is.                    *)
Update(k) ==
    /\ At(k, "update")
    /\ LET patch == task[k].patch
           saved == [limit |-> IF patch.limit = Null THEN row.limit ELSE patch.limit,
                     rules |-> patch.rules]
       IN \/ ~RulesAreValid(patch.rules)
             /\ task' = [task EXCEPT ![k].pc = "failed"] /\ UNCHANGED row
          \/ RulesAreValid(patch.rules)
             /\ row' = saved
             /\ task' = [task EXCEPT ![k].pc = "answered", ![k].found = saved]
    /\ UNCHANGED <<page, budget>>

(* symbolRule: the runner wants the rule of a pair.                         *)
RunnerAsks ==
    /\ At(Runner, "idle") /\ Spend("loads")
    /\ task' = [task EXCEPT ![Runner].pc = "find"]
    /\ UNCHANGED <<row, page>>

RunnerHasIt ==
    /\ At(Runner, "answered")
    /\ task' = [task EXCEPT ![Runner] = NoTask]
    /\ UNCHANGED <<row, page, budget>>

-----------------------------------------------------------------------------
(* settings.vue, useSettings.ts *)

Loading(t) == ~At(<<t, "load">>, "idle")
Saving(t) == ~At(<<t, "save">>, "idle")
Dirty(t) == page[t].draft # page[t].settings

(* The page is mounted, or its password form has been answered.             *)
Load(t) ==
    /\ ~Loading(t) /\ Spend("loads")
    /\ task' = [task EXCEPT ![<<t, "load">>] = [NoTask EXCEPT !.pc = "find"]]
    /\ UNCHANGED <<row, page>>

(* The answer of either request becomes the settings, and the draft a copy  *)
(* of them, whatever was typed meanwhile.                                   *)
Got(t, kind) ==
    /\ At(<<t, kind>>, "answered")
    /\ page' = [page EXCEPT ![t] = [settings |-> task[<<t, kind>>].found,
                                    draft |-> task[<<t, kind>>].found]]
    /\ task' = [task EXCEPT ![<<t, kind>>] = NoTask]
    /\ UNCHANGED <<row, budget>>

(* The request is lost, is refused, or its answer is lost.                  *)
Failed(t, kind) ==
    /\ task[<<t, kind>>].pc \in {"find", "failed", "answered"}
    /\ task' = [task EXCEPT ![<<t, kind>>] = NoTask]
    /\ UNCHANGED <<row, page, budget>>

(* An edit of the draft; there is no form while the page loads.  A loss     *)
(* limit that is cleared counts as 0.                                       *)
Edits(draft) ==
    LET rules == draft.rules IN
    {[draft EXCEPT !.limit = v] : v \in Field}
        \cup {[draft EXCEPT !.rules = Append(rules, emptyRule(NoPair))]}
        \cup UNION {{[draft EXCEPT !.rules = Seqs!RemoveAt(rules, i)],
                     [draft EXCEPT !.rules[i].enabled = ~rules[i].enabled]}
                    \cup {[draft EXCEPT !.rules[i].symbol = p] : p \in Pairs \cup {NoPair}}
                    \cup {[draft EXCEPT !.rules[i][side] = v] : side \in Sides, v \in Field}
                    : i \in DOMAIN rules}

Edit(t) ==
    /\ ~Loading(t) /\ page[t].draft # Null /\ Spend("edits")
    /\ \E draft \in Edits(page[t].draft) : page' = [page EXCEPT ![t].draft = draft]
    /\ UNCHANGED <<row, task>>

(* All of the draft is sent, but for rules without a pair, and for a loss   *)
(* limit that is empty or 0.                                                *)
Body(draft) ==
    [limit |-> IF draft.limit \in {Null, 0} THEN Null ELSE draft.limit,
     rules |-> SelectSeq(draft.rules, LAMBDA r : r.symbol # NoPair)]

(* The button is in the head of the page: it is there while the page loads. *)
Save(t) ==
    /\ page[t].draft # Null /\ Dirty(t) /\ ~Saving(t) /\ Spend("saves")
    /\ LET body == Body(page[t].draft) IN
       task' = [task EXCEPT ![<<t, "save">>] =
                  [NoTask EXCEPT !.pc = IF BodyIsValid(body) THEN "find" ELSE "failed",
                                 !.patch = body]]
    /\ UNCHANGED <<row, page>>

-----------------------------------------------------------------------------
SettingsNext ==
    \/ \E k \in Tasks : FindRow(k) \/ CreateRow(k) \/ ReadAgain(k) \/ Update(k)
    \/ RunnerAsks \/ RunnerHasIt
    \/ \E t \in Tabs :
          \/ Load(t) \/ Edit(t) \/ Save(t)
          \/ \E kind \in {"load", "save"} : Got(t, kind) \/ Failed(t, kind)

SettingsSpec == SettingsInit /\ [][SettingsNext]_settings

-----------------------------------------------------------------------------
(* symbolRuleBlock: does a rule let a price through?                        *)
Blocks(lo, hi, price) == (lo > 0 /\ price < lo) \/ (hi > 0 /\ price > hi)

(* The rules that are stored can be obeyed: a pair has at most one, and it  *)
(* leaves prices to buy at and prices to sell at, whatever the tabs edit    *)
(* and however their saves interleave (update: "bounds that cross would     *)
(* silently block every order on that pair").                               *)
RulesCanBeObeyed ==
    row # Null =>
        /\ \A i, j \in DOMAIN row.rules : row.rules[i].symbol = row.rules[j].symbol => i = j
        /\ \A n \in DOMAIN row.rules :
              LET r == row.rules[n]
              IN  /\ \E price \in 1..MaxPrice : ~Blocks(r.minBuyPrice, r.maxBuyPrice, price)
                  /\ \E price \in 1..MaxPrice : ~Blocks(r.minSellPrice, r.maxSellPrice, price)

(* A loss limit, once saved, is never lost: not to a save of a tab that was *)
(* loaded before and shows none (onSave leaves out an empty limit), and not *)
(* to a first request that found no row and makes one (get: "the unique     *)
(* index arbitrates and the loser reads what the winner wrote").            *)
LimitsStay == [][row # Null /\ row.limit \notin {Null, 0} => row'.limit \notin {Null, 0}]_settings
=============================================================================
