------------------------------- MODULE Pages -------------------------------
(***************************************************************************)
(* The front end shows one page at a time; each tab, user and request of   *)
(* that page is in the page's own module.  The user opens any one of them, *)
(* and the state of the others is not there.                               *)
(***************************************************************************)
EXTENDS SettingsPage, ListPages, BillingPage, BotForm

VARIABLE shown    \* the page

pages == <<shown, settings, lists, billingPage, botForm>>

PagesInit ==
    /\ shown \in {"settings", "lists", "billing", "bots/new"}
    /\ SettingsInit /\ (shown # "settings" => row = Null)
    /\ ListsInit /\ (shown # "lists" => kind = "bots")
    /\ BillingPageInit
    /\ FormInit

PagesNext ==
    \/ shown = "settings" /\ SettingsNext /\ UNCHANGED <<shown, lists, billingPage, botForm>>
    \/ shown = "lists" /\ ListsNext /\ UNCHANGED <<shown, settings, billingPage, botForm>>
    \/ shown = "billing" /\ BillingPageNext /\ UNCHANGED <<shown, settings, lists, botForm>>
    \/ shown = "bots/new" /\ FormNext /\ UNCHANGED <<shown, settings, lists, billingPage>>

PagesSpec == PagesInit /\ [][PagesNext]_pages
=============================================================================
