----------------------------- MODULE ListPages -----------------------------
(***************************************************************************)
(* The pages that show rows of the server and act on them: bots, orders,   *)
(* API keys, and the portfolio of the auto-invest page, whose one row is   *)
(* its status.  Each keeps a copy of the rows, fetched when the page is    *)
(* mounted and patched with the answers of its requests, which come in any *)
(* order, fail, or are lost.                                               *)
(*                                                                         *)
(* A row is its number (rows are numbered in the order they were created)  *)
(* and the version of its contents.                                        *)
(***************************************************************************)
EXTENDS Integers, Sequences

CONSTANTS
    Slots,         \* requests of the page that can be in flight
    NoRow,         \* no row
    FirstRows,     \* rows there are when the page is mounted
    MaxRows,       \* bound: rows ever created
    MaxRequests,   \* bound: requests of the page
    MaxElsewhere   \* bound: changes made by others

ASSUME RowsAssumption ==
    /\ MaxRows \in Nat /\ FirstRows \in 1..MaxRows
    /\ NoRow \notin Nat
    /\ Slots # {}

VARIABLES
    kind,       \* which page it is
    rows,       \* the rows of the server, NoRow when deleted or not there yet
    born,       \* rows ever created
    list,       \* the rows the page shows, newest first
    calls,      \* the requests in flight
    busy,       \* the row whose buttons wait (busyId, verifyingId, busy)
    spent,      \* requests and changes so far
    removed,    \* history: rows the page has removed
    excuse      \* history: something happened after which the page may be wrong

lists == <<kind, rows, born, list, calls, busy, spent, removed, excuse>>

Ids == 1..MaxRows
NoRequest == [pc |-> "idle", op |-> "fetch", id |-> NoRow, answer |-> <<>>, again |-> FALSE]

There(id) == rows[id] # NoRow
(* The server lists the newest first.                                       *)
ServerList ==
    LET upTo[id \in 0..MaxRows] ==
            IF id = 0 THEN <<>>
            ELSE IF There(id) THEN <<[id |-> id, version |-> rows[id]]>> \o upTo[id - 1]
            ELSE upTo[id - 1]
    IN upTo[MaxRows]

InFlight(op) == \E s \in Slots : calls[s].pc # "idle" /\ calls[s].pc # "orphan" /\ calls[s].op = op
Fetching == InFlight("fetch")
Quiet == \A s \in Slots : calls[s].pc = "idle"

(* The page is mounted, and fetches.                                        *)
ListsInit ==
    /\ kind \in {"bots", "orders", "keys", "portfolio"}
    /\ born = IF kind = "portfolio" THEN 1 ELSE FirstRows
    /\ rows = [id \in Ids |-> IF id <= born THEN 0 ELSE NoRow]
    /\ list = <<>>
    /\ calls = [s \in Slots |-> IF s = CHOOSE first \in Slots : TRUE
                                  THEN [NoRequest EXCEPT !.pc = "sent"] ELSE NoRequest]
    /\ busy = NoRow
    /\ spent = [requests |-> 0, elsewhere |-> 0]
    /\ removed = {}
    /\ excuse = FALSE

-----------------------------------------------------------------------------
(* The user *)

Shown(id) == \E n \in DOMAIN list : list[n].id = id

(* A fetch and a change that overlap, or two requests about one row, may    *)
(* be answered in another order than they are served.                       *)
Crosses(op, id) ==
    \E s \in Slots :
        /\ calls[s].pc # "idle"
        /\ \/ op = "fetch" \/ calls[s].op = "fetch"
           \/ op = "act" /\ calls[s].op = "act" /\ calls[s].id = id

Send(op, id) ==
    /\ spent.requests < MaxRequests
    /\ spent' = [spent EXCEPT !.requests = @ + 1]
    /\ \E s \in Slots :
          /\ calls[s].pc = "idle"
          /\ calls' = [calls EXCEPT ![s] = [NoRequest EXCEPT !.pc = "sent", !.op = op, !.id = id]]
    /\ excuse' = (excuse \/ Crosses(op, id))
    /\ UNCHANGED <<kind, rows, born, list, removed>>

(* Orders has a button that loads again.                                    *)
Reload == kind = "orders" /\ ~Fetching /\ Send("fetch", NoRow) /\ UNCHANGED busy

(* Only the portfolio is not replaced by a skeleton while the page loads.   *)
StaysInView == kind = "portfolio"

(* Mutant: the dialog that adds a key is closed before its answer is there. *)
Offered_Beneath(id) == Shown(id) /\ (~Fetching \/ StaysInView)

(* The rows are replaced by a skeleton while the page loads, and lie under  *)
(* the dialog while a key is added.                                         *)
Offered(id) == Shown(id) /\ (~Fetching \/ StaysInView) /\ ~InFlight("create")

(* Start, pause or stop a bot; sync or cancel an order; verify a key;       *)
(* enable or disable the portfolio.                                         *)
Act(id) ==
    /\ Offered(id) /\ busy # id
    /\ busy' = id
    /\ Send("act", id)

(* Delete a bot; revoke a key, after a dialog whose button waits.           *)
Delete(id) ==
    /\ kind \in {"bots", "keys"} /\ Offered(id)
    /\ kind = "keys" => ~InFlight("remove")
    /\ Send("remove", id)
    /\ UNCHANGED busy

(* Add a key: the button that opens the dialog is there while the page      *)
(* loads, and the dialog's own button waits.                                *)
Create == kind = "keys" /\ ~InFlight("create") /\ Send("create", NoRow) /\ UNCHANGED busy

-----------------------------------------------------------------------------
(* The server *)

Served(s, answer) ==
    calls' = [calls EXCEPT ![s] =
        IF @.pc = "orphan" THEN NoRequest ELSE [@ EXCEPT !.pc = "served", !.answer = answer]]
Refused(s) ==
    calls' = [calls EXCEPT ![s] =
        IF @.pc = "orphan" THEN NoRequest ELSE [@ EXCEPT !.pc = "failed"]]

(* A row that is gone is not found, and any request may be refused.         *)
Serve(s) ==
    /\ calls[s].pc \in {"sent", "orphan"}
    /\ LET id == calls[s].id
           op == calls[s].op
       IN \/ op = "fetch" /\ Served(s, ServerList) /\ UNCHANGED <<rows, born>>
          \/ op = "act" /\ There(id) /\ UNCHANGED born
             /\ rows' = [rows EXCEPT ![id] = @ + 1]
             /\ Served(s, <<[id |-> id, version |-> rows[id] + 1]>>)
          \/ op = "remove" /\ There(id) /\ UNCHANGED born
             /\ rows' = [rows EXCEPT ![id] = NoRow] /\ Served(s, <<>>)
          \/ op = "create" /\ \E new \in Ids :
             /\ new = born + 1 /\ born' = new
             /\ rows' = [rows EXCEPT ![new] = 0]
             /\ Served(s, <<[id |-> new, version |-> 0]>>)
          \/ Refused(s) /\ UNCHANGED <<rows, born>>
    /\ UNCHANGED <<kind, list, busy, spent, removed, excuse>>

(* A row is changed by someone else: the runner, the reconciler, a tab.     *)
Elsewhere(id) ==
    /\ There(id) /\ spent.elsewhere < MaxElsewhere
    /\ rows' = [rows EXCEPT ![id] = @ + 1]
    /\ spent' = [spent EXCEPT !.elsewhere = @ + 1]
    /\ excuse' = TRUE
    /\ UNCHANGED <<kind, born, list, calls, busy, removed>>

-----------------------------------------------------------------------------
(* The answers *)

(* The button of a row stops waiting when any such request ends.            *)
Ends(s) ==
    /\ calls' = [calls EXCEPT ![s] = NoRequest]
    /\ busy' = IF calls[s].op = "act" THEN NoRow ELSE busy

(* The rows of the list that are not the one.                               *)
Without(id) ==
    LET kept[n \in 0..Len(list)] ==
            IF n = 0 THEN <<>>
            ELSE IF list[n].id = id THEN kept[n - 1]
            ELSE Append(kept[n - 1], list[n])
    IN kept[Len(list)]

(* Mutant: the answer of a request about a row is put into the list whether *)
(* the list has the row or not.                                             *)
Patched_Upsert(op, id, answer) ==
    CASE op = "fetch" -> answer
      [] op = "create" -> answer \o list
      [] op = "act" -> answer \o Without(id)
      [] op = "remove" -> Without(id)

(* What an answer makes of the list.                                        *)
Patched(op, id, answer) ==
    CASE op = "fetch" -> answer
      [] op = "create" -> answer \o list
      [] op = "act" -> [n \in DOMAIN list |-> IF list[n].id = id THEN answer[1] ELSE list[n]]
      [] op = "remove" -> Without(id)

Answered(s) ==
    /\ calls[s].pc = "served"
    /\ list' = Patched(calls[s].op, calls[s].id, calls[s].answer)
    /\ removed' = IF calls[s].op = "remove" THEN removed \cup {calls[s].id} ELSE removed
    /\ Ends(s)
    /\ UNCHANGED <<kind, rows, born, spent, excuse>>

(* A request that failed leaves the list as it is.                          *)
Fails(s) ==
    /\ calls[s].pc = "failed"
    /\ Ends(s)
    /\ excuse' = (excuse \/ calls[s].op = "fetch")
    /\ UNCHANGED <<kind, rows, born, list, spent, removed>>

(* The connection breaks after the server has served the request: a GET or  *)
(* a DELETE (of a bot, a key, or an order) is sent once more by the HTTP    *)
(* client, the others fail.                                                 *)
LoseAnswer(s) ==
    /\ calls[s].pc = "served"
    /\ LET repeats == /\ ~calls[s].again
                      /\ \/ calls[s].op \in {"fetch", "remove"}
                         \/ calls[s].op = "act" /\ kind = "orders"
       IN \/ repeats
             /\ calls' = [calls EXCEPT ![s].pc = "sent", ![s].again = TRUE, ![s].answer = <<>>]
          \/ ~repeats
             /\ calls' = [calls EXCEPT ![s].pc = "failed"]
    /\ excuse' = TRUE
    /\ UNCHANGED <<kind, rows, born, list, busy, spent, removed>>

(* The client's timeout: the server may serve the request later.            *)
GiveUp(s) ==
    /\ calls[s].pc = "sent"
    /\ calls' = [calls EXCEPT ![s].pc = "orphan"]
    /\ busy' = IF calls[s].op = "act" THEN NoRow ELSE busy
    /\ excuse' = TRUE
    /\ UNCHANGED <<kind, rows, born, list, spent, removed>>

-----------------------------------------------------------------------------
ListsNext ==
    \/ Reload \/ Create
    \/ \E id \in Ids : Act(id) \/ Delete(id) \/ Elsewhere(id)
    \/ \E s \in Slots : Serve(s) \/ Answered(s) \/ Fails(s) \/ LoseAnswer(s) \/ GiveUp(s)

ListsSpec == ListsInit /\ [][ListsNext]_lists

-----------------------------------------------------------------------------
(* A row that the page has removed never comes back to its list, whatever   *)
(* other requests are in flight and in whatever order they are answered     *)
(* (deleteBot and revokeAccount filter, the others map; a list that loads   *)
(* is not shown).                                                           *)
GoneRowsStayGone == \A n \in DOMAIN list : list[n].id \notin removed

(* When no request is in flight and nothing happened that the page cannot   *)
(* know of, it shows what the server has, in the server's order: it may be  *)
(* wrong only after a lost answer, a change by someone else, a fetch that   *)
(* overlapped with a change, two requests at once about one row, or a fetch *)
(* that failed.                                                             *)
QuietPagesAreTrue == Quiet /\ ~excuse => list = ServerList
=============================================================================
