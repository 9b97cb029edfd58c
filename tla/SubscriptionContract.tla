------------------------ MODULE SubscriptionContract ------------------------
(* contracts/SubscriptionManager.sol: the contract that pulls subscription  *)
(* fees. Its storage is one record, so that a call that reverts puts all of *)
(* it back. charge writes its storage and then calls the token, and until   *)
(* the token answers anyone it runs may call the contract again: those      *)
(* calls are actions like any other, one frame deeper. The token is         *)
(* external: it refuses or moves the amount, and it may call back.          *)
EXTENDS Integers, Sequences

CONSTANTS Addresses,        \* every account of the chain, the contract's own too
          Contract,         \* address(this)
          Deployer,         \* who runs the constructor
          FirstTreasury, FirstCharger,
          MaxChargeAmount,  \* maxChargeAmount, in token units
          Period,           \* period, in units of block.timestamp
          Amounts,          \* the amounts asked for, approved and held
          MaxTime,          \* bound on block.timestamp
          MaxDepth,         \* bound on calls within calls
          MaxSettings       \* bound on the owner's calls and on approvals

ASSUME DeployedByAnAccount ==
    /\ Contract \in Addresses
    /\ Deployer \in Addresses \ {Contract}
    /\ FirstTreasury \in Addresses /\ FirstCharger \in Addresses

ASSUME LimitsAreNaturals ==
    /\ MaxChargeAmount \in Nat /\ Period \in Nat /\ Amounts \subseteq Nat
    /\ MaxTime \in Nat \ {0} /\ MaxDepth \in Nat \ {0} /\ MaxSettings \in Nat

VARIABLES store,     \* the contract's storage
          balance,   \* external: the token each account holds
          allowance, \* external: what each account lets the contract pull
          now,       \* block.timestamp
          frames,    \* the calls in progress, outermost first
          charged,   \* history: the Charged events
          settings   \* how many settings and approvals were made

vars == <<store, balance, allowance, now, frames, charged, settings>>
token == <<balance, allowance>>

Callers == Addresses \ {Contract}
Times == 0 .. MaxTime

(* The struct of the same name, and the storage of the contract. treasuries *)
(* is history: every treasury an owner named.                               *)
Subscription == [startedAt : Times, lastChargedAt : Times, chargeCount : Nat, active : BOOLEAN]

Storage == [owner : Addresses, treasury : Addresses, charger : Addresses, paused : BOOLEAN,
            treasuries : SUBSET Addresses, sub : [Addresses -> Subscription]]

Receipt == [user : Addresses, amount : Nat, count : Nat, to : Addresses, at : Times,
            sender : Addresses]

(* What a call that reverts puts back.                                      *)
Snapshot == [store : Storage, balance : [Addresses -> Nat],
             allowance : [Addresses -> Nat], charged : SUBSET Receipt]

(* A frame is a charge whose transfer is under way, or a batch and the      *)
(* users it still has to try.                                               *)
Frame == [kind : {"charge", "batch"}, sender : Addresses, user : Addresses, amount : Nat,
          to : Addresses, users : SUBSET Addresses, before : Snapshot]

TypeOK ==
    /\ store \in Storage
    /\ balance \in [Addresses -> Nat]
    /\ allowance \in [Addresses -> Nat]
    /\ now \in Times
    /\ frames \in Seq(Frame) /\ Len(frames) <= MaxDepth
    /\ charged \in SUBSET Receipt
    /\ settings \in Nat

NotSubscribed == [startedAt |-> 0, lastChargedAt |-> 0, chargeCount |-> 0, active |-> FALSE]

(* The constructor.                                                         *)
Init ==
    /\ store = [owner |-> Deployer, treasury |-> FirstTreasury, charger |-> FirstCharger,
                paused |-> FALSE, treasuries |-> {FirstTreasury},
                sub |-> [a \in Addresses |-> NotSubscribed]]
    /\ balance = [a \in Addresses |-> 0]
    /\ allowance = [a \in Addresses |-> 0]
    /\ now = 1
    /\ frames = <<>>
    /\ charged = {}
    /\ settings = 0

-----------------------------------------------------------------------------
(* Who may call: anyone, unless the contract itself is running.             *)

Depth == Len(frames)
Top == frames[Depth]
Push(frame) == frames' = Append(frames, frame)
Pop == SubSeq(frames, 1, Depth - 1)
Outside == Depth > 0 => Top.kind = "charge"

Blank == [kind |-> "charge", sender |-> Contract, user |-> Contract, amount |-> 0,
          to |-> Contract, users |-> {},
          before |-> [store |-> store, balance |-> balance, allowance |-> allowance,
                      charged |-> charged]]

(* Mutant: opting in again forgets the last charge.                         *)
Subscribe_Fresh(user) ==
    /\ Outside
    /\ ~store.paused
    /\ store' = [store EXCEPT !.sub[user] = [@ EXCEPT !.active = TRUE, !.startedAt = now,
                                                      !.lastChargedAt = 0]]
    /\ UNCHANGED <<token, now, frames, charged, settings>>

Subscribe(user) ==
    LET s == store.sub[user] IN
    /\ Outside
    /\ ~store.paused
    /\ store' = [store EXCEPT !.sub[user] =
           [s EXCEPT !.active = TRUE,
                     !.startedAt = IF s.startedAt = 0 THEN now ELSE s.startedAt]]
    /\ UNCHANGED <<token, now, frames, charged, settings>>

Unsubscribe(user) ==
    /\ Outside
    /\ store' = [store EXCEPT !.sub[user].active = FALSE]
    /\ UNCHANGED <<token, now, frames, charged, settings>>

-----------------------------------------------------------------------------
(* charge *)

(* The guards of charge, in the order of the code, but for the caller's.    *)
Due(s) == s.lastChargedAt = 0 \/ now >= s.lastChargedAt + Period

Accepts(user, amount) ==
    /\ ~store.paused
    /\ amount <= MaxChargeAmount
    /\ store.sub[user].active
    /\ Due(store.sub[user])
    /\ allowance[user] >= amount /\ balance[user] >= amount

Written(user) ==
    [store EXCEPT !.sub[user].lastChargedAt = now, !.sub[user].chargeCount = @ + 1]

Transfer(sender, user, amount) ==
    [Blank EXCEPT !.sender = sender, !.user = user, !.amount = amount, !.to = store.treasury]

MayCharge(sender, user, amount) ==
    sender = store.charger /\ Accepts(user, amount) /\ Depth < MaxDepth

(* The storage is written, and transferFrom called.                         *)
Charge(sender, user, amount) ==
    /\ Outside
    /\ MayCharge(sender, user, amount)
    /\ store' = Written(user)
    /\ Push(Transfer(sender, user, amount))
    /\ UNCHANGED <<token, now, charged, settings>>

(* The event carries the count of the storage as the transfer left it.      *)
Transferred ==
    LET f == Top IN
    /\ Depth > 0 /\ f.kind = "charge"
    /\ allowance[f.user] >= f.amount /\ balance[f.user] >= f.amount
    /\ allowance' = [allowance EXCEPT ![f.user] = @ - f.amount]
    /\ balance' = [balance EXCEPT ![f.user] = @ - f.amount]
    /\ charged' = charged \cup
           {[user |-> f.user, amount |-> f.amount, count |-> store.sub[f.user].chargeCount,
             to |-> f.to, at |-> now, sender |-> f.sender]}
    /\ frames' = Pop
    /\ UNCHANGED <<store, now, settings>>

(* The token throws or answers false: TransferFailed, and everything since  *)
(* the call is undone, with the calls made within it.                       *)
TransferFails ==
    /\ Depth > 0 /\ Top.kind = "charge"
    /\ store' = Top.before.store
    /\ balance' = Top.before.balance
    /\ allowance' = Top.before.allowance
    /\ charged' = Top.before.charged
    /\ frames' = Pop
    /\ UNCHANGED <<now, settings>>

-----------------------------------------------------------------------------
(* chargeBatch: the contract calls charge through this, so the sender that  *)
(* charge sees is the contract. A user whose charge reverts is passed over. *)

ChargeBatch(sender, users, amount) ==
    /\ Outside
    /\ sender = store.charger
    /\ Depth < MaxDepth
    /\ Push([Blank EXCEPT !.kind = "batch", !.sender = sender, !.users = users,
                          !.amount = amount])
    /\ UNCHANGED <<store, token, now, charged, settings>>

InBatch == Depth > 0 /\ Top.kind = "batch"
Rest(user) == [frames EXCEPT ![Depth] = [Top EXCEPT !.users = @ \ {user}]]

(* this.charge: it reverts, with ChargeFailed and on to the next, or it     *)
(* gets as far as the transfer.                                             *)
BatchTries(user) ==
    LET goes == MayCharge(Contract, user, Top.amount) IN
    /\ InBatch /\ user \in Top.users
    /\ store' = IF goes THEN Written(user) ELSE store
    /\ frames' = IF goes THEN Append(Rest(user), Transfer(Contract, user, Top.amount))
                         ELSE Rest(user)
    /\ UNCHANGED <<token, now, charged, settings>>

BatchEnds ==
    /\ InBatch /\ Top.users = {}
    /\ frames' = Pop
    /\ UNCHANGED <<store, token, now, charged, settings>>

(* Mutant: the backend is told a second too late.                           *)
Chargeable_Later(user, amount) ==
    LET s == store.sub[user] IN
    /\ ~store.paused /\ s.active
    /\ amount <= MaxChargeAmount
    /\ s.lastChargedAt = 0 \/ now > s.lastChargedAt + Period
    /\ allowance[user] >= amount
    /\ balance[user] >= amount

(* chargeable: the answer to the backend.                                   *)
Chargeable(user, amount) ==
    LET s == store.sub[user] IN
    /\ ~store.paused /\ s.active
    /\ amount <= MaxChargeAmount
    /\ s.lastChargedAt = 0 \/ now >= s.lastChargedAt + Period
    /\ allowance[user] >= amount
    /\ balance[user] >= amount

-----------------------------------------------------------------------------
(* The owner's calls *)

Setting(sender) ==
    /\ Outside
    /\ sender = store.owner
    /\ settings < MaxSettings
    /\ settings' = settings + 1
    /\ UNCHANGED <<token, now, frames, charged>>

SetCharger(sender, next) == Setting(sender) /\ store' = [store EXCEPT !.charger = next]

SetTreasury(sender, next) ==
    /\ Setting(sender)
    /\ store' = [store EXCEPT !.treasury = next, !.treasuries = @ \cup {next}]

SetPaused(sender, value) == Setting(sender) /\ store' = [store EXCEPT !.paused = value]

TransferOwnership(sender, next) == Setting(sender) /\ store' = [store EXCEPT !.owner = next]

(* External: a wallet approves the contract, spends or receives (the        *)
(* treasury, too, gets what it gets here).                                  *)
WalletChanges(user, approved, held) ==
    /\ Outside
    /\ settings < MaxSettings
    /\ settings' = settings + 1
    /\ allowance' = [allowance EXCEPT ![user] = approved]
    /\ balance' = [balance EXCEPT ![user] = held]
    /\ UNCHANGED <<store, now, frames, charged>>

(* The next block.                                                          *)
Tick ==
    /\ Depth = 0
    /\ now < MaxTime
    /\ now' = now + 1
    /\ UNCHANGED <<store, token, frames, charged, settings>>

Next ==
    \/ \E user \in Callers : Subscribe(user) \/ Unsubscribe(user)
    \/ \E sender \in Callers, user \in Addresses, amount \in Amounts :
           Charge(sender, user, amount)
    \/ Transferred \/ TransferFails
    \/ \E sender \in Callers, users \in SUBSET Addresses, amount \in Amounts :
           ChargeBatch(sender, users, amount)
    \/ (\E user \in Addresses : BatchTries(user)) \/ BatchEnds
    \/ \E sender \in Callers, next \in Addresses :
           SetCharger(sender, next) \/ SetTreasury(sender, next) \/ TransferOwnership(sender, next)
    \/ \E sender \in Callers, value \in BOOLEAN : SetPaused(sender, value)
    \/ \E user \in Callers, approved, held \in Amounts : WalletChanges(user, approved, held)
    \/ Tick

Spec == Init /\ [][Next]_vars

-----------------------------------------------------------------------------
(* "Even with full control of the charger key an attacker can take at most  *)
(* maxChargeAmount per subscriber per period": no two charges of one user   *)
(* are within a period, and none is above the ceiling, whoever the charger  *)
(* is and whatever the token calls while it transfers (charge).             *)
OneChargePerPeriod ==
    \A r \in charged :
        /\ r.amount <= MaxChargeAmount
        /\ \A q \in charged : q.user = r.user /\ q # r =>
               q.at + Period <= r.at \/ r.at + Period <= q.at

(* "Only to the treasury address, which is set by the owner and not by the  *)
(* charger", also when the owner changes it while a transfer is under way.  *)
PaidToATreasury == \A r \in charged : r.to \in store.treasuries

(* What chargeBatch does: charge refuses the contract as its caller, so no  *)
(* batch charges anyone. (Its comment says it "charges many subscribers in  *)
(* one transaction".)                                                       *)
BatchChargesNobody == \A r \in charged : r.sender # Contract

(* chargeable "is true when a charge would succeed right now": charge and   *)
(* it draw the same line (but for what the token then does).                *)
ChargeableIsExact ==
    Depth = 0 => \A user \in Addresses, amount \in Amounts :
        Chargeable(user, amount) <=> MayCharge(store.charger, user, amount)

(* What these rest on. Of a storage, its events and the d frames below it:  *)
(* an event is no younger than the last charge of its user; a transfer      *)
(* under way has written its time, which no event of its user is near; a    *)
(* user has one such transfer, or a period is nothing; and no call leaves   *)
(* the contract in a batch.                                                 *)
EventsBelow(s, c) ==
    \A r \in c :
        /\ r.amount <= MaxChargeAmount
        /\ r.to \in s.treasuries
        /\ r.sender # Contract
        /\ r.at <= s.sub[r.user].lastChargedAt
        /\ s.sub[r.user].lastChargedAt # 0
        /\ \A q \in c : q.user = r.user /\ q # r =>
               q.at + Period <= r.at \/ r.at + Period <= q.at

TransfersBelow(fs, s, c, d, time) ==
    /\ s.treasury \in s.treasuries
    /\ \A i \in 1 .. d :
           LET f == fs[i] IN
           /\ f.kind = "charge" =>
                  /\ f.amount <= MaxChargeAmount
                  /\ f.to \in s.treasuries
                  /\ f.sender # Contract
                  /\ s.sub[f.user].lastChargedAt = time
                  /\ \A r \in c : r.user = f.user => r.at + Period <= time
                  /\ \A j \in 1 .. i - 1 :
                         fs[j].kind = "charge" /\ fs[j].user = f.user => Period = 0
           /\ f.kind = "batch" => i = d /\ s.charger # Contract

(* A storage and its events, above d frames.                                *)
Sound(fs, s, c, d, time) ==
    /\ \A a \in Addresses : s.sub[a].lastChargedAt <= time
    /\ EventsBelow(s, c)
    /\ TransfersBelow(fs, s, c, d, time)

(* What each frame would put back is sound, too.                            *)
ContractInv ==
    /\ TypeOK
    /\ now # 0
    /\ Sound(frames, store, charged, Depth, now)
    /\ \A i \in 1 .. Depth :
           Sound(frames, frames[i].before.store, frames[i].before.charged, i - 1, now)

=============================================================================
