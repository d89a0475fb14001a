------------------------- MODULE PredictionCredits -------------------------
(***************************************************************************)
(* The prediction credits of ONE user: the row of prediction_credits, the  *)
(* ledger of rewarded-ad events, and the requests that use them.           *)
(*                                                                         *)
(* Each request is one database transaction: what it inserts or updates    *)
(* becomes visible when it commits, and until it ends another transaction  *)
(* that writes the same row, or inserts the same key, waits for it.        *)
(***************************************************************************)
EXTENDS Integers, FiniteSets

CONSTANTS
    Session,       \* requests that may be served at the same time
    AdEvent,       \* rewarded-ad completions AdMob may report
    InitialFree,   \* INITIAL_FREE_PREDICTIONS
    RewardGrant,   \* REWARDED_AD_CREDIT_GRANT
    NoAccount,     \* stands for "no row"
    NoAdEvent      \* stands for "no event"

Account == [available : Nat, used : Nat, granted : Nat]

ASSUME GrantAssumption == InitialFree \in Nat /\ RewardGrant \in Nat
ASSUME AdEventAssumption == IsFiniteSet(AdEvent) /\ NoAdEvent \notin AdEvent
ASSUME AccountAssumption == NoAccount \notin Account

VARIABLES
    account,    \* the committed credit row
    rewards,    \* the committed reward events
    answered,   \* predictions answered to the user
    tx          \* the transaction of each request

creditsVars == <<account, rewards, answered, tx>>

-----------------------------------------------------------------------------

(* What a transaction does next and for whom, the event whose key it has   *)
(* inserted, and its uncommitted version of the row.                       *)
Tx(pc, kind, event, row) == [pc |-> pc, kind |-> kind, event |-> event, row |-> row]

PC == {"idle", "record", "read", "insert", "apply", "commit"}
Kind == {"none", "entitlement", "generate", "reward", "duplicate"}

IdleTx == Tx("idle", "none", NoAdEvent, NoAccount)

FreshAccount == [available |-> InitialFree, used |-> 0, granted |-> 0]

(* Mutant: the row is inserted on a connection of its own, and the request *)
(* waits for itself.                                                       *)
RowLockedByAnyone(s) == \E other \in Session : tx[other].row # NoAccount
(* Another transaction holds the row, or the key of the event.             *)
RowLocked(s) == \E other \in Session \ {s} : tx[other].row # NoAccount
KeyLocked(s, e) == \E other \in Session \ {s} :
                      /\ tx[other].kind = "reward" /\ tx[other].event = e
                      /\ tx[other].pc # "record"

(* The row as the transaction sees it.                                     *)
Row(s) == IF tx[s].row # NoAccount THEN tx[s].row ELSE account

(* The transaction goes on to the step pc with its version of the row.     *)
GoOn(s, pc, row) == Tx(pc, tx[s].kind, tx[s].event, row)

Consumed(row) == [row EXCEPT !.available = @ - 1, !.used = @ + 1]
Granted(row) == [row EXCEPT !.available = @ + RewardGrant, !.granted = @ + RewardGrant]

CreditsInit ==
    /\ account = NoAccount
    /\ rewards = {}
    /\ answered = 0
    /\ tx = [s \in Session |-> IdleTx]

-----------------------------------------------------------------------------

(* GET /entitlement and POST /generate begin with the row; the AdMob       *)
(* callback begins with the event, which may be delivered any number of    *)
(* times.                                                                  *)
Begin(s, kind) ==
    /\ tx[s].pc = "idle"
    /\ tx' = [tx EXCEPT ![s] = Tx("read", kind, NoAdEvent, NoAccount)]
    /\ UNCHANGED <<account, rewards, answered>>

Callback(s, e) ==
    /\ tx[s].pc = "idle"
    /\ tx' = [tx EXCEPT ![s] = Tx("record", "reward", e, NoAccount)]
    /\ UNCHANGED <<account, rewards, answered>>

(* Mutant: no unique constraint on provider_event_id.                      *)
RecordRewardUnchecked(s) ==
    /\ tx[s].pc = "record"
    /\ tx' = [tx EXCEPT ![s] = Tx("read", "reward", tx[s].event, NoAccount)]
    /\ UNCHANGED <<account, rewards, answered>>

(* reward_events.record: a duplicate key is reported, not raised.          *)
RecordReward(s) ==
    /\ tx[s].pc = "record"
    /\ ~KeyLocked(s, tx[s].event)
    /\ tx' = [tx EXCEPT ![s] = IF tx[s].event \in rewards
                               THEN Tx("read", "duplicate", NoAdEvent, NoAccount)
                               ELSE Tx("read", "reward", tx[s].event, NoAccount)]
    /\ UNCHANGED <<account, rewards, answered>>

(* _get_or_initialize_model: the row is looked up, and inserted if it is   *)
(* not there; a key inserted meanwhile only undoes the savepoint.          *)
ReadRow(s) ==
    /\ tx[s].pc = "read"
    /\ tx' = [tx EXCEPT ![s] = GoOn(s, IF account = NoAccount THEN "insert" ELSE "apply", NoAccount)]
    /\ UNCHANGED <<account, rewards, answered>>

(* Mutant: the insert replaces a row that appeared since the lookup.       *)
InsertRowAnyway(s) ==
    /\ tx[s].pc = "insert"
    /\ ~RowLocked(s)
    /\ tx' = [tx EXCEPT ![s] = GoOn(s, "apply", FreshAccount)]
    /\ UNCHANGED <<account, rewards, answered>>

InsertRow(s) ==
    /\ tx[s].pc = "insert"
    /\ ~RowLocked(s)
    /\ tx' = [tx EXCEPT ![s] = GoOn(s, "apply", IF account = NoAccount THEN FreshAccount
                                                      ELSE NoAccount)]
    /\ UNCHANGED <<account, rewards, answered>>

(* get_entitlement, and a duplicate callback: nothing more to write.       *)
Answer(s) ==
    /\ tx[s].pc = "apply"
    /\ tx[s].kind \in {"entitlement", "duplicate"}
    /\ tx' = [tx EXCEPT ![s] = GoOn(s, "commit", tx[s].row)]
    /\ UNCHANGED <<account, rewards, answered>>

(* Mutant: the balance is computed from what was read, whoever else is     *)
(* writing the row.                                                        *)
ConsumeFromMemory(s) ==
    /\ tx[s].pc = "apply" /\ tx[s].kind = "generate"
    /\ Row(s).available > 0
    /\ tx' = [tx EXCEPT ![s] = GoOn(s, "commit", Consumed(Row(s)))]
    /\ UNCHANGED <<account, rewards, answered>>

(* consume: the guarded UPDATE, which raises when no credit is left.       *)
Consume(s) ==
    /\ tx[s].pc = "apply" /\ tx[s].kind = "generate"
    /\ ~RowLocked(s)
    /\ tx' = [tx EXCEPT ![s] = IF Row(s).available > 0
                               THEN GoOn(s, "commit", Consumed(Row(s)))
                               ELSE IdleTx]
    /\ UNCHANGED <<account, rewards, answered>>

Grant(s) ==
    /\ tx[s].pc = "apply" /\ tx[s].kind = "reward"
    /\ ~RowLocked(s)
    /\ tx' = [tx EXCEPT ![s] = GoOn(s, "commit", Granted(Row(s)))]
    /\ UNCHANGED <<account, rewards, answered>>

(* The request ends well: a generate request has its prediction.           *)
Commit(s) ==
    /\ tx[s].pc = "commit"
    /\ account' = Row(s)
    /\ rewards' = IF tx[s].kind = "reward" THEN rewards \cup {tx[s].event} ELSE rewards
    /\ answered' = IF tx[s].kind = "generate" THEN answered + 1 ELSE answered
    /\ tx' = [tx EXCEPT ![s] = IdleTx]

(* Mutant: the consumption is committed before the generation can fail.    *)
AbortKeepingRow(s) ==
    /\ tx[s].pc # "idle"
    /\ account' = IF tx[s].pc = "commit" THEN Row(s) ELSE account
    /\ tx' = [tx EXCEPT ![s] = IdleTx]
    /\ UNCHANGED <<rewards, answered>>

(* Generation fails, or the request does: everything is rolled back.       *)
Abort(s) ==
    /\ tx[s].pc # "idle"
    /\ tx' = [tx EXCEPT ![s] = IdleTx]
    /\ UNCHANGED <<account, rewards, answered>>

Step(s) == \/ RecordReward(s) \/ ReadRow(s) \/ InsertRow(s)
           \/ Answer(s) \/ Consume(s) \/ Grant(s) \/ Commit(s)

CreditsNext ==
    \E s \in Session : \/ \E kind \in {"entitlement", "generate"} : Begin(s, kind)
                       \/ \E e \in AdEvent : Callback(s, e)
                       \/ RecordReward(s) \/ ReadRow(s) \/ InsertRow(s)
                       \/ Answer(s) \/ Consume(s) \/ Grant(s) \/ Commit(s)
                       \/ Abort(s)

CreditsSpec == CreditsInit /\ [][CreditsNext]_creditsVars

(* A request runs on, and the database serves those who wait in turn.      *)
CreditsFairSpec == CreditsSpec /\ \A s \in Session : SF_creditsVars(Step(s))

-----------------------------------------------------------------------------

(* Type correctness of the rows and of the transactions' memory.           *)
CreditsTypeOK ==
    /\ account \in Account \cup {NoAccount}
    /\ rewards \subseteq AdEvent
    /\ answered \in Nat
    /\ tx \in [Session -> [pc : PC, kind : Kind, event : AdEvent \cup {NoAdEvent},
                           row : Account \cup {NoAccount}]]

Budget == InitialFree + RewardGrant * Cardinality(rewards)

(* The one credit check: however generate requests, first accesses and     *)
(* callbacks overlap, a user is never answered more predictions than the   *)
(* free ones plus those of ads that were really completed.                 *)
NeverOverspent == answered <= Budget

(* Consumption is atomic with the answer, a grant with its ledger entry:   *)
(* a failed generation costs nothing, a replayed callback grants nothing,  *)
(* and no credit is lost between them.                                     *)
CreditsAddUp ==
    /\ account # NoAccount => /\ account.available = Budget - answered
                              /\ account.granted = RewardGrant * Cardinality(rewards)
                              /\ account.used = answered
    /\ account = NoAccount => rewards = {} /\ answered = 0

(* Requests that wait for each other's row and key never wait forever.     *)
RequestsEnd == \A s \in Session : tx[s].pc # "idle" ~> tx[s].pc = "idle"
=============================================================================
