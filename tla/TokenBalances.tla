--------------------------- MODULE TokenBalances ---------------------------
(***************************************************************************)
(* The balances of token holders that the collector puts into the          *)
(* statistics of a block (core/stats/collector_contract.go).  The events   *)
(* of a receipt announce whose balance a token contract has changed; the   *)
(* collector keeps one row per contract and address, forgets the balance   *)
(* of a row that is announced again, and asks the contract for every       *)
(* balance it does not have.  The list of the block is made anew from      *)
(* these rows for every receipt.                                           *)
(*                                                                         *)
(* External: the contracts, which may change a balance without announcing  *)
(* it, and the virtual machine that runs their getBalance, which may fail  *)
(* or return what cannot be decoded.                                       *)
(***************************************************************************)
EXTENDS Integers, Sequences, SequencesExt, FiniteSetsExt

CONSTANTS
    Tokens,           \* addresses of token contracts
    RawHolders,       \* holders as the events name them: bytes
    AddressOf(_),     \* bytesToAddress: cut or filled up to the length of an address
    MaxTokenBalance,  \* bound: balance of a holder
    MaxReceipts       \* bound: receipts of the block

EmptyAddress == "empty"

ASSUME TokenAssumption ==
    IsFiniteSet(Tokens) /\ MaxTokenBalance \in Nat /\ MaxReceipts \in Nat

VARIABLES
    tokenBalances, \* what the contracts say: <<contract, raw holder>> -> balance
    updates,       \* tokenBalanceUpdateCollector.updates
    balanceRows,   \* c.stats.TokenBalanceUpdates
    tokens,        \* c.stats.Tokens
    receipts,      \* receipts so far
    unannounced,   \* history: <<contract, raw>> changed since it was last announced
    misread        \* history: <<contract, raw>> whose last reading went wrong

tokenVars == <<tokenBalances, updates, balanceRows, tokens, receipts, unannounced, misread>>

NoBalance == -1   \* nil
Answers == {"ok", "failed", "garbled"}
TokenKeys == Tokens \X RawHolders

\* An event: its name, its contract and the holders in its data.
TokenEvents ==
    [name : {"transfer"}, contract : Tokens, data : {<<a, b, "amount">> : a, b \in RawHolders}]
    \cup [name : {"transfer", "airdrop"}, contract : Tokens, data : {<<a, "amount">> : a \in RawHolders}]

detectTokenBalanceUpdate(raw, contract) ==
    IF AddressOf(raw) = EmptyAddress THEN <<>>
    ELSE << [contract |-> contract, address |-> AddressOf(raw), raw |-> raw, balance |-> NoBalance] >>

\* A transfer has three data, an airdrop two; others announce nothing.
detectTokenBalanceUpdates(event) ==
    CASE event.name = "transfer" /\ Len(event.data) = 3 ->
            detectTokenBalanceUpdate(event.data[1], event.contract)
            \o detectTokenBalanceUpdate(event.data[2], event.contract)
      [] event.name = "airdrop" /\ Len(event.data) = 2 ->
            detectTokenBalanceUpdate(event.data[1], event.contract)
      [] OTHER -> <<>>

\* ... one event after the other.
AnnouncedIn(events) ==
    LET upTo[n \in 0..Len(events)] ==
            IF n = 0 THEN <<>> ELSE upTo[n - 1] \o detectTokenBalanceUpdates(events[n])
    IN  upTo[Len(events)]

\* A burn without events announces the sender.
AnnouncedBy(receipt) ==
    IF receipt.method = "burn" /\ receipt.events = <<>>
    THEN detectTokenBalanceUpdate(receipt.from, receipt.contract)
    ELSE AnnouncedIn(receipt.events)

SameRow(a, b) == a.contract = b.contract /\ a.address = b.address

\* Mutant: a balance that is known is not asked for again.
KeepKnownBalance(list, update) ==
    IF \E i \in DOMAIN list : SameRow(list[i], update) THEN list ELSE Append(list, update)

\* add: a new row, or the row that is there without its balance; the row keeps
\* the bytes that named its address first.
add(list, update) ==
    IF \E i \in DOMAIN list : SameRow(list[i], update)
    THEN [i \in DOMAIN list |-> IF SameRow(list[i], update)
                                THEN [list[i] EXCEPT !.balance = NoBalance] ELSE list[i]]
    ELSE Append(list, update)

\* add, for each of the updates in turn.
addAll(list, announced) ==
    LET after[n \in 0..Len(announced)] ==
            IF n = 0 THEN list ELSE add(after[n - 1], announced[n])
    IN  after[Len(announced)]

\* call: an answer that cannot be decoded is no error, since it wraps the nil
\* error of a receipt that succeeded; its output is empty, which Balance takes
\* for zero.
BalanceAnswer(row, answer) ==
    CASE answer = "ok"      -> tokenBalances'[<<row.contract, row.raw>>]
      [] answer = "garbled" -> 0
      [] OTHER              -> NoBalance

\* Info: name and symbol may be empty, decimals need a byte.
InfoDetects(answer) ==
    answer.name # "failed" /\ answer.symbol # "failed" /\ answer.decimals = "ok"

\* collectTokens.
detectTokens(contracts, answer) == tokens' = tokens \o SetToSeq({c \in contracts : InfoDetects(answer)})

\* The rows that the block's list gets.
RowsWithBalance(list) ==
    LET upTo[n \in 0..Len(list)] ==
            IF n = 0 THEN <<>>
            ELSE IF list[n].balance = NoBalance THEN upTo[n - 1] ELSE Append(upTo[n - 1], list[n])
    IN  upTo[Len(list)]

\* applyTxReceipt, with the answer to all that is asked for this receipt.
applyTxReceipt(receipt, answer) ==
    LET announced == addAll(updates, AnnouncedBy(receipt))
        read == [i \in DOMAIN announced |->
                    IF announced[i].balance = NoBalance
                    THEN [announced[i] EXCEPT !.balance = BalanceAnswer(announced[i], answer)]
                    ELSE announced[i]]
        Asked == {<<r.contract, r.raw>> : r \in {x \in Range(announced) : x.balance = NoBalance}}
        Announced == {<<r.contract, r.raw>> : r \in
            {x \in Range(announced) : \E u \in Range(AnnouncedBy(receipt)) : SameRow(u, x)}}
    IN  /\ updates' = read
        /\ balanceRows' = RowsWithBalance(read)
        /\ misread' = IF answer = "ok" THEN misread \ Asked ELSE misread \cup Asked
        /\ unannounced' =
              (unannounced \cup {k \in TokenKeys : tokenBalances'[k] # tokenBalances[k]})
              \ (Asked \cup Announced)

\* A transaction moves tokens and its receipt arrives.
AddTokenTxReceipt(receipt, newBalances, answer) ==
    /\ receipts < MaxReceipts
    /\ receipts' = receipts + 1
    /\ tokenBalances' = newBalances
    /\ applyTxReceipt(receipt, answer)
    /\ UNCHANGED tokens

\* A transaction deploys contracts and announces nothing.
AddDeployTxReceipt(contracts, info, answer) ==
    /\ receipts < MaxReceipts
    /\ receipts' = receipts + 1
    /\ detectTokens(contracts, info)
    /\ UNCHANGED tokenBalances
    /\ applyTxReceipt([method |-> "deploy", from |-> "none", contract |-> "none", events |-> <<>>], answer)

TokenInit ==
    /\ tokenBalances = [k \in TokenKeys |-> 0]
    /\ updates = <<>> /\ balanceRows = <<>> /\ tokens = <<>>
    /\ receipts = 0 /\ unannounced = {} /\ misread = {}

\* A burn that reports nothing, or a call that reports an event.
Receipts ==
    [method : {"burn"}, from : RawHolders, contract : Tokens, events : {<<>>}]
    \cup [method : {"call"}, from : {"none"}, contract : Tokens, events : {<<e>> : e \in TokenEvents}]

TokenNext ==
    \/ \E receipt \in Receipts, answer \in Answers, key \in TokenKeys, balance \in 0..MaxTokenBalance :
          AddTokenTxReceipt(receipt, [tokenBalances EXCEPT ![key] = balance], answer)
    \/ \E contracts \in SUBSET Tokens \ {{}}, info \in [name : Answers, symbol : Answers, decimals : Answers],
          answer \in Answers : AddDeployTxReceipt(contracts, info, answer)

-----------------------------------------------------------------------------
(* Types; every row that is handed on has a balance.                          *)
TokenTypeOK ==
    /\ tokenBalances \in [TokenKeys -> 0..MaxTokenBalance]
    /\ \A r \in Range(balanceRows) : r.balance \in 0..MaxTokenBalance
    /\ Range(tokens) \subseteq Tokens

(* The list of a block has at most one row for a contract and an address, and *)
(* the row says what the contract says at the end of the block, unless the    *)
(* contract changed the balance silently or the last reading went wrong.      *)
TokenRowsAreCurrent ==
    /\ \A i, j \in DOMAIN balanceRows : SameRow(balanceRows[i], balanceRows[j]) => i = j
    /\ \A r \in Range(balanceRows) :
          LET key == <<r.contract, r.raw>>
          IN  key \in unannounced \cup misread \/ r.balance = tokenBalances[key]

(* A reading that fails is made up for by the next receipt of the block, so   *)
(* that an announced address is missing from the list only if the reading     *)
(* after the last receipt failed.                                             *)
MissingOnlyIfMisread ==
    \A u \in Range(updates) :
        (\E r \in Range(balanceRows) : SameRow(r, u)) \/ <<u.contract, u.raw>> \in misread

\* The rows of token balances say what the contracts answered last
\* (applyTxReceipt), and an announced holder (detectTokenBalanceUpdates) has
\* none only if its last reading failed.
TokenRowsAreSound == TokenTypeOK /\ TokenRowsAreCurrent /\ MissingOnlyIfMisread
=============================================================================
