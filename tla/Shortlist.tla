------------------------------ MODULE Shortlist ------------------------------
(***************************************************************************)
(* `payments send --invoice` without a wallet (src/wallet_shortlist.rs):   *)
(* what the invoice's prefix says, which of the listed wallets could pay   *)
(* it, and what each would need.                                           *)
(***************************************************************************)
EXTENDS Integers, Sequences, SequencesExt, FiniteSetsExt, Absence

CONSTANTS
    MsatsPerUnit,   \* the invoice multipliers m, u, n, and none: msats per unit
    MaxMsats        \* u64::MAX

ASSUME MultipliersAreNatural == \A u \in DOMAIN MsatsPerUnit : MsatsPerUnit[u] \in Nat

Networks == {"mainnet", "testnet", "signet", "regtest"}

ASSUME NoNetworkIsNone == None \notin Networks

\* InvoiceNetwork::PREFIXES, in the order they are tried.
Tried ==
    << <<"bcrt", "regtest">>, <<"bc", "mainnet">>, <<"tbs", "signet">>, <<"tb", "testnet">> >>

\* The prefixes that an invoice's letters start with.
StartsWith(letters) ==
    CASE letters = "bcrt" -> {"bcrt", "bc"}
      [] letters = "tbs" -> {"tbs", "tb"}
      [] OTHER -> {letters} \cap {"bc", "tb"}

\* The network of the first prefix that fits; what it leaves would be no amount.
Network(letters) ==
    LET fits == {i \in DOMAIN Tried : Tried[i][1] \in StartsWith(letters)} IN
    IF fits = {} \/ Tried[Min(fits)][1] # letters THEN None ELSE Tried[Min(fits)][2]

Unreadable == -2
Unstated == -1

\* msats: digits with a multiplier.  Pico-bitcoin must be whole msats.
Msats(amount) ==
    CASE amount.unit = "absent" -> Unstated
      [] amount.unit = "malformed" -> Unreadable
      [] amount.unit = "p" -> IF amount.digits % 10 = 0 THEN amount.digits \div 10 ELSE Unreadable
      [] OTHER -> IF amount.digits * MsatsPerUnit[amount.unit] > MaxMsats THEN Unreadable
                  ELSE amount.digits * MsatsPerUnit[amount.unit]

\* Invoice::parse: a prefix and an amount that both can be read.
Invoice(letters, amount) ==
    [network |-> IF Msats(amount) = Unreadable THEN None ELSE Network(letters),
     msats |-> Msats(amount)]

\* InvoiceNetwork::pays.
Pays(network, wallet) ==
    \/ network = "mainnet" /\ wallet = "mainnet"
    \/ network = "testnet" /\ wallet = "testnet"
    \/ network = "signet" /\ wallet \in {"signet", "mutinynet"}

Usable(currency, wanted) == IF wanted = None THEN currency \in {"btc", "usd"} ELSE currency = wanted

\* funds: the signed amount that is available and the credit limit.
Funds(balance, limit) == (IF balance.negative THEN -balance.available ELSE balance.available) + limit

\* qualify: the currency a wallet would pay in, bitcoin when it can, or why it cannot pay.
Qualify(wallet, invoice, wanted) ==
    LET usable == {b \in ToSet(wallet.balances) : Usable(b.currency, wanted)}
        funded == {b \in usable : Funds(b, wallet.limit) > 0}
        covers == {b \in funded : b.currency # "btc" \/ Funds(b, wallet.limit) >= invoice.msats} IN
    IF ~wallet.active THEN "inactive"
    ELSE IF ~Pays(invoice.network, wallet.network) THEN "wrong_network"
    ELSE IF usable = {} /\ wallet.balances # <<>> THEN "wrong_currency"
    ELSE IF funded = {} THEN "no_balance"
    ELSE IF covers = {} THEN "insufficient_balance"
    ELSE IF \E b \in covers : b.currency = "btc" THEN "btc" ELSE "usd"

Qualifies(wallet, invoice, wanted) == Qualify(wallet, invoice, wanted) \in {"btc", "usd"}

\* quote: the amount a USD wallet's quote is for, exact in its unit.
QuoteAmount(invoice) ==
    CASE invoice.msats = Unstated -> [amount |-> Unstated, unit |-> "sats"]
      [] invoice.msats % 1000 = 0 -> [amount |-> invoice.msats \div 1000, unit |-> "sats"]
      [] OTHER -> [amount |-> invoice.msats, unit |-> "msats"]

\* The environment a candidate's flags name: the wallet's own where the command names none.
ScopeOf(wallet, envs) == IF envs = <<>> THEN wallet.env ELSE envs[1]

\* Shortlist::new, for one wallet with an ID.
Candidate(wallet, invoice, wanted, envs) ==
    [wallet |-> wallet.id, env |-> ScopeOf(wallet, envs),
     quote |-> IF Qualify(wallet, invoice, wanted) = "btc" THEN None ELSE QuoteAmount(invoice)]

Candidates(listed, invoice, wanted, envs) ==
    {Candidate(w, invoice, wanted, envs) : w \in {v \in listed : Qualifies(v, invoice, wanted)}}

=============================================================================
