---------------------------- MODULE MCPreparation ----------------------------
(* An instance of Preparation for TLC: the command lines worth telling apart, a family for each *)
(* part of the preparation, over small saved settings and scaled-down money.                    *)
EXTENDS Preparation

MCScale == [u \in Units |-> CASE u = "sats" -> 1 [] u = "btc" -> 3 [] u = "usd" -> 1 [] OTHER -> 0]
MCMsatsPerUnit == [u \in {"m", "u", "n", "none"} |->
                     CASE u = "n" -> 100 [] u = "u" -> 1000 [] u = "m" -> 10000 [] OTHER -> 100000]

-----------------------------------------------------------------------------
(* Saved settings *)

User(url) == [kind |-> "user", org |-> None, env |-> None, url |-> url]
Key(org, env) == [kind |-> "api_key", org |-> org, env |-> env, url |-> "auth"]

Empty == [profiles |-> <<>>, accounts |-> <<>>]
OneLogin == [profiles |-> <<>>, accounts |-> [me |-> User("auth2")]]
OneKey == [profiles |-> <<>>, accounts |-> [bot |-> Key("o1", "e1")]]
Both == [profiles |-> [p |-> [account |-> "me", org |-> "o1", env |-> "e1"],
                       q |-> [account |-> "gone", org |-> "o2", env |-> "e2"]],
         accounts |-> [me |-> User("auth2"), bot |-> Key("o1", "e1")]]

Saves(settings) == [d \in {"home", "flagged", "varied", "relative"} |-> IF d = "varied" THEN Empty ELSE settings]
AllSaved == {Saves(Empty), Saves(OneLogin), Saves(OneKey), Saves(Both)}

-----------------------------------------------------------------------------
(* A command line that says nothing, and what others change of it *)

NoFlags == [profile |-> None, account |-> None, org |-> None, envs |-> <<>>, wallet |-> None,
            dir |-> None, authUrl |-> None]
NoEnv == [org |-> None, env |-> None, wallet |-> None, dir |-> None, key |-> None, execute |-> FALSE]

Amount(whole, digits) == [given |-> TRUE, decimal |-> TRUE, whole |-> whole, digits |-> digits]
NoAmount == [given |-> FALSE, decimal |-> TRUE, whole |-> 0, digits |-> <<>>]

NoPayment == [invoice |-> None, address |-> None, kind |-> None, amount |-> NoAmount, unit |-> None,
              maxFee |-> NoAmount, feeUnit |-> None, currency |-> None, quote |-> None,
              expiration |-> None, description |-> None, metadata |-> <<>>, id |-> None]

Reads == [name |-> "get_org", method |-> "get", path |-> {"organization"}, filters |-> {},
          target |-> None, targetsWallet |-> FALSE, walletInBody |-> FALSE, payment |-> FALSE,
          needsBody |-> FALSE, oneTimeSecret |-> FALSE, auth |-> "account"]

Base_ == [kind |-> "api", flags |-> NoFlags, env |-> NoEnv, saved |-> Saves(OneLogin), operation |-> Reads,
         target |-> None, webhook |-> None, body |-> "none", raw |-> <<>>, deeper |-> {}, alias |-> None,
         payment |-> NoPayment, wallet |-> None, quote |-> None, hook |-> None,
         invoice |-> [letters |-> "bc", amount |-> [unit |-> "absent", digits |-> 0]],
         filters |-> <<>>, overrides |-> <<>>, execute |-> FALSE, canAsk |-> FALSE, presents |-> FALSE,
         outputFile |-> FALSE, showSecrets |-> FALSE, token |-> None, to |-> None,
         price |-> [decimal |-> TRUE, whole |-> 0, digits |-> <<>>], what |-> "org", get |-> FALSE]

-----------------------------------------------------------------------------
(* What selects a credential and a scope *)

Selections ==
    {[Base_ EXCEPT !.kind = k, !.saved = s,
        !.flags = [NoFlags EXCEPT !.profile = p, !.account = a, !.org = o],
        !.env = [NoEnv EXCEPT !.org = v, !.env = w, !.key = key]] :
        k \in {"api", "context"}, s \in AllSaved, p \in {None, "p", "q"}, a \in {None, "me", "bot"},
        o \in {None, "o1"}, v \in {None, "o2", "malformed"}, w \in {None, "e1"}, key \in {None, "key"}}
    \cup {[Base_ EXCEPT !.kind = k, !.saved = s, !.env.key = key,
        !.flags = [NoFlags EXCEPT !.account = a, !.org = "o1", !.authUrl = u]] :
        k \in {"api", "context"}, s \in AllSaved, a \in {None, "me", "bot"}, u \in {None, "auth", "auth2", "bad"},
        key \in {None, "key", "blank"}}

Directories ==
    {[Base_ EXCEPT !.saved = s, !.flags = [NoFlags EXCEPT !.dir = d, !.profile = p, !.org = "o1"],
                   !.env = [NoEnv EXCEPT !.dir = v, !.wallet = "w1", !.key = key]] :
        s \in {Saves(Both), Saves(OneKey)}, d \in {None, "flagged", "relative"}, p \in {None, "p"},
        v \in {None, "varied"}, key \in {None, "key"}}

Local ==
    {[Base_ EXCEPT !.kind = k, !.saved = s, !.canAsk = ask, !.what = w, !.get = g, !.outputFile = g,
                   !.flags = [NoFlags EXCEPT !.org = o, !.envs = es],
                   !.env = [NoEnv EXCEPT !.org = v]] :
        k \in {"create_profile", "discover"}, s \in {Saves(OneLogin), Saves(OneKey)}, ask \in BOOLEAN,
        w \in {"org", "env"}, g \in BOOLEAN, o \in {None, "o1"},
        es \in {<<>>, <<"e1">>, <<"e1", "e2">>}, v \in {None, "o2"}}

-----------------------------------------------------------------------------
(* Wallets, lists, and the other changes *)

WalletOp(method) == [Reads EXCEPT !.name = method, !.method = method, !.path = {"organization", "target"},
                                  !.target = "wallet_id", !.targetsWallet = TRUE]

WalletCommands ==
    {[Base_ EXCEPT !.operation = WalletOp(m), !.target = t, !.canAsk = ask, !.execute = x, !.outputFile = f,
                   !.saved = s, !.flags = [NoFlags EXCEPT !.org = o], !.env = [NoEnv EXCEPT !.wallet = "w2"]] :
        m \in {"get", "delete"}, t \in {None, "w1"}, ask \in BOOLEAN, x \in BOOLEAN, f \in BOOLEAN,
        s \in {Saves(OneLogin), Saves(OneKey)}, o \in {None, "o1"}}

List == [Reads EXCEPT !.name = "list", !.filters = {"environments", "wallet", "pagination", "offset", "limit"}]
EnvList == [Reads EXCEPT !.name = "env list", !.filters = {"environment"}, !.path = {"organization", "environment"}]
Webhook == [Reads EXCEPT !.name = "webhook", !.path = {"organization", "webhook"}]

Lists ==
    {[Base_ EXCEPT !.operation = op, !.saved = s, !.filters = f, !.overrides = q, !.env.org = "o1",
                   !.flags = [NoFlags EXCEPT !.envs = es, !.wallet = w]] :
        op \in {List, EnvList, Webhook}, s \in {Saves(OneLogin), Saves(OneKey)},
        f \in {<<>>, << <<"offset", "20">> >>, << <<"pagination", "cursor">> >>},
        q \in {<<>>, << <<"pagination", "offset">> >>, << <<"env", "e2">> >>, << <<"other", "1">> >>},
        es \in {<<>>, <<"e1">>, <<"e1", "e2">>}, w \in {None, "w1"}}

WalletFlags == [id |-> None, name |-> "n", creditLine |-> "c", limit |-> 1, network |-> "mainnet", metadata |-> <<>>]
CreateWalletOp == [Reads EXCEPT !.name = "create_wallet", !.method = "post", !.needsBody = TRUE]
RawWallets == {<<>>, [environment_id |-> "e1"], [environment_id |-> "malformed", id |-> "i"],
               [environment_id |-> "e1", data |-> NotObject, name |-> "n"]}

NewWallets ==
    {[Base_ EXCEPT !.operation = CreateWalletOp, !.body = b, !.raw = r, !.wallet = f, !.canAsk = ask, !.execute = x,
                   !.flags = [NoFlags EXCEPT !.org = o, !.envs = es]] :
        b \in {"friendly", "none"}, r \in {<<>>},
        f \in {WalletFlags, [WalletFlags EXCEPT !.name = None], [WalletFlags EXCEPT !.metadata = <<"k", "k">>]},
        ask \in BOOLEAN, x \in BOOLEAN, o \in {None, "o1"}, es \in {<<>>, <<"e1">>, <<"e2">>}}
    \cup {[Base_ EXCEPT !.operation = CreateWalletOp, !.body = "raw", !.raw = r, !.execute = x,
                   !.flags = [NoFlags EXCEPT !.org = "o1", !.envs = es]] :
        r \in RawWallets, x \in BOOLEAN, es \in {<<>>, <<"e1">>, <<"e2">>}}

QuoteOp == [Reads EXCEPT !.name = "request_a_quote", !.method = "post", !.needsBody = TRUE]
Quotes ==
    {[Base_ EXCEPT !.operation = QuoteOp, !.body = "friendly", !.flags.org = "o1",
                   !.quote = [id |-> None, creditLine |-> c, network |-> "mainnet", unit |-> u, to |-> t, amount |-> a]] :
        c \in {None, "c"}, u \in {"sats", "usd"}, t \in {"btc", "usd"}, a \in {Amount(1, <<>>), Amount(1, <<2, 5>>)}}

HookOp == [Reads EXCEPT !.name = "create_webhook", !.method = "post", !.needsBody = TRUE, !.oneTimeSecret = TRUE]
Hooks ==
    {[Base_ EXCEPT !.operation = HookOp, !.body = "friendly", !.flags.org = "o1", !.execute = x,
                   !.outputFile = f, !.showSecrets = v, !.hook = [id |-> None, name |-> "n", url |-> "u", events |-> es]] :
        x \in BOOLEAN, f \in BOOLEAN, v \in BOOLEAN, es \in {<<>>, <<"send.failed">>, <<"malformed">>}}

Checkouts ==
    {[Base_ EXCEPT !.operation = [Reads EXCEPT !.name = "checkout", !.auth = "checkout", !.path = {}],
                   !.token = t, !.saved = s] :
        t \in {None, "token"}, s \in {Saves(OneLogin), Saves(Empty)}}

-----------------------------------------------------------------------------
(* Payments *)

PaymentOp == [Reads EXCEPT !.name = "create_payment", !.method = "post", !.needsBody = TRUE,
                           !.walletInBody = TRUE, !.payment = TRUE]

PaymentLine(alias, payment) ==
    [Base_ EXCEPT !.operation = PaymentOp, !.body = "friendly", !.alias = alias, !.payment = payment,
                  !.flags = [NoFlags EXCEPT !.org = "o1", !.wallet = "w1"]]

Amounts_ == {Amount(0, <<>>), Amount(0, <<5>>), Amount(2, <<>>), Amount(1, <<5>>), Amount(1, <<0, 5>>), Amount(1, <<2, 0>>), Amount(99, <<>>),
             [Amount(1, <<>>) EXCEPT !.decimal = FALSE]}

\* Amounts, units and currencies, the last of which the wallet may have to tell.
Denominated ==
    {PaymentLine("receive", [NoPayment EXCEPT !.kind = "bolt11", !.amount = a, !.unit = u, !.currency = c, !.quote = q]) :
        a \in Amounts_ \cup {NoAmount}, u \in {None} \cup Units, c \in {None, "btc", "usd"}, q \in {None, "quote"}}
    \cup {PaymentLine("send", [NoPayment EXCEPT !.address = "a", !.amount = a, !.unit = u, !.currency = c, !.quote = q]) :
        a \in Amounts_ \cup {NoAmount}, u \in {None, "sats", "btc", "usd"}, c \in {None, "btc", "usd"}, q \in {None, "quote"}}

\* The flags' own mistakes, on and off a terminal.
Mistaken ==
    {[PaymentLine(alias, [NoPayment EXCEPT !.invoice = i, !.kind = k, !.maxFee = m, !.feeUnit = f,
                            !.description = d, !.metadata = ms])
        EXCEPT !.canAsk = ask, !.flags = [NoFlags EXCEPT !.org = "o1", !.wallet = w]] :
        alias \in {"send", "receive"}, i \in {None, "ln"}, k \in {None, "bolt11"}, m \in {NoAmount, Amount(1, <<>>)},
        f \in {None, "sats", "usd"}, d \in {None, "text"}, ms \in {<<>>, <<"malformed">>},
        ask \in BOOLEAN, w \in {None, "w1"}}

\* How the wallet, the organization and the file come to be.
Placed ==
    {[PaymentLine("send", [NoPayment EXCEPT !.invoice = "ln", !.currency = c])
        EXCEPT !.canAsk = ask, !.execute = x, !.env.execute = y, !.outputFile = f, !.saved = s,
               !.flags = [NoFlags EXCEPT !.org = o, !.envs = es, !.profile = p], !.env.wallet = v] :
        c \in {None, "btc"}, ask \in BOOLEAN, x \in BOOLEAN, y \in {FALSE}, f \in BOOLEAN,
        s \in {Saves(OneKey), Saves(Both)}, o \in {None, "o1"}, es \in {<<>>, <<"e1">>, <<"e1", "e2">>},
        p \in {None, "p"}, v \in {None, "w2"}}
    \cup {[PaymentLine("send", [NoPayment EXCEPT !.invoice = "ln"]) EXCEPT !.env.execute = TRUE]}

\* The bodies that --data brings.
Payload == [id |-> "i", wallet_id |-> "w1", type |-> "bolt11", currency |-> "btc", data |-> [payment_request |-> "ln"]]
Payloads ==
    {Payload, [Payload EXCEPT !.wallet_id = "w2"], [Payload EXCEPT !.wallet_id = "malformed"],
     [Payload EXCEPT !.id = "malformed"], [Payload EXCEPT !.id = "not text"], [Payload EXCEPT !.currency = "usd"],
     [Payload EXCEPT !.data = NotObject], [Payload EXCEPT !.data = [max_fee |-> 1, address |-> "a", description |-> "d"]],
     [id |-> "i", wallet_id |-> "w1", payment_kind |-> "bolt11", amount |-> [amount |-> 1, currency |-> "usd"], quote_id |-> "q"],
     [id |-> "i", wallet_id |-> "w1", payment_kind |-> "new", type |-> "bolt11", description |-> "d"]}

RawPayments ==
    {[PaymentLine(alias, NoPayment)
        EXCEPT !.body = "raw", !.raw = r, !.execute = x, !.showSecrets = v, !.presents = q,
               !.flags = [NoFlags EXCEPT !.org = "o1", !.wallet = w]] :
        alias \in {None, "send", "receive"}, r \in Payloads, x \in BOOLEAN, v \in BOOLEAN, q \in BOOLEAN, w \in {None, "w1"}}

\* Payloads with more in them than the code expects, at each shape of what may be shown.
At(path, shaped) == [path |-> path, shaped |-> shaped]
Depths == {{}, {At(<<"amount", "note">>, TRUE), At(<<"data", "amount", "description">>, TRUE), At(<<"data", "to", "limit">>, TRUE)},
           {At(<<"to", "address">>, TRUE), At(<<"to", "data">>, FALSE), At(<<"to", "events">>, TRUE)},
           {At(<<"to", "data">>, TRUE), At(<<"to", "data", "name">>, TRUE), At(<<"to", "events">>, FALSE)}}
Crowded == [Payload EXCEPT !.data = [max_fee |-> 1, amount |-> 1, to |-> 1, address |-> "a"]] @@ [to |-> 1, amount |-> [amount |-> 1, currency |-> "btc"]]
DeepPayments ==
    {[PaymentLine(None, NoPayment) EXCEPT !.body = "raw", !.raw = r, !.deeper = d, !.showSecrets = v] :
        r \in {Crowded @@ [events |-> e] : e \in {"selection", NotObject}} \cup {Crowded @@ [network |-> "mainnet"]},
        d \in Depths, v \in BOOLEAN}

\* Invoices without a wallet.
Invoiced ==
    {[PaymentLine("send", [NoPayment EXCEPT !.invoice = "ln", !.currency = c])
        EXCEPT !.flags = [NoFlags EXCEPT !.org = "o1", !.envs = es],
               !.invoice = [letters |-> l, amount |-> [unit |-> a[1], digits |-> a[2]]]] :
        c \in {None, "btc", "usd"}, es \in {<<>>, <<"e1">>}, l \in {"bc", "tb", "tbs", "bcrt", "xx"},
        a \in { <<"absent", 0>>, <<"malformed", 0>>, <<"n", 15>>, <<"u", 2>>, <<"p", 15>>, <<"p", 10>>, <<"none", 9>>}}

Balance(c, available, negative) == [currency |-> c, available |-> available, negative |-> negative]
Wallet(id, network, active, limit, balances) ==
    [id |-> id, env |-> "e1", network |-> network, active |-> active, limit |-> limit, balances |-> balances]

MCWalletListings ==
    {{}, {Wallet("w1", "mainnet", TRUE, 0, <<Balance("btc", 1500, FALSE)>>),
          Wallet("w2", "mainnet", TRUE, 1000, <<Balance("btc", 999, TRUE), Balance("usd", 5, FALSE)>>),
          Wallet("w3", "mutinynet", TRUE, 0, <<Balance("asset", 9, FALSE)>>),
          Wallet("w4", "testnet", FALSE, 0, <<Balance("btc", 9999, FALSE)>>)},
     {Wallet("w1", "signet", TRUE, 500, <<Balance("btc", 500, TRUE)>>),
      Wallet("w2", "mutinynet", TRUE, 1500, <<Balance("btc", 500, FALSE)>>),
      Wallet("w3", "testnet", TRUE, 0, <<>>),
      Wallet("w4", "testnet", TRUE, 0, <<Balance("usd", 7, FALSE), Balance("btc", 2000, FALSE)>>)}}

MCListings == [what \in {"org", "env", "wallet"} |->
    CASE what = "org" -> {{}, {"o1"}, {"o1", "o2"}} [] what = "env" -> {{"e1"}, {"e1", "e2"}}
      [] OTHER -> {{}, {"w1"}, {"w1", "w2"}}]

\* Prices at the width of the products: the last whose cents fit, one whose cents wrap to a small
\* number, one whose cents wrap to zero, and the first that is not read at all.
Unreasonable == {838860, 1677724, 4194304, 8388608}

Conversions ==
    {[Base_ EXCEPT !.kind = "convert", !.to = t, !.payment = [NoPayment EXCEPT !.amount = a, !.unit = u],
                   !.price = [decimal |-> d, whole |-> n, digits |-> ds], !.outputFile = (t = "btc")] :
        t \in {"btc", "usd"}, a \in Amounts_, u \in Units, d \in {TRUE}, n \in {0, 7, 30}, ds \in {<<>>, <<5>>, <<3, 3, 3>>}}
    \cup {[Base_ EXCEPT !.kind = "convert", !.to = t, !.payment = [NoPayment EXCEPT !.amount = a, !.unit = u],
                        !.price.whole = n] :
        t \in {"btc", "usd"}, a \in Amounts_, u \in {"msats", "cents", "usd"}, n \in Unreasonable}
    \cup {[Base_ EXCEPT !.kind = "convert", !.to = "usd", !.price.decimal = FALSE,
                        !.payment = [NoPayment EXCEPT !.amount = Amount(1, <<>>), !.unit = "sats"]]}

MCCommands ==
    Selections \cup Directories \cup Local \cup WalletCommands \cup Lists \cup NewWallets \cup Quotes \cup Hooks
      \cup Checkouts \cup Denominated \cup Mistaken \cup Placed \cup RawPayments \cup DeepPayments \cup Invoiced \cup Conversions

=============================================================================
