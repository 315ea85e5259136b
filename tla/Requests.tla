------------------------------- MODULE Requests -------------------------------
(***************************************************************************)
(* The request of one command (src/input.rs): the checks of a payment's    *)
(* flags, the body they make or the one --data brings, what every body is  *)
(* checked for, the path, and the query; the operations are those of       *)
(* src/registry.rs.                                                        *)
(*                                                                         *)
(* A check or a body is a record with `error`; Fine has none.  A payment's *)
(* flags are `flags`; a body is a function of the fields it has.           *)
(***************************************************************************)
EXTENDS Amounts, Absence

Fine == "none"

\* The `id` a friendly create makes, unless --id is given.
NewId(id) == IF id = None THEN "generated" ELSE id

Fresh == "generated"

\* metadata: KEY=VALUE pairs, without a key twice.
MetadataError(pairs) ==
    IF "malformed" \in ToSet(pairs) THEN "metadata"
    ELSE IF Cardinality(ToSet(pairs)) # Len(pairs) THEN "duplicate metadata" ELSE Fine

\* events: at least one kind.event.
EventsError(selection) ==
    IF "malformed" \in ToSet(selection) THEN "event" ELSE IF selection = <<>> THEN "no event" ELSE Fine

\* An amount in its unit, else in the default one.
AmountIn(amount, unit, default) ==
    LET u == IF unit = None THEN default ELSE unit IN
    [amount |-> Parse(amount, u), currency |-> CurrencyOf(u)]

-----------------------------------------------------------------------------
(* A friendly payment *)

\* receive_kind: the flags only a send takes are refused.
ReceiveError(flags) ==
    CASE flags.kind = None -> "kind"
      [] flags.invoice # None \/ flags.address # None \/ flags.maxFee.given -> "send flags"
      [] OTHER -> Fine

\* send_target: one destination, no receive flags, and a fee in BTC.
SendError(flags) ==
    LET fee == AmountIn(flags.maxFee, flags.feeUnit, "msats") IN
    CASE (flags.invoice = None) = (flags.address = None) -> "one destination"
      [] flags.kind # None \/ flags.expiration # None -> "receive flags"
      [] flags.address # None /\ ~flags.amount.given -> "on-chain amount"
      [] flags.maxFee.given /\ fee.amount = Refused -> "fee"
      [] flags.maxFee.given /\ fee.currency # "btc" -> "fee currency"
      [] flags.description # None /\ flags.invoice # None -> "description"
      [] OTHER -> Fine

\* checked_payment: the checks that need no currency.
CheckPayment(flags, alias) ==
    CASE flags.unit # None /\ ~flags.amount.given -> "unit"
      [] flags.feeUnit # None /\ ~flags.maxFee.given -> "fee unit"
      [] MetadataError(flags.metadata) # Fine -> MetadataError(flags.metadata)
      [] OTHER -> IF alias = "receive" THEN ReceiveError(flags) ELSE SendError(flags)

\* The fields a body has: those that were given.
Present(body) == [f \in {g \in DOMAIN body : body[g] # None} |-> body[f]]

PaymentAmount(flags) ==
    IF flags.amount.given THEN AmountIn(flags.amount, flags.unit, BaseUnit(flags.currency)) ELSE None

\* What a friendly payment's body is refused for, once its currency is known.
BodyError(flags, alias) ==
    LET amount == PaymentAmount(flags) IN
    CASE flags.amount.given /\ amount.amount = Refused -> "amount"
      [] alias = "receive" /\ flags.amount.given /\ amount.currency # flags.currency -> "currency of amount"
      [] alias # "receive" /\ flags.amount.given /\ amount.amount = 0 -> "zero amount"
      [] OTHER -> Fine

ReceiveBody(flags, wallet) ==
    Present([id |-> NewId(flags.id), wallet_id |-> wallet, payment_kind |-> flags.kind,
             amount |-> PaymentAmount(flags),
             currency |-> IF flags.amount.given THEN None ELSE flags.currency,
             expiration |-> flags.expiration, description |-> flags.description,
             quote_id |-> flags.quote, metadata |-> IF flags.metadata = <<>> THEN None ELSE flags.metadata])

SendBody(flags, wallet) ==
    Present([id |-> NewId(flags.id), wallet_id |-> wallet,
             type |-> IF flags.invoice # None THEN "bolt11" ELSE "onchain", currency |-> flags.currency,
             data |-> Present([payment_request |-> flags.invoice, address |-> flags.address,
                               amount |-> PaymentAmount(flags),
                               max_fee |-> IF flags.maxFee.given
                                           THEN AmountIn(flags.maxFee, flags.feeUnit, "msats") ELSE None,
                               description |-> flags.description]),
             quote_id |-> flags.quote, metadata |-> IF flags.metadata = <<>> THEN None ELSE flags.metadata])

\* payment: its wallet, its checks, its currency, then its body.
Payment(flags, alias, scope) ==
    LET checked == CheckPayment(flags, alias)
        error == CASE scope.wallet = None -> "wallet"
                   [] checked # Fine -> checked
                   [] flags.currency = None -> "currency"
                   [] OTHER -> BodyError(flags, alias) IN
    [error |-> error,
     body |-> IF error # Fine THEN <<>>
              ELSE IF alias = "receive" THEN ReceiveBody(flags, scope.wallet) ELSE SendBody(flags, scope.wallet)]

-----------------------------------------------------------------------------
(* Other friendly bodies *)

Required(fields) == IF \E f \in DOMAIN fields : fields[f] = None THEN "missing flag" ELSE Fine

CreateWallet(flags, scope) ==
    LET env == IF Len(scope.envs) = 1 THEN scope.envs[1] ELSE None
        body == [id |-> NewId(flags.id), environment_id |-> env, name |-> flags.name,
                 line_of_credit_id |-> flags.creditLine, limit |-> flags.limit, network |-> flags.network] IN
    [error |-> IF Required(body) # Fine THEN Required(body) ELSE MetadataError(flags.metadata),
     body |-> body @@ [metadata |-> flags.metadata]]

\* quote: between BTC and USD, never within one currency.
QuoteError(flags) ==
    CASE Required(flags) # Fine -> Required(flags)
      [] CurrencyOf(flags.unit) = flags.to -> "already in that currency"
      [] Parse(flags.amount, flags.unit) = Refused -> "amount"
      [] OTHER -> Fine

CreateQuote(flags) ==
    [error |-> QuoteError(flags),
     body |-> [id |-> Fresh, line_of_credit_id |-> flags.creditLine, network |-> flags.network, to |-> flags.to,
               amount |-> AmountIn(flags.amount, flags.unit, "msats")]]

CreateWebhook(flags) ==
    [error |-> IF flags.name = None \/ flags.url = None THEN "missing flag" ELSE EventsError(flags.events),
     body |-> [id |-> NewId(flags.id), name |-> flags.name, url |-> flags.url, events |-> flags.events]]

-----------------------------------------------------------------------------
(* What every body is checked for *)

Has(body, f) == f \in DOMAIN body
Field(body, f) == IF Has(body, f) THEN body[f] ELSE None

\* A payload read from a file may hold anything: Text is a field that is a text, and "malformed"
\* a text that is no UUID.
Text(body, f) == IF Has(body, f) /\ body[f] # "not text" THEN body[f] ELSE None

ReceiveKinds == {"bolt11", "onchain", "bip21", "taprootasset"}

ReceiveKind(body) == IF Field(body, "payment_kind") \in ReceiveKinds THEN body["payment_kind"] ELSE None

\* A send discriminator or send data makes a payload a send, whatever else it has.
IsReceive(body) == ~Has(body, "type") /\ ~Has(body, "data") /\ ReceiveKind(body) # None

IsUsd(body) ==
    \/ Field(body, "currency") = "usd"
    \/ Has(body, "amount") /\ body.amount.currency = "usd"

\* check_payload: identifiers, the selected wallet and environment, and a payment's own rules.
PaymentPayloadError(body, alias) ==
    CASE Text(body, "id") = None -> "id"
      [] IsUsd(body) /\ ~Has(body, "quote_id") -> "quote"
      [] alias = "send" /\ Has(body, "payment_kind") -> "a receive"
      [] alias = "receive" /\ ~Has(body, "payment_kind") -> "not a receive"
      [] OTHER -> Fine

WalletError(body, scope) ==
    CASE Text(body, "wallet_id") \in {None, "malformed"} -> "wallet_id"
      [] scope.wallet \notin {None, body["wallet_id"]} -> "another wallet"
      [] OTHER -> Fine

EnvironmentError(body, scope) ==
    CASE Text(body, "environment_id") \in {None, "malformed"} -> "environment_id"
      [] scope.envs \notin {<<>>, <<body["environment_id"]>>} -> "another environment"
      [] OTHER -> Fine

CheckPayload(operation, alias, body, scope) ==
    IF Text(body, "id") = "malformed" THEN "UUID"
    ELSE IF operation.walletInBody /\ WalletError(body, scope) # Fine THEN WalletError(body, scope)
    ELSE IF operation.name = "create_wallet" /\ EnvironmentError(body, scope) # Fine
    THEN EnvironmentError(body, scope)
    ELSE IF operation.payment THEN PaymentPayloadError(body, alias) ELSE Fine

\* is_consequential: what a send's fee note and a careful person are about.
IsConsequential(operation, body) ==
    \/ operation.method = "delete"
    \/ operation.name \in {"create_treasury_movement", "generate_webhook_key"}
    \/ operation.name = "create_payment" /\ ~IsReceive(body)
    \/ operation.name = "update_credit_line" /\ Field(body, "disable") = TRUE

-----------------------------------------------------------------------------
(* Paths and queries *)

\* path: the placeholders of an operation, from the target or the scope.
PathError(operation, target, scope) ==
    CASE "organization" \in operation.path /\ scope.org = None -> "org"
      [] "environment" \in operation.path /\ Len(scope.envs) # 1 -> "env"
      [] "wallet" \in operation.path /\ scope.wallet = None -> "wallet"
      [] "webhook" \in operation.path /\ scope.webhook = None -> "webhook"
      [] operation.target # None /\ target = None -> "target"
      [] OTHER -> Fine

Path(operation, target, scope) ==
    [org |-> IF "organization" \in operation.path THEN scope.org ELSE None,
     env |-> IF "environment" \in operation.path THEN scope.envs[1] ELSE None,
     wallet |-> IF "wallet" \in operation.path THEN scope.wallet ELSE None,
     target |-> target]

\* The scope's own filters: sequences of <<name, value>> pairs.
ScopeFilters(operation, scope) ==
    (IF {"environment", "environments"} \cap operation.filters # {}
     THEN [i \in DOMAIN scope.envs |-> <<"env", scope.envs[i]>>] ELSE <<>>)
      \o (IF "wallet" \in operation.filters /\ scope.wallet # None THEN <<<<"wallet", scope.wallet>>>> ELSE <<>>)

QueryError(operation, overrides, scope) ==
    CASE "environment" \in operation.filters /\ Len(scope.envs) > 1 -> "one environment"
      [] \E o \in ToSet(overrides) : o[1] \notin operation.filters \cup {"env", "wallet"} -> "unknown parameter"
      [] \E o \in ToSet(overrides) : o[1] \in {"env", "wallet"} -> "scope filter"
      [] OTHER -> Fine

\* A list that says nothing of its paging is paged by cursor.
Paged(operation, pairs) ==
    IF "pagination" \in operation.filters /\ ~\E p \in ToSet(pairs) : p[1] \in {"pagination", "offset"}
    THEN Append(pairs, <<"pagination", "cursor">>) ELSE pairs

\* query: the scope's filters, the command's own, then --query overrides.
Query(operation, filters, overrides, scope) ==
    Paged(operation, ScopeFilters(operation, scope) \o filters \o overrides)

\* pagination_mode.
Mode(query) ==
    IF \E p \in ToSet(query) : p[1] = "offset" \/ p = <<"pagination", "offset">> THEN "offset" ELSE "cursor"

=============================================================================
