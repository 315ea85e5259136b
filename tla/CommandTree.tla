---------------------------- MODULE CommandTree ----------------------------
(***************************************************************************)
(* The commands and the options each of them takes (src/cli.rs): the local  *)
(* commands, and those built from the registry of operations                *)
(* (src/registry.rs).  An option is known by its name, however it is        *)
(* spelled; an operation is [id, command, target, method, checkout, body,   *)
(* filters], and its filters are the options of its query parameters.       *)
(***************************************************************************)
EXTENDS Naturals, Sequences, FiniteSets, SequencesExt

CONSTANTS
    OPERATIONS,     \* the registry, built from the contract
    Contract,       \* filter |-> the values its schema lists, {} for free text
    Accepted,       \* type |-> the values its parser accepts
    Folded          \* a value |-> the same in the letters the contract uses

ASSUME RegistryIsUsable ==
    /\ \A o, p \in OPERATIONS : o.command = p.command \/ o.id = p.id => o = p
    /\ \E o \in OPERATIONS : o.id = "CreatePayment"

-----------------------------------------------------------------------------
(* The registry *)

ListsAllOrganizations(operation) == operation.id = "GetAllOrganizationsWalletsAsUser"
SubmitsPayment(operation) == operation.id \in {"CreatePayment", "CreateTreasuryMovement"}
SupportsWait(operation) == SubmitsPayment(operation) \/ operation.id = "GetPayment"
PresentsInvoice(operation) == operation.id \in {"CreatePayment", "GetPayment"}
TargetsWallet(operation) == operation.target = "wallet"
TakesOrigin(operation) == operation.checkout \/ operation.id = "CreateEventStreamToken"
Pages(operation) == "limit" \in operation.filters

ListsEverythingAtOnce(operation) ==
    /\ operation.method = "GET" /\ operation.target = "none"
    /\ Last(operation.command) = "list"
    /\ ~Pages(operation)

CreatePayment == CHOOSE o \in OPERATIONS : o.id = "CreatePayment"

PaymentAliases == {"send", "receive"}

PaymentAliasParent == Front(CreatePayment.command)

AliasPath(alias) == Append(PaymentAliasParent, alias)

-----------------------------------------------------------------------------
(* Options *)

GlobalFlags ==
    {"profile", "account", "org", "env", "wallet", "webhook", "json", "output", "output-file", "show-secrets",
     "no-input", "color", "no-color", "quiet", "timeout", "config-dir", "api-url", "auth-url", "price-url"}

FriendlyFlags(id) ==
    CASE id = "CreateWallet" -> {"id", "name", "credit-line", "network", "limit", "metadata"}
      [] id = "UpdateWallet" -> {"name"}
      [] id = "CreatePayment" -> {"id", "currency", "invoice", "address", "kind", "amount", "unit", "max-fee", "fee-unit",
                                  "quote", "description", "expiration", "metadata"}
      [] id = "RequestAQuote" -> {"id", "credit-line", "network", "amount", "unit", "to"}
      [] id = "CreateWebhook" -> {"id", "name", "url", "event"}
      [] id = "UpdateWebhook" -> {"event"}
      [] OTHER -> {}

\* Operations that build their body without --data.
IsFriendly(id) == FriendlyFlags(id) # {} \/ id = "TestWebhook"

ListArgs(operation) == IF Pages(operation) \/ ListsEverythingAtOnce(operation) THEN {"all"} ELSE {}

Only(condition, options) == IF condition THEN options ELSE {}

\* endpoint: what a command of the registry takes beside the global flags.
Endpoint(operation) ==
    UNION {operation.filters, {"query"}, ListArgs(operation),
           Only(operation.target # "none", {"id"}),
           Only(operation.method # "GET", {"execute"}),
           Only(ListsAllOrganizations(operation), {"all-orgs"}),
           Only(operation.checkout, {"token-file"}),
           Only(TakesOrigin(operation), {"origin"}),
           Only(operation.id = "GetPayments", {"watch", "interval"}),
           Only(SupportsWait(operation), {"wait"}),
           Only(PresentsInvoice(operation), {"qr", "copy"}),
           Only(operation.body, {"data"} \cup FriendlyFlags(operation.id))}

\* LocalCommand: the path of a command, its options, and its arguments.
Local(path, options, arguments) == [path |-> path, options |-> options, arguments |-> arguments]

LocalCommands ==
    {Local(<<"login">>, {"no-browser", "credential-store"}, 0), Local(<<"logout">>, {"local"}, 0),
     Local(<<"auth", "status">>, {}, 0), Local(<<"auth", "import-key">>, {"stdin", "credential-store"}, 0),
     Local(<<"context">>, {"format"}, 0), Local(<<"price">>, {"at"}, 0), Local(<<"convert">>, {"to", "at"}, 2),
     Local(<<"feedback">>, {"title", "no-browser"}, 0), Local(<<"completions">>, {}, 1)}
    \cup {Local(<<g, "list">>, {"all"}, 0) : g \in {"organizations", "environments", "profiles"}}
    \cup {Local(<<g, "get">>, {}, 0) : g \in {"organizations", "environments"}}
    \cup {Local(<<"profiles", c>>, {}, 1) : c \in {"get", "create", "delete"}}

IsLocal(path) == \E c \in LocalCommands : c.path = path

LocalAt(path) == CHOOSE c \in LocalCommands : c.path = path

\* resolve_operation, for a path that is one of the registry's or an alias.
ResolveOperation(path) ==
    IF \E o \in OPERATIONS : o.command = path
    THEN [operation |-> CHOOSE o \in OPERATIONS : o.command = path, alias |-> "none"]
    ELSE [operation |-> CreatePayment, alias |-> Last(path)]

\* command: every path that names a command.
Commands ==
    {c.path : c \in LocalCommands} \cup {o.command : o \in OPERATIONS} \cup {AliasPath(a) : a \in PaymentAliases}

\* add_children: the words that lead on from a path.
Subcommands(path) ==
    {c[Len(path) + 1] : c \in {d \in Commands : Len(d) > Len(path) /\ SubSeq(d, 1, Len(path)) = path}}

\* A command is no group of others, and `context` is only the local command; all are words.
ASSUME CommandsAreLeaves ==
    /\ \A o \in OPERATIONS : o.command \in Seq(STRING) /\ o.command # <<>> /\ Last(o.command) # "context"
    /\ \A c \in Commands : Subcommands(c) = {}

\* What the command at a path takes; a group of commands takes the global flags.
OptionsAt(path) ==
    GlobalFlags \cup (IF IsLocal(path) THEN LocalAt(path).options
                      ELSE IF path \in Commands THEN Endpoint(ResolveOperation(path).operation) ELSE {})

\* More arguments than a line has.
Unbounded == 99

\* How many arguments it takes: a target one, and feedback any number behind "--".
ArgumentsAt(path, escaped) ==
    IF path = <<"feedback">> THEN IF escaped THEN Unbounded ELSE 0
    ELSE IF IsLocal(path) THEN LocalAt(path).arguments
    ELSE IF path \in Commands /\ ResolveOperation(path).operation.target # "none" THEN 1 ELSE 0

Required(path) == IF path = <<"convert">> THEN {"to"} ELSE {}

\* target_args: a target has to be named, a wallet may be named with --wallet or picked.
NeedsTarget(path) ==
    /\ ~IsLocal(path)
    /\ LET operation == ResolveOperation(path).operation
       IN operation.target # "none" /\ ~TargetsWallet(operation)

\* MUTANT of Conflicts: a body and the flags that build one stand side by side.
ConflictsOfFlags(path) == {{"color", "no-color"}, {"all-orgs", "org"}, {"all-orgs", "env"}}
    \cup {{"watch", o} : o \in {"all", "cursor", "sort-key", "sort-order"}}

\* Options a command does not take together.
Conflicts(path) ==
    {{"color", "no-color"}, {"all-orgs", "org"}, {"all-orgs", "env"}}
    \cup {{"watch", o} : o \in {"all", "cursor", "sort-key", "sort-order"}}
    \cup (IF IsLocal(path) \/ path \notin Commands THEN {}
          ELSE {{"data", o} : o \in FriendlyFlags(ResolveOperation(path).operation.id)})

-----------------------------------------------------------------------------
(* Values *)

Switches ==
    {"json", "show-secrets", "no-input", "no-color", "quiet", "all", "all-orgs", "watch", "qr", "copy", "execute",
     "no-browser", "local", "stdin"}

\* A filter has a flag of its own, beside those that do not filter.
ASSUME FiltersAreTheirOwn ==
    \A o \in OPERATIONS : o.filters \subseteq STRING /\ o.filters \cap (GlobalFlags \cup Switches \cup {"id"}) = {}

FiltersAt(path) == IF IsLocal(path) \/ path \notin Commands THEN {} ELSE ResolveOperation(path).operation.filters

Repeatable(path) == {"env", "query", "metadata", "event"} \cup FiltersAt(path)

\* filter_arg: a filter that is true by itself, or says which.
IsBoolean(path, option) == option \in FiltersAt(path) /\ Contract[option] = {"true", "false"}

TypeOf(option) ==
    CASE option \in {"org", "env", "wallet", "webhook", "id", "quote", "credit-line"} -> "uuid"
      [] option \in {"timeout", "interval"} -> "seconds"
      [] OTHER -> option

\* A value its parser takes.  A filter is compared in any letters, and one without listed values is free text.
Accepts(path, option, value) ==
    IF option \in FiltersAt(path) THEN Contract[option] = {} \/ Folded[value] \in Contract[option]
    ELSE TypeOf(option) \notin DOMAIN Accepted \/ value \in Accepted[TypeOf(option)]

=============================================================================
