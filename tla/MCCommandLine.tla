--------------------------- MODULE MCCommandLine ---------------------------
(* An instance of CommandLine for TLC: ten operations of the registry, keyboards of a few words *)
(* each, every line of up to MaxWords of them, and short texts with and without secrets.        *)
EXTENDS CommandLine

Operation(id, command, method, target, body, filters) ==
    [id |-> id, command |-> command, method |-> method, target |-> target, checkout |-> FALSE, body |-> body,
     filters |-> filters]

MCOperations ==
    {Operation("GetAllOrganizationsWalletsAsUser", <<"wallets", "list">>, "GET", "none", FALSE, {"inactive"}),
     Operation("GetWallet", <<"wallets", "get">>, "GET", "wallet", FALSE, {}),
     Operation("DeleteWallet", <<"wallets", "delete">>, "DELETE", "wallet", FALSE, {}),
     Operation("GetPayments", <<"payments", "list">>, "GET", "none", FALSE, {"limit", "cursor", "sort-order", "sort-key"}),
     Operation("CreatePayment", <<"payments", "create">>, "POST", "none", TRUE, {}),
     Operation("GetPayment", <<"payments", "get">>, "GET", "payment", FALSE, {}),
     Operation("CreateTreasuryMovement", <<"treasury", "movements", "create">>, "POST", "none", TRUE, {}),
     Operation("TestWebhook", <<"webhooks", "test">>, "POST", "webhook", TRUE, {}),
     Operation("CreateEventStreamToken", <<"checkout", "streams", "create">>, "POST", "none", TRUE, {}),
     [Operation("GetSession", <<"checkout", "sessions", "get">>, "GET", "session", FALSE, {}) EXCEPT !.checkout = TRUE]}

MCContract ==
    [inactive |-> {"true", "false"}, limit |-> {}, cursor |-> {}] @@ ("sort-order" :> {"ASC", "DESC"}) @@ ("sort-key" :> {"created_at"})

MCAccepted ==
    [uuid |-> {"W1", "W2"}, seconds |-> {"2"}, color |-> {"auto", "always", "never"}, output |-> {"json", "table"},
     format |-> {"env"}, query |-> {"n=v"}, data |-> {"@f"}, origin |-> {"o"}, wait |-> {"ready"}]

MCColors == {"auto", "always", "never"}

Keys ==
    [reports |-> {Bare("feedback"), Bare("context"), Option("json"), Escape, Option("title"), OptionWith("title", "Leak"),
                  Bare("payments")},
     colors |-> {Option("color"), OptionWith("color", "always"), Bare("never"), Option("no-color"), Bare("context"),
                 Option("json"), Option("help")},
     formats |-> {Bare("context"), Option("json"), OptionWith("output", "table"), Short("output", None), Bare("json"),
                  OptionWith("format", "env"), OptionWith("output-file", "f")},
     wallets |-> {Bare("wallets"), Bare("get"), Bare("delete"), Bare("W1"), OptionWith("wallet", "W2"),
                  OptionWith("id", "W1"), OptionWith("wallet", "W1")},
     lists |-> {Bare("payments"), Bare("list"), Option("watch"), OptionWith("sort-order", "asc"), Option("all"),
                OptionWith("interval", "2"), Bare("wallets")},
     scopes |-> {Bare("wallets"), Bare("list"), Option("all-orgs"), OptionWith("org", "W1"), OptionWith("env", "W2"),
                 Option("inactive"), Bare("true")},
     bodies |-> {Bare("payments"), Bare("send"), Bare("create"), OptionWith("data", "@f"), OptionWith("amount", "5"),
                 Option("qr"), Bare("receive")},
     others |-> {Bare("treasury"), Bare("movements"), Bare("create"), Bare("webhooks"), Bare("test"), Bare("W1"),
                 OptionWith("data", "@f")},
     names |-> {Bare("profiles"), Bare("get"), Bare("prod"), Option("profile"), Option("json"), Minus("-5"),
                Short("quiet", None)}]

MCKeyboards == {Keys[k] : k \in DOMAIN Keys}

Words == UNION MCKeyboards

\* Every value in the letters of the contract.
MCFolded ==
    [v \in {w.value : w \in Words} \cup {None, "true", "false", "ASC"} |->
       IF v = "asc" THEN "ASC" ELSE v]

Where(stdin, stdout, stderr, force, noColor) ==
    [stdin |-> stdin, stdout |-> stdout, stderr |-> stderr, force |-> force, noColor |-> noColor]

MCPlaces ==
    {Where(TRUE, TRUE, TRUE, None, FALSE), Where(FALSE, TRUE, FALSE, "1", FALSE), Where(TRUE, FALSE, TRUE, "0", FALSE),
     Where(TRUE, TRUE, FALSE, "1", TRUE)}

Plain(n) == [i \in 1 .. n |-> Character("letter")]
Secret(classes) == [i \in DOMAIN classes |-> [c |-> classes[i], secret |-> TRUE]]
Space == <<Character("space")>>

AKey == Secret(<<"letter", "letter", "digit", "letter">>)
ALongKey == Secret(<<"letter", "letter", "letter", "letter", "letter", "letter">>)
AnAddress == Secret(<<"letter", "at", "letter">>)

Leak == Plain(2) \o Space \o AKey \o <<Character("unsafe")>> \o AnAddress
Blank == Space \o Space

MCTexts ==
    [v \in {w.value : w \in Words} |-> IF v = "Leak" THEN Leak ELSE IF v = "payments" THEN Blank ELSE Plain(3)]

MCMessages ==
    {Plain(3) \o Space \o ALongKey, Plain(1) \o Space \o AKey \o Space \o Plain(4),
     Plain(2) \o Space \o <<Character("checks")>> \o Space \o Plain(4) \o Space \o Plain(4)}

MCWeight == [c \in {"letter", "digit", "at", "scheme", "space", "unsafe", "[", "]", "ellipsis", "checks", "checked", "empty"} |->
               IF c \in Boxes THEN 4 ELSE IF c \in {"[", "]", "ellipsis", "checks"} THEN 3 ELSE 1]

=============================================================================
