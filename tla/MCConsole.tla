------------------------------ MODULE MCConsole ------------------------------
(* An instance of Console for TLC: a family of commands for each kind of wait and each way a    *)
(* result reads, with small bounds for chunks, events, secrets, tables and amounts.             *)
EXTENDS Console

MCScale == [u \in Units |-> CASE u = "sats" -> 1 [] u = "btc" -> 3 [] u = "usd" -> 1 [] OTHER -> 0]

-----------------------------------------------------------------------------
(* A command that does nothing, and what others change of it *)

Broken(timeout, connect, tls) == [timeout |-> timeout, connect |-> connect, tls |-> tls]
NoAnswer == Broken(FALSE, FALSE, FALSE)
Response(body, code) ==
    [body |-> body, status |-> code, type |-> "none", reason |-> {}, fields |-> {}, top |-> {}, failure |-> NoAnswer]

Screen == [format |-> "table", person |-> TRUE, show |-> FALSE, file |-> FALSE]
Script == [format |-> "json", person |-> FALSE, show |-> FALSE, file |-> FALSE]
ToFile == [Script EXCEPT !.file = TRUE]
Unredacted == [Script EXCEPT !.show = TRUE]

Field(key, text) == [key |-> key, text |-> text]
NoSource == [by |-> "token", sources |-> None]

Nothing ==
    [kind |-> "age", to |-> Script, interrupted |-> FALSE, animated |-> FALSE,
     response |-> Response("json", 200), authorization |-> NoSource, change |-> FALSE, auth |-> FALSE, saved |-> FALSE,
     lines |-> <<>>, keys |-> <<>>, items |-> <<>>, limit |-> NoLimit, height |-> 0, marked |-> {}, title |-> 0,
     amount |-> [digits |-> <<0>>, unit |-> "none", currency |-> "btc", negative |-> FALSE],
     year |-> 1970, month |-> 1, day |-> 1, seconds |-> 0,
     balances |-> <<>>, network |-> "mainnet", price |-> None, payments |-> None, result |-> {}]

-----------------------------------------------------------------------------
(* Calls *)

\* The ways a request can fail to get an answer: also a TLS failure once the connection was made.
Failures == {Broken(TRUE, TRUE, FALSE), Broken(TRUE, FALSE, FALSE), Broken(FALSE, TRUE, TRUE), Broken(FALSE, FALSE, TRUE),
             Broken(FALSE, TRUE, FALSE), NoAnswer}

Unanswered ==
    {[Nothing EXCEPT !.kind = "call", !.to = to, !.change = change, !.auth = auth,
                     !.response = [Response("none", 0) EXCEPT !.failure = f]] :
       to \in {Screen, Script}, change \in BOOLEAN, auth \in BOOLEAN, f \in Failures}

Refusals ==
    {[Response("json", s) EXCEPT !.type = t, !.reason = r, !.fields = f, !.top = p] :
       s \in {400, 401, 403, 429, 500}, t \in {"missing_credentials", "feature_flag_disabled", "quote_required", "none"},
       r \in {{}, {"why", Secret}},
       f \in {{}, {Field("detail", {"why", Secret}), Field("param", {"amount"}), Field("token", {"t"})}},
       p \in {{}, {Field("request", {"r1", Secret}), Field("detail", {"other"})}}}

Authorizations ==
    {[by |-> b, sources |-> None] : b \in {"token", "session", "stream"}}
        \cup {[by |-> "key", sources |-> s] : s \in {"flag", "unset"}}

Refused_ ==
    {[Nothing EXCEPT !.kind = "call", !.to = to, !.authorization = a, !.response = r] :
       to \in {Screen, Script}, a \in Authorizations, r \in Refusals}
    \cup {[Nothing EXCEPT !.kind = "call", !.to = to, !.authorization = a, !.change = c, !.response = Response(b, s)] :
            to \in {Screen, Script}, a \in Authorizations, c \in BOOLEAN, b \in {"large", "cut", "html"}, s \in {200, 403, 500}}
    \cup {[Nothing EXCEPT !.kind = "call", !.auth = TRUE, !.saved = saved, !.response = [Response(b, s) EXCEPT !.reason = r]] :
            saved \in BOOLEAN, b \in {"json", "html", "cut", "large"}, s \in {400, 429, 500},
            r \in {{}, {"invalid_grant"}, {FreeText, Secret}}}

Answers ==
    {[Nothing EXCEPT !.kind = "call", !.to = to, !.animated = a, !.interrupted = i, !.change = c,
                     !.response = [Response("json", 200) EXCEPT
                        !.fields = {Field("id", {"w"}), Field("secret", {"s"}), Field("note", {"n", Secret})}]] :
       to \in {Screen, Script, ToFile, Unredacted}, a \in BOOLEAN, i \in BOOLEAN, c \in BOOLEAN}

-----------------------------------------------------------------------------
(* Streams *)

Text(field, value, size) == [field |-> field, value |-> value, size |-> size]
Data(value) == Text("data", value, 1)
Sample == {Blank, Data("a"), Text("event", "e", 1), Text("id", "i", 0)}

Lines ==
    {l \o <<Blank>> : l \in [1..4 -> Sample]}
    \cup {<<Data("a"), Data(Secret), Blank, Text("event", "", 0), Data("b"), Blank>>,
          <<Data("a"), Data("b"), Data("c"), Blank>>, <<Data("a"), Blank, Text("data", "", 0), Data("b"), Blank>>,
          <<Data("a"), Blank, Text("data", "long", 4), Blank>>, <<Text("id", "i", 0), Data("a"), Blank, Data("b"), Blank>>,
          <<Data("a"), Blank, Text("invalid", "", 1), Data("b"), Blank>>, <<Text("other", "", 1), Data("a")>>,
          <<Text("id", Secret, 1), Text("event", Secret, 1), Data(Secret), Blank>>}

Streams ==
    {[Nothing EXCEPT !.kind = "stream", !.to = to, !.lines = l, !.response = Response("events", 200)] :
       to \in {Script}, l \in Lines}
    \cup {[Nothing EXCEPT !.kind = "stream", !.to = to, !.animated = TRUE, !.interrupted = TRUE, !.response = Response("events", 200),
                          !.lines = <<Data("a"), Data(Secret), Blank, Data("b"), Blank>>] : to \in {Screen, ToFile}}
    \cup {[Nothing EXCEPT !.kind = "stream", !.response = r] :
            r \in {Response("none", 0), Response("json", 200), Response("events", 403)}}

-----------------------------------------------------------------------------
(* Prompts *)

Key(code, bytes) == [code |-> code, bytes |-> bytes]
Letter == Key("char", 1)
Wide == Key("char", 2)
Enter == Key("enter", 0)
Typed == {Letter, Wide, Key("backspace", 0), Key("clear", 0), Key("other", 0)}

KeyStrokes ==
    {k \o <<Enter>> : k \in [1..3 -> Typed]}
    \cup {<<Letter, Letter, Letter, Letter, Enter>>, <<Letter, Wide, Enter, Letter>>, <<Letter, Key("ctrl-c", 0)>>, <<Letter, Enter, Letter>>}

HiddenPrompts ==
    {[Nothing EXCEPT !.kind = "hidden", !.to = Screen, !.keys = k] : k \in KeyStrokes}
    \cup {[Nothing EXCEPT !.kind = "hidden", !.to = Screen, !.interrupted = TRUE, !.keys = k] :
            k \in {<<>>, <<Letter, Enter>>, <<Letter, Letter, Letter, Enter>>}}

Pickers == {[Nothing EXCEPT !.kind = "pick", !.to = Screen, !.interrupted = i] : i \in BOOLEAN}

-----------------------------------------------------------------------------
(* Tables, frames, cards *)

MCLabelWidth == [c \in {"id", "status", "name", "amount", "x", "y"} |->
                   CASE c = "id" -> 2 [] c \in {"status", "amount"} -> 6 [] c = "name" -> 4 [] OTHER -> 1]

MCColumns == <<"id", "status", "name", "amount">>
MCOthers == <<"x", "y">>

Item(id, cells) == [id |-> id, cells |-> cells]
Pages ==
    {<<>>,
     <<Item("p1", [id |-> 8, status |-> 9])>>,
     <<Item("p1", [id |-> 8, name |-> 12]), Item("p2", [id |-> 8, status |-> 4, amount |-> 7])>>,
     <<Item("p1", [id |-> 8, status |-> 9, name |-> 3, amount |-> 7]), Item("p2", [id |-> 8]), Item("p3", [id |-> 8])>>,
     <<Item("", [x |-> 3, y |-> 12])>>, <<Item("", <<>>), Item("", <<>>)>>}
Limits == {NoLimit, 6, 9, 14, 18, 24, 26, 40}

Tables == {[Nothing EXCEPT !.kind = "table", !.to = Screen, !.items = p, !.limit = l] : p \in Pages, l \in Limits}

Watches ==
    {[Nothing EXCEPT !.kind = "live", !.to = Screen, !.interrupted = i, !.items = p, !.limit = l, !.height = h, !.marked = m] :
       i \in BOOLEAN, p \in Pages, l \in {14, 40}, h \in {4, 5, 7, 8, 9, 24}, m \in {{}, {"p1"}, {"p2", "p3"}}}

Cards == {[Nothing EXCEPT !.kind = "card", !.to = Screen, !.lines = w, !.title = t, !.limit = l] :
            w \in {<<>>, <<4>>, <<4, 9, 2>>}, t \in {2, 10}, l \in {NoLimit, 8, 9, 12, 13, 15, 16, 40}}

-----------------------------------------------------------------------------
(* Amounts, dates, ages, wallets *)

AmountsShown ==
    {[Nothing EXCEPT !.kind = "amount", !.amount = [digits |-> d, unit |-> u, currency |-> c, negative |-> n]] :
       d \in {<<0>>, <<5>>, <<4, 2>>, <<1, 2, 3>>, <<1, 0, 0, 0>>, <<1, 5, 0, 0, 5>>},
       u \in {"none", "msats", "sats", "cents", "usd", "btc"}, c \in {"btc", "usd", "eur"}, n \in BOOLEAN}

Dates ==
    {[Nothing EXCEPT !.kind = "date", !.year = y, !.month = m, !.day = d] :
       y \in {1900, 1968, 1969, 1970, 1971, 1972, 1999, 2000, 2001, 2024, 2100}, m \in 1..12, d \in {1, 28}}
    \cup {[Nothing EXCEPT !.kind = "date", !.year = y, !.month = 2, !.day = 29] : y \in {1968, 2000, 2024}}
    \cup {[Nothing EXCEPT !.kind = "date", !.year = y, !.month = 12, !.day = 31] : y \in {1969, 1999, 2000}}

Ages ==
    {[Nothing EXCEPT !.kind = "age", !.seconds = s] :
       s \in UNION {{n * u - 1, n * u, n * u + 1} : n \in {1, 2, 12, 24, 30}, u \in {Minute, Hour, Day, Month, Year}}}

Balance(amount, unit, currency) == [amount |-> amount, unit |-> unit, currency |-> currency]
Payment(age, completed, balance) == [age |-> age, completed |-> completed, balance |-> balance]

Wallets ==
    {[Nothing EXCEPT !.kind = "wallet", !.to = Screen, !.balances = b, !.network = n, !.price = p, !.payments = ps] :
       b \in {<<Balance(5, "none", "usd"), Balance(30, "sats", "btc")>>, <<Balance(30, "none", "btc")>>,
              <<Balance(300, "btc", "btc"), Balance(7, "msats", "btc")>>, <<Balance(5, "usd", "usd")>>},
       n \in {"mainnet", "testnet"}, p \in {[mantissa |-> 5, scale |-> 0], [mantissa |-> 1234, scale |-> 2]},
       ps \in {<<>>, <<Payment(0, TRUE, Balance(300, "none", "btc")), Payment(1, TRUE, Balance(1, "none", "btc")),
                       Payment(0, TRUE, Balance(25, "sats", "btc")), Payment(2, FALSE, Balance(9, "none", "btc"))>>,
               <<Payment(3, TRUE, Balance(2, "none", "usd")), Payment(1, TRUE, Balance(2, "none", "usd")),
                 Payment(-1, TRUE, Balance(2, "none", "usd")), Payment(2, TRUE, Balance(9, "none", "btc"))>>}}

MCTasks == Unanswered \cup Refused_ \cup Answers \cup Streams \cup HiddenPrompts \cup Pickers \cup Tables
             \cup Watches \cup Cards \cup AmountsShown \cup Dates \cup Ages \cup Wallets

=============================================================================
