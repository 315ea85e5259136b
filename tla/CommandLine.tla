---------------------------- MODULE CommandLine ----------------------------
(***************************************************************************)
(* A command line, from its words to what the process makes of it           *)
(* (src/cli.rs, src/startup.rs, src/greeting.rs, src/style.rs).  Four       *)
(* readers go over the same words: clap, the search for --json, the search  *)
(* for a colour, and the outline of an issue report.  A word is [kind,      *)
(* name, value]: a long or short option, perhaps with a value, a word that  *)
(* only starts with "-", the terminator "--", or a bare word.               *)
(***************************************************************************)
EXTENDS CommandTree, Feedback

CONSTANTS
    Keyboards,      \* sets of words a line is typed from
    MaxWords,       \* the longest line
    Places,         \* [stdin, stdout, stderr, force, noColor]: where the process runs
    ColorChoices,   \* the values of ColorChoice
    Texts,          \* a value |-> the text it is
    Messages        \* what panics say

None == "none"

Bare(word) == [kind |-> "bare", name |-> None, value |-> word]
Option(name) == [kind |-> "long", name |-> name, value |-> None]
OptionWith(name, value) == [kind |-> "long", name |-> name, value |-> value]
Short(name, value) == [kind |-> "short", name |-> name, value |-> value]
Minus(word) == [kind |-> "minus", name |-> None, value |-> word]
Escape == [kind |-> "escape", name |-> None, value |-> None]

IsOption(word) == word.kind \in {"long", "short"}

\* What a keyboard has: of the options the runs are about only --output and --quiet are spelled short,
\* beside -h.
Word == [kind : {"long", "short", "minus", "escape", "bare"}, name : STRING, value : STRING]

ASSUME KeysAreWords ==
    \A keys \in Keyboards : \A word \in keys :
        /\ word \in Word
        /\ word.kind = "escape" => word = Escape
        /\ IsOption(word) <=> word.name # None
        /\ word.kind = "short" => word.name \in {"output", "quiet", "help"}

ASSUME MaxWordsIsNatural == MaxWords \in Nat

\* What a process knows of where it runs.
ASSUME PlacesAreKnown ==
    /\ Places \subseteq [stdin : BOOLEAN, stdout : BOOLEAN, stderr : BOOLEAN, force : STRING, noColor : BOOLEAN]
    /\ {"auto", "always", "never"} \subseteq ColorChoices

\* What the parsers of an ID, a colour and a format take; no command is called by an ID.
ASSUME ValuesAreTyped ==
    /\ {"uuid", "color", "output"} \subseteq DOMAIN Accepted
    /\ None \notin Accepted["uuid"] /\ \A c \in Commands : ToSet(c) \cap Accepted["uuid"] = {}
    /\ Accepted["color"] \subseteq ColorChoices
    /\ Accepted["output"] \subseteq {"json", "ndjson", "table"}

\* What a title and a panic say: in a public text each word that is secret looks like one.
ASSUME TextsAreText ==
    /\ \A keys \in Keyboards : \A word \in keys : word.value \in DOMAIN Texts
    /\ "true" \in DOMAIN Texts
    /\ \A v \in DOMAIN Texts : IsText(Texts[v])
    /\ \A message \in Messages : IsText(message)

-----------------------------------------------------------------------------
(* clap.  What it has matched: the commands so far, the options given and   *)
(* how deep each stands, an option that waits for its value, the arguments. *)

Fresh == [path |-> <<>>, given |-> {}, open |-> None, arguments |-> <<>>, escaped |-> FALSE, error |-> None]

Failed(m, kind) == [m EXCEPT !.error = kind]

\* What an option was given at one depth, and at the deepest it was given at: clap hands a global
\* option down to the leaf, unless it is given again on the way.
GivenAt(m, option, depth) == {g \in m.given : g.option = option /\ g.depth = depth}

Depths(m, option) == {g.depth : g \in {h \in m.given : h.option = option}}

Deepest(m, option) == CHOOSE d \in Depths(m, option) : \A e \in Depths(m, option) : d >= e

Has(m, option) == Depths(m, option) # {}

Values(m, option) == IF Has(m, option) THEN {g.value : g \in GivenAt(m, option, Deepest(m, option))} ELSE {}

Put(m, option, value) ==
    IF \/ option \notin Repeatable(m.path) /\ GivenAt(m, option, Len(m.path)) # {}
       \/ option \notin Switches /\ ~Accepts(m.path, option, value)
    THEN Failed(m, "usage")
    ELSE [m EXCEPT !.given = @ \cup {[option |-> option, depth |-> Len(m.path), value |-> value]}, !.open = None]

\* An option that gets no value: a boolean filter is then true.
Settled(m) ==
    IF m.error # None \/ m.open = None THEN m
    ELSE IF IsBoolean(m.path, m.open) THEN Put(m, m.open, "true") ELSE Failed(m, "usage")

OnOption(m, word) ==
    IF m.error # None THEN m
    ELSE IF word.name = "help" THEN Failed(m, "help")
    ELSE IF word.name \notin OptionsAt(m.path) THEN Failed(m, "usage")
    ELSE IF word.name \in Switches THEN IF word.value # None THEN Failed(m, "usage") ELSE Put(m, word.name, "true")
    ELSE IF word.value # None THEN Put(m, word.name, word.value)
    ELSE [m EXCEPT !.open = word.name]

OnArgument(m, word) ==
    IF /\ Len(m.arguments) < ArgumentsAt(m.path, m.escaped)
       /\ IsLocal(m.path) \/ (word.kind = "bare" /\ word.value \in Accepted["uuid"])
    THEN [m EXCEPT !.arguments = Append(@, word)] ELSE Failed(m, "usage")

Next_(m, word) ==
    IF m.error # None THEN m
    ELSE IF m.escaped THEN OnArgument(m, word)
    ELSE IF word.kind = "escape" THEN [Settled(m) EXCEPT !.escaped = TRUE]
    ELSE IF IsOption(word) THEN OnOption(Settled(m), word)
    ELSE IF word.kind = "minus" THEN Failed(m, "usage")
    ELSE IF m.open # None THEN Put(m, m.open, word.value)
    ELSE IF word.value \in Subcommands(m.path) THEN [m EXCEPT !.path = Append(@, word.value)]
    ELSE OnArgument(m, word)

\* What a complete line has to be: a command, with what it needs and nothing that excludes another.
Misused(m) ==
    \/ \E pair \in Conflicts(m.path), d \in 0 .. Len(m.path) : \A o \in pair : GivenAt(m, o, d) # {}
    \/ \E o \in Required(m.path) : ~Has(m, o)
    \/ Has(m, "interval") /\ ~Has(m, "watch")
    \/ IsLocal(m.path) /\ m.path # <<"feedback">> /\ Len(m.arguments) < ArgumentsAt(m.path, FALSE)
    \/ ~IsLocal(m.path) /\ ResolveOperation(m.path).operation.target # "none" /\ m.arguments # <<>> /\ Has(m, "id")
    \/ NeedsTarget(m.path) /\ m.arguments = <<>> /\ ~Has(m, "id")

Validated(m) ==
    IF m.error # None THEN m
    ELSE IF m.path \notin Commands THEN Failed(m, "missing")
    ELSE IF Misused(m) THEN Failed(m, "usage") ELSE m

Matches(words) == Validated(Settled(FoldLeft(Next_, Fresh, words)))

-----------------------------------------------------------------------------
(* Invocation *)

\* The value of an option that is not repeated.
Given(m, option) == IF Has(m, option) THEN CHOOSE v \in Values(m, option) : TRUE ELSE None

\* target_id: an argument and --wallet that name different wallets.
TargetError(operation, m) ==
    LET id == IF m.arguments # <<>> THEN m.arguments[1].value ELSE Given(m, "id")
    IN TargetsWallet(operation) /\ id # None /\ Has(m, "wallet") /\ id # Given(m, "wallet")

TargetId(operation, m) ==
    LET id == IF operation.target = "none" THEN None
              ELSE IF m.arguments # <<>> THEN m.arguments[1].value ELSE Given(m, "id")
    IN IF TargetsWallet(operation) /\ id = None THEN Given(m, "wallet") ELSE id

\* filter_values, filter_arg: in the letters of the contract.
FilterValues(m, filter) == {IF Contract[filter] = {} THEN v ELSE Folded[v] : v \in Values(m, filter)}

\* The body, when the operation has one: --data, or the flags that build it.
BodySource(operation, m) ==
    IF operation.body /\ Has(m, "data") THEN "raw"
    ELSE IF operation.body /\ IsFriendly(operation.id) THEN "friendly" ELSE None

ApiInvocation(m) ==
    LET resolved == ResolveOperation(m.path)
        operation == resolved.operation
    IN [command |-> "api", operation |-> operation.id, alias |-> resolved.alias, resource |-> TargetId(operation, m),
        filters |-> [f \in {g \in operation.filters : Has(m, g)} |-> FilterValues(m, f)],
        allOrgs |-> Has(m, "all-orgs"), all |-> Pages(operation) /\ Has(m, "all"),
        watch |-> IF Has(m, "watch") THEN IF Has(m, "interval") THEN Given(m, "interval") ELSE "5" ELSE None,
        wait |-> Given(m, "wait"), presents |-> Has(m, "qr") \/ Has(m, "copy"),
        body |-> BodySource(operation, m), execute |-> Has(m, "execute")]

\* command_name: the words a message calls the command by.
CommandName(invocation) ==
    IF invocation.alias # None THEN AliasPath(invocation.alias)
    ELSE (CHOOSE o \in OPERATIONS : o.id = invocation.operation).command

\* ContextFlags::check
ContextError(m) ==
    m.path = <<"context">> /\ Has(m, "format") /\ \E o \in {"json", "output", "output-file"} : Has(m, o)

\* from_matches
Invalid(m) ==
    IF IsLocal(m.path) THEN ContextError(m) ELSE TargetError(ResolveOperation(m.path).operation, m)

Invocation(m) == IF IsLocal(m.path) THEN [command |-> "local", path |-> m.path] ELSE ApiInvocation(m)

-----------------------------------------------------------------------------
(* The other readers *)

BeforeEscape(words) ==
    SubSeq(words, 1, IF \E i \in DOMAIN words : words[i] = Escape
                    THEN (CHOOSE i \in DOMAIN words : words[i] = Escape /\ \A j \in 1 .. i - 1 : words[j] # Escape) - 1
                    ELSE Len(words))

\* json_errors_requested
JsonErrorsRequested(words) == Option("json") \in ToSet(BeforeEscape(words))

ColorNamed(value) == IF value \in ColorChoices THEN value ELSE "auto"

\* MUTANT of ReadColor: the word behind --color is left to be read again.
ReadColorOnce(s, word) ==
    CASE word.kind = "long" /\ word.name = "no-color" -> [choice |-> "never", next |-> FALSE]
      [] word.kind = "long" /\ word.name = "color" /\ word.value # None -> [choice |-> ColorNamed(word.value), next |-> FALSE]
      [] OTHER -> s

\* ColorChoice::requested, a word at a time: `next` when the word is the value of --color.
ReadColor(s, word) ==
    IF s.next THEN [choice |-> IF word.kind = "bare" THEN ColorNamed(word.value) ELSE "auto", next |-> FALSE]
    ELSE CASE word.kind = "long" /\ word.name = "no-color" /\ word.value = None -> [s EXCEPT !.choice = "never"]
           [] word.kind = "long" /\ word.name = "color" /\ word.value = None -> [s EXCEPT !.next = TRUE]
           [] word.kind = "long" /\ word.name = "color" /\ word.value # None -> [s EXCEPT !.choice = ColorNamed(word.value)]
           [] OTHER -> s

Requested(words) == FoldLeft(ReadColor, [choice |-> "auto", next |-> FALSE], BeforeEscape(words)).choice

\* with_environment
WithEnvironment(choice, where) ==
    IF choice # "auto" \/ where.noColor \/ where.force = None THEN choice
    ELSE IF where.force \in {"0", "false"} THEN "never" ELSE "always"

\* GlobalFlags::color
Color(m, where) ==
    IF Has(m, "no-color") THEN "never"
    ELSE WithEnvironment(IF Has(m, "color") THEN Given(m, "color") ELSE "auto", where)

FlagWord(word) == word.name

\* outline, a word at a time: the words so far, and the commands they lead to.
Outlined(s, word) ==
    CASE IsOption(word) -> [s EXCEPT !.words = Append(@, FlagWord(word))]
      [] word.kind = "bare" /\ word.value \in Subcommands(s.path) ->
           [words |-> Append(s.words, word.value), path |-> Append(s.path, word.value)]
      [] OTHER -> s

Outline(words) == FoldLeft(Outlined, [words |-> <<"voltage">>, path |-> <<>>], BeforeEscape(words)).words

\* OutputFormat::select
Format(json, output, where) == IF json THEN "json" ELSE IF output # None THEN output ELSE IF where.stdout THEN "table" ELSE "json"

FormatOf(m, where) == Format(Has(m, "json"), Given(m, "output"), where)

\* without_command: what the line matches in front of `context`, when it lacks a command.
WithoutCommand(words) ==
    {m \in {Matches(Append(words, Bare("context")))} : Matches(words).error = "missing" /\ m.error = None}

\* greeting::wanted
Wanted(words, where) ==
    /\ where.stdout /\ where.stderr
    /\ \E m \in WithoutCommand(words) : FormatOf(m, where) \notin {"json", "ndjson"}

-----------------------------------------------------------------------------
(* The process *)

VARIABLES
    keyboard,   \* the words this line is typed from
    line,       \* the words behind the name of the program
    place,      \* where it runs
    outcome     \* what became of it

vars == <<keyboard, line, place, outcome>>

Nowhere == [stdin |-> FALSE, stdout |-> FALSE, stderr |-> FALSE, force |-> None, noColor |-> FALSE]

\* What becomes of a line, but for the colour it is told in and the report of it.
Result(kind, invocation, form, stream, exit) ==
    [kind |-> kind, invocation |-> invocation, form |-> form, stream |-> stream, exit |-> exit, color |-> "auto",
     report |-> NoReport]

NoInvocation == [command |-> None]

Pending == Result("typing", NoInvocation, None, None, 0)

Init ==
    /\ keyboard \in Keyboards
    /\ line = <<>> /\ place = Nowhere /\ outcome = Pending

Type(word) ==
    /\ outcome.kind = "typing" /\ Len(line) < MaxWords
    /\ line' = Append(line, word)
    /\ UNCHANGED <<keyboard, place, outcome>>

\* run: the process starts in a place, with what it reads of its words before clap does.
Start(where, result) ==
    /\ outcome.kind = "typing"
    /\ place' = where
    /\ outcome' = [result EXCEPT !.color = WithEnvironment(Requested(line), where)]
    /\ UNCHANGED <<keyboard, line>>

Greet(where) ==
    /\ Wanted(line, where)
    /\ Start(where, Result("greeted", NoInvocation, None, "stderr", 0))

Failure(kind, form) == Result(kind, NoInvocation, form, "stderr", 2)

\* fail_parse for what clap says: as JSON when that was asked for and it is an error.
Explained(error) ==
    IF error = "help" THEN Result("clap", NoInvocation, "text", "stdout", 0)
    ELSE Failure("clap", IF JsonErrorsRequested(line) THEN "json" ELSE "text")

Explain(where) ==
    /\ ~Wanted(line, where) /\ Matches(line).error # None
    /\ Start(where, Explained(Matches(line).error))

Reject(where) ==
    /\ Matches(line).error = None /\ Invalid(Matches(line))
    /\ Start(where, Failure("invalid", Format(JsonErrorsRequested(line), None, where)))

Invoke(where) ==
    /\ Matches(line).error = None /\ ~Invalid(Matches(line))
    /\ Start(where, Result("invoked", Invocation(Matches(line)), FormatOf(Matches(line), where), None, 0))

-----------------------------------------------------------------------------
(* Issue reports *)

Spell(words) == FlattenSeq([i \in DOMAIN words |-> Written(<<"letter", "letter", "space">>)])

\* command_outline: of the words behind "--".
CommandOutline(m) == IF m.arguments = <<>> THEN <<>> ELSE Outline(m.arguments)

\* file_feedback: a person is one who reads the links here and could be asked.
Person(m, where) ==
    FormatOf(m, where) = "table" /\ ~Has(m, "output-file") /\ where.stdout /\ ~Has(m, "no-input") /\ where.stdin

File ==
    /\ outcome.kind = "invoked"
    /\ outcome.invocation.command = "local" /\ outcome.invocation.path = <<"feedback">>
    /\ LET m == Matches(line)
       IN outcome' = [outcome EXCEPT !.kind = "filed", !.report =
                        Report([title |-> IF Has(m, "title") THEN Texts[Given(m, "title")] ELSE NoText, panic |-> NoText,
                                command |-> Spell(CommandOutline(m)), agent |-> ~Person(m, place)])]
    /\ UNCHANGED <<keyboard, line, place>>

\* interactive
Interactive == ~JsonErrorsRequested(line) /\ place.stdout /\ place.stdin

\* report_panics: a command panics, and a message says why.
Panic(message) ==
    /\ outcome.kind = "invoked" /\ outcome.invocation.command = "local"
    /\ outcome' = [outcome EXCEPT !.kind = "panicked", !.exit = 101, !.report =
                     Report([title |-> Written(<<"letter">>), panic |-> message, command |-> Spell(Outline(line)),
                             agent |-> ~Interactive])]
    /\ UNCHANGED <<keyboard, line, place>>

Next ==
    \/ \E word \in keyboard : Type(word)
    \/ \E where \in Places : Greet(where) \/ Explain(where) \/ Reject(where) \/ Invoke(where)
    \/ File
    \/ \E message \in Messages : Panic(message)

Spec == Init /\ [][Next]_vars

-----------------------------------------------------------------------------
(* Properties *)

\* The line that ran, and what clap made of it.
Ran == outcome.kind \in {"invoked", "filed", "panicked"}

Matched == Matches(line)

IsApi == Ran /\ outcome.invocation.command = "api"

\* The state's types; the colour is one of ColorChoice whatever stands behind --color (style.rs).
TypeOK ==
    /\ line \in Seq(keyboard) /\ Len(line) <= MaxWords
    /\ place \in Places \cup {Nowhere}
    /\ outcome.kind \in {"typing", "greeted", "clap", "invalid", "invoked", "filed", "panicked"}
    /\ outcome.stream \in {None, "stdout", "stderr"} /\ outcome.exit \in {0, 2, 101}
    /\ outcome.form \in {None, "text", "json", "ndjson", "table"}
    /\ outcome.color \in ColorChoices
    /\ outcome.report.agent \in BOOLEAN

\* The search for --json and clap agree on every line clap takes, so a line that was refused later, and a
\* panic, is reported in the form its own flags ask for (json_errors_requested against GlobalFlags.json).
JsonIsReadAlike == Matched.error = None => (JsonErrorsRequested(line) <=> Has(Matched, "json"))

\* What colours help and errors is what colours the rest, on every line that does not give both flags
\* (ColorChoice::requested against GlobalFlags::color).
ColorIsReadAlike ==
    Ran /\ ~(Has(Matched, "color") /\ Has(Matched, "no-color")) => outcome.color = Color(Matched, place)

\* The words an outline may show: those of commands, and the names of the options of the line.
CommandWords == UNION {ToSet(c) : c \in Commands}

OptionNames(words) == {w.name : w \in {v \in ToSet(words) : IsOption(v)}}

Showable(words) == {"voltage"} \cup CommandWords \cup OptionNames(words)

\* An outline shows no value of an option and no argument, also of a line that does not parse, unless it
\* is spelled like a command that could stand there (outline, which goes into a public issue).
OutlineHidesValues == ToSet(Outline(line)) \subseteq Showable(line)

\* Only a line that names no command is greeted: one that lacks an argument is still refused, although
\* `context` behind it could be that argument (GlobalFlags::without_command).
GreetsOnlyTheNameless == outcome.kind = "greeted" => Matched.path = <<>> /\ ~Matched.escaped

\* A word that is the value of the option in front, an ID by itself, and the wallets a line names: as the
\* target, with --id or an argument, and with --wallet.
IsValue(i) == i > 1 /\ IsOption(line[i - 1]) /\ line[i - 1].value = None /\ line[i - 1].name \notin Switches

IsId(word) == word.kind = "bare" /\ word.value \in Accepted["uuid"]

NamesTarget(i) ==
    \/ line[i].name = "id" /\ line[i].value # None
    \/ IsId(line[i]) /\ (IsValue(i) => line[i - 1].name = "id")

NamesWallet(i) ==
    \/ line[i].name = "wallet" /\ line[i].value # None
    \/ IsId(line[i]) /\ IsValue(i) /\ line[i - 1].name = "wallet"

\* The wallets of a --wallet that is given again further down the command.
Replaced == {g.value : g \in {h \in Matched.given : h.option = "wallet" /\ h.depth < Deepest(Matched, "wallet")}}

\* A wallet command acts on the one wallet its line names: an ID and a --wallet that differ are refused,
\* before or after the command (target_id).  Of several --wallet, each at a level of its own, the one
\* furthest down stands, and clap drops the others in silence.
ActsOnTheWalletNamed ==
    IsApi /\ (\E o \in OPERATIONS : o.id = outcome.invocation.operation /\ TargetsWallet(o)) =>
        \A i \in DOMAIN line :
            /\ NamesTarget(i) => line[i].value = outcome.invocation.resource
            /\ NamesWallet(i) => line[i].value \in {outcome.invocation.resource} \cup Replaced

\* A watch pages, sorts and scrolls by itself: it never runs with an option that says how, wherever that
\* stands; and every organization's wallets are never listed with --org or --env behind the command. In
\* front of it these are dropped in silence (clap compares the options of one level), although
\* docs/guides/wallets.md:15 says that they cannot be combined.
ExclusiveFlagsAreRefused ==
    IsApi =>
        /\ outcome.invocation.watch # None => OptionNames(line) \cap {"all", "cursor", "sort-key", "sort-order"} = {}
        /\ outcome.invocation.allOrgs =>
               \A option \in {"org", "env"} : GivenAt(Matched, option, Len(Matched.path)) = {}

\* Lines for another tool are never written where a result's format or file was asked for, on whichever
\* side of the command the flag stands (ContextFlags::check).
FormatStandsAlone ==
    Ran /\ Matched.path = <<"context">> /\ Has(Matched, "format")
        => \A w \in ToSet(line) : IsOption(w) => w.name \notin {"json", "output", "output-file"}

\* No flag that builds a body is dropped for a body that is given whole (the groups of the friendly flags).
NoFlagIsDropped ==
    IsApi /\ outcome.invocation.body = "raw"
        => \A w \in ToSet(line) : IsOption(w) => w.name \notin FriendlyFlags(outcome.invocation.operation)

\* Help that was asked for is a success on stdout whatever form errors take, and every other line that does
\* not run fails on stderr, in JSON if --json stands before "--" (fail_parse).
ExplainedAsAsked ==
    outcome.kind \in {"clap", "invalid"} =>
        IF Matched.error = "help" THEN outcome.exit = 0 /\ outcome.stream = "stdout" /\ outcome.form = "text"
        ELSE /\ outcome.exit = 2 /\ outcome.stream = "stderr"
             /\ Option("json") \in ToSet(BeforeEscape(line)) => outcome.form = "json"

\* The command a message names is the one that was typed, also behind an alias (command_name after
\* resolve_operation).
NamedAsTyped == IsApi => CommandName(outcome.invocation) = Matched.path

\* Every filter that is sent has a value its contract lists, in its letters (filter_values, filter_arg).
FiltersAreTheContracts ==
    IsApi => \A f \in DOMAIN outcome.invocation.filters :
               Contract[f] # {} => outcome.invocation.filters[f] \subseteq Contract[f]

\* A report shows no part of a secret, however it was cut (scrub).
NoPartOfASecretShows ==
    \A char \in ToSet(outcome.report.title) \cup ToSet(outcome.report.body) : ~char.secret

\* However long a report is, its link is short enough and ends with the checks and the box that tells an
\* agent from a person (into_report).
ChecksAreKept ==
    outcome.report # NoReport =>
        /\ Url(outcome.report.title, outcome.report.body) <= MaxUrl
        /\ SubSeq(outcome.report.body, Len(outcome.report.body) - 1, Len(outcome.report.body))
             = <<Character("checks"), Character(IF outcome.report.agent THEN "checked" ELSE "empty")>>

\* Whatever runs without a terminal, or asks for JSON, files as an agent (Reporter::detect).
AgentsAreMarked ==
    outcome.report # NoReport /\ (~place.stdin \/ ~place.stdout \/ Has(Matched, "json")) => outcome.report.agent

(* What the runs check of the command line, in three statements. *)

\* Every reader of the words comes to the same command: clap, the searches for --json and colours, the
\* greeting, the help and the name of the operation (cli.rs, startup.rs).
WordsAreReadAlike ==
    TypeOK /\ JsonIsReadAlike /\ ColorIsReadAlike /\ GreetsOnlyTheNameless /\ ExplainedAsAsked /\ NamedAsTyped

\* Words that contradict each other are refused, at whatever levels of the command they stand: an ID and
\* a wallet that differ, a body beside the flags that build one, a form beside lines for another tool, a
\* filter outside its contract, a watch that is told how to page (target_id, filters, ContextFlags::check).
\* Three are not, which clap settles by level: --no-color beats --color, the last of several --wallet
\* stands, and --org and --env in front of `wallets list --all-orgs` are dropped.
ContradictionsAreRefused ==
    ActsOnTheWalletNamed /\ FormatStandsAlone /\ NoFlagIsDropped /\ FiltersAreTheContracts /\ ExclusiveFlagsAreRefused

\* A public issue holds no part of a secret, and no value of an option but one spelled like a command; and
\* it says truly who files it, however long its texts and in whatever order they are outlined, scrubbed and
\* cut (feedback.rs).
ReportIsSafe ==
    OutlineHidesValues /\ NoPartOfASecretShows /\ ChecksAreKept /\ AgentsAreMarked

=============================================================================
